--------------------------- MODULE TransportProofs ---------------------------
(***************************************************************************)
(* Proofs about the two transports: for any number of connections, sizes   *)
(* and capacities, what a client writes arrives in order and in whole      *)
(* frames over gnet, with a gap only where a full readCh made one          *)
(* (EncryptedConn); and the two ends of a QUIC connection use one stream   *)
(* (QuicConn).                                                             *)
(*                                                                         *)
(* A byte on the wire has a place (Rank) among all that was written, and   *)
(* what is still on the wire, the pieces handed over, what ReadFull has    *)
(* and what was read are runs of such places, one after the other.  The    *)
(* first parts are about runs and pieces, for a given Written(c); the      *)
(* later ones about the steps, each of which moves bytes from one of those *)
(* to the next.                                                            *)
(***************************************************************************)
EXTENDS EncryptedConn, QuicConn, FiniteSetTheorems, TLAPS

-----------------------------------------------------------------------------
(* What is written: frames and the places of bytes *)

Byte == Nat \X (Nat \ {0})
Frame == [first : Nat \ {0}, size : Nat \ {0}]
Writing == [crypt : {"none", "chacha20"}, frames : Seq(Frame), sent : Nat]

\* The sizes are numbers, and a frame has room for a byte.
LEMMA Sizes ==
  /\ LengthSize \in Nat \ {0} /\ Overhead \in Nat \ {0} /\ LengthLimit \in Nat
  /\ maxPayload \in Nat \ {0} /\ maxPayload + Overhead + LengthSize = LengthLimit
BY ChannelAssumption DEF maxPayload

\* Place adds up.
LEMMA Multiples ==
  ASSUME NEW k \in Nat
  PROVE  /\ \A n \in Nat : n * k \in Nat /\ (n + 1) * k = n * k + k
         /\ \A m, n \in Nat : m <= n => m * k <= n * k
<1>1. \A n \in Nat : n * k \in Nat /\ (n + 1) * k = n * k + k
  OBVIOUS
<1>2. \A m, n \in Nat : m <= n => m * k <= n * k
  OBVIOUS
<1> QED
  BY <1>1, <1>2

\* Frames hold and take numbers of bytes.
LEMMA LeadTypes ==
  ASSUME NEW w \in Writing, NEW n \in 0..Len(w.frames)
  PROVE  Lead(w, n) \in Nat /\ Place(w, n) \in Nat /\ n \in Nat /\ Len(w.frames) \in Nat
<1>1. w.frames \in Seq(Frame) /\ w.sent \in Nat /\ n \in Nat /\ Len(w.frames) \in Nat
  BY DEF Writing
<1>2. Lead(w, n) \in Nat
  <2>1. CASE n < Len(w.frames)
    <3>1. n + 1 \in 1..Len(w.frames)
      BY <1>1, <2>1
    <3>2. w.frames[n + 1] \in Frame
      BY <1>1, <3>1
    <3> QED
      BY <2>1, <3>2 DEF Lead, Frame
  <2>2. CASE ~(n < Len(w.frames))
    BY <1>1, <2>2 DEF Lead
  <2> QED
    BY <2>1, <2>2
<1>3. n * (LengthSize + Overhead) \in Nat
  <2>1. LengthSize + Overhead \in Nat
    BY Sizes
  <2> QED
    BY <1>1, <2>1, Multiples
<1> QED
  BY <1>1, <1>2, <1>3 DEF Place

\* A frame begins where the one before ends.
LEMMA FrameStep ==
  ASSUME NEW w \in Writing, Divided(w), NEW f \in 1..Len(w.frames)
  PROVE  /\ f \in Nat \ {0} /\ f - 1 \in 0..Len(w.frames) /\ f \in 0..Len(w.frames)
         /\ w.frames[f].size \in Nat \ {0} /\ w.frames[f].size <= maxPayload
         /\ w.frames[f].first = Lead(w, f - 1) + 1
         /\ Lead(w, f) = Lead(w, f - 1) + w.frames[f].size
         /\ Place(w, f) = Place(w, f - 1) + (LengthSize + Overhead + w.frames[f].size)
<1>1. w.frames \in Seq(Frame) /\ Len(w.frames) \in Nat
  BY DEF Writing
<1>2. /\ f \in Nat \ {0} /\ f - 1 \in 0..Len(w.frames) /\ f \in 0..Len(w.frames)
      /\ f - 1 \in Nat /\ f - 1 < Len(w.frames) /\ (f - 1) + 1 = f
  BY <1>1
<1>3. w.frames[f].size \in Nat \ {0} /\ w.frames[f].first \in Nat \ {0}
  <2>1. w.frames[f] \in Frame
    BY <1>1
  <2> QED
    BY <2>1 DEF Frame
<1>4. w.frames[f].size <= maxPayload /\ Lead(w, f) = Lead(w, f - 1) + w.frames[f].size
  BY DEF Divided
<1>5. w.frames[f].first = Lead(w, f - 1) + 1
  BY <1>2, <1>3 DEF Lead
<1>6. LengthSize + Overhead \in Nat
  BY Sizes
<1>7. f * (LengthSize + Overhead) = (f - 1) * (LengthSize + Overhead) + (LengthSize + Overhead)
  <2>1. ((f - 1) + 1) * (LengthSize + Overhead)
          = (f - 1) * (LengthSize + Overhead) + (LengthSize + Overhead)
    BY <1>2, <1>6, Multiples
  <2> QED
    BY <1>2, <2>1
<1>8. PICK a \in Nat, b \in Nat, s \in Nat, p \in Nat :
        /\ a = Lead(w, f - 1) /\ b = (f - 1) * (LengthSize + Overhead)
        /\ s = w.frames[f].size /\ p = f * (LengthSize + Overhead)
  BY <1>2, <1>3, <1>6, LeadTypes, Multiples
<1>9. Place(w, f) = Place(w, f - 1) + (LengthSize + Overhead + w.frames[f].size)
  <2>1. Place(w, f) = (a + s) + p /\ Place(w, f - 1) = a + b /\ p = b + (LengthSize + Overhead)
    BY <1>4, <1>7, <1>8 DEF Place
  <2>2. LengthSize \in Nat /\ Overhead \in Nat
    BY Sizes
  <2>3. (a + s) + (b + (LengthSize + Overhead)) = (a + b) + (LengthSize + Overhead + s)
    BY <2>2
  <2> QED
    BY <1>8, <2>1, <2>3, Zenon
<1> QED
  BY <1>2, <1>3, <1>4, <1>5, <1>9

\* Later frames are at later places.
LEMMA PlaceOrder ==
  ASSUME NEW w \in Writing, Divided(w), NEW m \in 0..Len(w.frames),
         NEW n \in 0..Len(w.frames), m <= n
  PROVE  Lead(w, m) <= Lead(w, n) /\ Place(w, m) <= Place(w, n)
<1>1. Lead(w, m) <= Lead(w, n)
  BY DEF Divided
<1>2. /\ Lead(w, m) \in Nat /\ Lead(w, n) \in Nat /\ m \in Nat /\ n \in Nat
      /\ LengthSize + Overhead \in Nat
  BY LeadTypes, Sizes
<1>3. PICK a \in Nat, b \in Nat :
        a = m * (LengthSize + Overhead) /\ b = n * (LengthSize + Overhead) /\ a <= b
  BY <1>2, Multiples
<1>4. Place(w, m) = Lead(w, m) + a /\ Place(w, n) = Lead(w, n) + b
  BY <1>3 DEF Place
<1> QED
  BY <1>1, <1>2, <1>3, <1>4

\* Every byte has its place among what was written.
LEMMA RankTypes ==
  ASSUME NEW w \in Writing, Divided(w), NEW b \in Byte, IsByte(w, b)
  PROVE  /\ Rank(w, b) \in Nat \ {0} /\ Total(w) \in Nat /\ Rank(w, b) <= Total(w)
         /\ w.crypt = "none" => Rank(w, b) = b[2] /\ Total(w) = w.sent
         /\ w.crypt = "chacha20" =>
              /\ b[1] \in 1..Len(w.frames)
              /\ Place(w, b[1] - 1) < Rank(w, b) /\ Rank(w, b) <= Place(w, b[1])
              /\ b = <<b[1], Rank(w, b) - Place(w, b[1] - 1)>>
<1>1. /\ w.crypt \in {"none", "chacha20"} /\ w.sent \in Nat /\ Len(w.frames) \in Nat
      /\ b[1] \in Nat /\ b[2] \in Nat \ {0} /\ b = <<b[1], b[2]>>
  BY DEF Writing, Byte
<1>2. Len(w.frames) \in 0..Len(w.frames)
  BY <1>1
<1>3. Total(w) \in Nat
  BY <1>2, LeadTypes DEF Total
<1>4. CASE w.crypt = "none"
  <2>1. w.frames = <<>> /\ Len(w.frames) = 0
    BY <1>4 DEF Divided
  <2>2. Total(w) = w.sent + 0 * (LengthSize + Overhead)
    BY <2>1 DEF Total, Place, Lead
  <2>3. 0 * (LengthSize + Overhead) = 0
    BY Sizes
  <2>4. Rank(w, b) = b[2] /\ b[2] <= w.sent
    BY <1>4 DEF Rank, IsByte
  <2> QED
    BY <1>1, <1>4, <2>2, <2>3, <2>4
<1>5. CASE w.crypt = "chacha20"
  <2>1. /\ b[1] \in 1..Len(w.frames)
        /\ b[2] <= LengthSize + Overhead + w.frames[b[1]].size
        /\ Rank(w, b) = Place(w, b[1] - 1) + b[2]
    BY <1>5 DEF Rank, IsByte
  <2>2. /\ b[1] - 1 \in 0..Len(w.frames) /\ b[1] \in 0..Len(w.frames)
        /\ w.frames[b[1]].size \in Nat
        /\ Place(w, b[1]) = Place(w, b[1] - 1) + (LengthSize + Overhead + w.frames[b[1]].size)
    BY <2>1, FrameStep
  <2>3. b[1] <= Len(w.frames)
    BY <1>1, <2>1
  <2>4. Place(w, b[1]) <= Total(w)
    BY <1>2, <2>2, <2>3, PlaceOrder DEF Total
  <2>8. /\ LengthSize + Overhead + w.frames[b[1]].size \in Nat
        /\ Place(w, b[1] - 1) \in Nat /\ Place(w, b[1]) \in Nat
    <3>1. LengthSize + Overhead + w.frames[b[1]].size \in Nat
      BY SMTT(30), <2>2, Sizes
    <3> QED
      BY <2>2, <3>1, LeadTypes
  <2>5. PICK p \in Nat, q \in Nat, t \in Nat, k \in Nat, j \in Nat \ {0} :
          /\ p = Place(w, b[1] - 1) /\ q = Place(w, b[1]) /\ t = Total(w)
          /\ k = LengthSize + Overhead + w.frames[b[1]].size /\ j = b[2]
    BY <1>1, <1>3, <2>8
  <2>6. j <= k /\ q = p + k /\ q <= t /\ Rank(w, b) = p + j
    BY <2>1, <2>2, <2>4, <2>5
  <2>7. p + j \in Nat \ {0} /\ p + j <= t /\ p < p + j /\ p + j <= q /\ (p + j) - p = j
    BY <2>6
  <2> QED
    BY <1>1, <1>5, <2>1, <2>5, <2>6, <2>7
<1> QED
  BY <1>1, <1>4, <1>5

\* A byte between two frames' places is of the frame that is there.
LEMMA RankFrame ==
  ASSUME NEW w \in Writing, Divided(w), w.crypt = "chacha20", NEW b \in Byte, IsByte(w, b),
         NEW f \in 1..Len(w.frames), Place(w, f - 1) < Rank(w, b), Rank(w, b) <= Place(w, f)
  PROVE  b = <<f, Rank(w, b) - Place(w, f - 1)>>
<1>1. /\ Rank(w, b) \in Nat /\ b[1] \in 1..Len(w.frames)
      /\ Place(w, b[1] - 1) < Rank(w, b) /\ Rank(w, b) <= Place(w, b[1])
      /\ b = <<b[1], Rank(w, b) - Place(w, b[1] - 1)>>
  BY RankTypes
<1>2. /\ f \in Nat /\ f - 1 \in 0..Len(w.frames) /\ f \in 0..Len(w.frames)
      /\ b[1] \in Nat /\ b[1] - 1 \in 0..Len(w.frames) /\ b[1] \in 0..Len(w.frames)
  BY <1>1, FrameStep
<1>3. /\ Place(w, f) \in Nat /\ Place(w, f - 1) \in Nat
      /\ Place(w, b[1]) \in Nat /\ Place(w, b[1] - 1) \in Nat
  BY <1>2, LeadTypes
<1>4. CASE b[1] < f
  <2>1. b[1] <= f - 1
    BY <1>2, <1>4
  <2>2. Place(w, b[1]) <= Place(w, f - 1)
    BY <1>2, <2>1, PlaceOrder
  <2> QED
    BY <1>1, <1>3, <2>2
<1>5. CASE f < b[1]
  <2>1. f <= b[1] - 1
    BY <1>2, <1>5
  <2>2. Place(w, f) <= Place(w, b[1] - 1)
    BY <1>2, <2>1, PlaceOrder
  <2> QED
    BY <1>1, <1>3, <2>2
<1>6. CASE b[1] = f
  BY <1>1, <1>6
<1> QED
  BY <1>2, <1>4, <1>5, <1>6

-----------------------------------------------------------------------------
(* Sequences *)

\* The smaller of two numbers.
LEMMA MinPair ==
  ASSUME NEW a \in Int, NEW b \in Int
  PROVE  Min({a, b}) = IF a <= b THEN a ELSE b
<1>1. \E x \in {a, b} : \A y \in {a, b} : x =< y
  OBVIOUS
<1>2. Min({a, b}) \in {a, b} /\ \A y \in {a, b} : Min({a, b}) =< y
  BY <1>1 DEF Min
<1> QED
  BY <1>2

\* The two parts of a sequence.
LEMMA Parts ==
  ASSUME NEW S, NEW s \in Seq(S), NEW n \in 0..Len(s)
  PROVE  /\ SubSeq(s, 1, n) \in Seq(S) /\ Len(SubSeq(s, 1, n)) = n
         /\ \A i \in 1..n : SubSeq(s, 1, n)[i] = s[i]
         /\ SubSeq(s, n + 1, Len(s)) \in Seq(S) /\ Len(SubSeq(s, n + 1, Len(s))) = Len(s) - n
         /\ \A i \in 1..(Len(s) - n) : SubSeq(s, n + 1, Len(s))[i] = s[n + i]
         /\ Len(s) \in Nat /\ n \in Nat
<1>1. SubSeq(s, 1, n) \in Seq(S) /\ Len(SubSeq(s, 1, n)) = n
  OBVIOUS
<1>2. \A i \in 1..n : SubSeq(s, 1, n)[i] = s[i]
  OBVIOUS
<1>3. SubSeq(s, n + 1, Len(s)) \in Seq(S) /\ Len(SubSeq(s, n + 1, Len(s))) = Len(s) - n
  OBVIOUS
<1>4. \A i \in 1..(Len(s) - n) : SubSeq(s, n + 1, Len(s))[i] = s[n + i]
  OBVIOUS
<1>5. Len(s) \in Nat /\ n \in Nat
  OBVIOUS
<1> QED
  BY <1>1, <1>2, <1>3, <1>4, <1>5

\* One sequence after another.
LEMMA Joined ==
  ASSUME NEW S, NEW s \in Seq(S), NEW t \in Seq(S)
  PROVE  /\ s \o t \in Seq(S) /\ Len(s \o t) = Len(s) + Len(t)
         /\ Len(s) \in Nat /\ Len(t) \in Nat
         /\ \A i \in 1..Len(s) : (s \o t)[i] = s[i]
         /\ \A i \in 1..Len(t) : (s \o t)[Len(s) + i] = t[i]
         /\ \A k \in 1..(Len(s) + Len(t)) :
              \/ k \in 1..Len(s)
              \/ k - Len(s) \in 1..Len(t) /\ k = Len(s) + (k - Len(s))
<1>1. s \o t \in Seq(S) /\ Len(s \o t) = Len(s) + Len(t) /\ Len(s) \in Nat /\ Len(t) \in Nat
  OBVIOUS
<1>2. \A i \in 1..Len(s) : (s \o t)[i] = s[i]
  OBVIOUS
<1>3. \A i \in 1..Len(t) : (s \o t)[Len(s) + i] = t[i]
  OBVIOUS
<1>4. \A k \in 1..(Len(s) + Len(t)) :
        \/ k \in 1..Len(s)
        \/ k - Len(s) \in 1..Len(t) /\ k = Len(s) + (k - Len(s))
  BY <1>1
<1> QED
  BY <1>1, <1>2, <1>3, <1>4

\* u is M numbers of s and N of t.
Joins(u, s, t, M, N) ==
  /\ u = s \o t /\ Len(u) = M + N
  /\ \A i \in 1..M : u[i] = s[i]
  /\ \A i \in 1..N : u[M + i] = t[i]
  /\ \A k \in 1..(M + N) : k \in 1..M \/ (k - M \in 1..N /\ k = M + (k - M))

\* The same of numbers, when the lengths are known.
LEMMA NumbersJoined ==
  ASSUME NEW s \in Seq(Nat), NEW t \in Seq(Nat), NEW M \in Nat, NEW N \in Nat,
         Len(s) = M, Len(t) = N
  PROVE  \E u \in Seq(Nat) : Joins(u, s, t, M, N)
<1>1. s \o t \in Seq(Nat) /\ Len(s \o t) = Len(s) + Len(t)
  BY Joined
<1>2. PICK u \in Seq(Nat) : u = s \o t
  BY <1>1
<1>3. Len(u) = M + N
  BY <1>1, <1>2
<1>4. \A i \in 1..M : u[i] = s[i]
  <2>1. \A i \in 1..Len(s) : (s \o t)[i] = s[i]
    BY Joined
  <2> QED
    BY <1>2, <2>1
<1>5. \A i \in 1..N : u[M + i] = t[i]
  <2>1. \A i \in 1..Len(t) : (s \o t)[Len(s) + i] = t[i]
    BY Joined
  <2> QED
    BY <1>2, <2>1
<1>6. \A k \in 1..(M + N) : k \in 1..M \/ (k - M \in 1..N /\ k = M + (k - M))
  OBVIOUS
<1> QED
  BY <1>2, <1>3, <1>4, <1>5, <1>6 DEF Joins

\* A place among three parts.
LEMMA ThreeParts ==
  ASSUME NEW D \in Nat, NEW N \in Nat, NEW n \in 0..N, NEW k \in 1..(D + N)
  PROVE  k \in 1..D \/ k - D \in 1..n \/ k - (D + n) \in 1..(N - n)
OBVIOUS

\* One element more at the end, at the front, or one less.
LEMMA Appended ==
  ASSUME NEW S, NEW s \in Seq(S), NEW e \in S
  PROVE  /\ Append(s, e) \in Seq(S) /\ Len(Append(s, e)) = Len(s) + 1 /\ Len(s) \in Nat
         /\ \A i \in 1..Len(s) : Append(s, e)[i] = s[i]
         /\ Append(s, e)[Len(s) + 1] = e
OBVIOUS

\* s with e put in front.
LEMMA Prepended ==
  ASSUME NEW S, NEW s \in Seq(S), NEW e \in S
  PROVE  /\ <<e>> \o s \in Seq(S) /\ Len(<<e>> \o s) = Len(s) + 1 /\ Len(s) \in Nat
         /\ (<<e>> \o s)[1] = e
         /\ \A i \in 1..Len(s) : (<<e>> \o s)[i + 1] = s[i]
<1>1. <<e>> \in Seq(S) /\ Len(<<e>>) = 1 /\ <<e>>[1] = e
  OBVIOUS
<1>2. /\ <<e>> \o s \in Seq(S) /\ Len(<<e>> \o s) = 1 + Len(s) /\ Len(s) \in Nat
      /\ \A i \in 1..1 : (<<e>> \o s)[i] = <<e>>[i]
      /\ \A i \in 1..Len(s) : (<<e>> \o s)[1 + i] = s[i]
  BY <1>1, Joined
<1> QED
  BY <1>1, <1>2

\* s without its first element.
LEMMA Remaining ==
  ASSUME NEW S, NEW s \in Seq(S), s # <<>>
  PROVE  /\ Tail(s) \in Seq(S) /\ Len(Tail(s)) = Len(s) - 1 /\ Len(s) \in Nat \ {0}
         /\ Head(s) = s[1] /\ s[1] \in S
         /\ \A i \in 1..(Len(s) - 1) : Tail(s)[i] = s[i + 1]
<1>1. Tail(s) \in Seq(S) /\ Len(Tail(s)) = Len(s) - 1 /\ Len(s) \in Nat \ {0}
  OBVIOUS
<1>2. Head(s) = s[1] /\ s[1] \in S
  BY <1>1
<1>3. \A i \in 1..(Len(s) - 1) : Tail(s)[i] = s[i + 1]
  OBVIOUS
<1> QED
  BY <1>1, <1>2, <1>3

-----------------------------------------------------------------------------
(* Runs of bytes *)

\* Where a run begins and ends.
LEMMA RunPlace ==
  ASSUME NEW w \in Writing, Divided(w), NEW s \in Seq(Byte), s # <<>>, NEW x, Run(w, s, x),
         x \in Int \/ x = Start(w, s)
  PROVE  /\ x \in Nat /\ Start(w, s) = x /\ Stop(w, s) = x + Len(s)
         /\ Len(s) \in Nat \ {0} /\ x + Len(s) <= Total(w) /\ Total(w) \in Nat
<1>1. Len(s) \in Nat \ {0} /\ 1 \in 1..Len(s) /\ Len(s) \in 1..Len(s)
  OBVIOUS
<1>2. /\ s[1] \in Byte /\ s[Len(s)] \in Byte
      /\ IsByte(w, s[1]) /\ Rank(w, s[1]) = x + 1
      /\ IsByte(w, s[Len(s)]) /\ Rank(w, s[Len(s)]) = x + Len(s)
  BY <1>1 DEF Run
<1>3. /\ Rank(w, s[1]) \in Nat \ {0} /\ Rank(w, s[Len(s)]) <= Total(w) /\ Total(w) \in Nat
  BY <1>2, RankTypes
<1>4. Start(w, s) = Rank(w, s[1]) - 1
  BY DEF Start
<1>5. x \in Int
  BY <1>3, <1>4
<1>6. x \in Nat /\ Start(w, s) = x
  BY <1>2, <1>3, <1>4, <1>5
<1> QED
  BY <1>1, <1>2, <1>3, <1>6 DEF Stop

\* A run is cut in two.
LEMMA RunParts ==
  ASSUME NEW w, NEW s \in Seq(Byte), NEW x \in Int, Run(w, s, x), NEW n \in 0..Len(s)
  PROVE  Run(w, SubSeq(s, 1, n), x) /\ Run(w, SubSeq(s, n + 1, Len(s)), x + n)
<1>1. PICK f \in Seq(Byte), g \in Seq(Byte) :
        /\ f = SubSeq(s, 1, n) /\ g = SubSeq(s, n + 1, Len(s))
        /\ Len(f) = n /\ Len(g) = Len(s) - n /\ Len(s) \in Nat /\ n \in Nat
        /\ \A i \in 1..n : f[i] = s[i]
        /\ \A i \in 1..(Len(s) - n) : g[i] = s[n + i]
  <2>1. /\ SubSeq(s, 1, n) \in Seq(Byte) /\ SubSeq(s, n + 1, Len(s)) \in Seq(Byte)
        /\ Len(SubSeq(s, 1, n)) = n /\ Len(SubSeq(s, n + 1, Len(s))) = Len(s) - n
        /\ Len(s) \in Nat /\ n \in Nat
    BY Parts
  <2>2. /\ \A i \in 1..n : SubSeq(s, 1, n)[i] = s[i]
        /\ \A i \in 1..(Len(s) - n) : SubSeq(s, n + 1, Len(s))[i] = s[n + i]
    BY Parts
  <2> QED
    BY <2>1, <2>2
<1>2. \A i \in 1..Len(s) : IsByte(w, s[i]) /\ Rank(w, s[i]) = x + i
  BY DEF Run
<1>3. ASSUME NEW i \in 1..Len(f) PROVE IsByte(w, f[i]) /\ Rank(w, f[i]) = x + i
  <2>1. i \in 1..Len(s) /\ i \in 1..n
    BY <1>1
  <2> QED
    BY <1>1, <1>2, <2>1
<1>4. ASSUME NEW i \in 1..Len(g) PROVE IsByte(w, g[i]) /\ Rank(w, g[i]) = (x + n) + i
  <2>1. n + i \in 1..Len(s) /\ i \in 1..(Len(s) - n) /\ x + (n + i) = (x + n) + i
    <3>1. PICK N \in Nat, k \in Nat \ {0} : N = Len(s) /\ k = i /\ k <= N - n /\ n \in Nat
      <4>1. Len(s) \in Nat /\ n \in Nat /\ i \in 1..(Len(s) - n)
        BY <1>1
      <4>2. i \in Nat \ {0} /\ i <= Len(s) - n
        BY <4>1
      <4> QED
        BY <4>1, <4>2
    <3>2. n + k \in 1..N /\ k \in 1..(N - n) /\ x + (n + k) = (x + n) + k
      BY <3>1
    <3> QED
      BY <3>1, <3>2
  <2>2. g[i] = s[n + i] /\ IsByte(w, s[n + i]) /\ Rank(w, s[n + i]) = x + (n + i)
    BY <1>1, <1>2, <2>1
  <2> QED
    BY <2>1, <2>2
<1> QED
  BY <1>1, <1>3, <1>4 DEF Run

\* Two runs that meet.
LEMMA RunJoined ==
  ASSUME NEW w, NEW s \in Seq(Byte), NEW t \in Seq(Byte), NEW x \in Int,
         Run(w, s, x), Run(w, t, x + Len(s))
  PROVE  Run(w, s \o t, x)
<1>1. PICK u \in Seq(Byte) :
        /\ u = s \o t /\ Len(u) = Len(s) + Len(t) /\ Len(s) \in Nat /\ Len(t) \in Nat
        /\ \A i \in 1..Len(s) : u[i] = s[i]
        /\ \A i \in 1..Len(t) : u[Len(s) + i] = t[i]
        /\ \A k \in 1..(Len(s) + Len(t)) :
             \/ k \in 1..Len(s)
             \/ k - Len(s) \in 1..Len(t) /\ k = Len(s) + (k - Len(s))
  BY Joined
<1>2. ASSUME NEW k \in 1..Len(u) PROVE IsByte(w, u[k]) /\ Rank(w, u[k]) = x + k
  <2>1. CASE k \in 1..Len(s)
    BY <1>1, <2>1 DEF Run
  <2>2. CASE k - Len(s) \in 1..Len(t) /\ k = Len(s) + (k - Len(s))
    <3>1. PICK i \in 1..Len(t) : k = Len(s) + i
      BY <2>2
    <3>2. u[k] = t[i] /\ IsByte(w, t[i]) /\ Rank(w, t[i]) = (x + Len(s)) + i
      BY <1>1, <3>1 DEF Run
    <3>3. (x + Len(s)) + i = x + k
      BY <1>1, <3>1
    <3> QED
      BY <3>2, <3>3
  <2> QED
    BY <1>1, <2>1, <2>2
<1> QED
  BY <1>1, <1>2 DEF Run

-----------------------------------------------------------------------------
(* Pieces *)

\* Where the pieces are.
LEMMA PiecePlaces ==
  ASSUME NEW w \in Writing, Divided(w), NEW P \in Seq(Seq(Byte)), NEW y \in Nat,
         InOrder(w, P, y), NEW k \in 1..Len(P)
  PROVE  /\ P[k] \in Seq(Byte) /\ Len(P[k]) \in Nat \ {0} /\ Start(w, P[k]) \in Nat
         /\ Stop(w, P[k]) = Start(w, P[k]) + Len(P[k]) /\ Stop(w, P[k]) <= y
<1>1. /\ P[k] \in Seq(Byte) /\ P[k] # <<>> /\ Run(w, P[k], Start(w, P[k]))
      /\ Stop(w, P[k]) <= y
  BY DEF InOrder
<1> QED
  BY <1>1, RunPlace

\* A piece is appended.
LEMMA PieceAppended ==
  ASSUME NEW w \in Writing, Divided(w), NEW P \in Seq(Seq(Byte)), NEW y \in Nat,
         InOrder(w, P, y), NEW s \in Seq(Byte), s # <<>>, Run(w, s, y)
  PROVE  /\ InOrder(w, Append(P, s), y + Len(s))
         /\ \A x \in Nat : Ahead(w, P, y, x) => Ahead(w, Append(P, s), y + Len(s), x)
         /\ \A x \in Nat : Gapless(w, P, x, y, FALSE)
                             => Gapless(w, Append(P, s), x, y + Len(s), FALSE)
<1>1. PICK Q \in Seq(Seq(Byte)) :
        /\ Q = Append(P, s) /\ Len(Q) = Len(P) + 1 /\ Len(P) \in Nat
        /\ \A k \in 1..Len(P) : Q[k] = P[k]
        /\ Q[Len(P) + 1] = s
  BY Appended
<1>2. PICK z \in Nat : z = y + Len(s) /\ Start(w, s) = y /\ Stop(w, s) = z /\ y <= z
  <2>1. Start(w, s) = y /\ Stop(w, s) = y + Len(s) /\ Len(s) \in Nat \ {0}
    BY RunPlace
  <2> QED
    BY <2>1
<1>3. \A k \in 1..Len(P) : /\ Start(w, P[k]) \in Nat /\ Stop(w, P[k]) <= y
                           /\ Stop(w, P[k]) \in Nat
  BY PiecePlaces
<1>4. \A k \in 1..Len(Q) : k \in 1..Len(P) \/ k = Len(P) + 1
  BY <1>1
<1>5. ASSUME NEW k \in 1..Len(Q)
      PROVE  Q[k] # <<>> /\ Run(w, Q[k], Start(w, Q[k])) /\ Stop(w, Q[k]) <= z
  <2>1. CASE k \in 1..Len(P)
    BY <1>1, <1>2, <1>3, <2>1 DEF InOrder
  <2>2. CASE k = Len(P) + 1
    BY <1>1, <1>2, <2>2
  <2> QED
    BY <1>4, <2>1, <2>2
<1>6. ASSUME NEW k \in 1..Len(Q), NEW l \in 1..Len(Q), k < l
      PROVE  Stop(w, Q[k]) <= Start(w, Q[l])
  <2>1. k \in 1..Len(P)
    BY <1>1, <1>6
  <2>2. CASE l \in 1..Len(P)
    BY <1>1, <1>6, <2>1, <2>2 DEF InOrder
  <2>3. CASE l = Len(P) + 1
    BY <1>1, <1>2, <1>3, <2>1, <2>3
  <2> QED
    BY <1>4, <2>2, <2>3
<1>7. InOrder(w, Q, z)
  BY <1>5, <1>6 DEF InOrder
<1>8. ASSUME NEW x \in Nat, Ahead(w, P, y, x) PROVE Ahead(w, Q, z, x)
  <2>1. x <= y /\ x <= z /\ \A k \in 1..Len(P) : x <= Start(w, P[k])
    BY <1>2, <1>8 DEF Ahead
  <2>2. ASSUME NEW k \in 1..Len(Q) PROVE x <= Start(w, Q[k])
    BY <1>1, <1>2, <1>4, <2>1
  <2> QED
    BY <2>1, <2>2 DEF Ahead
<1>9. ASSUME NEW x \in Nat, Gapless(w, P, x, y, FALSE) PROVE Gapless(w, Q, x, z, FALSE)
  <2>1. Q # <<>> /\ Stop(w, Q[Len(Q)]) = z
    BY <1>1, <1>2
  <2>2. Start(w, Q[1]) = x
    <3>1. CASE P = <<>>
      BY <1>1, <1>2, <1>9, <3>1 DEF Gapless
    <3>2. CASE P # <<>>
      <4>1. 1 \in 1..Len(P)
        BY <1>1, <3>2
      <4> QED
        BY <1>1, <1>9, <3>2, <4>1 DEF Gapless
    <3> QED
      BY <3>1, <3>2
  <2>3. ASSUME NEW k \in 1..(Len(Q) - 1) PROVE Stop(w, Q[k]) = Start(w, Q[k + 1])
    <3>1. k \in 1..Len(P)
      BY <1>1
    <3>2. CASE k = Len(P)
      <4>1. P # <<>>
        BY <1>1, <3>1
      <4>2. Stop(w, P[Len(P)]) = y
        BY <1>9, <4>1 DEF Gapless
      <4> QED
        BY <1>1, <1>2, <3>1, <3>2, <4>2
    <3>3. CASE k # Len(P)
      <4>1. k \in 1..(Len(P) - 1) /\ k + 1 \in 1..Len(P)
        BY <1>1, <3>1, <3>3
      <4>2. Stop(w, P[k]) = Start(w, P[k + 1])
        BY <1>9, <4>1 DEF Gapless
      <4> QED
        BY <1>1, <3>1, <4>1, <4>2
    <3> QED
      BY <3>2, <3>3
  <2> QED
    BY <2>1, <2>2, <2>3 DEF Gapless
<1> QED
  BY <1>1, <1>2, <1>7, <1>8, <1>9

\* Bytes of the wire are lost: the pieces stay where they are.
LEMMA PiecesStay ==
  ASSUME NEW w \in Writing, Divided(w), NEW P \in Seq(Seq(Byte)), NEW y \in Nat,
         InOrder(w, P, y), NEW z \in Nat, y <= z
  PROVE  /\ InOrder(w, P, z)
         /\ \A x \in Nat : Ahead(w, P, y, x) => Ahead(w, P, z, x)
         /\ \A x, b : Gapless(w, P, x, y, b) => Gapless(w, P, x, z, TRUE)
<1>1. \A k \in 1..Len(P) : Stop(w, P[k]) \in Nat /\ Stop(w, P[k]) <= z
  BY PiecePlaces
<1>2. InOrder(w, P, z)
  BY <1>1 DEF InOrder
<1>3. \A x \in Nat : Ahead(w, P, y, x) => Ahead(w, P, z, x)
  BY DEF Ahead
<1>4. \A x, b : Gapless(w, P, x, y, b) => Gapless(w, P, x, z, TRUE)
  BY DEF Gapless
<1> QED
  BY <1>2, <1>3, <1>4

\* Pieces P without the first n bytes.
Rest(P, n) ==
  IF n = Len(P[1]) THEN Tail(P) ELSE <<SubSeq(P[1], n + 1, Len(P[1]))>> \o Tail(P)

\* Each piece of the rest is one of P, or what is left of the first.
LEMMA RestPieces ==
  ASSUME NEW w \in Writing, Divided(w), NEW P \in Seq(Seq(Byte)), NEW y \in Nat,
         InOrder(w, P, y), P # <<>>, NEW n \in 1..Len(P[1])
  PROVE  /\ Rest(P, n) \in Seq(Seq(Byte))
         /\ \E e \in {0, 1} :
              /\ e = 1 <=> n = Len(P[1])
              /\ Len(Rest(P, n)) = Len(P) - e
              /\ \A k \in 1..Len(Rest(P, n)) :
                   /\ k + e \in 1..Len(P)
                   /\ Rest(P, n)[k] # <<>>
                   /\ Run(w, Rest(P, n)[k], Start(w, Rest(P, n)[k]))
                   /\ Stop(w, Rest(P, n)[k]) = Stop(w, P[k + e])
                   /\ IF k + e = 1 THEN Start(w, Rest(P, n)[k]) = Start(w, P[1]) + n
                      ELSE Rest(P, n)[k] = P[k + e]
<1>1. PICK T \in Seq(Seq(Byte)) :
        /\ T = Tail(P) /\ Len(T) = Len(P) - 1 /\ Len(P) \in Nat \ {0}
        /\ \A i \in 1..(Len(P) - 1) : T[i] = P[i + 1]
  BY Remaining
<1>2. /\ 1 \in 1..Len(P) /\ P[1] \in Seq(Byte) /\ Len(P[1]) \in Nat \ {0}
      /\ P[1] # <<>> /\ Start(w, P[1]) \in Nat /\ Run(w, P[1], Start(w, P[1]))
      /\ Stop(w, P[1]) = Start(w, P[1]) + Len(P[1])
  <2>1. 1 \in 1..Len(P)
    BY <1>1
  <2>2. P[1] # <<>> /\ Run(w, P[1], Start(w, P[1]))
    BY <2>1 DEF InOrder
  <2> QED
    BY <2>1, <2>2, PiecePlaces
<1>3. \A k \in 1..Len(P) : P[k] # <<>> /\ Run(w, P[k], Start(w, P[k]))
  BY DEF InOrder
<1>4. CASE n = Len(P[1])
  <2>1. Rest(P, n) = T
    BY <1>1, <1>4 DEF Rest
  <2>2. ASSUME NEW k \in 1..Len(T)
        PROVE  /\ k + 1 \in 1..Len(P) /\ T[k] # <<>> /\ Run(w, T[k], Start(w, T[k]))
               /\ Stop(w, T[k]) = Stop(w, P[k + 1])
               /\ k + 1 # 1 /\ T[k] = P[k + 1]
    <3>1. k + 1 \in 1..Len(P) /\ k \in 1..(Len(P) - 1) /\ k + 1 # 1
      BY <1>1
    <3>2. T[k] = P[k + 1]
      BY <1>1, <3>1
    <3> QED
      BY <1>3, <3>1, <3>2
  <2> QED
    BY <1>1, <1>4, <2>1, <2>2
<1>5. CASE n # Len(P[1])
  <2>1. n \in 0..Len(P[1]) /\ n < Len(P[1]) /\ n \in Nat
    BY <1>2, <1>5
  <2>2. PICK r \in Seq(Byte) :
          r = SubSeq(P[1], n + 1, Len(P[1])) /\ Len(r) = Len(P[1]) - n
    <3>1. /\ SubSeq(P[1], n + 1, Len(P[1])) \in Seq(Byte)
          /\ Len(SubSeq(P[1], n + 1, Len(P[1]))) = Len(P[1]) - n
      BY <1>2, <2>1, Parts
    <3> QED
      BY <3>1
  <2>3. r # <<>>
    <3>1. Len(r) # 0
      BY <1>2, <2>1, <2>2
    <3> QED
      BY <3>1
  <2>4. Run(w, r, Start(w, P[1]) + n)
    BY <1>2, <2>1, <2>2, RunParts
  <2>5. Start(w, r) = Start(w, P[1]) + n /\ Stop(w, r) = (Start(w, P[1]) + n) + Len(r)
    <3>1. Start(w, P[1]) + n \in Int
      BY <1>2, <2>1
    <3> QED
      BY <2>3, <2>4, <3>1, RunPlace
  <2>6. Stop(w, r) = Stop(w, P[1])
    BY <1>2, <2>1, <2>2, <2>5
  <2>7. PICK Q \in Seq(Seq(Byte)) :
          /\ Q = <<r>> \o T /\ Len(Q) = Len(T) + 1 /\ Len(T) \in Nat
          /\ Q[1] = r /\ \A i \in 1..Len(T) : Q[i + 1] = T[i]
    <3>1. /\ <<r>> \o T \in Seq(Seq(Byte)) /\ Len(<<r>> \o T) = Len(T) + 1 /\ Len(T) \in Nat
          /\ (<<r>> \o T)[1] = r
          /\ \A i \in 1..Len(T) : (<<r>> \o T)[i + 1] = T[i]
      BY Prepended
    <3> QED
      BY <3>1
  <2>8. Rest(P, n) = Q
    BY <1>1, <1>5, <2>2, <2>7 DEF Rest
  <2>9. Len(Q) = Len(P) - 0
    BY <1>1, <2>7
  <2>10. ASSUME NEW k \in 1..Len(Q)
         PROVE  /\ k + 0 \in 1..Len(P) /\ Q[k] # <<>> /\ Run(w, Q[k], Start(w, Q[k]))
                /\ Stop(w, Q[k]) = Stop(w, P[k + 0])
                /\ IF k + 0 = 1 THEN Start(w, Q[k]) = Start(w, P[1]) + n
                   ELSE Q[k] = P[k + 0]
    <3>1. k + 0 = k /\ k \in 1..Len(P)
      BY <1>1, <2>7
    <3>2. CASE k = 1
      BY <2>3, <2>4, <2>5, <2>6, <2>7, <3>1, <3>2
    <3>3. CASE k # 1
      <4>1. k - 1 \in 1..Len(T) /\ k - 1 \in 1..(Len(P) - 1) /\ (k - 1) + 1 = k
        BY <1>1, <3>1, <3>3
      <4>2. Q[k] = P[k]
        BY <1>1, <2>7, <4>1
      <4> QED
        BY <1>3, <3>1, <3>3, <4>2
    <3> QED
      BY <3>2, <3>3
  <2>11. 0 \in {0, 1} /\ ~(0 = 1)
    OBVIOUS
  <2> QED
    BY <1>5, <2>7, <2>8, <2>9, <2>10, <2>11, Zenon
<1> QED
  BY <1>4, <1>5

\* Bytes are taken from the first piece.
LEMMA PieceCut ==
  ASSUME NEW w \in Writing, Divided(w), NEW P \in Seq(Seq(Byte)), NEW y \in Nat,
         InOrder(w, P, y), P # <<>>, NEW n \in 1..Len(P[1])
  PROVE  /\ Rest(P, n) \in Seq(Seq(Byte)) /\ InOrder(w, Rest(P, n), y)
         /\ SubSeq(P[1], 1, n) \in Seq(Byte) /\ Len(SubSeq(P[1], 1, n)) = n
         /\ Start(w, P[1]) \in Nat /\ Start(w, P[1]) + n \in 0..y
         /\ Run(w, SubSeq(P[1], 1, n), Start(w, P[1]))
         /\ Ahead(w, Rest(P, n), y, Start(w, P[1]) + n)
         /\ \A x : Ahead(w, P, y, x) => x <= Start(w, P[1])
         /\ \A x, b : Gapless(w, P, x, y, b) =>
              x = Start(w, P[1]) /\ Gapless(w, Rest(P, n), Start(w, P[1]) + n, y, b)
<1>1. /\ Len(P) \in Nat \ {0} /\ 1 \in 1..Len(P)
  OBVIOUS
<1>2. /\ P[1] \in Seq(Byte) /\ Len(P[1]) \in Nat \ {0} /\ Start(w, P[1]) \in Nat
      /\ Stop(w, P[1]) = Start(w, P[1]) + Len(P[1]) /\ Stop(w, P[1]) <= y
      /\ Run(w, P[1], Start(w, P[1]))
  <2>1. Run(w, P[1], Start(w, P[1]))
    BY <1>1 DEF InOrder
  <2> QED
    BY <1>1, <2>1, PiecePlaces
<1>3. /\ n \in 0..Len(P[1]) /\ n \in Nat /\ Start(w, P[1]) + n \in 0..y
      /\ Start(w, P[1]) + n <= Stop(w, P[1]) /\ Start(w, P[1]) <= Start(w, P[1]) + n
  BY <1>2
<1>4. SubSeq(P[1], 1, n) \in Seq(Byte) /\ Len(SubSeq(P[1], 1, n)) = n
  BY <1>2, <1>3, Parts
<1>5. Run(w, SubSeq(P[1], 1, n), Start(w, P[1]))
  BY <1>2, <1>3, RunParts
<1>6. PICK Q \in Seq(Seq(Byte)), e \in {0, 1} :
        /\ Q = Rest(P, n) /\ (e = 1 <=> n = Len(P[1])) /\ Len(Q) = Len(P) - e
        /\ \A k \in 1..Len(Q) :
             /\ k + e \in 1..Len(P)
             /\ Q[k] # <<>> /\ Run(w, Q[k], Start(w, Q[k]))
             /\ Stop(w, Q[k]) = Stop(w, P[k + e])
             /\ IF k + e = 1 THEN Start(w, Q[k]) = Start(w, P[1]) + n
                ELSE Q[k] = P[k + e]
  BY RestPieces
<1>7. \A k \in 1..Len(P) : /\ Start(w, P[k]) \in Nat /\ Stop(w, P[k]) \in Nat
                           /\ Stop(w, P[k]) <= y
  BY PiecePlaces
<1>8. \A k, l \in 1..Len(P) : k < l => Stop(w, P[k]) <= Start(w, P[l])
  BY DEF InOrder
<1>9. Len(Q) \in Nat /\ e \in Nat
  BY <1>6
<1>10. ASSUME NEW k \in 1..Len(Q)
       PROVE  /\ Start(w, P[k + e]) <= Start(w, Q[k])
              /\ Start(w, P[1]) + n <= Start(w, Q[k]) /\ Stop(w, Q[k]) <= y
  <2>1. k + e \in 1..Len(P) /\ Stop(w, Q[k]) = Stop(w, P[k + e])
    BY <1>6
  <2>2. CASE k + e = 1
    BY <1>3, <1>6, <1>7, <2>1, <2>2
  <2>3. CASE k + e # 1
    <3>1. 1 < k + e
      BY <1>9, <2>3
    <3>2. Stop(w, P[1]) <= Start(w, P[k + e])
      BY <1>1, <1>8, <2>1, <3>1
    <3>3. Q[k] = P[k + e]
      BY <1>6, <2>3
    <3>4. Start(w, P[k + e]) \in Nat /\ Stop(w, P[k + e]) <= y
      BY <1>7, <2>1
    <3> QED
      BY SMTT(30), <1>2, <1>3, <2>1, <3>2, <3>3, <3>4
  <2> QED
    BY <2>2, <2>3
<1>11. ASSUME NEW k \in 1..Len(Q), NEW l \in 1..Len(Q), k < l
       PROVE  Stop(w, Q[k]) <= Start(w, Q[l])
  <2>1. k + e \in 1..Len(P) /\ l + e \in 1..Len(P) /\ k + e < l + e
    <3>1. k + e \in 1..Len(P) /\ l + e \in 1..Len(P)
      BY <1>6
    <3>2. k + e < l + e
      BY <1>9, <1>11
    <3> QED
      BY <3>1, <3>2
  <2>2. Stop(w, P[k + e]) <= Start(w, P[l + e])
    BY <1>8, <2>1
  <2>3. l + e # 1
    BY <1>9, <1>11
  <2>4. Q[l] = P[l + e] /\ Stop(w, Q[k]) = Stop(w, P[k + e])
    BY <1>6, <2>3
  <2> QED
    BY <2>2, <2>4
<1>12. InOrder(w, Q, y)
  BY <1>6, <1>10, <1>11 DEF InOrder
<1>13. Ahead(w, Q, y, Start(w, P[1]) + n)
  BY <1>3, <1>10 DEF Ahead
<1>14. \A x : Ahead(w, P, y, x) => x <= Start(w, P[1])
  BY <1>1 DEF Ahead
<1>15. ASSUME NEW x, NEW b, Gapless(w, P, x, y, b)
       PROVE  x = Start(w, P[1]) /\ Gapless(w, Q, Start(w, P[1]) + n, y, b)
  <2>1. /\ x = Start(w, P[1]) /\ (b \/ Stop(w, P[Len(P)]) = y)
        /\ \A k \in 1..(Len(P) - 1) : Stop(w, P[k]) = Start(w, P[k + 1])
    BY <1>15 DEF Gapless
  <2>2. ASSUME NEW k \in 1..(Len(Q) - 1) PROVE Stop(w, Q[k]) = Start(w, Q[k + 1])
    <3>1. /\ k \in 1..Len(Q) /\ k + 1 \in 1..Len(Q) /\ (k + 1) + e # 1
          /\ k + e \in 1..(Len(P) - 1) /\ (k + e) + 1 = (k + 1) + e
      BY <1>6, <1>9
    <3>2. Stop(w, P[k + e]) = Start(w, P[(k + e) + 1])
      BY <2>1, <3>1
    <3>3. Q[k + 1] = P[(k + 1) + e] /\ Stop(w, Q[k]) = Stop(w, P[k + e])
      BY <1>6, <3>1
    <3> QED
      BY <3>1, <3>2, <3>3
  <2>3. ASSUME Q = <<>> PROVE b \/ Start(w, P[1]) + n = y
    <3>1. Len(P) = 1 /\ e = 1
      BY <1>1, <1>6, <2>3
    <3>2. Start(w, P[1]) + n = Stop(w, P[Len(P)])
      BY <1>2, <1>6, <3>1
    <3> QED
      BY <2>1, <3>2
  <2>4. ASSUME Q # <<>>
        PROVE  Start(w, Q[1]) = Start(w, P[1]) + n /\ (b \/ Stop(w, Q[Len(Q)]) = y)
    <3>1. 1 \in 1..Len(Q) /\ Len(Q) \in 1..Len(Q) /\ Len(Q) + e = Len(P)
      BY <1>6, <1>9, <2>4
    <3>2. Stop(w, Q[Len(Q)]) = Stop(w, P[Len(P)])
      BY <1>6, <3>1
    <3>3. CASE e = 0
      <4>1. 1 + e = 1
        BY <3>3
      <4> QED
        BY <1>6, <2>1, <3>1, <3>2, <4>1
    <3>4. CASE e = 1
      <4>1. 1 + e = 2 /\ 1 + e # 1 /\ 1 \in 1..(Len(P) - 1) /\ 1 + 1 = 2
        BY <1>6, <1>9, <3>1, <3>4
      <4>2. Q[1] = P[1 + 1] /\ Stop(w, P[1]) = Start(w, P[1 + 1])
        BY <1>6, <2>1, <3>1, <4>1
      <4>3. Stop(w, P[1]) = Start(w, P[1]) + n
        BY <1>2, <1>6, <3>4
      <4> QED
        BY <2>1, <3>2, <4>2, <4>3
    <3> QED
      BY <3>3, <3>4
  <2> QED
    BY <2>1, <2>2, <2>3, <2>4 DEF Gapless
<1> QED
  BY <1>2, <1>3, <1>4, <1>5, <1>6, <1>12, <1>13, <1>14, <1>15

-----------------------------------------------------------------------------
(* What is read is in order *)

\* More of the wire is lost, or the pieces change behind what was read.
LEMMA OrderMoved ==
  ASSUME NEW w \in Writing, NEW P, NEW Q, NEW y \in Nat, NEW z \in Nat, y <= z,
         NEW d, NEW a, ReadInOrder(w, P, y, d, a),
         \A x \in Nat : Ahead(w, P, y, x) => Ahead(w, Q, z, x)
  PROVE  ReadInOrder(w, Q, z, d, a)
<1>1. \A x \in 0..y : x \in 0..z /\ x \in Nat
  OBVIOUS
<1> QED
  BY <1>1 DEF ReadInOrder

\* ReadFull has nothing any more.
LEMMA OrderDropped ==
  ASSUME NEW w, NEW P, NEW y, NEW d, NEW a, ReadInOrder(w, P, y, d, a)
  PROVE  ReadInOrder(w, P, y, d, <<>>)
BY DEF ReadInOrder

\* ReadFull gets n bytes of the first piece.
LEMMA OrderFull ==
  ASSUME NEW w \in Writing, Divided(w), w.crypt = "chacha20",
         NEW P \in Seq(Seq(Byte)), NEW y \in Nat, InOrder(w, P, y), P # <<>>,
         NEW n \in 1..Len(P[1]), NEW d, NEW a \in Seq(Byte), ReadInOrder(w, P, y, d, a)
  PROVE  ReadInOrder(w, Rest(P, n), y, d, a \o SubSeq(P[1], 1, n))
<1>1. PICK s \in Seq(Byte), p \in Nat, Q \in Seq(Seq(Byte)) :
        /\ s = SubSeq(P[1], 1, n) /\ Len(s) = n /\ p = Start(w, P[1]) /\ Q = Rest(P, n)
        /\ p + n \in 0..y /\ Run(w, s, p) /\ Ahead(w, Q, y, p + n)
        /\ \A x : Ahead(w, P, y, x) => x <= p
  <2>1. /\ SubSeq(P[1], 1, n) \in Seq(Byte) /\ Len(SubSeq(P[1], 1, n)) = n
        /\ Start(w, P[1]) \in Nat /\ Rest(P, n) \in Seq(Seq(Byte))
        /\ Start(w, P[1]) + n \in 0..y /\ Run(w, SubSeq(P[1], 1, n), Start(w, P[1]))
        /\ Ahead(w, Rest(P, n), y, Start(w, P[1]) + n)
        /\ \A x : Ahead(w, P, y, x) => x <= Start(w, P[1])
    BY PieceCut
  <2> QED
    BY <2>1
<1>2. n \in Nat
  OBVIOUS
<1>3. PICK u \in Seq(Byte) : u = a \o s
  BY Joined
<1>4. ASSUME NEW k \in 1..Len(u)
      PROVE  \/ k \in 1..Len(a) /\ u[k] = a[k]
             \/ IsByte(w, u[k]) /\ Rank(w, u[k]) \in Nat /\ p < Rank(w, u[k])
                /\ Rank(w, u[k]) <= p + n
  <2>1. \/ k \in 1..Len(a) /\ u[k] = a[k]
        \/ \E i \in 1..Len(s) : u[k] = s[i]
    BY <1>3, Joined
  <2>2. ASSUME NEW i \in 1..Len(s)
        PROVE  /\ IsByte(w, s[i]) /\ Rank(w, s[i]) \in Nat /\ p < Rank(w, s[i])
               /\ Rank(w, s[i]) <= p + n
    <3>1. IsByte(w, s[i]) /\ Rank(w, s[i]) = p + i
      BY <1>1 DEF Run
    <3>2. i \in 1..n
      BY <1>1
    <3>3. p + i \in Nat /\ p < p + i /\ p + i <= p + n
      BY <1>2, <3>2
    <3> QED
      BY <3>1, <3>3
  <2> QED
    BY <2>1, <2>2
<1>5. PICK x \in 0..y :
        /\ Ahead(w, P, y, x)
        /\ \A k \in 1..Len(a) : IsByte(w, a[k]) /\ Rank(w, a[k]) <= x
        /\ \E m \in 0..Len(w.frames) :
             /\ Place(w, m) <= x /\ \A i \in 1..Len(d) : d[i] <= Lead(w, m)
             /\ \A k \in 1..Len(a) : Place(w, m) < Rank(w, a[k])
  BY DEF ReadInOrder
<1>6. PICK m \in 0..Len(w.frames) :
        /\ Place(w, m) <= x /\ \A i \in 1..Len(d) : d[i] <= Lead(w, m)
        /\ \A k \in 1..Len(a) : Place(w, m) < Rank(w, a[k])
  BY <1>5
<1>7. x <= p /\ x \in Nat /\ Place(w, m) \in Nat /\ Place(w, m) <= p + n /\ Place(w, m) <= p
  <2>1. x <= p /\ x \in Nat /\ Place(w, m) \in Nat
    BY <1>1, <1>5, LeadTypes
  <2> QED
    BY <1>2, <1>6, <2>1
<1>8. ASSUME NEW k \in 1..Len(u)
      PROVE  IsByte(w, u[k]) /\ Rank(w, u[k]) <= p + n /\ Place(w, m) < Rank(w, u[k])
  <2>1. CASE k \in 1..Len(a) /\ u[k] = a[k]
    <3>1. IsByte(w, a[k]) /\ Rank(w, a[k]) <= x /\ Place(w, m) < Rank(w, a[k]) /\ a[k] \in Byte
      BY <1>5, <1>6, <2>1
    <3>2. Rank(w, a[k]) \in Nat
      BY <3>1, RankTypes
    <3> QED
      BY <1>2, <1>7, <2>1, <3>1, <3>2
  <2>2. CASE /\ IsByte(w, u[k]) /\ Rank(w, u[k]) \in Nat /\ p < Rank(w, u[k])
             /\ Rank(w, u[k]) <= p + n
    BY <1>7, <2>2
  <2> QED
    BY <1>4, <2>1, <2>2
<1>9. /\ p + n \in 0..y /\ Ahead(w, Q, y, p + n)
      /\ \A k \in 1..Len(u) : IsByte(w, u[k]) /\ Rank(w, u[k]) <= p + n
      /\ \E j \in 0..Len(w.frames) :
           /\ Place(w, j) <= p + n /\ \A i \in 1..Len(d) : d[i] <= Lead(w, j)
           /\ \A k \in 1..Len(u) : Place(w, j) < Rank(w, u[k])
  BY <1>1, <1>6, <1>7, <1>8
<1>10. ReadInOrder(w, Q, y, d, u)
  <2>1. w.crypt # "none"
    OBVIOUS
  <2> QED
    BY <1>9, <2>1 DEF ReadInOrder
<1> QED
  BY <1>1, <1>3, <1>10

\* The plaintext of bytes without encryption.
Values(s) == [i \in 1..Len(s) |-> s[i][2]]

\* Read returns n bytes of the first piece, without encryption.
LEMMA OrderPlain ==
  ASSUME NEW w \in Writing, Divided(w), w.crypt = "none",
         NEW P \in Seq(Seq(Byte)), NEW y \in Nat, InOrder(w, P, y), P # <<>>,
         NEW n \in 1..Len(P[1]), NEW d \in Seq(Nat), ReadInOrder(w, P, y, d, <<>>)
  PROVE  ReadInOrder(w, Rest(P, n), y, d \o Values(SubSeq(P[1], 1, n)), <<>>)
<1>1. PICK s \in Seq(Byte), p \in Nat, Q \in Seq(Seq(Byte)) :
        /\ s = SubSeq(P[1], 1, n) /\ Len(s) = n /\ p = Start(w, P[1]) /\ Q = Rest(P, n)
        /\ p + n \in 0..y /\ Run(w, s, p) /\ Ahead(w, Q, y, p + n)
        /\ \A x : Ahead(w, P, y, x) => x <= p
  <2>1. /\ SubSeq(P[1], 1, n) \in Seq(Byte) /\ Len(SubSeq(P[1], 1, n)) = n
        /\ Start(w, P[1]) \in Nat /\ Rest(P, n) \in Seq(Seq(Byte))
        /\ Start(w, P[1]) + n \in 0..y /\ Run(w, SubSeq(P[1], 1, n), Start(w, P[1]))
        /\ Ahead(w, Rest(P, n), y, Start(w, P[1]) + n)
        /\ \A x : Ahead(w, P, y, x) => x <= Start(w, P[1])
    BY PieceCut
  <2> QED
    BY <2>1
<1>2. n \in Nat
  OBVIOUS
<1>3. \A i \in 1..n : s[i][2] = p + i
  BY <1>1 DEF Run, Rank
<1>4. PICK t \in Seq(Nat) : t = Values(s) /\ Len(t) = n /\ \A i \in 1..n : t[i] = p + i
  <2>1. Values(s) = [i \in 1..n |-> p + i]
    BY <1>1, <1>3 DEF Values
  <2>2. [i \in 1..n |-> p + i] \in Seq(Nat) /\ Len([i \in 1..n |-> p + i]) = n
    BY <1>2
  <2>3. \A i \in 1..n : [j \in 1..n |-> p + j][i] = p + i
    OBVIOUS
  <2> QED
    BY <2>1, <2>2, <2>3
<1>5. PICK u \in Seq(Nat) :
        /\ u = d \o t /\ Len(u) = Len(d) + n /\ Len(d) \in Nat
        /\ \A i \in 1..Len(d) : u[i] = d[i]
        /\ \A i \in 1..n : u[Len(d) + i] = p + i
        /\ \A k \in 1..(Len(d) + n) :
             \/ k \in 1..Len(d)
             \/ k - Len(d) \in 1..n /\ k = Len(d) + (k - Len(d))
  <2>2. /\ \A i \in 1..Len(t) : (d \o t)[Len(d) + i] = t[i]
        /\ d \o t \in Seq(Nat) /\ Len(d \o t) = Len(d) + Len(t)
    BY Joined
  <2>1. /\ d \o t \in Seq(Nat) /\ Len(d \o t) = Len(d) + n /\ Len(d) \in Nat
        /\ \A i \in 1..Len(d) : (d \o t)[i] = d[i]
        /\ \A i \in 1..n : (d \o t)[Len(d) + i] = p + i
        /\ \A k \in 1..(Len(d) + n) :
             \/ k \in 1..Len(d)
             \/ k - Len(d) \in 1..n /\ k = Len(d) + (k - Len(d))
    BY <1>4, <2>2, Joined
  <2> QED
    BY <2>1
<1>6. PICK x \in 0..y : Ahead(w, P, y, x) /\ \A i \in 1..Len(d) : d[i] <= x
  BY DEF ReadInOrder
<1>7. x <= p /\ x \in Nat
  BY <1>1, <1>6
<1>8. \A i \in 1..Len(d) : d[i] \in Nat /\ d[i] <= p
  BY <1>6, <1>7
<1>9. ASSUME NEW k \in 1..Len(u) PROVE u[k] <= p + n
  <2>1. CASE k \in 1..Len(d)
    BY SMTT(30), <1>2, <1>5, <1>8, <2>1
  <2>2. ASSUME NEW i \in 1..n, k = Len(d) + i PROVE u[k] <= p + n
    BY <1>2, <1>5, <2>2
  <2> QED
    BY <1>5, <2>1, <2>2
<1>10. ASSUME NEW k \in 1..Len(u), NEW l \in 1..Len(u), k < l PROVE u[k] < u[l]
  <2>1. CASE l \in 1..Len(d)
    <3>1. k \in 1..Len(d)
      BY <1>5, <1>10, <2>1
    <3> QED
      BY <1>5, <1>10, <2>1, <3>1 DEF ReadInOrder
  <2>2. ASSUME NEW j \in 1..n, l = Len(d) + j PROVE u[k] < u[l]
    <3>1. u[l] = p + j
      BY <1>5, <2>2
    <3>2. CASE k \in 1..Len(d)
      <4>1. u[k] = d[k] /\ d[k] \in Nat /\ d[k] <= p
        BY <1>5, <1>8, <3>2
      <4>2. p < p + j
        OBVIOUS
      <4> QED
        BY SMTT(30), <3>1, <4>1, <4>2
    <3>3. ASSUME NEW i \in 1..n, k = Len(d) + i PROVE u[k] < u[l]
      <4>1. u[k] = p + i /\ i < j
        BY SMTT(30), <1>5, <1>10, <2>2, <3>3
      <4> QED
        BY <3>1, <4>1
    <3> QED
      BY <1>5, <3>2, <3>3
  <2> QED
    BY <1>5, <2>1, <2>2
<1>11. w.frames = <<>> /\ Len(w.frames) = 0 /\ 1..Len(w.frames) = {}
  BY DEF Divided
<1>12. ReadInOrder(w, Q, y, u, <<>>)
  BY <1>1, <1>9, <1>10, <1>11 DEF ReadInOrder
<1> QED
  BY <1>1, <1>4, <1>5, <1>12

\* The k bytes of frame f after number h.
BytesFrom(f, h, k) == [j \in 1..k |-> <<f, h + j>>]

\* They are bytes.
LEMMA BytesFromTypes ==
  ASSUME NEW f \in Nat, NEW h \in Nat, NEW k \in Nat
  PROVE  BytesFrom(f, h, k) \in Seq(Byte) /\ Len(BytesFrom(f, h, k)) = k
<1>1. \A j \in 1..k : <<f, h + j>> \in Byte
  BY DEF Byte
<1> QED
  BY <1>1 DEF BytesFrom

\* What follows the length field of frame f, and its plaintext.
BodyOf(w, f) == [j \in 1..(Overhead + w.frames[f].size) |-> <<f, LengthSize + j>>]
PayloadOf(w, f) == [i \in 1..w.frames[f].size |-> w.frames[f].first + i - 1]

\* The plaintext of a frame continues that of the frames before it.
LEMMA PayloadNumbers ==
  ASSUME NEW w \in Writing, Divided(w), NEW f \in 1..Len(w.frames)
  PROVE  \E p \in Nat, z \in Nat \ {0} :
           /\ p = Lead(w, f - 1) /\ z = w.frames[f].size /\ p + z = Lead(w, f)
           /\ PayloadOf(w, f) = [i \in 1..z |-> p + i]
<1>1. PICK p \in Nat, z \in Nat \ {0} : p = Lead(w, f - 1) /\ z = w.frames[f].size
  BY FrameStep, LeadTypes
<1>2. Lead(w, f) = p + z /\ w.frames[f].first = p + 1
  BY <1>1, FrameStep
<1>3. \A i \in 1..z : (p + 1) + i - 1 = p + i
  OBVIOUS
<1> QED
  BY <1>1, <1>2, <1>3 DEF PayloadOf

\* The reader opens frame f: it had all of it and nothing after it.
LEMMA OrderBody ==
  ASSUME NEW w \in Writing, Divided(w), w.crypt = "chacha20", NEW P, NEW y \in Nat,
         NEW d \in Seq(Nat), NEW f \in 1..Len(w.frames),
         ReadInOrder(w, P, y, d, BodyOf(w, f))
  PROVE  ReadInOrder(w, P, y, d \o PayloadOf(w, f), <<>>)
<1>1. PICK p \in Nat, z \in Nat \ {0} :
        /\ p = Lead(w, f - 1) /\ z = w.frames[f].size /\ p + z = Lead(w, f)
        /\ PayloadOf(w, f) = [i \in 1..z |-> p + i]
  BY PayloadNumbers
<1>2. PICK K \in Nat \ {0} : K = Overhead + z
  BY Sizes
<1>3. /\ f \in Nat /\ f - 1 \in 0..Len(w.frames) /\ f \in 0..Len(w.frames)
      /\ Place(w, f - 1) \in Nat /\ Place(w, f) \in Nat /\ LengthSize \in Nat
      /\ Place(w, f) = Place(w, f - 1) + (LengthSize + K)
  <2>1. /\ f \in Nat /\ f - 1 \in 0..Len(w.frames) /\ f \in 0..Len(w.frames)
        /\ Place(w, f) = Place(w, f - 1) + (LengthSize + Overhead + z)
    BY <1>1, FrameStep
  <2>2. LengthSize + Overhead + z = LengthSize + K /\ LengthSize \in Nat
    BY <1>2, Sizes
  <2> QED
    BY <2>1, <2>2, LeadTypes
<1>4. PICK a \in Seq(Byte) : /\ a = BodyOf(w, f) /\ Len(a) = K
                             /\ \A j \in 1..K : a[j] = <<f, LengthSize + j>>
  <2>1. BodyOf(w, f) = BytesFrom(f, LengthSize, K)
    BY <1>1, <1>2 DEF BodyOf, BytesFrom
  <2>2. BytesFrom(f, LengthSize, K) \in Seq(Byte) /\ Len(BytesFrom(f, LengthSize, K)) = K
    BY <1>3, BytesFromTypes
  <2>9. \A j \in 1..K : BytesFrom(f, LengthSize, K)[j] = <<f, LengthSize + j>>
    BY DEF BytesFrom
  <2> QED
    BY <2>1, <2>2, <2>9
<1>5. PICK x \in 0..y :
        /\ Ahead(w, P, y, x)
        /\ \A k \in 1..Len(a) : Rank(w, a[k]) <= x
        /\ \E m \in 0..Len(w.frames) :
             /\ Place(w, m) <= x /\ \A i \in 1..Len(d) : d[i] <= Lead(w, m)
             /\ \A k \in 1..Len(a) : Place(w, m) < Rank(w, a[k])
  BY <1>4 DEF ReadInOrder
<1>6. PICK m \in 0..Len(w.frames) :
        /\ \A i \in 1..Len(d) : d[i] <= Lead(w, m)
        /\ \A k \in 1..Len(a) : Place(w, m) < Rank(w, a[k])
  BY <1>5
<1>7. \A j \in 1..K : Rank(w, a[j]) = Place(w, f - 1) + (LengthSize + j)
  BY <1>4 DEF Rank
<1>8. Place(w, f) <= x
  <2>1. K \in 1..K
    BY <1>2
  <2> QED
    BY <1>3, <1>4, <1>5, <1>7, <2>1
<1>9. m <= f - 1
  <2>1. 1 \in 1..K /\ Overhead \in Nat \ {0} /\ z \in Nat \ {0} /\ 1 < K
    BY <1>2, Sizes
  <2>2. Place(w, m) < Place(w, f - 1) + (LengthSize + 1)
    BY <1>4, <1>6, <1>7, <2>1
  <2>3. Place(w, m) \in Nat /\ m \in Nat
    BY LeadTypes
  <2>4. Place(w, m) < Place(w, f)
    BY <1>2, <1>3, <2>1, <2>2, <2>3
  <2>5. ~(f <= m)
    <3>1. f <= m => Place(w, f) <= Place(w, m)
      BY <1>3, PlaceOrder
    <3> QED
      BY <1>3, <2>3, <2>4, <3>1
  <2> QED
    BY <1>3, <2>3, <2>5
<1>10. \A i \in 1..Len(d) : d[i] \in Nat /\ d[i] <= p
  <2>1. Lead(w, m) <= p
    BY <1>1, <1>3, <1>9, PlaceOrder
  <2>2. Lead(w, m) \in Nat
    BY LeadTypes
  <2> QED
    BY <1>6, <2>1, <2>2
<1>11. PICK u \in Seq(Nat) :
         /\ u = d \o PayloadOf(w, f) /\ Len(u) = Len(d) + z /\ Len(d) \in Nat
         /\ \A i \in 1..Len(d) : u[i] = d[i]
         /\ \A i \in 1..z : u[Len(d) + i] = p + i
         /\ \A k \in 1..(Len(d) + z) :
              \/ k \in 1..Len(d)
              \/ k - Len(d) \in 1..z /\ k = Len(d) + (k - Len(d))
  <2>1. PICK t \in Seq(Nat) :
          t = PayloadOf(w, f) /\ Len(t) = z /\ \A i \in 1..z : t[i] = p + i
    <3>1. [i \in 1..z |-> p + i] \in Seq(Nat) /\ Len([i \in 1..z |-> p + i]) = z
      OBVIOUS
    <3>2. \A i \in 1..z : [j \in 1..z |-> p + j][i] = p + i
      OBVIOUS
    <3> QED
      BY <1>1, <3>1, <3>2
  <2>2. PICK D \in Nat : D = Len(d)
    OBVIOUS
  <2>3. PICK u \in Seq(Nat) : Joins(u, d, t, D, z)
    BY <1>1, <2>1, <2>2, NumbersJoined
  <2>4. \A i \in 1..z : u[D + i] = p + i
    BY <2>1, <2>3 DEF Joins
  <2> QED
    BY <2>1, <2>2, <2>3, <2>4 DEF Joins
<1>12. ASSUME NEW k \in 1..Len(u)
       PROVE  \/ k \in 1..Len(d) /\ u[k] = d[k] /\ d[k] \in Nat /\ d[k] <= p
              \/ \E i \in 1..z : k = Len(d) + i /\ u[k] = p + i
  <2>1. CASE k \in 1..Len(d)
    BY <1>10, <1>11, <2>1
  <2>2. CASE k - Len(d) \in 1..z /\ k = Len(d) + (k - Len(d))
    <3>1. u[Len(d) + (k - Len(d))] = p + (k - Len(d))
      BY <1>11, <2>2
    <3> QED
      BY <2>2, <3>1
  <2> QED
    BY <1>11, <2>1, <2>2
<1>13. ASSUME NEW k \in 1..Len(u) PROVE u[k] <= p + z
  <2>1. ASSUME d[k] \in Nat, d[k] <= p PROVE d[k] <= p + z
    BY <2>1
  <2>2. \A i \in 1..z : p + i <= p + z
    OBVIOUS
  <2> QED
    BY <1>12, <2>1, <2>2, Zenon
<1>14. ASSUME NEW k \in 1..Len(u), NEW l \in 1..Len(u), k < l PROVE u[k] < u[l]
  <2>1. CASE l \in 1..Len(d)
    <3>1. k \in 1..Len(d)
      BY <1>11, <1>14, <2>1
    <3> QED
      BY <1>11, <1>14, <2>1, <3>1 DEF ReadInOrder
  <2>2. ASSUME NEW j \in 1..z, l = Len(d) + j, u[l] = p + j PROVE u[k] < u[l]
    <3>1. CASE k \in 1..Len(d) /\ u[k] = d[k] /\ d[k] \in Nat /\ d[k] <= p
      <4>1. p < p + j
        BY <1>1
      <4> QED
        BY SMTT(30), <2>2, <3>1, <4>1
    <3>2. ASSUME NEW i \in 1..z, k = Len(d) + i, u[k] = p + i PROVE u[k] < u[l]
      <4>1. i < j
        BY <1>11, <1>14, <2>2, <3>2
      <4> QED
        BY <1>1, <2>2, <3>2, <4>1
    <3> QED
      BY <1>12, <3>1, <3>2
  <2> QED
    BY <1>12, <2>1, <2>2
<1>15. ASSUME NEW g \in 1..Len(w.frames), NEW i \in 1..Len(u),
              u[i] \in (Lead(w, g - 1) + 1)..Lead(w, g),
              NEW v \in (Lead(w, g - 1) + 1)..Lead(w, g)
       PROVE  \E j \in 1..Len(u) : u[j] = v
  <2>1. CASE i \in 1..Len(d) /\ u[i] = d[i]
    <3>1. PICK j \in 1..Len(d) : d[j] = v
      BY <1>15, <2>1 DEF ReadInOrder
    <3>2. j \in 1..Len(u) /\ u[j] = d[j]
      BY <1>11
    <3> QED
      BY <3>1, <3>2
  <2>2. ASSUME NEW k \in 1..z, u[i] = p + k
        PROVE  \E j \in 1..Len(u) : u[j] = v
    <3>1. /\ g \in Nat /\ g - 1 \in 0..Len(w.frames) /\ g \in 0..Len(w.frames)
          /\ Lead(w, g - 1) \in Nat /\ Lead(w, g) \in Nat
      BY FrameStep, LeadTypes
    <3>2. p < u[i] /\ u[i] <= p + z /\ u[i] \in Nat
      <4>1. p < p + k /\ p + k <= p + z /\ p + k \in Nat
        OBVIOUS
      <4> QED
        BY <2>2, <4>1
    <3>3. Lead(w, g - 1) < u[i] /\ u[i] <= Lead(w, g)
      BY SMTT(30), <1>15, <3>1, <3>2
    <3>4. ~(g < f)
      <4>1. g < f => g <= f - 1
        BY <1>3, <3>1
      <4>2. g < f => Lead(w, g) <= p
        BY <1>1, <1>3, <3>1, <4>1, PlaceOrder
      <4> QED
        BY SMTT(30), <1>1, <3>1, <3>2, <3>3, <4>2
    <3>5. ~(f < g)
      <4>1. f < g => f <= g - 1
        BY <1>3, <3>1
      <4>2. f < g => Lead(w, f) <= Lead(w, g - 1)
        BY <1>3, <3>1, <4>1, PlaceOrder
      <4>3. u[i] <= Lead(w, f) /\ Lead(w, f) \in Nat
        BY <1>1, <1>3, <3>2, LeadTypes
      <4> QED
        BY SMTT(30), <3>1, <3>2, <3>3, <4>2, <4>3
    <3>6. f = g
      BY <1>3, <3>1, <3>4, <3>5
    <3>7. v \in (p + 1)..(p + z)
      BY <1>1, <3>6
    <3>8. v - p \in 1..z /\ p + (v - p) = v
      BY <3>7
    <3>9. PICK q \in 1..z : p + q = v
      BY <3>8
    <3>10. Len(u) = Len(d) + z /\ Len(d) \in Nat /\ u[Len(d) + q] = p + q
      BY <1>11
    <3>11. Len(d) + q \in 1..Len(u)
      BY <3>10
    <3> QED
      BY <3>9, <3>10, <3>11
  <2> QED
    BY <1>12, <2>1, <2>2
<1>16. ReadInOrder(w, P, y, u, <<>>)
  <2>1. /\ x \in 0..y /\ Ahead(w, P, y, x) /\ Place(w, f) <= x
        /\ f \in 0..Len(w.frames) /\ \A i \in 1..Len(u) : u[i] <= Lead(w, f)
    BY <1>1, <1>3, <1>5, <1>8, <1>13
  <2>2. w.crypt # "none" /\ 1..Len(<<>>) = {}
    OBVIOUS
  <2> QED
    BY <1>14, <1>15, <2>1, <2>2 DEF ReadInOrder
<1> QED
  BY <1>11, <1>16

-----------------------------------------------------------------------------
(* More is written *)

\* What was written stays where it is when w grows to v.
Grows(w, v) ==
  /\ v.crypt = w.crypt
  /\ \A b \in Byte : IsByte(w, b) => IsByte(v, b) /\ Rank(v, b) = Rank(w, b)
  /\ w.crypt = "none" => v.frames = <<>>
  /\ w.crypt = "chacha20" =>
       /\ Len(w.frames) <= Len(v.frames)
       /\ \A n \in 0..Len(w.frames) : Lead(v, n) = Lead(w, n) /\ Place(v, n) = Place(w, n)
       /\ \A f \in 1..Len(w.frames) : v.frames[f] = w.frames[f]
       /\ \A f \in 1..Len(v.frames) : f \in 1..Len(w.frames) \/ w.sent <= Lead(v, f - 1)

\* Bytes are where they were.
LEMMA RunGrown ==
  ASSUME NEW w, NEW v, Grows(w, v), NEW s \in Seq(Byte), NEW x, Run(w, s, x)
  PROVE  Run(v, s, x) /\ (s # <<>> => Start(v, s) = Start(w, s) /\ Stop(v, s) = Stop(w, s))
<1>1. \A i \in 1..Len(s) : s[i] \in Byte /\ IsByte(w, s[i]) /\ Rank(w, s[i]) = x + i
  BY DEF Run
<1>2. \A i \in 1..Len(s) : IsByte(v, s[i]) /\ Rank(v, s[i]) = Rank(w, s[i])
  BY <1>1 DEF Grows
<1>3. Run(v, s, x)
  BY <1>1, <1>2 DEF Run
<1>4. ASSUME s # <<>> PROVE Start(v, s) = Start(w, s) /\ Stop(v, s) = Stop(w, s)
  <2>1. 1 \in 1..Len(s)
    BY <1>4
  <2> QED
    BY <1>2, <2>1 DEF Start, Stop
<1> QED
  BY <1>3, <1>4

\* Pieces are where they were.
LEMMA PiecesGrown ==
  ASSUME NEW w, NEW v, Grows(w, v), NEW P \in Seq(Seq(Byte)), NEW y, InOrder(w, P, y)
  PROVE  /\ InOrder(v, P, y)
         /\ \A x : Ahead(w, P, y, x) => Ahead(v, P, y, x)
         /\ \A x, b : Gapless(w, P, x, y, b) => Gapless(v, P, x, y, b)
<1>1. ASSUME NEW k \in 1..Len(P)
      PROVE  /\ P[k] # <<>> /\ Run(v, P[k], Start(v, P[k])) /\ Stop(v, P[k]) <= y
             /\ Start(v, P[k]) = Start(w, P[k]) /\ Stop(v, P[k]) = Stop(w, P[k])
  <2>1. /\ P[k] \in Seq(Byte) /\ P[k] # <<>> /\ Run(w, P[k], Start(w, P[k]))
        /\ Stop(w, P[k]) <= y
    BY DEF InOrder
  <2>2. /\ Run(v, P[k], Start(w, P[k]))
        /\ Start(v, P[k]) = Start(w, P[k]) /\ Stop(v, P[k]) = Stop(w, P[k])
    BY <2>1, RunGrown
  <2> QED
    BY <2>1, <2>2
<1>2. InOrder(v, P, y)
  BY <1>1 DEF InOrder
<1>3. \A x : Ahead(w, P, y, x) => Ahead(v, P, y, x)
  BY <1>1 DEF Ahead
<1>4. ASSUME NEW x, NEW b, Gapless(w, P, x, y, b) PROVE Gapless(v, P, x, y, b)
  <2>1. ASSUME P # <<>>
        PROVE  Start(v, P[1]) = x /\ (b \/ Stop(v, P[Len(P)]) = y)
    <3>1. 1 \in 1..Len(P) /\ Len(P) \in 1..Len(P)
      BY <2>1
    <3> QED
      BY <1>1, <1>4, <2>1, <3>1 DEF Gapless
  <2>2. ASSUME NEW k \in 1..(Len(P) - 1) PROVE Stop(v, P[k]) = Start(v, P[k + 1])
    <3>1. k \in 1..Len(P) /\ k + 1 \in 1..Len(P)
      OBVIOUS
    <3> QED
      BY <1>1, <1>4, <3>1 DEF Gapless
  <2> QED
    BY <1>4, <2>1, <2>2 DEF Gapless
<1> QED
  BY <1>2, <1>3, <1>4

\* What was read stays in order.
LEMMA OrderGrown ==
  ASSUME NEW w \in Writing, Divided(w), NEW v \in Writing, Divided(v), Grows(w, v),
         NEW P \in Seq(Seq(Byte)), NEW y, InOrder(w, P, y),
         NEW d \in Seq(Nat), NEW a \in Seq(Byte), ReadInOrder(w, P, y, d, a)
  PROVE  ReadInOrder(v, P, y, d, a)
<1>1. PICK x \in 0..y :
        /\ Ahead(w, P, y, x)
        /\ \A k \in 1..Len(a) : IsByte(w, a[k]) /\ Rank(w, a[k]) <= x
        /\ IF w.crypt = "none" THEN \A i \in 1..Len(d) : d[i] <= x
           ELSE \E n \in 0..Len(w.frames) :
                  /\ Place(w, n) <= x /\ \A i \in 1..Len(d) : d[i] <= Lead(w, n)
                  /\ \A k \in 1..Len(a) : Place(w, n) < Rank(w, a[k])
  BY DEF ReadInOrder
<1>2. Ahead(v, P, y, x)
  BY <1>1, PiecesGrown
<1>3. \A k \in 1..Len(a) : IsByte(v, a[k]) /\ Rank(v, a[k]) = Rank(w, a[k])
  BY <1>1 DEF Grows
<1>4. CASE w.crypt = "none"
  <2>1. v.crypt = "none" /\ v.frames = <<>> /\ 1..Len(v.frames) = {}
    BY <1>4 DEF Grows
  <2> QED
    BY <1>1, <1>2, <1>3, <1>4, <2>1 DEF ReadInOrder
<1>5. CASE w.crypt = "chacha20"
  <2>1. /\ v.crypt = "chacha20" /\ Len(w.frames) <= Len(v.frames)
        /\ \A n \in 0..Len(w.frames) : Lead(v, n) = Lead(w, n) /\ Place(v, n) = Place(w, n)
        /\ \A f \in 1..Len(v.frames) : f \in 1..Len(w.frames) \/ w.sent <= Lead(v, f - 1)
        /\ Len(w.frames) \in Nat /\ Len(v.frames) \in Nat /\ w.sent \in Nat
    <3>1. Len(w.frames) \in Nat /\ Len(v.frames) \in Nat /\ w.sent \in Nat
      BY DEF Writing
    <3> QED
      BY <1>5, <3>1 DEF Grows
  <2>2. PICK n \in 0..Len(w.frames) :
          /\ Place(w, n) <= x /\ \A i \in 1..Len(d) : d[i] <= Lead(w, n)
          /\ \A k \in 1..Len(a) : Place(w, n) < Rank(w, a[k])
    BY <1>1, <1>5
  <2>3. n \in 0..Len(v.frames)
    BY <2>1
  <2>4. \A i \in 1..Len(d) : d[i] \in Nat /\ d[i] <= w.sent
    <3>1. Len(w.frames) \in 0..Len(w.frames) /\ n <= Len(w.frames)
      BY <2>1
    <3>2. Lead(w, n) <= Lead(w, Len(w.frames)) /\ Lead(w, n) \in Nat
      BY <3>1, LeadTypes, PlaceOrder
    <3>3. Lead(w, Len(w.frames)) = w.sent
      BY <2>1 DEF Lead
    <3> QED
      BY <2>1, <2>2, <3>2, <3>3
  <2>5. ASSUME NEW f \in 1..Len(v.frames), NEW i \in 1..Len(d),
               d[i] \in (Lead(v, f - 1) + 1)..Lead(v, f),
               NEW u \in (Lead(v, f - 1) + 1)..Lead(v, f)
        PROVE  \E j \in 1..Len(d) : d[j] = u
    <3>1. /\ f \in 0..Len(v.frames) /\ f - 1 \in 0..Len(v.frames)
          /\ Lead(v, f - 1) \in Nat /\ Lead(v, f) \in Nat
      BY FrameStep, LeadTypes
    <3>2. f \in 1..Len(w.frames)
      <4>1. ~(w.sent <= Lead(v, f - 1))
        BY SMTT(30), <2>1, <2>4, <2>5, <3>1
      <4> QED
        BY <2>1, <4>1
    <3>3. f \in 0..Len(w.frames) /\ f - 1 \in 0..Len(w.frames)
      BY <3>2, FrameStep
    <3>4. Lead(v, f) = Lead(w, f) /\ Lead(v, f - 1) = Lead(w, f - 1)
      BY <2>1, <3>3
    <3> QED
      BY <2>5, <3>2, <3>4 DEF ReadInOrder
  <2>6. /\ Place(v, n) <= x /\ \A i \in 1..Len(d) : d[i] <= Lead(v, n)
        /\ \A k \in 1..Len(a) : Place(v, n) < Rank(v, a[k])
    BY <1>3, <2>1, <2>2
  <2>7. \A i, j \in 1..Len(d) : i < j => d[i] < d[j]
    BY DEF ReadInOrder
  <2>8. \A k \in 1..Len(a) : IsByte(v, a[k]) /\ Rank(v, a[k]) <= x
    BY <1>1, <1>3
  <2>9. v.crypt # "none"
    BY <2>1
  <2> QED
    BY <1>2, <2>3, <2>5, <2>6, <2>7, <2>8, <2>9 DEF ReadInOrder
<1> QED
  BY <1>4, <1>5 DEF Writing

\* Nothing more is missing.
LEMMA MissingGrown ==
  ASSUME NEW w \in Writing, NEW v \in Writing, Grows(w, v),
         NEW P \in Seq(Seq(Byte)), NEW y, InOrder(w, P, y), NEW b, NEW d,
         NEW a \in Seq(Byte), NEW r, NEW l, NothingMissing(w, P, y, b, d, a, r, l)
  PROVE  NothingMissing(v, P, y, b, d, a, r, l)
<1>1. /\ \A x : Gapless(w, P, x, y, b) => Gapless(v, P, x, y, b)
      /\ \A x : Run(w, a, x) => Run(v, a, x)
      /\ (\A i \in 1..Len(d) : d[i] = i) /\ r # "corrupt" /\ v.crypt = w.crypt
  BY PiecesGrown, RunGrown DEF NothingMissing, Grows
<1>2. w.crypt = "none" /\ r # "eof" => Gapless(v, P, Len(d), y, b)
  BY <1>1 DEF NothingMissing
<1>3. ASSUME w.crypt = "chacha20", r # "eof"
      PROVE  \E n \in 0..Len(v.frames) :
               LET z == Place(v, n) + (IF r = "body" THEN LengthSize ELSE 0) IN
               /\ Len(d) = Lead(v, n)
               /\ Run(v, a, z) /\ Gapless(v, P, z + Len(a), y, b)
               /\ r = "body" => n < Len(v.frames) /\ l = Overhead + v.frames[n + 1].size
  <2>1. PICK n \in 0..Len(w.frames) :
          LET z == Place(w, n) + (IF r = "body" THEN LengthSize ELSE 0) IN
          /\ Len(d) = Lead(w, n)
          /\ Run(w, a, z) /\ Gapless(w, P, z + Len(a), y, b)
          /\ r = "body" => n < Len(w.frames) /\ l = Overhead + w.frames[n + 1].size
    BY <1>3 DEF NothingMissing
  <2>2. /\ n \in 0..Len(v.frames) /\ Lead(v, n) = Lead(w, n) /\ Place(v, n) = Place(w, n)
        /\ Len(w.frames) <= Len(v.frames) /\ n \in Nat
        /\ Len(w.frames) \in Nat /\ Len(v.frames) \in Nat
    BY <1>3 DEF Grows, Writing
  <2>3. ASSUME r = "body"
        PROVE  n < Len(v.frames) /\ l = Overhead + v.frames[n + 1].size
    <3>1. n + 1 \in 1..Len(w.frames) /\ n < Len(v.frames)
      BY <2>1, <2>2, <2>3
    <3>2. v.frames[n + 1] = w.frames[n + 1]
      BY <1>3, <3>1 DEF Grows
    <3> QED
      BY <2>1, <2>3, <3>1, <3>2
  <2> QED
    BY <1>1, <2>1, <2>2, <2>3
<1> QED
  BY <1>1, <1>2, <1>3 DEF NothingMissing

\* Write without encryption: k bytes more.
LEMMA PlainGrows ==
  ASSUME NEW w \in Writing, Divided(w), w.crypt = "none", NEW k \in Nat \ {0},
         NEW v, v = [crypt |-> w.crypt, frames |-> w.frames, sent |-> w.sent + k]
  PROVE  /\ v \in Writing /\ Divided(v) /\ Grows(w, v) /\ Total(v) = Total(w) + k
         /\ Total(w) \in Nat /\ Total(w) = w.sent
<1>1. /\ w.frames = <<>> /\ Len(w.frames) = 0 /\ w.sent \in Nat /\ w.sent + k \in Nat
      /\ v.crypt = "none" /\ v.frames = <<>> /\ v.sent = w.sent + k /\ Len(v.frames) = 0
  BY DEF Writing, Divided
<1>2. v \in Writing
  BY <1>1 DEF Writing
<1>3. /\ Lead(w, 0) = w.sent /\ Lead(v, 0) = w.sent + k
      /\ Total(w) = w.sent + 0 * (LengthSize + Overhead)
      /\ Total(v) = (w.sent + k) + 0 * (LengthSize + Overhead)
  BY <1>1 DEF Lead, Total, Place
<1>4. 0 * (LengthSize + Overhead) = 0
  BY Sizes
<1>5. Divided(v)
  <2>1. 1..Len(v.frames) = {} /\ 0..Len(v.frames) = {0}
    BY <1>1
  <2> QED
    BY <1>1, <1>3, <2>1 DEF Divided
<1>6. ASSUME NEW b \in Byte, IsByte(w, b) PROVE IsByte(v, b) /\ Rank(v, b) = Rank(w, b)
  <2>1. b[2] \in Nat
    BY DEF Byte
  <2> QED
    BY <1>1, <1>6, <2>1 DEF IsByte, Rank
<1>7. Grows(w, v)
  BY <1>1, <1>6 DEF Grows
<1> QED
  BY <1>1, <1>2, <1>3, <1>4, <1>5, <1>7

\* writeFrame: a frame of k bytes more.
LEMMA FrameGrows ==
  ASSUME NEW w \in Writing, Divided(w), w.crypt = "chacha20", NEW k \in Nat \ {0},
         k <= maxPayload,
         NEW v, v = [crypt |-> w.crypt, sent |-> w.sent + k,
                     frames |-> Append(w.frames, [first |-> w.sent + 1, size |-> k])]
  PROVE  /\ v \in Writing /\ Divided(v) /\ Grows(w, v)
         /\ Total(w) \in Nat /\ Total(v) = Total(w) + (LengthSize + Overhead + k)
         /\ Len(v.frames) = Len(w.frames) + 1 /\ Len(w.frames) \in Nat
         /\ v.frames[Len(w.frames) + 1].size = k
         /\ Place(v, Len(w.frames)) = Total(w)
<1>1. PICK e \in Frame : e = [first |-> w.sent + 1, size |-> k]
  <2>1. w.sent + 1 \in Nat \ {0}
    BY DEF Writing
  <2> QED
    BY <2>1 DEF Frame
<1>2. PICK F \in Seq(Frame) : F = w.frames
  BY DEF Writing
<1>3. PICK N \in Nat : N = Len(F)
  OBVIOUS
<1>4. PICK G \in Seq(Frame) :
        /\ G = Append(F, e) /\ Len(G) = N + 1
        /\ \A i \in 1..N : G[i] = F[i]
        /\ G[N + 1] = e
  <2>1. /\ Append(F, e) \in Seq(Frame) /\ Len(Append(F, e)) = N + 1
        /\ \A i \in 1..N : Append(F, e)[i] = F[i]
        /\ Append(F, e)[N + 1] = e
    BY <1>3, Appended
  <2> QED
    BY <2>1
<1>5. /\ v.frames = G /\ w.sent \in Nat /\ v.sent = w.sent + k /\ v.crypt = "chacha20"
      /\ w.sent + k \in Nat
  BY <1>1, <1>2, <1>4 DEF Writing
<1>6. v \in Writing
  BY <1>1, <1>2, <1>4, <1>5 DEF Writing
<1>7. ASSUME NEW n \in 0..N PROVE Lead(v, n) = Lead(w, n) /\ Place(v, n) = Place(w, n)
  <2>1. n < N + 1 /\ n + 1 \in 1..(N + 1)
    OBVIOUS
  <2>2. Lead(v, n) = G[n + 1].first - 1
    BY <1>4, <1>5, <2>1 DEF Lead
  <2>3. CASE n < N
    <3>1. n + 1 \in 1..N
      BY <2>3
    <3>2. Lead(w, n) = F[n + 1].first - 1
      BY <1>2, <1>3, <2>3 DEF Lead
    <3> QED
      BY <1>4, <2>2, <3>1, <3>2 DEF Place
  <2>4. CASE n = N
    <3>1. Lead(w, n) = w.sent
      BY <1>2, <1>3, <2>4 DEF Lead
    <3>2. G[n + 1].first - 1 = w.sent
      BY <1>1, <1>4, <1>5, <2>4
    <3> QED
      BY <2>2, <3>1, <3>2 DEF Place
  <2> QED
    BY <2>3, <2>4
<1>8. Lead(v, N + 1) = w.sent + k
  BY <1>4, <1>5 DEF Lead
<1>9. Lead(w, N) = w.sent
  BY <1>2, <1>3 DEF Lead
<1>10. Divided(v)
  <2>1. Lead(v, 0) = 0
    <3>1. 0 \in 0..N
      OBVIOUS
    <3> QED
      BY <1>7, <3>1 DEF Divided
  <2>2. ASSUME NEW f \in 1..(N + 1)
        PROVE  G[f].size <= maxPayload /\ Lead(v, f) = Lead(v, f - 1) + G[f].size
    <3>1. CASE f \in 1..N
      <4>1. f \in 0..N /\ f - 1 \in 0..N /\ f \in 1..Len(w.frames)
        BY <1>2, <1>3, <3>1
      <4>2. w.frames[f].size <= maxPayload /\ Lead(w, f) = Lead(w, f - 1) + w.frames[f].size
        BY <4>1 DEF Divided
      <4>3. G[f] = w.frames[f]
        BY <1>2, <1>4, <3>1
      <4> QED
        BY <1>7, <4>1, <4>2, <4>3
    <3>2. CASE f = N + 1
      <4>1. f - 1 = N /\ N \in 0..N
        BY <3>2
      <4>2. Lead(v, f - 1) = w.sent
        BY <1>7, <1>9, <4>1
      <4>3. G[f].size = k
        BY <1>1, <1>4, <3>2
      <4> QED
        BY <1>8, <3>2, <4>2, <4>3
    <3> QED
      BY <3>1, <3>2
  <2>3. ASSUME NEW m \in 0..(N + 1), NEW n \in 0..(N + 1), m <= n
        PROVE  Lead(v, m) <= Lead(v, n)
    <3>1. CASE n \in 0..N
      <4>1. m \in 0..N
        BY <2>3, <3>1
      <4>2. Lead(w, m) <= Lead(w, n)
        BY <1>2, <1>3, <2>3, <3>1, <4>1 DEF Divided
      <4> QED
        BY <1>7, <3>1, <4>1, <4>2
    <3>2. CASE n = N + 1 /\ m \in 0..N
      <4>1. m <= N /\ N \in 0..N
        BY <3>2
      <4>2. Lead(w, m) <= Lead(w, N) /\ Lead(w, m) \in Nat
        BY <1>2, <1>3, <3>2, <4>1, LeadTypes, PlaceOrder
      <4>3. w.sent <= w.sent + k
        BY <1>5
      <4>4. Lead(v, m) = Lead(w, m) /\ Lead(v, n) = w.sent + k
        BY <1>7, <1>8, <3>2
      <4> QED
        BY <1>5, <1>9, <4>2, <4>3, <4>4
    <3>3. CASE n = N + 1 /\ m = N + 1
      BY <1>5, <1>8, <3>3
    <3>4. (n \in 0..N \/ n = N + 1) /\ (m \in 0..N \/ m = N + 1)
      OBVIOUS
    <3> QED
      BY <3>1, <3>2, <3>3, <3>4
  <2>4. Len(v.frames) = N + 1 /\ v.crypt # "none"
    BY <1>4, <1>5
  <2> QED
    BY <1>5, <2>1, <2>2, <2>3, <2>4 DEF Divided
<1>11. ASSUME NEW b \in Byte, IsByte(w, b) PROVE IsByte(v, b) /\ Rank(v, b) = Rank(w, b)
  <2>1. /\ b[1] \in 1..N /\ b[2] <= LengthSize + Overhead + F[b[1]].size
    BY <1>2, <1>3, <1>11 DEF IsByte
  <2>2. b[1] \in 1..(N + 1) /\ b[1] - 1 \in 0..N
    BY <2>1
  <2>3. IsByte(v, b)
    BY <1>4, <1>5, <2>1, <2>2 DEF IsByte
  <2>4. Rank(v, b) = Rank(w, b)
    BY <1>5, <1>7, <2>2 DEF Rank
  <2> QED
    BY <2>3, <2>4
<1>12. Grows(w, v)
  <2>1. N <= N + 1
    OBVIOUS
  <2>2. ASSUME NEW f \in 1..(N + 1) PROVE f \in 1..N \/ w.sent <= Lead(v, f - 1)
    <3>1. CASE f = N + 1
      <4>1. f - 1 = N /\ N \in 0..N
        BY <3>1
      <4>2. Lead(v, f - 1) = w.sent
        BY <1>7, <1>9, <4>1
      <4> QED
        BY <1>5, <4>2
    <3>2. f \in 1..N \/ f = N + 1
      OBVIOUS
    <3> QED
      BY <3>1, <3>2
  <2>3. Len(w.frames) = N /\ Len(v.frames) = N + 1
    BY <1>2, <1>3, <1>4, <1>5
  <2>4. \A f \in 1..N : v.frames[f] = w.frames[f]
    BY <1>2, <1>4, <1>5
  <2> QED
    BY <1>5, <1>7, <1>11, <2>1, <2>2, <2>3, <2>4 DEF Grows
<1>13. Total(w) \in Nat /\ Place(v, N) = Total(w)
  <2>1. N \in 0..N /\ N \in 0..Len(w.frames)
    BY <1>2, <1>3
  <2>2. Place(w, N) = Total(w)
    BY <1>2, <1>3 DEF Total
  <2> QED
    BY <1>7, <2>1, <2>2, LeadTypes
<1>14. Total(v) = Total(w) + (LengthSize + Overhead + k)
  <2>1. N + 1 \in 1..Len(v.frames) /\ (N + 1) - 1 = N /\ Len(v.frames) = N + 1
    BY <1>4, <1>5
  <2>2. Place(v, N + 1) = Place(v, (N + 1) - 1) + (LengthSize + Overhead + v.frames[N + 1].size)
    BY <1>6, <1>10, <2>1, FrameStep
  <2>3. v.frames[N + 1].size = k
    BY <1>1, <1>4, <1>5
  <2> QED
    BY <1>13, <2>1, <2>2, <2>3 DEF Total
<1> QED
  BY <1>1, <1>2, <1>3, <1>4, <1>5, <1>6, <1>10, <1>12, <1>13, <1>14

\* What Write puts on the wire without encryption.
LEMMA PlainRun ==
  ASSUME NEW w \in Writing, Divided(w), w.crypt = "none", NEW k \in Nat \ {0},
         NEW v, v = [crypt |-> w.crypt, frames |-> w.frames, sent |-> w.sent + k]
  PROVE  /\ [i \in 1..k |-> <<0, w.sent + i>>] \in Seq(Byte)
         /\ Len([i \in 1..k |-> <<0, w.sent + i>>]) = k
         /\ Run(v, [i \in 1..k |-> <<0, w.sent + i>>], Total(w))
<1>1. PICK n \in Nat : n = w.sent
  BY DEF Writing
<1>2. Total(w) = n
  BY <1>1, PlainGrows
<1>3. \A i \in 1..k : <<0, n + i>> \in Byte
  BY DEF Byte
<1>4. PICK s \in Seq(Byte) : /\ s = [i \in 1..k |-> <<0, n + i>>] /\ Len(s) = k
                             /\ \A i \in 1..k : s[i] = <<0, n + i>>
  <2>1. /\ [i \in 1..k |-> <<0, n + i>>] \in Seq(Byte)
        /\ Len([i \in 1..k |-> <<0, n + i>>]) = k
    BY <1>3
  <2>2. \A i \in 1..k : [j \in 1..k |-> <<0, n + j>>][i] = <<0, n + i>>
    OBVIOUS
  <2> QED
    BY <2>1, <2>2
<1>5. \A i \in 1..k : n + i <= n + k
  OBVIOUS
<1>6. Run(v, s, n)
  BY <1>1, <1>4, <1>5 DEF Run, IsByte, Rank
<1> QED
  BY <1>1, <1>2, <1>4, <1>6

\* The length field of frame f.
HeaderOf(f) == [j \in 1..LengthSize |-> <<f, j>>]

\* What writeFrame puts on the wire.
FrameOf(f, k) == HeaderOf(f) \o [j \in 1..(Overhead + k) |-> <<f, LengthSize + j>>]

\* It is what the frame says.
LEMMA FrameRun ==
  ASSUME NEW w \in Writing, Divided(w), w.crypt = "chacha20", NEW k \in Nat \ {0},
         k <= maxPayload, NEW f, f = Len(w.frames) + 1,
         NEW v, v = [crypt |-> w.crypt, sent |-> w.sent + k,
                     frames |-> Append(w.frames, [first |-> w.sent + 1, size |-> k])],
         NEW s, s = FrameOf(f, k)
  PROVE  s \in Seq(Byte) /\ Len(s) = LengthSize + Overhead + k /\ Run(v, s, Total(w))
<1>1. PICK N \in Nat : N = Len(w.frames)
  BY DEF Writing
<1>2. /\ v \in Writing /\ Divided(v) /\ Total(w) \in Nat /\ Len(v.frames) = N + 1
      /\ v.frames[N + 1].size = k /\ Place(v, N) = Total(w)
  BY <1>1, FrameGrows
<1>3. PICK H \in Nat, K \in Nat :
        /\ H = LengthSize /\ K = Overhead + k /\ LengthSize + Overhead + k = H + K
  BY Sizes
<1>4. f = N + 1 /\ f \in Nat /\ f - 1 = N /\ f \in 1..Len(v.frames)
  BY <1>1, <1>2
<1>5. PICK h \in Seq(Byte) : h = HeaderOf(f) /\ Len(h) = H /\ \A j \in 1..H : h[j] = <<f, j>>
  <2>1. HeaderOf(f) = BytesFrom(f, 0, H)
    BY <1>3 DEF HeaderOf, BytesFrom
  <2>2. \A j \in 1..H : 0 + j = j
    OBVIOUS
  <2>3. BytesFrom(f, 0, H) \in Seq(Byte) /\ Len(BytesFrom(f, 0, H)) = H
    BY <1>4, BytesFromTypes
  <2>9. \A j \in 1..H : BytesFrom(f, 0, H)[j] = <<f, 0 + j>>
    BY DEF BytesFrom
  <2> QED
    BY <2>1, <2>2, <2>3, <2>9
<1>6. PICK g \in Seq(Byte) : /\ g = [j \in 1..(Overhead + k) |-> <<f, LengthSize + j>>]
                             /\ Len(g) = K /\ \A j \in 1..K : g[j] = <<f, H + j>>
  <2>1. [j \in 1..(Overhead + k) |-> <<f, LengthSize + j>>] = BytesFrom(f, H, K)
    BY <1>3 DEF BytesFrom
  <2>2. BytesFrom(f, H, K) \in Seq(Byte) /\ Len(BytesFrom(f, H, K)) = K
    BY <1>4, BytesFromTypes
  <2>9. \A j \in 1..K : BytesFrom(f, H, K)[j] = <<f, H + j>>
    BY DEF BytesFrom
  <2> QED
    BY <2>1, <2>2, <2>9
<1>7. PICK u \in Seq(Byte) :
        /\ u = s /\ Len(u) = H + K
        /\ \A i \in 1..H : u[i] = h[i]
        /\ \A i \in 1..K : u[H + i] = g[i]
        /\ \A i \in 1..(H + K) : i \in 1..H \/ (i - H \in 1..K /\ i = H + (i - H))
  <2>1. /\ h \o g \in Seq(Byte) /\ Len(h \o g) = H + K
        /\ \A i \in 1..H : (h \o g)[i] = h[i]
        /\ \A i \in 1..K : (h \o g)[H + i] = g[i]
        /\ \A i \in 1..(H + K) : i \in 1..H \/ (i - H \in 1..K /\ i = H + (i - H))
    <3>1. /\ h \o g \in Seq(Byte) /\ Len(h \o g) = Len(h) + Len(g)
          /\ \A i \in 1..Len(h) : (h \o g)[i] = h[i]
          /\ \A i \in 1..Len(g) : (h \o g)[Len(h) + i] = g[i]
          /\ \A i \in 1..(Len(h) + Len(g)) :
               i \in 1..Len(h) \/ (i - Len(h) \in 1..Len(g) /\ i = Len(h) + (i - Len(h)))
      BY Joined
    <3>2. Len(h) = H /\ Len(g) = K
      BY <1>5, <1>6
    <3> QED
      BY <3>1, <3>2
  <2>2. s = h \o g
    BY <1>5, <1>6 DEF FrameOf
  <2> QED
    BY <2>1, <2>2
<1>8. ASSUME NEW i \in 1..Len(u) PROVE u[i] = <<f, i>> /\ i <= H + K
  <2>1. CASE i \in 1..H
    BY SMTT(30), <1>5, <1>7, <2>1
  <2>2. CASE i - H \in 1..K /\ i = H + (i - H)
    <3>1. PICK j \in 1..K : i = H + j
      BY <2>2
    <3>2. u[H + j] = <<f, H + j>>
      BY <1>6, <1>7
    <3>3. H + j <= H + K
      OBVIOUS
    <3> QED
      BY <3>1, <3>2, <3>3
  <2> QED
    BY <1>7, <2>1, <2>2
<1>9. ASSUME NEW i \in 1..Len(u) PROVE IsByte(v, u[i]) /\ Rank(v, u[i]) = Total(w) + i
  <2>1. u[i] = <<f, i>> /\ i <= LengthSize + Overhead + k
    BY <1>3, <1>8
  <2>2. v.crypt = "chacha20"
    OBVIOUS
  <2>3. v.frames[f].size = k
    BY <1>2, <1>4
  <2>4. <<f, i>>[1] = f /\ <<f, i>>[2] = i
    OBVIOUS
  <2>5. IsByte(v, <<f, i>>)
    BY <1>4, <2>1, <2>2, <2>3, <2>4 DEF IsByte
  <2>6. Rank(v, <<f, i>>) = Place(v, N) + i
    BY <1>4, <2>2, <2>4 DEF Rank
  <2> QED
    BY <1>2, <2>1, <2>5, <2>6
<1>10. Run(v, u, Total(w))
  BY <1>9 DEF Run
<1> QED
  BY <1>3, <1>7, <1>10

-----------------------------------------------------------------------------
(* Nothing is missing *)

\* The pieces change behind the reader's place.
LEMMA MissingMoved ==
  ASSUME NEW w \in Writing, NEW P, NEW Q, NEW y, NEW z, NEW b, NEW e,
         NEW d \in Seq(Nat), NEW a \in Seq(Byte), NEW r, NEW l,
         NothingMissing(w, P, y, b, d, a, r, l),
         \A x \in Nat : Gapless(w, P, x, y, b) => Gapless(w, Q, x, z, e)
  PROVE  NothingMissing(w, Q, z, e, d, a, r, l)
<1>1. Len(d) \in Nat /\ Len(a) \in Nat
  OBVIOUS
<1>2. (\A i \in 1..Len(d) : d[i] = i) /\ r # "corrupt"
  BY DEF NothingMissing
<1>3. w.crypt = "none" /\ r # "eof" => Gapless(w, Q, Len(d), z, e)
  BY <1>1 DEF NothingMissing
<1>4. ASSUME w.crypt = "chacha20", r # "eof"
      PROVE  \E n \in 0..Len(w.frames) :
               LET x == Place(w, n) + (IF r = "body" THEN LengthSize ELSE 0) IN
               /\ Len(d) = Lead(w, n)
               /\ Run(w, a, x) /\ Gapless(w, Q, x + Len(a), z, e)
               /\ r = "body" => n < Len(w.frames) /\ l = Overhead + w.frames[n + 1].size
  <2>1. PICK n \in 0..Len(w.frames) :
          LET x == Place(w, n) + (IF r = "body" THEN LengthSize ELSE 0) IN
          /\ Len(d) = Lead(w, n)
          /\ Run(w, a, x) /\ Gapless(w, P, x + Len(a), y, b)
          /\ r = "body" => n < Len(w.frames) /\ l = Overhead + w.frames[n + 1].size
    BY <1>4 DEF NothingMissing
  <2>2. (Place(w, n) + (IF r = "body" THEN LengthSize ELSE 0)) + Len(a) \in Nat
    <3>1. Place(w, n) \in Nat /\ (IF r = "body" THEN LengthSize ELSE 0) \in Nat
      BY LeadTypes, Sizes
    <3> QED
      BY <1>1, <3>1
  <2> QED
    BY <2>1, <2>2
<1> QED
  BY <1>2, <1>3, <1>4 DEF NothingMissing

\* The reader ends.
LEMMA MissingEnds ==
  ASSUME NEW w, NEW P, NEW y, NEW b, NEW d, NEW a, NEW r, NEW l, NEW e, NEW m,
         NothingMissing(w, P, y, b, d, a, r, l)
  PROVE  NothingMissing(w, P, y, b, d, e, "eof", m)
BY DEF NothingMissing

\* ReadFull gets n bytes of the first piece.
LEMMA MissingFull ==
  ASSUME NEW w \in Writing, Divided(w), w.crypt = "chacha20",
         NEW P \in Seq(Seq(Byte)), NEW y \in Nat, InOrder(w, P, y), P # <<>>,
         NEW n \in 1..Len(P[1]), NEW b, NEW d, NEW a \in Seq(Byte), NEW r, r # "eof",
         NEW l, NothingMissing(w, P, y, b, d, a, r, l)
  PROVE  NothingMissing(w, Rest(P, n), y, b, d, a \o SubSeq(P[1], 1, n), r, l)
<1>1. PICK s \in Seq(Byte), p \in Nat, Q \in Seq(Seq(Byte)) :
        /\ s = SubSeq(P[1], 1, n) /\ Len(s) = n /\ p = Start(w, P[1]) /\ Q = Rest(P, n)
        /\ Run(w, s, p)
        /\ \A x : Gapless(w, P, x, y, b) => x = p /\ Gapless(w, Q, p + n, y, b)
  <2>1. /\ SubSeq(P[1], 1, n) \in Seq(Byte) /\ Len(SubSeq(P[1], 1, n)) = n
        /\ Start(w, P[1]) \in Nat /\ Rest(P, n) \in Seq(Seq(Byte))
        /\ Run(w, SubSeq(P[1], 1, n), Start(w, P[1]))
        /\ \A x : Gapless(w, P, x, y, b)
                    => x = Start(w, P[1]) /\ Gapless(w, Rest(P, n), Start(w, P[1]) + n, y, b)
    BY PieceCut
  <2> QED
    BY <2>1
<1>2. PICK m \in 0..Len(w.frames) :
        LET x == Place(w, m) + (IF r = "body" THEN LengthSize ELSE 0) IN
        /\ Len(d) = Lead(w, m)
        /\ Run(w, a, x) /\ Gapless(w, P, x + Len(a), y, b)
        /\ r = "body" => m < Len(w.frames) /\ l = Overhead + w.frames[m + 1].size
  BY DEF NothingMissing
<1>3. PICK x \in Nat : x = Place(w, m) + (IF r = "body" THEN LengthSize ELSE 0)
  <2>1. Place(w, m) \in Nat /\ (IF r = "body" THEN LengthSize ELSE 0) \in Nat
    BY LeadTypes, Sizes
  <2> QED
    BY <2>1
<1>4. Run(w, a, x) /\ x + Len(a) = p /\ Gapless(w, Q, p + n, y, b)
  BY <1>1, <1>2, <1>3
<1>5. PICK u \in Seq(Byte) : u = a \o s /\ Len(u) = Len(a) + n /\ Len(a) \in Nat
  <2>1. a \o s \in Seq(Byte) /\ Len(a \o s) = Len(a) + n /\ Len(a) \in Nat
    BY <1>1, Joined
  <2> QED
    BY <2>1
<1>6. Run(w, u, x)
  <2>1. Run(w, s, x + Len(a)) /\ x \in Int
    BY <1>1, <1>4
  <2>2. Run(w, a \o s, x)
    BY <1>4, <2>1, RunJoined
  <2> QED
    BY <1>5, <2>2
<1>7. x + Len(u) = p + n
  <2>1. PICK q \in Nat : q = Len(a)
    BY <1>5
  <2>2. x + q = p /\ Len(u) = q + n /\ n \in Nat
    BY <1>4, <1>5, <2>1
  <2> QED
    BY <2>2
<1>8. NothingMissing(w, Q, y, b, d, u, r, l)
  <2>1. Gapless(w, Q, x + Len(u), y, b)
    BY <1>4, <1>7
  <2>2. w.crypt # "none" /\ (\A i \in 1..Len(d) : d[i] = i) /\ r # "corrupt"
    BY DEF NothingMissing
  <2> QED
    BY <1>2, <1>3, <1>6, <2>1, <2>2 DEF NothingMissing
<1> QED
  BY <1>1, <1>5, <1>8

\* Read returns n bytes of the first piece, without encryption.
LEMMA MissingPlain ==
  ASSUME NEW w \in Writing, Divided(w), w.crypt = "none",
         NEW P \in Seq(Seq(Byte)), NEW y \in Nat, InOrder(w, P, y), P # <<>>,
         NEW n \in 1..Len(P[1]), NEW b, NEW d \in Seq(Nat), NEW r, r # "eof", NEW l,
         NothingMissing(w, P, y, b, d, <<>>, r, l)
  PROVE  NothingMissing(w, Rest(P, n), y, b, d \o Values(SubSeq(P[1], 1, n)), <<>>, r, l)
<1>1. PICK s \in Seq(Byte), p \in Nat, Q \in Seq(Seq(Byte)) :
        /\ s = SubSeq(P[1], 1, n) /\ Len(s) = n /\ p = Start(w, P[1]) /\ Q = Rest(P, n)
        /\ Run(w, s, p)
        /\ \A x : Gapless(w, P, x, y, b) => x = p /\ Gapless(w, Q, p + n, y, b)
  <2>1. /\ SubSeq(P[1], 1, n) \in Seq(Byte) /\ Len(SubSeq(P[1], 1, n)) = n
        /\ Start(w, P[1]) \in Nat /\ Rest(P, n) \in Seq(Seq(Byte))
        /\ Run(w, SubSeq(P[1], 1, n), Start(w, P[1]))
        /\ \A x : Gapless(w, P, x, y, b)
                    => x = Start(w, P[1]) /\ Gapless(w, Rest(P, n), Start(w, P[1]) + n, y, b)
    BY PieceCut
  <2> QED
    BY <2>1
<1>2. Gapless(w, P, Len(d), y, b) /\ (\A i \in 1..Len(d) : d[i] = i) /\ r # "corrupt"
  BY DEF NothingMissing
<1>3. Len(d) = p /\ Gapless(w, Q, p + n, y, b) /\ n \in Nat
  BY <1>1, <1>2
<1>4. PICK t \in Seq(Nat) : t = Values(s) /\ Len(t) = n /\ \A i \in 1..n : t[i] = p + i
  <2>1. \A i \in 1..n : s[i][2] = p + i
    BY <1>1 DEF Run, Rank
  <2>2. Values(s) = [i \in 1..n |-> p + i]
    BY <1>1, <2>1 DEF Values
  <2>3. [i \in 1..n |-> p + i] \in Seq(Nat) /\ Len([i \in 1..n |-> p + i]) = n
    BY <1>3
  <2>4. \A i \in 1..n : [j \in 1..n |-> p + j][i] = p + i
    OBVIOUS
  <2> QED
    BY <2>2, <2>3, <2>4
<1>5. PICK u \in Seq(Nat) :
        /\ u = d \o t /\ Len(u) = p + n
        /\ \A i \in 1..p : u[i] = d[i]
        /\ \A i \in 1..n : u[p + i] = t[i]
        /\ \A k \in 1..(p + n) : k \in 1..p \/ (k - p \in 1..n /\ k = p + (k - p))
  <2>1. Len(d) = p /\ Len(t) = n /\ p \in Nat /\ n \in Nat
    BY <1>1, <1>3, <1>4
  <2>2. PICK u \in Seq(Nat) : Joins(u, d, t, p, n)
    BY <2>1, NumbersJoined
  <2> QED
    BY <2>2 DEF Joins
<1>6. ASSUME NEW k \in 1..Len(u) PROVE u[k] = k
  <2>1. CASE k \in 1..p
    BY <1>2, <1>3, <1>5, <2>1
  <2>2. CASE k - p \in 1..n /\ k = p + (k - p)
    <3>1. PICK i \in 1..n : k = p + i
      BY <2>2
    <3>2. u[p + i] = p + i
      BY <1>4, <1>5
    <3> QED
      BY <3>1, <3>2
  <2> QED
    BY <1>5, <2>1, <2>2
<1>7. NothingMissing(w, Q, y, b, u, <<>>, r, l)
  <2>1. w.crypt # "chacha20" /\ Gapless(w, Q, Len(u), y, b)
    BY <1>3, <1>5
  <2> QED
    BY <1>2, <1>6, <2>1 DEF NothingMissing
<1> QED
  BY <1>1, <1>4, <1>5, <1>7

\* A place before the end of what was written is in the frame that begins there.
LEMMA FrameAt ==
  ASSUME NEW w \in Writing, Divided(w), w.crypt = "chacha20", NEW n \in 0..Len(w.frames),
         NEW b \in Byte, IsByte(w, b), Place(w, n) < Rank(w, b)
  PROVE  n + 1 \in 1..Len(w.frames)
<1>1. /\ Rank(w, b) <= Total(w) /\ Rank(w, b) \in Nat /\ Total(w) \in Nat
      /\ Place(w, n) \in Nat /\ n \in Nat /\ Len(w.frames) \in Nat
  BY RankTypes, LeadTypes
<1>2. n # Len(w.frames)
  BY <1>1 DEF Total
<1> QED
  BY <1>1, <1>2

\* ReadFull has the length field of the next frame, and what follows is next.
LEMMA MissingLength ==
  ASSUME NEW w \in Writing, Divided(w), w.crypt = "chacha20", NEW P, NEW y, NEW b,
         NEW d, NEW a \in Seq(Byte), Len(a) = LengthSize, NEW l,
         NothingMissing(w, P, y, b, d, a, "length", l)
  PROVE  \E f \in 1..Len(w.frames) :
           /\ a = HeaderOf(f)
           /\ NothingMissing(w, P, y, b, d, <<>>, "body", Overhead + w.frames[f].size)
<1>1. PICK n \in 0..Len(w.frames) :
        /\ Len(d) = Lead(w, n)
        /\ Run(w, a, Place(w, n) + 0) /\ Gapless(w, P, (Place(w, n) + 0) + Len(a), y, b)
  BY DEF NothingMissing
<1>2. PICK p \in Nat : p = Place(w, n) /\ p + 0 = p
  BY LeadTypes
<1>3. PICK H \in Nat \ {0} : H = LengthSize
  BY Sizes
<1>4. \A j \in 1..H : a[j] \in Byte /\ IsByte(w, a[j]) /\ Rank(w, a[j]) = p + j
  BY <1>1, <1>2, <1>3 DEF Run
<1>5. PICK f \in 1..Len(w.frames) : f = n + 1
  <2>1. 1 \in 1..H /\ p < p + 1
    BY <1>3
  <2>2. n + 1 \in 1..Len(w.frames)
    BY <1>2, <1>4, <2>1, FrameAt
  <2> QED
    BY <2>2
<1>6. n \in Nat /\ f - 1 = n /\ f \in Nat
  BY <1>5, LeadTypes
<1>7. \E k \in Nat : Place(w, f) = p + (H + k)
  <2>1. PICK k \in Nat : /\ k = Overhead + w.frames[f].size
                            /\ LengthSize + k = LengthSize + Overhead + w.frames[f].size
    <3>1. PICK z \in Nat : z = w.frames[f].size
      BY FrameStep
    <3>2. Overhead + z \in Nat /\ LengthSize + (Overhead + z) = LengthSize + Overhead + z
      BY Sizes
    <3> QED
      BY <3>1, <3>2
  <2>2. Place(w, f) = Place(w, f - 1) + (LengthSize + Overhead + w.frames[f].size)
    BY FrameStep
  <2> QED
    BY <1>2, <1>3, <1>6, <2>1, <2>2
<1>8. ASSUME NEW j \in 1..H PROVE a[j] = <<f, j>>
  <2>1. p + j <= Place(w, f) /\ p < p + j /\ (p + j) - p = j
    BY <1>7
  <2>2. a[j] = <<f, Rank(w, a[j]) - Place(w, f - 1)>>
    BY <1>2, <1>4, <1>6, <2>1, RankFrame
  <2> QED
    BY <1>2, <1>4, <1>6, <2>1, <2>2
<1>9. a = HeaderOf(f)
  <2>1. \A j \in 1..LengthSize : a[j] = <<f, j>>
    BY <1>3, <1>8
  <2>2. a = [j \in 1..LengthSize |-> <<f, j>>]
    <3>1. a = [j \in 1..Len(a) |-> a[j]]
      OBVIOUS
    <3> QED
      BY <2>1, <3>1
  <2> QED
    BY <2>2 DEF HeaderOf
<1>10. NothingMissing(w, P, y, b, d, <<>>, "body", Overhead + w.frames[f].size)
  <2>1. n < Len(w.frames)
    BY <1>5, <1>6
  <2>2. Gapless(w, P, (p + LengthSize) + Len(<<>>), y, b)
    <3>1. (p + LengthSize) + Len(<<>>) = p + Len(a) /\ (p + 0) + Len(a) = p + Len(a)
      BY <1>3
    <3> QED
      BY <1>1, <1>2, <3>1
  <2>3. Run(w, <<>>, p + LengthSize)
    BY DEF Run
  <2>4. (\A i \in 1..Len(d) : d[i] = i) /\ "body" # "eof" /\ "body" # "corrupt" /\ w.crypt # "none"
    BY DEF NothingMissing
  <2>5. LET z == Place(w, n) + (IF "body" = "body" THEN LengthSize ELSE 0) IN
        /\ Len(d) = Lead(w, n)
        /\ Run(w, <<>>, z) /\ Gapless(w, P, z + Len(<<>>), y, b)
        /\ "body" = "body" =>
             n < Len(w.frames) /\ Overhead + w.frames[f].size = Overhead + w.frames[n + 1].size
    BY <1>1, <1>2, <1>5, <2>1, <2>2, <2>3
  <2> QED
    BY <2>4, <2>5 DEF NothingMissing
<1> QED
  BY <1>9, <1>10

\* ReadFull has all of the frame, and the next frame is next.
LEMMA MissingBody ==
  ASSUME NEW w \in Writing, Divided(w), w.crypt = "chacha20", NEW P, NEW y, NEW b,
         NEW d \in Seq(Nat), NEW a \in Seq(Byte), NEW l, Len(a) = l,
         NothingMissing(w, P, y, b, d, a, "body", l)
  PROVE  \E f \in 1..Len(w.frames) :
           /\ a = BodyOf(w, f)
           /\ NothingMissing(w, P, y, b, d \o PayloadOf(w, f), <<>>, "length", 0)
<1>1. PICK n \in 0..Len(w.frames) :
        /\ Len(d) = Lead(w, n) /\ Run(w, a, Place(w, n) + LengthSize)
        /\ Gapless(w, P, (Place(w, n) + LengthSize) + Len(a), y, b)
        /\ n < Len(w.frames) /\ l = Overhead + w.frames[n + 1].size
  BY DEF NothingMissing
<1>2. PICK f \in 1..Len(w.frames) : f = n + 1 /\ f - 1 = n /\ n \in Nat /\ f \in Nat
  <2>1. n \in Nat /\ n + 1 \in 1..Len(w.frames)
    BY <1>1, LeadTypes
  <2> QED
    BY <2>1
<1>3. PICK q \in Nat, z \in Nat \ {0} :
        /\ q = Lead(w, n) /\ z = w.frames[f].size /\ q + z = Lead(w, f)
        /\ PayloadOf(w, f) = [i \in 1..z |-> q + i]
  <2>1. \E q \in Nat, z \in Nat \ {0} :
          /\ q = Lead(w, f - 1) /\ z = w.frames[f].size /\ q + z = Lead(w, f)
          /\ PayloadOf(w, f) = [i \in 1..z |-> q + i]
    BY PayloadNumbers
  <2> QED
    BY <1>2, <2>1
<1>4. PICK H \in Nat \ {0}, K \in Nat \ {0} :
        /\ H = LengthSize /\ K = Overhead + z /\ LengthSize + Overhead + z = H + K
  BY Sizes
<1>5. PICK p \in Nat : p = Place(w, n) /\ Place(w, f) = p + (H + K)
  <2>1. /\ Place(w, f) = Place(w, f - 1) + (LengthSize + Overhead + w.frames[f].size)
        /\ f - 1 \in 0..Len(w.frames)
    BY FrameStep
  <2> QED
    BY <1>2, <1>3, <1>4, <2>1, LeadTypes
<1>6. Len(a) = K /\ l = K
  BY <1>1, <1>2, <1>3, <1>4
<1>7. \A j \in 1..K : a[j] \in Byte /\ IsByte(w, a[j]) /\ Rank(w, a[j]) = (p + H) + j
  <2>1. Run(w, a, p + H)
    BY <1>1, <1>4, <1>5
  <2> QED
    BY <1>6, <2>1 DEF Run
<1>8. ASSUME NEW j \in 1..K PROVE a[j] = <<f, H + j>>
  <2>1. (p + H) + j <= p + (H + K) /\ p < (p + H) + j /\ ((p + H) + j) - p = H + j
    OBVIOUS
  <2>2. a[j] = <<f, Rank(w, a[j]) - Place(w, f - 1)>>
    BY <1>2, <1>5, <1>7, <2>1, RankFrame
  <2> QED
    BY <1>2, <1>5, <1>7, <2>1, <2>2
<1>9. a = BodyOf(w, f)
  <2>1. a = [j \in 1..K |-> <<f, H + j>>]
    <3>1. a = [j \in 1..Len(a) |-> a[j]]
      OBVIOUS
    <3> QED
      BY <1>6, <1>8, <3>1
  <2> QED
    BY <1>3, <1>4, <2>1 DEF BodyOf
<1>10. PICK u \in Seq(Nat) :
         /\ u = d \o PayloadOf(w, f) /\ Len(u) = q + z
         /\ \A i \in 1..q : u[i] = d[i]
         /\ \A i \in 1..z : u[q + i] = q + i
         /\ \A k \in 1..(q + z) : k \in 1..q \/ (k - q \in 1..z /\ k = q + (k - q))
  <2>1. PICK t \in Seq(Nat) :
          t = PayloadOf(w, f) /\ Len(t) = z /\ \A i \in 1..z : t[i] = q + i
    <3>1. [i \in 1..z |-> q + i] \in Seq(Nat) /\ Len([i \in 1..z |-> q + i]) = z
      OBVIOUS
    <3>2. \A i \in 1..z : [j \in 1..z |-> q + j][i] = q + i
      OBVIOUS
    <3> QED
      BY <1>3, <3>1, <3>2
  <2>2. Len(d) = q /\ q \in Nat /\ z \in Nat
    BY <1>1, <1>3
  <2>3. PICK u \in Seq(Nat) : Joins(u, d, t, q, z)
    BY <2>1, <2>2, NumbersJoined
  <2>4. \A i \in 1..z : u[q + i] = q + i
    BY <2>1, <2>3 DEF Joins
  <2> QED
    BY <2>1, <2>3, <2>4 DEF Joins
<1>11. ASSUME NEW k \in 1..Len(u) PROVE u[k] = k
  <2>1. CASE k \in 1..q
    <3>1. d[k] = k
      BY <1>1, <1>3, <2>1 DEF NothingMissing
    <3> QED
      BY <1>10, <2>1, <3>1
  <2>2. CASE k - q \in 1..z /\ k = q + (k - q)
    <3>1. PICK i \in 1..z : k = q + i
      BY <2>2
    <3> QED
      BY <1>10, <3>1
  <2> QED
    BY <1>10, <2>1, <2>2
<1>12. NothingMissing(w, P, y, b, u, <<>>, "length", 0)
  <2>1. f \in 0..Len(w.frames) /\ Len(u) = Lead(w, f)
    BY <1>3, <1>10, FrameStep
  <2>2. Gapless(w, P, (Place(w, f) + 0) + Len(<<>>), y, b)
    <3>1. (Place(w, f) + 0) + Len(<<>>) = (p + H) + K
      BY <1>5
    <3> QED
      BY <1>1, <1>4, <1>5, <1>6, <3>1
  <2>3. Run(w, <<>>, Place(w, f) + 0)
    BY DEF Run
  <2>4. "length" # "corrupt" /\ "length" # "body" /\ w.crypt # "none"
    OBVIOUS
  <2> QED
    BY <1>11, <2>1, <2>2, <2>3, <2>4 DEF NothingMissing
<1> QED
  BY <1>9, <1>10, <1>12

-----------------------------------------------------------------------------
(* The state of a connection *)

\* A piece that is appended to readCh is the last.
LEMMA LastPiece ==
  ASSUME NEW b \in Seq(Byte), NEW R \in Seq(Seq(Byte)), NEW s \in Seq(Byte)
  PROVE  <<b>> \o Append(R, s) = Append(<<b>> \o R, s)
<1>1. PICK N \in Nat : N = Len(R)
  OBVIOUS
<1>2. PICK A \in Seq(Seq(Byte)) :
        A = Append(R, s) /\ Len(A) = N + 1 /\ (\A i \in 1..N : A[i] = R[i]) /\ A[N + 1] = s
  <2>1. /\ Append(R, s) \in Seq(Seq(Byte)) /\ Len(Append(R, s)) = N + 1
        /\ (\A i \in 1..N : Append(R, s)[i] = R[i]) /\ Append(R, s)[N + 1] = s
    BY <1>1, Appended
  <2> QED
    BY <2>1
<1>3. PICK B \in Seq(Seq(Byte)) :
        B = <<b>> \o R /\ Len(B) = N + 1 /\ B[1] = b /\ \A i \in 1..N : B[i + 1] = R[i]
  <2>1. /\ <<b>> \o R \in Seq(Seq(Byte)) /\ Len(<<b>> \o R) = N + 1
        /\ (<<b>> \o R)[1] = b /\ \A i \in 1..N : (<<b>> \o R)[i + 1] = R[i]
    BY <1>1, Prepended
  <2> QED
    BY <2>1
<1>4. PICK C \in Seq(Seq(Byte)) :
        /\ C = <<b>> \o A /\ Len(C) = (N + 1) + 1 /\ C[1] = b
        /\ \A i \in 1..(N + 1) : C[i + 1] = A[i]
  <2>1. /\ <<b>> \o A \in Seq(Seq(Byte)) /\ Len(<<b>> \o A) = Len(A) + 1
        /\ (<<b>> \o A)[1] = b /\ \A i \in 1..Len(A) : (<<b>> \o A)[i + 1] = A[i]
    BY Prepended
  <2> QED
    BY <1>2, <2>1
<1>5. PICK D \in Seq(Seq(Byte)) :
        /\ D = Append(B, s) /\ Len(D) = (N + 1) + 1
        /\ (\A i \in 1..(N + 1) : D[i] = B[i]) /\ D[(N + 1) + 1] = s
  <2>1. /\ Append(B, s) \in Seq(Seq(Byte)) /\ Len(Append(B, s)) = Len(B) + 1
        /\ (\A i \in 1..Len(B) : Append(B, s)[i] = B[i]) /\ Append(B, s)[Len(B) + 1] = s
    BY Appended
  <2> QED
    BY <1>3, <2>1
<1>6. ASSUME NEW k \in 1..((N + 1) + 1) PROVE C[k] = D[k]
  <2>1. CASE k = 1
    BY <1>3, <1>4, <1>5, <2>1
  <2>2. CASE k = (N + 1) + 1
    BY <1>2, <1>4, <1>5, <2>2
  <2>3. CASE k # 1 /\ k # (N + 1) + 1
    <3>1. PICK i \in 1..N : k = i + 1
      <4>1. k - 1 \in 1..N /\ k = (k - 1) + 1
        BY <2>3
      <4> QED
        BY <4>1
    <3>2. i \in 1..(N + 1) /\ i + 1 \in 1..(N + 1)
      OBVIOUS
    <3> QED
      BY <1>2, <1>3, <1>4, <1>5, <3>1, <3>2
  <2> QED
    BY <2>1, <2>2, <2>3
<1>7. C = D
  <2>1. C = [k \in 1..Len(C) |-> C[k]] /\ D = [k \in 1..Len(D) |-> D[k]]
    OBVIOUS
  <2>2. Len(C) = (N + 1) + 1 /\ Len(D) = (N + 1) + 1
    BY <1>4, <1>5
  <2> QED
    BY <1>6, <2>1, <2>2
<1> QED
  BY <1>2, <1>3, <1>4, <1>5, <1>7

\* Places are natural numbers.
LEMMA Numbers ==
  ASSUME NEW n \in Nat, NEW s \in Seq(1..n)
  PROVE  s \in Seq(Nat)
<1>1. Len(s) \in Nat /\ \A i \in 1..Len(s) : s[i] \in Nat
  OBVIOUS
<1>2. [i \in 1..Len(s) |-> s[i]] \in Seq(Nat)
  BY <1>1
<1>3. s = [i \in 1..Len(s) |-> s[i]]
  OBVIOUS
<1> QED
  BY <1>2, <1>3

\* The state of a connection is made of numbers and bytes.
LEMMA Types ==
  ASSUME TypeOK, NEW c \in Conns
  PROVE  /\ Written(c) \in Writing /\ wire[c] \in Seq(Byte) /\ acc[c] \in Seq(Byte)
         /\ readBuf[c] \in Seq(Byte) /\ readCh[c] \in Seq(Seq(Byte))
         /\ Pieces(c) \in Seq(Seq(Byte))
         /\ plain[c] \in Seq(Nat) /\ delivered[c] \in Seq(Nat) /\ Plaintext(c) \in Seq(Nat)
         /\ sent[c] \in Nat /\ unwritten[c] \in Nat /\ MaxBytes \in Nat /\ length[c] \in Nat
<1>1. /\ wire[c] \in Seq(Byte) /\ acc[c] \in Seq(Byte) /\ readBuf[c] \in Seq(Byte)
      /\ readCh[c] \in Seq(Seq(Byte))
  BY DEF TypeOK, GnetTypeOK, Byte
<1>2. /\ frames[c] \in Seq(Frame) /\ sent[c] \in Nat /\ unwritten[c] \in Nat
      /\ MaxBytes \in Nat /\ crypt \in {"none", "chacha20"} /\ length[c] \in Nat
  BY ChannelAssumption DEF TypeOK, Frame
<1>3. Written(c) \in Writing
  BY <1>2 DEF Written, Writing
<1>4. Pieces(c) \in Seq(Seq(Byte))
  <2>1. <<readBuf[c]>> \o readCh[c] \in Seq(Seq(Byte))
    BY <1>1, Prepended
  <2> QED
    BY <1>1, <2>1 DEF Pieces
<1>5. plain[c] \in Seq(Nat) /\ delivered[c] \in Seq(Nat)
  <2>1. plain[c] \in Seq(1..MaxBytes) /\ delivered[c] \in Seq(1..MaxBytes)
    BY DEF TypeOK
  <2> QED
    BY <1>2, <2>1, Numbers
<1>6. Plaintext(c) \in Seq(Nat)
  BY <1>5, Joined DEF Plaintext
<1> QED
  BY <1>1, <1>2, <1>3, <1>4, <1>5, <1>6

\* The data of a connection stay as they are.
SameData(c) ==
  /\ crypt' = crypt /\ frames'[c] = frames[c] /\ sent'[c] = sent[c]
  /\ wire'[c] = wire[c] /\ readBuf'[c] = readBuf[c] /\ readCh'[c] = readCh[c]
  /\ reader'[c] = reader[c] /\ acc'[c] = acc[c] /\ length'[c] = length[c]
  /\ plain'[c] = plain[c] /\ delivered'[c] = delivered[c]
  /\ c \in closeCh => c \in closeCh'
  /\ c \in dropped => c \in dropped'
  /\ conn[c] = "closed" => conn'[c] = "closed"

\* So what was said of them still holds.
LEMMA SameDataKept ==
  ASSUME TypeOK, NEW c \in Conns, Carried(c), SameData(c),
         unwritten'[c] + sent[c] <= MaxBytes
  PROVE  Carried(c)'
<1>1. PICK w \in Writing, P \in Seq(Seq(Byte)), d \in Seq(Nat), a \in Seq(Byte), y \in Nat :
        /\ w = Written(c) /\ P = Pieces(c) /\ d = Plaintext(c) /\ a = acc[c] /\ y = OnWire(c)
  <2>1. OnWire(c) \in Nat
    <3>1. Total(Written(c)) \in Nat /\ Len(wire[c]) \in Nat
      <4>1. Written(c) \in Writing /\ wire[c] \in Seq(Byte)
        BY Types
      <4>2. Len(Written(c).frames) \in 0..Len(Written(c).frames)
        BY <4>1 DEF Writing
      <4> QED
        BY <4>1, <4>2, LeadTypes DEF Total
    <3>2. OnWire(c) >= 0
      BY DEF Carried
    <3> QED
      BY <3>1, <3>2 DEF OnWire
  <2> QED
    BY <2>1, Types
<1>2. /\ Written(c)' = w /\ Pieces(c)' = P /\ Plaintext(c)' = d /\ acc'[c] = a
      /\ OnWire(c)' = y
  BY <1>1 DEF SameData, Written, Pieces, Plaintext, OnWire
<1>3. /\ Divided(w) /\ InOrder(w, P, y)
      /\ c \notin dropped =>
           NothingMissing(w, P, y, conn[c] = "closed", d, a, reader[c], length[c])
  BY <1>1 DEF Carried
<1>4. ASSUME c \notin dropped
      PROVE  NothingMissing(w, P, y, conn'[c] = "closed", d, a, reader[c], length[c])
  <2>1. CASE conn'[c] = "closed"
    <3>1. \A x \in Nat : Gapless(w, P, x, y, conn[c] = "closed") => Gapless(w, P, x, y, TRUE)
      <4>1. \A x, b : Gapless(w, P, x, y, b) => Gapless(w, P, x, y, TRUE)
        <5>1. y <= y
          OBVIOUS
        <5> QED
          BY <1>3, <5>1, PiecesStay
      <4> QED
        BY <4>1
    <3>2. NothingMissing(w, P, y, TRUE, d, a, reader[c], length[c])
      BY <1>3, <1>4, <3>1, MissingMoved
    <3> QED
      BY <2>1, <3>2
  <2>2. CASE conn'[c] # "closed"
    <3>1. (conn'[c] = "closed") = (conn[c] = "closed")
      BY <2>2 DEF SameData
    <3> QED
      BY <1>3, <1>4, <3>1
  <2> QED
    BY <2>1, <2>2
<1> QED
  BY <1>1, <1>2, <1>4 DEF Carried, SameData

\* What the properties of a connection are about, with its types.
LEMMA Known ==
  ASSUME TypeOK, NEW c \in Conns, Carried(c)
  PROVE  \E w \in Writing, P \in Seq(Seq(Byte)), d \in Seq(Nat), a \in Seq(Byte), y \in Nat :
           /\ w = Written(c) /\ P = Pieces(c) /\ d = Plaintext(c) /\ a = acc[c] /\ y = OnWire(c)
           /\ w.crypt = crypt /\ w.frames = frames[c] /\ w.sent = sent[c]
           /\ Total(w) \in Nat /\ Len(wire[c]) \in Nat /\ y = Total(w) - Len(wire[c])
           /\ Divided(w) /\ InOrder(w, P, y) /\ ReadInOrder(w, P, y, d, a)
           /\ Run(w, wire[c], y)
           /\ c \notin dropped =>
                NothingMissing(w, P, y, conn[c] = "closed", d, a, reader[c], length[c])
<1>1. Total(Written(c)) \in Nat /\ Len(wire[c]) \in Nat
  <2>1. Written(c) \in Writing /\ wire[c] \in Seq(Byte)
    BY Types
  <2>2. Len(Written(c).frames) \in 0..Len(Written(c).frames)
    BY <2>1 DEF Writing
  <2> QED
    BY <2>1, <2>2, LeadTypes DEF Total
<1>2. OnWire(c) \in Nat
  BY <1>1 DEF Carried, OnWire
<1>3. PICK w \in Writing, P \in Seq(Seq(Byte)), d \in Seq(Nat), a \in Seq(Byte), y \in Nat :
        /\ w = Written(c) /\ P = Pieces(c) /\ d = Plaintext(c) /\ a = acc[c] /\ y = OnWire(c)
  BY <1>2, Types
<1>4. w.crypt = crypt /\ w.frames = frames[c] /\ w.sent = sent[c]
  BY <1>3 DEF Written
<1>5. /\ Divided(w) /\ InOrder(w, P, y) /\ ReadInOrder(w, P, y, d, a)
      /\ Run(w, wire[c], y)
      /\ c \notin dropped =>
           NothingMissing(w, P, y, conn[c] = "closed", d, a, reader[c], length[c])
  BY <1>3 DEF Carried
<1>6. Total(w) \in Nat /\ Len(wire[c]) \in Nat /\ y = Total(w) - Len(wire[c])
  BY <1>1, <1>3 DEF OnWire
<1> QED
  BY <1>3, <1>4, <1>5, <1>6

\* Without its first element <<e>> \o R is R.
LEMMA WithoutFirst ==
  ASSUME NEW S, NEW R \in Seq(S), NEW e \in S
  PROVE  Tail(<<e>> \o R) = R
<1>1. PICK B \in Seq(S) :
        B = <<e>> \o R /\ Len(B) = Len(R) + 1 /\ \A i \in 1..Len(R) : B[i + 1] = R[i]
  <2>1. /\ <<e>> \o R \in Seq(S) /\ Len(<<e>> \o R) = Len(R) + 1
        /\ \A i \in 1..Len(R) : (<<e>> \o R)[i + 1] = R[i]
    BY Prepended
  <2> QED
    BY <2>1
<1>2. B # <<>>
  BY <1>1
<1>3. PICK T \in Seq(S) : T = Tail(B) /\ Len(T) = Len(R) /\ \A i \in 1..Len(R) : T[i] = R[i]
  <2>1. /\ Tail(B) \in Seq(S) /\ Len(Tail(B)) = Len(B) - 1
        /\ \A i \in 1..(Len(B) - 1) : Tail(B)[i] = B[i + 1]
    BY <1>2, Remaining
  <2> QED
    BY <1>1, <2>1
<1>4. T = [i \in 1..Len(T) |-> T[i]] /\ R = [i \in 1..Len(R) |-> R[i]]
  OBVIOUS
<1> QED
  BY <1>1, <1>3, <1>4

\* Read returns the first n bytes of the first piece, and the rest is left.
LEMMA ReadCuts ==
  ASSUME TypeOK, NEW c \in Conns, Carried(c), NEW m \in Nat \ {0}, Read(c, m)
  PROVE  \E P \in Seq(Seq(Byte)), n \in Nat :
           /\ P = Pieces(c) /\ P # <<>> /\ n \in 1..Len(P[1]) /\ n <= m
           /\ ReadBytes(c, m) = SubSeq(P[1], 1, n) /\ Pieces(c)' = Rest(P, n)
<1>1. PICK P \in Seq(Seq(Byte)), R \in Seq(Seq(Byte)), u \in Seq(Byte) :
        /\ P = Pieces(c) /\ R = readCh[c] /\ u = readBuf[c]
        /\ P = IF u = <<>> THEN R ELSE <<u>> \o R
  BY Types DEF Pieces
<1>2. u = <<>> => R # <<>>
  BY <1>1 DEF Read, CanRead
<1>3. P # <<>> /\ P[1] = Piece(c) /\ Tail(P) = (IF u = <<>> THEN Tail(R) ELSE R)
  <2>1. CASE u = <<>>
    <3>1. Head(R) = R[1]
      BY <1>2, <2>1, Remaining
    <3> QED
      BY <1>1, <1>2, <2>1, <3>1 DEF Piece
  <2>2. CASE u # <<>>
    <3>1. /\ <<u>> \o R \in Seq(Seq(Byte)) /\ Len(<<u>> \o R) = Len(R) + 1 /\ Len(R) \in Nat
          /\ (<<u>> \o R)[1] = u
      BY Prepended
    <3>2. Tail(<<u>> \o R) = R
      BY WithoutFirst
    <3>3. P # <<>>
      BY <1>1, <2>2, <3>1
    <3> QED
      BY <1>1, <2>2, <3>1, <3>2, <3>3 DEF Piece
  <2> QED
    BY <2>1, <2>2
<1>4. PICK s \in Seq(Byte) : s = P[1] /\ s = Piece(c) /\ Len(s) \in Nat \ {0}
  <2>1. PICK w \in Writing, y \in Nat : Divided(w) /\ InOrder(w, P, y)
    <3>1. \E w \in Writing, Q \in Seq(Seq(Byte)), d \in Seq(Nat), a \in Seq(Byte), y \in Nat :
            Q = Pieces(c) /\ Divided(w) /\ InOrder(w, Q, y)
      BY Known
    <3> QED
      BY <1>1, <3>1
  <2>2. 1 \in 1..Len(P)
    BY <1>3
  <2>3. P[1] \in Seq(Byte) /\ Len(P[1]) \in Nat \ {0}
    BY <2>1, <2>2, PiecePlaces
  <2> QED
    BY <1>3, <2>3
<1>5. PICK n \in Nat : n = Min({m, Len(s)}) /\ n = (IF m <= Len(s) THEN m ELSE Len(s))
  <2>1. Min({m, Len(s)}) = IF m <= Len(s) THEN m ELSE Len(s)
    <3>1. m \in Int /\ Len(s) \in Int
      BY <1>4
    <3> QED
      BY <3>1, MinPair
  <2>2. (IF m <= Len(s) THEN m ELSE Len(s)) \in Nat
    BY <1>4
  <2> QED
    BY <2>1, <2>2
<1>6. n \in 1..Len(s) /\ n <= m
  BY <1>4, <1>5
<1>7. readBuf'[c] = SubSeq(s, m + 1, Len(s)) /\ readCh'[c] = Tail(P)
  <2>1. readBuf'[c] = SubSeq(Piece(c), m + 1, Len(Piece(c)))
    BY DEF Read, TypeOK, GnetTypeOK
  <2>2. readCh'[c] = IF readBuf[c] # <<>> THEN readCh[c] ELSE Tail(readCh[c])
    BY DEF Read, TypeOK, GnetTypeOK
  <2> QED
    BY <1>1, <1>3, <1>4, <2>1, <2>2
<1>8. Pieces(c)' = Rest(P, n)
  <2>1. CASE m < Len(s)
    <3>1. n = m /\ n # Len(s)
      BY <1>4, <1>5, <2>1
    <3>2. m \in 0..Len(s)
      BY <1>4, <2>1
    <3>3. SubSeq(s, m + 1, Len(s)) \in Seq(Byte) /\ Len(SubSeq(s, m + 1, Len(s))) = Len(s) - m
      BY <3>2, Parts
    <3>4. SubSeq(s, m + 1, Len(s)) # <<>>
      <4>1. PICK t \in Seq(Byte) : t = SubSeq(s, m + 1, Len(s)) /\ Len(t) = Len(s) - m
        BY <3>3
      <4>2. Len(t) # 0
        BY <1>4, <2>1, <4>1
      <4> QED
        BY <4>1, <4>2
    <3> QED
      BY <1>4, <1>7, <3>1, <3>4 DEF Pieces, Rest
  <2>2. CASE ~(m < Len(s))
    <3>1. n = Len(s)
      BY <1>4, <1>5, <2>2
    <3>2. SubSeq(s, m + 1, Len(s)) = <<>>
      BY <1>4, <2>2
    <3> QED
      BY <1>4, <1>7, <3>1, <3>2 DEF Pieces, Rest
  <2> QED
    BY <2>1, <2>2
<1>9. ReadBytes(c, m) = SubSeq(s, 1, n)
  BY <1>4, <1>5 DEF ReadBytes
<1> QED
  BY <1>1, <1>3, <1>4, <1>6, <1>8, <1>9

-----------------------------------------------------------------------------
(* The steps of a connection *)

\* Data that are handed over are the last piece.
LEMMA PiecesAppend ==
  ASSUME TypeOK, NEW c \in Conns, NEW s \in Seq(Byte),
         readBuf'[c] = readBuf[c], readCh'[c] = Append(readCh[c], s)
  PROVE  Pieces(c)' = Append(Pieces(c), s)
<1>1. readBuf[c] \in Seq(Byte) /\ readCh[c] \in Seq(Seq(Byte))
  BY Types
<1>2. <<readBuf[c]>> \o Append(readCh[c], s) = Append(<<readBuf[c]>> \o readCh[c], s)
  BY <1>1, LastPiece
<1> QED
  BY <1>2 DEF Pieces

\* The wire begins n bytes further on when n bytes are gone.
LEMMA FurtherOn ==
  ASSUME NEW T \in Nat, NEW k \in Nat, NEW n \in Nat, NEW y \in Nat, y = T - k,
         NEW j \in Nat, j = k - n
  PROVE  y + n \in Nat /\ y <= y + n /\ T - j = y + n
OBVIOUS

\* The event loop hands data over, or loses them when the connection is closed
\* or readCh is full.
LEMMA CarriedTraffic ==
  ASSUME TypeOK, NEW c \in Conns, Carried(c), OnTraffic(c), UNCHANGED <<writeVars, readVars>>
  PROVE  Carried(c)'
<1>1. PICK w \in Writing, P \in Seq(Seq(Byte)), d \in Seq(Nat), a \in Seq(Byte), y \in Nat :
        /\ w = Written(c) /\ P = Pieces(c) /\ d = Plaintext(c) /\ a = acc[c] /\ y = OnWire(c)
        /\ w.crypt = crypt /\ w.frames = frames[c] /\ w.sent = sent[c]
        /\ Total(w) \in Nat /\ Len(wire[c]) \in Nat /\ y = Total(w) - Len(wire[c])
        /\ Divided(w) /\ InOrder(w, P, y) /\ ReadInOrder(w, P, y, d, a)
        /\ Run(w, wire[c], y)
        /\ c \notin dropped =>
             NothingMissing(w, P, y, conn[c] = "closed", d, a, reader[c], length[c])
  BY Known
<1>2. PICK n \in Nat, s \in Seq(Byte), t \in Seq(Byte) :
        /\ s = SubSeq(wire[c], 1, n) /\ t = SubSeq(wire[c], n + 1, Len(wire[c]))
        /\ n \in 1..Len(wire[c]) /\ Len(s) = n /\ Len(t) = Len(wire[c]) - n
        /\ Run(w, s, y) /\ Run(w, t, y + n)
        /\ wire'[c] = t
        /\ \/ /\ readCh' = [readCh EXCEPT ![c] = Append(@, s)]
              /\ UNCHANGED <<conn, dropped>>
           \/ /\ conn' = [conn EXCEPT ![c] = "closed"]
              /\ UNCHANGED <<readCh, dropped>>
           \/ /\ dropped' = dropped \cup {c}
              /\ UNCHANGED <<conn, readCh>>
  <2>1. PICK n \in 1..Len(wire[c]) :
          /\ wire' = [wire EXCEPT ![c] = SubSeq(@, n + 1, Len(@))]
          /\ \/ /\ readCh' = [readCh EXCEPT ![c] = Append(@, SubSeq(wire[c], 1, n))]
                /\ UNCHANGED <<conn, dropped>>
             \/ /\ conn' = [conn EXCEPT ![c] = "closed"]
                /\ UNCHANGED <<readCh, dropped>>
             \/ /\ dropped' = dropped \cup {c}
                /\ UNCHANGED <<conn, readCh>>
    BY DEF OnTraffic
  <2>2. wire[c] \in Seq(Byte) /\ n \in 0..Len(wire[c]) /\ n \in Nat
    BY <1>1, <2>1, Types
  <2>3. /\ SubSeq(wire[c], 1, n) \in Seq(Byte) /\ Len(SubSeq(wire[c], 1, n)) = n
        /\ SubSeq(wire[c], n + 1, Len(wire[c])) \in Seq(Byte)
        /\ Len(SubSeq(wire[c], n + 1, Len(wire[c]))) = Len(wire[c]) - n
    BY <2>2, Parts
  <2>4. Run(w, SubSeq(wire[c], 1, n), y) /\ Run(w, SubSeq(wire[c], n + 1, Len(wire[c])), y + n)
    <3>1. y \in Int /\ Run(w, wire[c], y)
      BY <1>1
    <3> QED
      BY <2>2, <3>1, RunParts
  <2>5. wire'[c] = SubSeq(wire[c], n + 1, Len(wire[c]))
    BY <2>1 DEF TypeOK, GnetTypeOK
  <2> QED
    BY <2>1, <2>2, <2>3, <2>4, <2>5
<1>3. PICK z \in Nat : z = y + n /\ y <= z /\ Total(w) - Len(t) = z
  <2>1. PICK T \in Nat, k \in Nat, j \in Nat :
          T = Total(w) /\ k = Len(wire[c]) /\ j = Len(t) /\ y = T - k /\ j = k - n
    BY <1>1, <1>2
  <2>2. y + n \in Nat /\ y <= y + n /\ T - j = y + n
    <3>1. y = T - k /\ j = k - n
      BY <2>1
    <3> QED
      BY <3>1, FurtherOn
  <2> QED
    BY <2>1, <2>2
<1>4. /\ Written(c)' = w /\ Plaintext(c)' = d /\ acc'[c] = a /\ OnWire(c)' = z
      /\ reader'[c] = reader[c] /\ length'[c] = length[c] /\ readBuf'[c] = readBuf[c]
      /\ unwritten'[c] = unwritten[c] /\ sent'[c] = sent[c] /\ plain'[c] = plain[c]
      /\ crypt' = crypt /\ closeCh' = closeCh
  BY <1>1, <1>2, <1>3 DEF OnTraffic, readVars, writeVars, Written, Plaintext, OnWire
<1>5. s # <<>>
  BY <1>2
<1>6. /\ conn[c] = "open"
      /\ c \notin dropped => NothingMissing(w, P, y, FALSE, d, a, reader[c], length[c])
  <2>1. conn[c] = "open"
    BY DEF OnTraffic
  <2>2. (conn[c] = "closed") = FALSE
    BY <2>1
  <2> QED
    BY <1>1, <2>1, <2>2
<1>7. PICK Q \in Seq(Seq(Byte)) :
        /\ Q = Pieces(c)' /\ InOrder(w, Q, z)
        /\ \A x \in Nat : Ahead(w, P, y, x) => Ahead(w, Q, z, x)
        /\ c \notin dropped' =>
             NothingMissing(w, Q, z, conn'[c] = "closed", d, a, reader[c], length[c])
  <2>1. CASE readCh' = [readCh EXCEPT ![c] = Append(@, s)] /\ UNCHANGED <<conn, dropped>>
    <3>1. Pieces(c)' = Append(P, s)
      <4>1. readCh'[c] = Append(readCh[c], s)
        BY <2>1 DEF TypeOK, GnetTypeOK
      <4>2. Pieces(c)' = Append(Pieces(c), s)
        BY <1>4, <4>1, PiecesAppend
      <4> QED
        BY <1>1, <4>2
    <3>2. Append(P, s) \in Seq(Seq(Byte))
      BY Appended
    <3>3. /\ InOrder(w, Append(P, s), y + Len(s))
          /\ \A x \in Nat : Ahead(w, P, y, x) => Ahead(w, Append(P, s), y + Len(s), x)
          /\ \A x \in Nat : Gapless(w, P, x, y, FALSE)
                              => Gapless(w, Append(P, s), x, y + Len(s), FALSE)
      BY <1>1, <1>2, <1>5, PieceAppended
    <3>4. PICK Q \in Seq(Seq(Byte)) :
            /\ Q = Append(P, s) /\ InOrder(w, Q, z)
            /\ \A x \in Nat : Ahead(w, P, y, x) => Ahead(w, Q, z, x)
            /\ \A x \in Nat : Gapless(w, P, x, y, FALSE) => Gapless(w, Q, x, z, FALSE)
      BY <1>2, <1>3, <3>2, <3>3
    <3>5. ASSUME c \notin dropped'
          PROVE  NothingMissing(w, Q, z, conn'[c] = "closed", d, a, reader[c], length[c])
      <4>1. NothingMissing(w, P, y, FALSE, d, a, reader[c], length[c])
        BY <1>6, <2>1, <3>5
      <4>2. NothingMissing(w, Q, z, FALSE, d, a, reader[c], length[c])
        BY <3>4, <4>1, MissingMoved
      <4>3. (conn'[c] = "closed") = FALSE
        BY <1>6, <2>1
      <4> QED
        BY <4>2, <4>3
    <3> QED
      BY <3>1, <3>4, <3>5
  <2>2. CASE /\ readCh' = readCh
             /\ \/ conn' = [conn EXCEPT ![c] = "closed"] /\ dropped' = dropped
                \/ dropped' = dropped \cup {c}
    <3>1. Pieces(c)' = P
      BY <1>1, <1>4, <2>2 DEF Pieces
    <3>2. /\ InOrder(w, P, z) /\ \A x \in Nat : Ahead(w, P, y, x) => Ahead(w, P, z, x)
          /\ \A x, b : Gapless(w, P, x, y, b) => Gapless(w, P, x, z, TRUE)
      BY <1>1, <1>3, PiecesStay
    <3>3. ASSUME c \notin dropped'
          PROVE  NothingMissing(w, P, z, conn'[c] = "closed", d, a, reader[c], length[c])
      <4>1. c \notin dropped /\ conn' = [conn EXCEPT ![c] = "closed"]
        BY <2>2, <3>3
      <4>2. NothingMissing(w, P, y, FALSE, d, a, reader[c], length[c])
        BY <1>6, <4>1
      <4>3. \A x \in Nat : Gapless(w, P, x, y, FALSE) => Gapless(w, P, x, z, TRUE)
        BY <3>2
      <4>4. NothingMissing(w, P, z, TRUE, d, a, reader[c], length[c])
        BY <4>2, <4>3, MissingMoved
      <4>5. (conn'[c] = "closed") = TRUE
        BY <4>1 DEF TypeOK, GnetTypeOK
      <4> QED
        BY <4>4, <4>5
    <3> QED
      BY <3>1, <3>2, <3>3
  <2> QED
    BY <1>2, <2>1, <2>2
<1>8. ReadInOrder(w, Q, z, d, a)
  BY <1>1, <1>3, <1>7, OrderMoved
<1>9. Run(w, wire'[c], z)
  BY <1>2, <1>3
<1> QED
  BY <1>1, <1>3, <1>4, <1>7, <1>8, <1>9 DEF Carried

\* A step of the reader changes neither what was written nor the wire.
LEMMA CarriedRead ==
  ASSUME TypeOK, NEW c \in Conns, Carried(c),
         UNCHANGED <<writeVars, conn, wire, closeCh, dropped>>,
         InOrder(Written(c), Pieces(c)', OnWire(c)),
         ReadInOrder(Written(c), Pieces(c)', OnWire(c), Plaintext(c)', acc'[c]),
         crypt = "none" =>
           reader'[c] \in {"length", "eof"} /\ acc'[c] = <<>> /\ plain'[c] = <<>>,
         reader'[c] = "eof" => c \in closeCh,
         c \notin dropped =>
           NothingMissing(Written(c), Pieces(c)', OnWire(c), conn[c] = "closed",
                          Plaintext(c)', acc'[c], reader'[c], length'[c])
  PROVE  Carried(c)'
<1>1. Written(c)' = Written(c) /\ OnWire(c)' = OnWire(c)
  BY DEF Written, OnWire, writeVars
<1>2. /\ conn' = conn /\ closeCh' = closeCh /\ dropped' = dropped /\ wire' = wire
      /\ crypt' = crypt /\ unwritten' = unwritten /\ sent' = sent
  BY DEF writeVars
<1> QED
  BY <1>1, <1>2 DEF Carried

\* A sequence and nothing.
LEMMA AndNothing ==
  ASSUME NEW S, NEW s \in Seq(S)
  PROVE  s \o <<>> = s
<1>1. PICK t \in Seq(S) : t = s \o <<>> /\ Len(t) = Len(s) /\ \A i \in 1..Len(s) : t[i] = s[i]
  <2>1. /\ s \o <<>> \in Seq(S) /\ Len(s \o <<>>) = Len(s) + Len(<<>>) /\ Len(s) \in Nat
        /\ \A i \in 1..Len(s) : (s \o <<>>)[i] = s[i]
    <3>1. <<>> \in Seq(S)
      OBVIOUS
    <3> QED
      BY <3>1, Joined
  <2>2. Len(<<>>) = 0
    OBVIOUS
  <2> QED
    BY <2>1, <2>2
<1>2. t = [i \in 1..Len(t) |-> t[i]] /\ s = [i \in 1..Len(s) |-> s[i]]
  OBVIOUS
<1> QED
  BY <1>1, <1>2

\* Read returns n bytes from the front of p: d and p together stay the same.
LEMMA Moved ==
  ASSUME NEW d \in Seq(Nat), NEW p \in Seq(Nat), NEW n \in 0..Len(p)
  PROVE  (d \o SubSeq(p, 1, n)) \o SubSeq(p, n + 1, Len(p)) = d \o p
<1>1. PICK f \in Seq(Nat), g \in Seq(Nat), D \in Nat, N \in Nat :
        /\ f = SubSeq(p, 1, n) /\ Len(f) = n /\ (\A i \in 1..n : f[i] = p[i])
        /\ g = SubSeq(p, n + 1, Len(p)) /\ Len(g) = N - n
        /\ (\A i \in 1..(N - n) : g[i] = p[n + i])
        /\ D = Len(d) /\ N = Len(p) /\ n \in 0..N
  <2>1. /\ SubSeq(p, 1, n) \in Seq(Nat) /\ Len(SubSeq(p, 1, n)) = n
        /\ \A i \in 1..n : SubSeq(p, 1, n)[i] = p[i]
        /\ SubSeq(p, n + 1, Len(p)) \in Seq(Nat) /\ Len(SubSeq(p, n + 1, Len(p))) = Len(p) - n
        /\ \A i \in 1..(Len(p) - n) : SubSeq(p, n + 1, Len(p))[i] = p[n + i]
        /\ Len(p) \in Nat
    BY Parts
  <2>2. Len(d) \in Nat
    OBVIOUS
  <2> QED
    BY <2>1, <2>2
<1>2. PICK x \in Seq(Nat) :
        /\ x = d \o f /\ Len(x) = D + n /\ (\A i \in 1..D : x[i] = d[i])
        /\ \A i \in 1..n : x[D + i] = f[i]
  <2>1. Len(d) = D /\ Len(f) = n /\ D \in Nat /\ n \in Nat
    BY <1>1
  <2>2. PICK u \in Seq(Nat) : Joins(u, d, f, D, n)
    BY <2>1, NumbersJoined
  <2> QED
    BY <2>2 DEF Joins
<1>3. PICK y \in Seq(Nat) :
        /\ y = x \o g /\ Len(y) = (D + n) + (N - n) /\ (\A i \in 1..(D + n) : y[i] = x[i])
        /\ \A i \in 1..(N - n) : y[(D + n) + i] = g[i]
  <2>1. Len(x) = D + n /\ Len(g) = N - n /\ D + n \in Nat /\ N - n \in Nat
    <3>1. n \in 0..N /\ D + n \in Nat /\ N - n \in Nat
      BY <1>1
    <3> QED
      BY <1>1, <1>2, <3>1
  <2>2. PICK u \in Seq(Nat) : Joins(u, x, g, D + n, N - n)
    BY <2>1, NumbersJoined
  <2> QED
    BY <2>2 DEF Joins
<1>4. PICK z \in Seq(Nat) :
        /\ z = d \o p /\ Len(z) = D + N /\ (\A i \in 1..D : z[i] = d[i])
        /\ \A i \in 1..N : z[D + i] = p[i]
  <2>1. Len(d) = D /\ Len(p) = N /\ D \in Nat /\ N \in Nat
    BY <1>1
  <2>2. PICK u \in Seq(Nat) : Joins(u, d, p, D, N)
    BY <2>1, NumbersJoined
  <2> QED
    BY <2>2 DEF Joins
<1>5. Len(y) = D + N /\ n \in Nat
  <2>1. n \in Nat
    BY <1>1
  <2>2. (D + n) + (N - n) = D + N
    BY <2>1
  <2> QED
    BY <1>3, <2>1, <2>2
<1>6. ASSUME NEW k \in 1..(D + N) PROVE y[k] = z[k]
  <2>1. CASE k \in 1..D
    <3>1. k \in 1..(D + n)
      BY <1>1, <2>1
    <3> QED
      BY <1>2, <1>3, <1>4, <2>1, <3>1
  <2>2. CASE k - D \in 1..n
    <3>1. PICK i \in 1..n : k = D + i
      <4>1. k = D + (k - D)
        OBVIOUS
      <4> QED
        BY <2>2, <4>1
    <3>2. k \in 1..(D + n) /\ i \in 1..N
      BY <1>1, <3>1
    <3>3. y[k] = x[k] /\ x[k] = f[i] /\ z[k] = p[i] /\ f[i] = p[i]
      BY <1>1, <1>2, <1>3, <1>4, <3>1, <3>2
    <3> QED
      BY <3>3
  <2>3. CASE k - (D + n) \in 1..(N - n)
    <3>1. PICK i \in 1..(N - n) : k = (D + n) + i /\ k = D + (n + i) /\ n + i \in 1..N
      <4>1. k = (D + n) + (k - (D + n)) /\ k = D + (n + (k - (D + n)))
        BY <1>5
      <4>2. n + (k - (D + n)) \in 1..N
        BY <1>1, <1>5, <2>3
      <4> QED
        BY <2>3, <4>1, <4>2
    <3>2. y[(D + n) + i] = g[i] /\ z[D + (n + i)] = p[n + i] /\ g[i] = p[n + i]
      BY <1>1, <1>3, <1>4, <3>1
    <3> QED
      BY <3>1, <3>2
  <2>4. k \in 1..D \/ k - D \in 1..n \/ k - (D + n) \in 1..(N - n)
    BY <1>1, ThreeParts
  <2> QED
    BY <2>1, <2>2, <2>3, <2>4
<1>7. y = [k \in 1..Len(y) |-> y[k]] /\ z = [k \in 1..Len(z) |-> z[k]]
  OBVIOUS
<1>8. y = z
  <2>1. Len(y) = D + N /\ Len(z) = D + N
    BY <1>4, <1>5
  <2> QED
    BY <1>6, <1>7, <2>1
<1> QED
  BY <1>1, <1>2, <1>3, <1>4, <1>8

\* The numbers in bytes.
LEMMA ValuesTypes ==
  ASSUME NEW s \in Seq(Byte)
  PROVE  Values(s) \in Seq(Nat)
<1>1. Len(s) \in Nat /\ \A i \in 1..Len(s) : s[i] \in Byte
  OBVIOUS
<1>2. \A i \in 1..Len(s) : s[i][2] \in Nat
  BY <1>1 DEF Byte
<1>3. [i \in 1..Len(s) |-> s[i][2]] \in Seq(Nat)
  BY <1>1, <1>2
<1> QED
  BY <1>3 DEF Values

\* Without encryption Read returns bytes of the first piece.
LEMMA CarriedPlain ==
  ASSUME TypeOK, NEW c \in Conns, Carried(c), NEW m \in Nat \ {0}, ReadPlain(c, m)
  PROVE  Carried(c)'
<1>1. PICK w \in Writing, P \in Seq(Seq(Byte)), d \in Seq(Nat), a \in Seq(Byte), y \in Nat :
        /\ w = Written(c) /\ P = Pieces(c) /\ d = Plaintext(c) /\ a = acc[c] /\ y = OnWire(c)
        /\ w.crypt = crypt /\ w.frames = frames[c] /\ w.sent = sent[c]
        /\ Divided(w) /\ InOrder(w, P, y) /\ ReadInOrder(w, P, y, d, a)
        /\ c \notin dropped =>
             NothingMissing(w, P, y, conn[c] = "closed", d, a, reader[c], length[c])
  BY Known
<1>2. /\ crypt = "none" /\ Read(c, m) /\ UNCHANGED <<writeVars, conn, wire, closeCh, dropped>>
      /\ reader' = reader /\ acc' = acc /\ length' = length /\ plain' = plain
      /\ reader[c] # "eof"
      /\ delivered'[c] = delivered[c] \o Values(ReadBytes(c, m))
  BY DEF ReadPlain, Read, Reading, TypeOK, Values
<1>3. a = <<>> /\ plain[c] = <<>> /\ w.crypt = "none" /\ reader[c] \in {"length", "eof"}
  BY <1>1, <1>2 DEF Carried
<1>4. PICK n \in Nat :
        /\ P # <<>> /\ n \in 1..Len(P[1])
        /\ ReadBytes(c, m) = SubSeq(P[1], 1, n) /\ Pieces(c)' = Rest(P, n)
  <2>1. \E Q \in Seq(Seq(Byte)), n \in Nat :
          /\ Q = Pieces(c) /\ Q # <<>> /\ n \in 1..Len(Q[1]) /\ n <= m
          /\ ReadBytes(c, m) = SubSeq(Q[1], 1, n) /\ Pieces(c)' = Rest(Q, n)
    BY <1>2, ReadCuts
  <2> QED
    BY <1>1, <2>1
<1>5. Plaintext(c)' = d \o Values(SubSeq(P[1], 1, n))
  <2>1. SubSeq(P[1], 1, n) \in Seq(Byte) /\ Len(SubSeq(P[1], 1, n)) = n
    BY <1>1, <1>4, PieceCut
  <2>2. PICK v \in Seq(Nat) : v = Values(SubSeq(P[1], 1, n))
    BY <1>4, <2>1, ValuesTypes
  <2>3. d = delivered[c] /\ delivered[c] \in Seq(Nat)
    <3>1. delivered[c] \o <<>> = delivered[c] /\ delivered[c] \in Seq(Nat)
      BY Types, AndNothing
    <3> QED
      BY <1>1, <1>3, <3>1 DEF Plaintext
  <2>4. (d \o v) \o <<>> = d \o v
    <3>1. d \o v \in Seq(Nat)
      BY Joined
    <3> QED
      BY <3>1, AndNothing
  <2> QED
    BY <1>2, <1>3, <1>4, <2>2, <2>3, <2>4 DEF Plaintext
<1>6. InOrder(w, Rest(P, n), y)
  BY <1>1, <1>4, PieceCut
<1>7. ReadInOrder(w, Rest(P, n), y, d \o Values(SubSeq(P[1], 1, n)), <<>>)
  <2>1. ReadInOrder(w, P, y, d, <<>>)
    BY <1>1, <1>3
  <2> QED
    BY <1>1, <1>3, <1>4, <2>1, OrderPlain
<1>8. ASSUME c \notin dropped
      PROVE  NothingMissing(w, Rest(P, n), y, conn[c] = "closed",
                            d \o Values(SubSeq(P[1], 1, n)), <<>>, reader[c], length[c])
  <2>1. PICK b \in BOOLEAN : b = (conn[c] = "closed")
    OBVIOUS
  <2>2. NothingMissing(w, P, y, b, d, <<>>, reader[c], length[c])
    BY <1>1, <1>3, <1>8, <2>1
  <2>3. NothingMissing(w, Rest(P, n), y, b, d \o Values(SubSeq(P[1], 1, n)), <<>>,
                       reader[c], length[c])
    BY <1>1, <1>2, <1>3, <1>4, <2>2, MissingPlain
  <2> QED
    BY <2>1, <2>3
<1>9. /\ InOrder(Written(c), Pieces(c)', OnWire(c))
      /\ ReadInOrder(Written(c), Pieces(c)', OnWire(c), Plaintext(c)', acc'[c])
      /\ c \notin dropped =>
           NothingMissing(Written(c), Pieces(c)', OnWire(c), conn[c] = "closed",
                          Plaintext(c)', acc'[c], reader'[c], length'[c])
  BY <1>1, <1>2, <1>3, <1>4, <1>5, <1>6, <1>7, <1>8
<1>10. /\ crypt = "none" =>
            reader'[c] \in {"length", "eof"} /\ acc'[c] = <<>> /\ plain'[c] = <<>>
       /\ reader'[c] = "eof" => c \in closeCh
  BY <1>1, <1>2, <1>3
<1> QED
  BY <1>2, <1>9, <1>10, CarriedRead

\* Plaintext that is left over is returned.
LEMMA CarriedBuffered ==
  ASSUME TypeOK, NEW c \in Conns, Carried(c), NEW m \in Nat \ {0}, ReadBuffered(c, m)
  PROVE  Carried(c)'
<1>1. PICK w \in Writing, P \in Seq(Seq(Byte)), d \in Seq(Nat), a \in Seq(Byte), y \in Nat :
        /\ w = Written(c) /\ P = Pieces(c) /\ d = Plaintext(c) /\ a = acc[c] /\ y = OnWire(c)
        /\ w.crypt = crypt /\ w.frames = frames[c] /\ w.sent = sent[c]
        /\ Divided(w) /\ InOrder(w, P, y) /\ ReadInOrder(w, P, y, d, a)
        /\ c \notin dropped =>
             NothingMissing(w, P, y, conn[c] = "closed", d, a, reader[c], length[c])
  BY Known
<1>2. /\ UNCHANGED <<writeVars, conn, wire, closeCh, dropped>>
      /\ reader' = reader /\ acc' = acc /\ length' = length
      /\ plain[c] # <<>> /\ readBuf' = readBuf /\ readCh' = readCh
      /\ delivered'[c] = delivered[c] \o SubSeq(plain[c], 1, Min({m, Len(plain[c])}))
      /\ plain'[c] = SubSeq(plain[c], m + 1, Len(plain[c]))
      /\ reader[c] # "eof"
  BY DEF ReadBuffered, Reading, TypeOK, gnetVars, dataVars
<1>3. Plaintext(c)' = d
  <2>1. PICK p \in Seq(Nat), e \in Seq(Nat), N \in Nat :
          p = plain[c] /\ e = delivered[c] /\ N = Len(p) /\ d = e \o p
    <3>1. plain[c] \in Seq(Nat) /\ delivered[c] \in Seq(Nat) /\ Len(plain[c]) \in Nat
      BY Types
    <3> QED
      BY <1>1, <3>1 DEF Plaintext
  <2>2. Min({m, Len(p)}) = IF m <= N THEN m ELSE N
    <3>1. m \in Int /\ Len(p) \in Int
      OBVIOUS
    <3> QED
      BY <2>1, <3>1, MinPair
  <2>3. CASE m <= N
    <3>1. m \in 0..Len(p)
      BY <2>1, <2>3
    <3>2. (e \o SubSeq(p, 1, m)) \o SubSeq(p, m + 1, Len(p)) = e \o p
      BY <3>1, Moved
    <3> QED
      BY <1>2, <2>1, <2>2, <2>3, <3>2 DEF Plaintext
  <2>4. CASE ~(m <= N)
    <3>1. N \in 0..Len(p)
      BY <2>1
    <3>2. (e \o SubSeq(p, 1, N)) \o SubSeq(p, N + 1, Len(p)) = e \o p
      BY <3>1, Moved
    <3>3. SubSeq(p, N + 1, Len(p)) = <<>> /\ SubSeq(p, m + 1, Len(p)) = <<>>
      BY <2>1, <2>4
    <3> QED
      BY <1>2, <2>1, <2>2, <2>4, <3>2, <3>3 DEF Plaintext
  <2> QED
    BY <2>3, <2>4
<1>4. Pieces(c)' = P
  BY <1>1, <1>2 DEF Pieces
<1>5. /\ InOrder(Written(c), Pieces(c)', OnWire(c))
      /\ ReadInOrder(Written(c), Pieces(c)', OnWire(c), Plaintext(c)', acc'[c])
      /\ c \notin dropped =>
           NothingMissing(Written(c), Pieces(c)', OnWire(c), conn[c] = "closed",
                          Plaintext(c)', acc'[c], reader'[c], length'[c])
  BY <1>1, <1>2, <1>3, <1>4
<1>6. /\ crypt = "none" =>
            reader'[c] \in {"length", "eof"} /\ acc'[c] = <<>> /\ plain'[c] = <<>>
      /\ reader'[c] = "eof" => c \in closeCh
  BY <1>2 DEF Carried
<1> QED
  BY <1>2, <1>5, <1>6, CarriedRead

\* ReadFull gets bytes of the first piece.
LEMMA CarriedFull ==
  ASSUME TypeOK, NEW c \in Conns, Carried(c), ReadFull(c)
  PROVE  Carried(c)'
<1>1. PICK w \in Writing, P \in Seq(Seq(Byte)), d \in Seq(Nat), a \in Seq(Byte), y \in Nat :
        /\ w = Written(c) /\ P = Pieces(c) /\ d = Plaintext(c) /\ a = acc[c] /\ y = OnWire(c)
        /\ w.crypt = crypt /\ w.frames = frames[c] /\ w.sent = sent[c]
        /\ Divided(w) /\ InOrder(w, P, y) /\ ReadInOrder(w, P, y, d, a)
        /\ c \notin dropped =>
             NothingMissing(w, P, y, conn[c] = "closed", d, a, reader[c], length[c])
  BY Known
<1>2. /\ crypt = "chacha20" /\ w.crypt = "chacha20" /\ Read(c, Wanted(c) - Len(acc[c]))
      /\ UNCHANGED <<writeVars, conn, wire, closeCh, dropped>>
      /\ reader' = reader /\ length' = length /\ plain' = plain /\ delivered' = delivered
      /\ acc'[c] = acc[c] \o ReadBytes(c, Wanted(c) - Len(acc[c]))
      /\ reader[c] # "eof"
  BY <1>1 DEF ReadFull, InFrame, Read, Reading, TypeOK
<1>3. Wanted(c) - Len(acc[c]) \in Nat \ {0}
  <2>1. Wanted(c) \in Nat /\ Len(acc[c]) \in Nat
    BY Types, Sizes DEF Wanted
  <2>2. Len(acc[c]) < Wanted(c)
    BY DEF ReadFull
  <2> QED
    BY <2>1, <2>2
<1>4. PICK n \in Nat :
        /\ P # <<>> /\ n \in 1..Len(P[1])
        /\ ReadBytes(c, Wanted(c) - Len(acc[c])) = SubSeq(P[1], 1, n) /\ Pieces(c)' = Rest(P, n)
  <2>1. PICK m \in Nat \ {0} : m = Wanted(c) - Len(acc[c])
    BY <1>3
  <2>2. \E Q \in Seq(Seq(Byte)), n \in Nat :
          /\ Q = Pieces(c) /\ Q # <<>> /\ n \in 1..Len(Q[1]) /\ n <= m
          /\ ReadBytes(c, m) = SubSeq(Q[1], 1, n) /\ Pieces(c)' = Rest(Q, n)
    <3>1. Read(c, m)
      BY <1>2, <2>1
    <3> QED
      BY <3>1, ReadCuts
  <2> QED
    BY <1>1, <2>1, <2>2
<1>5. Plaintext(c)' = d /\ acc'[c] = a \o SubSeq(P[1], 1, n)
  BY <1>1, <1>2, <1>4 DEF Plaintext
<1>6. InOrder(w, Rest(P, n), y)
  BY <1>1, <1>4, PieceCut
<1>7. ReadInOrder(w, Rest(P, n), y, d, a \o SubSeq(P[1], 1, n))
  BY <1>1, <1>2, <1>4, OrderFull
<1>8. ASSUME c \notin dropped
      PROVE  NothingMissing(w, Rest(P, n), y, conn[c] = "closed", d,
                            a \o SubSeq(P[1], 1, n), reader[c], length[c])
  <2>1. PICK b \in BOOLEAN : b = (conn[c] = "closed")
    OBVIOUS
  <2>2. NothingMissing(w, P, y, b, d, a, reader[c], length[c])
    BY <1>1, <1>8, <2>1
  <2>3. NothingMissing(w, Rest(P, n), y, b, d, a \o SubSeq(P[1], 1, n), reader[c], length[c])
    BY <1>1, <1>2, <1>4, <2>2, MissingFull
  <2> QED
    BY <2>1, <2>3
<1>9. /\ InOrder(Written(c), Pieces(c)', OnWire(c))
      /\ ReadInOrder(Written(c), Pieces(c)', OnWire(c), Plaintext(c)', acc'[c])
      /\ c \notin dropped =>
           NothingMissing(Written(c), Pieces(c)', OnWire(c), conn[c] = "closed",
                          Plaintext(c)', acc'[c], reader'[c], length'[c])
  BY <1>1, <1>2, <1>4, <1>5, <1>6, <1>7, <1>8
<1>10. /\ crypt = "none" =>
            reader'[c] \in {"length", "eof"} /\ acc'[c] = <<>> /\ plain'[c] = <<>>
       /\ reader'[c] = "eof" => c \in closeCh
  BY <1>2
<1> QED
  BY <1>2, <1>9, <1>10, CarriedRead

\* The value of a length field that was read whole.
LEMMA LengthRead ==
  ASSUME TypeOK, NEW c \in Conns, NEW w \in Writing, Divided(w), w.frames = frames[c],
         NEW f \in 1..Len(w.frames), NEW n, n \in LengthsOf(c, HeaderOf(f))
  PROVE  n = Overhead + w.frames[f].size /\ n \in Nat /\ ~(n < Overhead)
<1>1. w.frames[f].size \in Nat \ {0} /\ w.frames[f].size <= maxPayload
  BY FrameStep
<1>2. ASSUME NEW g \in 1..Len(frames[c]), HeaderOf(f) = Header(g) PROVE g = f
  <2>1. 1 \in 1..LengthSize
    BY Sizes
  <2>2. HeaderOf(f)[1] = <<f, 1>> /\ Header(g)[1] = <<g, 1>>
    BY <2>1 DEF HeaderOf, Header
  <2> QED
    BY <1>2, <2>2
<1>3. HeaderOf(f) = Header(f)
  BY DEF HeaderOf, Header
<1>4. {g \in 1..Len(frames[c]) : HeaderOf(f) = Header(g)} = {f}
  BY <1>2, <1>3
<1>5. n = FrameLen(c, f) % LengthLimit
  BY <1>4 DEF LengthsOf
<1>6. PICK k \in Nat, h \in Nat, t \in Nat, o \in Nat, p \in Nat :
        /\ k = w.frames[f].size /\ h = Overhead /\ t = LengthLimit /\ o = LengthSize
        /\ p = maxPayload
        /\ k > 0 /\ k <= p /\ p + h + o = t /\ o > 0
  BY <1>1, Sizes
<1>7. (h + k) % t = h + k
  <2>1. h + k \in 0..(t - 1) /\ t \in Nat \ {0}
    BY <1>6
  <2> QED
    BY <2>1
<1>8. FrameLen(c, f) = h + k
  BY <1>6 DEF FrameLen
<1>9. h + k \in Nat /\ ~(h + k < h)
  OBVIOUS
<1> QED
  BY <1>5, <1>6, <1>7, <1>8, <1>9

\* readFrame has the length of a frame.
LEMMA CarriedLength ==
  ASSUME TypeOK, NEW c \in Conns, Carried(c), ReadLength(c)
  PROVE  Carried(c)'
<1>1. PICK w \in Writing, P \in Seq(Seq(Byte)), d \in Seq(Nat), a \in Seq(Byte), y \in Nat :
        /\ w = Written(c) /\ P = Pieces(c) /\ d = Plaintext(c) /\ a = acc[c] /\ y = OnWire(c)
        /\ w.crypt = crypt /\ w.frames = frames[c] /\ w.sent = sent[c]
        /\ Divided(w) /\ InOrder(w, P, y) /\ ReadInOrder(w, P, y, d, a)
        /\ c \notin dropped =>
             NothingMissing(w, P, y, conn[c] = "closed", d, a, reader[c], length[c])
  BY Known
<1>2. PICK n \in LengthsOf(c, acc[c]) :
        /\ reader' = [reader EXCEPT ![c] = IF n < Overhead THEN "corrupt" ELSE "body"]
        /\ length' = [length EXCEPT ![c] = n]
  BY DEF ReadLength
<1>3. /\ crypt = "chacha20" /\ w.crypt = "chacha20" /\ reader[c] = "length"
      /\ Len(a) = LengthSize
      /\ UNCHANGED <<writeVars, conn, wire, closeCh, dropped>>
      /\ readBuf' = readBuf /\ readCh' = readCh /\ plain' = plain /\ delivered' = delivered
      /\ acc'[c] = <<>> /\ length'[c] = n
      /\ reader'[c] = IF n < Overhead THEN "corrupt" ELSE "body"
  BY <1>1, <1>2 DEF ReadLength, InFrame, TypeOK, gnetVars, dataVars
<1>4. Pieces(c)' = P /\ Plaintext(c)' = d
  BY <1>1, <1>3 DEF Pieces, Plaintext
<1>5. ReadInOrder(w, P, y, d, <<>>)
  BY <1>1, OrderDropped
<1>6. ASSUME c \notin dropped
      PROVE  NothingMissing(w, P, y, conn[c] = "closed", d, <<>>, reader'[c], n)
  <2>1. PICK b \in BOOLEAN : b = (conn[c] = "closed")
    OBVIOUS
  <2>2. NothingMissing(w, P, y, b, d, a, "length", length[c])
    BY <1>1, <1>3, <1>6, <2>1
  <2>3. PICK f \in 1..Len(w.frames) :
          /\ a = HeaderOf(f)
          /\ NothingMissing(w, P, y, b, d, <<>>, "body", Overhead + w.frames[f].size)
    BY <1>1, <1>3, <2>2, MissingLength
  <2>4. n = Overhead + w.frames[f].size /\ ~(n < Overhead)
    <3>1. n \in LengthsOf(c, HeaderOf(f))
      BY <1>1, <1>2, <2>3
    <3> QED
      BY <1>1, <3>1, LengthRead
  <2> QED
    BY <1>3, <2>1, <2>3, <2>4
<1>7. /\ InOrder(Written(c), Pieces(c)', OnWire(c))
      /\ ReadInOrder(Written(c), Pieces(c)', OnWire(c), Plaintext(c)', acc'[c])
      /\ c \notin dropped =>
           NothingMissing(Written(c), Pieces(c)', OnWire(c), conn[c] = "closed",
                          Plaintext(c)', acc'[c], reader'[c], length'[c])
  BY <1>1, <1>3, <1>4, <1>5, <1>6
<1>8. /\ crypt = "none" =>
            reader'[c] \in {"length", "eof"} /\ acc'[c] = <<>> /\ plain'[c] = <<>>
      /\ reader'[c] = "eof" => c \in closeCh
  BY <1>3
<1> QED
  BY <1>3, <1>7, <1>8, CarriedRead

\* readFrame has a body, which aead.Open opens or not.
LEMMA CarriedBody ==
  ASSUME TypeOK, NEW c \in Conns, Carried(c), ReadBody(c)
  PROVE  Carried(c)'
<1>1. PICK w \in Writing, P \in Seq(Seq(Byte)), d \in Seq(Nat), a \in Seq(Byte), y \in Nat :
        /\ w = Written(c) /\ P = Pieces(c) /\ d = Plaintext(c) /\ a = acc[c] /\ y = OnWire(c)
        /\ w.crypt = crypt /\ w.frames = frames[c] /\ w.sent = sent[c]
        /\ Divided(w) /\ InOrder(w, P, y) /\ ReadInOrder(w, P, y, d, a)
        /\ c \notin dropped =>
             NothingMissing(w, P, y, conn[c] = "closed", d, a, reader[c], length[c])
  BY Known
<1>2. /\ crypt = "chacha20" /\ w.crypt = "chacha20" /\ reader[c] = "body"
      /\ Len(a) = length[c] /\ plain[c] = <<>>
      /\ UNCHANGED <<writeVars, conn, wire, closeCh, dropped>>
      /\ readBuf' = readBuf /\ readCh' = readCh /\ delivered' = delivered
      /\ acc'[c] = <<>> /\ length'[c] = 0
  BY <1>1 DEF ReadBody, InFrame, TypeOK, gnetVars, dataVars
<1>3. Pieces(c)' = P
  BY <1>1, <1>2 DEF Pieces
<1>4. \A f \in 1..Len(w.frames) : Body(c, f) = BodyOf(w, f) /\ Payload(c, f) = PayloadOf(w, f)
  BY <1>1 DEF Body, BodyOf, Payload, PayloadOf, FrameLen
<1>5. ASSUME c \notin dropped
      PROVE  \E f \in 1..Len(w.frames) :
               /\ a = BodyOf(w, f)
               /\ NothingMissing(w, P, y, conn[c] = "closed", d \o PayloadOf(w, f), <<>>,
                                 "length", 0)
  <2>1. PICK b \in BOOLEAN : b = (conn[c] = "closed")
    OBVIOUS
  <2>2. NothingMissing(w, P, y, b, d, a, "body", length[c])
    BY <1>1, <1>2, <1>5, <2>1
  <2>3. \E f \in 1..Len(w.frames) :
          /\ a = BodyOf(w, f)
          /\ NothingMissing(w, P, y, b, d \o PayloadOf(w, f), <<>>, "length", 0)
    BY <1>1, <1>2, <2>2, MissingBody
  <2> QED
    BY <2>1, <2>3
<1>6. d = delivered[c]
  <2>1. delivered[c] \o <<>> = delivered[c]
    BY Types, AndNothing
  <2> QED
    BY <1>1, <1>2, <2>1 DEF Plaintext
<1>7. CASE \E f \in 1..Len(frames[c]) :
             /\ acc[c] = Body(c, f)
             /\ plain' = [plain EXCEPT ![c] = Payload(c, f)]
             /\ reader' = [reader EXCEPT ![c] = "length"]
  <2>1. PICK f \in 1..Len(w.frames) :
          /\ a = BodyOf(w, f) /\ plain'[c] = PayloadOf(w, f) /\ reader'[c] = "length"
    BY <1>1, <1>4, <1>7 DEF TypeOK
  <2>2. Plaintext(c)' = d \o PayloadOf(w, f)
    BY <1>2, <1>6, <2>1 DEF Plaintext
  <2>3. ReadInOrder(w, P, y, d \o PayloadOf(w, f), <<>>)
    <3>1. ReadInOrder(w, P, y, d, BodyOf(w, f))
      BY <1>1, <2>1
    <3> QED
      BY <1>1, <1>2, <3>1, OrderBody
  <2>4. ASSUME NEW g \in 1..Len(w.frames), a = BodyOf(w, g) PROVE g = f
    <3>1. /\ Overhead + w.frames[f].size \in Nat \ {0}
          /\ Overhead + w.frames[g].size \in Nat \ {0}
      <4>1. PICK i \in Nat, j \in Nat, h \in Nat \ {0} :
              i = w.frames[f].size /\ j = w.frames[g].size /\ h = Overhead
        BY <1>1, FrameStep, Sizes
      <4>2. h + i \in Nat \ {0} /\ h + j \in Nat \ {0}
        OBVIOUS
      <4> QED
        BY <4>1, <4>2
    <3>2. BodyOf(w, f)[1] = <<f, LengthSize + 1>> /\ BodyOf(w, g)[1] = <<g, LengthSize + 1>>
      BY <3>1 DEF BodyOf
    <3> QED
      BY <2>1, <2>4, <3>2
  <2>5. c \notin dropped =>
          NothingMissing(w, P, y, conn[c] = "closed", d \o PayloadOf(w, f), <<>>, "length", 0)
    BY <1>5, <2>4
  <2>6. /\ InOrder(Written(c), Pieces(c)', OnWire(c))
        /\ ReadInOrder(Written(c), Pieces(c)', OnWire(c), Plaintext(c)', acc'[c])
        /\ c \notin dropped =>
             NothingMissing(Written(c), Pieces(c)', OnWire(c), conn[c] = "closed",
                            Plaintext(c)', acc'[c], reader'[c], length'[c])
    BY <1>1, <1>2, <1>3, <2>1, <2>2, <2>3, <2>5
  <2>7. /\ crypt = "none" =>
              reader'[c] \in {"length", "eof"} /\ acc'[c] = <<>> /\ plain'[c] = <<>>
        /\ reader'[c] = "eof" => c \in closeCh
    BY <1>2, <2>1
  <2> QED
    BY <1>2, <2>6, <2>7, CarriedRead
<1>8. CASE /\ \A f \in 1..Len(frames[c]) : acc[c] # Body(c, f)
           /\ reader' = [reader EXCEPT ![c] = "corrupt"] /\ plain' = plain
  <2>1. c \in dropped
    BY <1>1, <1>4, <1>5, <1>8
  <2>2. ReadInOrder(w, P, y, d, <<>>)
    BY <1>1, OrderDropped
  <2>3. reader'[c] = "corrupt" /\ Plaintext(c)' = d
    BY <1>1, <1>2, <1>8 DEF Plaintext, TypeOK
  <2>4. /\ InOrder(Written(c), Pieces(c)', OnWire(c))
        /\ ReadInOrder(Written(c), Pieces(c)', OnWire(c), Plaintext(c)', acc'[c])
    BY <1>1, <1>2, <1>3, <2>2, <2>3
  <2> QED
    BY <1>2, <2>1, <2>3, <2>4, CarriedRead
<1> QED
  BY <1>7, <1>8 DEF ReadBody

\* The reader has ended.
LEMMA CarriedEnds ==
  ASSUME TypeOK, NEW c \in Conns, Carried(c), ReadEnds(c)
  PROVE  Carried(c)'
<1>1. PICK w \in Writing, P \in Seq(Seq(Byte)), d \in Seq(Nat), a \in Seq(Byte), y \in Nat :
        /\ w = Written(c) /\ P = Pieces(c) /\ d = Plaintext(c) /\ a = acc[c] /\ y = OnWire(c)
        /\ w.crypt = crypt /\ w.frames = frames[c] /\ w.sent = sent[c]
        /\ Divided(w) /\ InOrder(w, P, y) /\ ReadInOrder(w, P, y, d, a)
        /\ c \notin dropped =>
             NothingMissing(w, P, y, conn[c] = "closed", d, a, reader[c], length[c])
  BY Known
<1>2. /\ UNCHANGED <<writeVars, conn, wire, closeCh, dropped>>
      /\ readBuf' = readBuf /\ readCh' = readCh /\ plain' = plain /\ delivered' = delivered
      /\ reader'[c] = "eof" /\ acc'[c] = <<>> /\ length'[c] = 0
      /\ c \in closeCh /\ plain[c] = <<>>
  BY DEF ReadEnds, CanEOF, TypeOK, gnetVars, dataVars
<1>3. Pieces(c)' = P /\ Plaintext(c)' = d
  BY <1>1, <1>2 DEF Pieces, Plaintext
<1>4. ReadInOrder(w, P, y, d, <<>>)
  BY <1>1, OrderDropped
<1>5. ASSUME c \notin dropped
      PROVE  NothingMissing(w, P, y, conn[c] = "closed", d, <<>>, "eof", 0)
  <2>1. NothingMissing(w, P, y, conn[c] = "closed", d, a, reader[c], length[c])
    BY <1>1, <1>5
  <2> QED
    BY <2>1, MissingEnds
<1>6. /\ InOrder(Written(c), Pieces(c)', OnWire(c))
      /\ ReadInOrder(Written(c), Pieces(c)', OnWire(c), Plaintext(c)', acc'[c])
      /\ c \notin dropped =>
           NothingMissing(Written(c), Pieces(c)', OnWire(c), conn[c] = "closed",
                          Plaintext(c)', acc'[c], reader'[c], length'[c])
  BY <1>1, <1>2, <1>3, <1>4, <1>5
<1>7. /\ crypt = "none" =>
            reader'[c] \in {"length", "eof"} /\ acc'[c] = <<>> /\ plain'[c] = <<>>
      /\ reader'[c] = "eof" => c \in closeCh
  BY <1>2
<1> QED
  BY <1>2, <1>6, <1>7, CarriedRead

\* How many bytes of plaintext a Write below takes.
LEMMA TakenSize ==
  ASSUME TypeOK, NEW c \in Conns, Carried(c), unwritten[c] > 0,
         NEW k, k = IF crypt = "none" THEN unwritten[c] ELSE Min({unwritten[c], maxPayload})
  PROVE  /\ k \in Nat \ {0} /\ k <= unwritten[c] /\ (crypt # "none" => k <= maxPayload)
         /\ unwritten[c] - k \in Nat /\ sent[c] + k \in 0..MaxBytes
         /\ (unwritten[c] - k) + (sent[c] + k) <= MaxBytes
<1>1. PICK u \in Nat \ {0}, p \in Nat \ {0}, s \in Nat, M \in Nat :
        u = unwritten[c] /\ p = maxPayload /\ s = sent[c] /\ M = MaxBytes /\ u + s <= M
  <2>1. unwritten[c] \in Nat /\ sent[c] \in Nat /\ MaxBytes \in Nat
    BY Types
  <2>2. unwritten[c] \in Nat \ {0}
    BY <2>1
  <2>3. unwritten[c] + sent[c] <= MaxBytes
    BY DEF Carried
  <2> QED
    BY <2>1, <2>2, <2>3, Sizes
<1>2. Min({u, p}) = IF u <= p THEN u ELSE p
  BY MinPair
<1>3. k \in Nat \ {0} /\ k <= u /\ (crypt # "none" => k <= p)
  <2>1. CASE crypt = "none"
    BY <1>1, <2>1
  <2>2. CASE crypt # "none"
    <3>1. k = IF u <= p THEN u ELSE p
      BY <1>1, <1>2, <2>2
    <3> QED
      BY <3>1
  <2> QED
    BY <2>1, <2>2
<1>4. PICK j \in Nat \ {0} : j = k /\ j <= u
  BY <1>3
<1>5. u - j \in Nat /\ s + j \in 0..M /\ (u - j) + (s + j) <= M
  BY <1>1, <1>4
<1> QED
  BY <1>1, <1>3, <1>4, <1>5

\* A Write below puts s on the wire, and what was written grows by it.
LEMMA WriteGrows ==
  ASSUME TypeOK, NEW c \in Conns, Carried(c), WriteFrame(c), NEW w \in Writing,
         w = Written(c), Divided(w)
  PROVE  \E v \in Writing, s \in Seq(Byte) :
           /\ v = Written(c)' /\ Divided(v) /\ Grows(w, v)
           /\ wire' = [wire EXCEPT ![c] = @ \o s]
           /\ Run(v, s, Total(w)) /\ Total(v) = Total(w) + Len(s)
           /\ frames'[c] \in Seq(Frame)
<1> DEFINE k == IF crypt = "none" THEN unwritten[c] ELSE Min({unwritten[c], maxPayload})
           f == Len(frames[c]) + 1
           e == [first |-> sent[c] + 1, size |-> k]
<1>1. /\ w.crypt = crypt /\ w.frames = frames[c] /\ w.sent = sent[c]
      /\ w.crypt \in {"none", "chacha20"}
  BY DEF Written, Writing
<1>2. /\ k \in Nat \ {0} /\ (crypt # "none" => k <= maxPayload)
  <2>1. unwritten[c] > 0
    BY DEF WriteFrame
  <2> QED
    BY <2>1, TakenSize
<1>3. sent'[c] = sent[c] + k /\ crypt' = crypt
  BY DEF WriteFrame, TypeOK
<1>4. CASE crypt = "none"
  <2>1. PICK v : v = [crypt |-> w.crypt, frames |-> w.frames, sent |-> w.sent + k]
    OBVIOUS
  <2>2. Written(c)' = v
    BY <1>1, <1>3, <1>4, <2>1 DEF Written, WriteFrame
  <2>3. w.crypt = "none"
    BY <1>1, <1>4
  <2>4. v \in Writing /\ Divided(v) /\ Grows(w, v) /\ Total(v) = Total(w) + k
    <3> HIDE DEF k
    <3> QED
      BY <1>2, <2>1, <2>3, PlainGrows
  <2>5. PICK s : s = [i \in 1..k |-> <<0, w.sent + i>>]
    OBVIOUS
  <2>6. s \in Seq(Byte) /\ Len(s) = k /\ Run(v, s, Total(w))
    <3> HIDE DEF k
    <3> QED
      BY <1>2, <2>1, <2>3, <2>5, PlainRun
  <2>7. wire' = [wire EXCEPT ![c] = @ \o s]
    BY <1>1, <1>4, <2>5 DEF WriteFrame
  <2>8. frames'[c] \in Seq(Frame)
    BY <1>1, <1>4 DEF WriteFrame, Writing
  <2> QED
    BY <2>2, <2>4, <2>6, <2>7, <2>8
<1>5. CASE crypt # "none"
  <2>1. PICK v : v = [crypt |-> w.crypt, sent |-> w.sent + k,
                      frames |-> Append(w.frames, [first |-> w.sent + 1, size |-> k])]
    OBVIOUS
  <2>2. frames'[c] = Append(frames[c], e)
    BY <1>5 DEF WriteFrame, TypeOK
  <2>3. Written(c)' = v
    BY <1>1, <1>3, <2>1, <2>2 DEF Written
  <2>4. w.crypt = "chacha20" /\ k <= maxPayload
    BY <1>1, <1>2, <1>5
  <2>5. /\ v \in Writing /\ Divided(v) /\ Grows(w, v)
        /\ Total(v) = Total(w) + (LengthSize + Overhead + k)
    <3> HIDE DEF k
    <3> QED
      BY <1>2, <2>1, <2>4, FrameGrows
  <2>6. PICK s : s = FrameOf(f, k)
    OBVIOUS
  <2>7. s \in Seq(Byte) /\ Len(s) = LengthSize + Overhead + k /\ Run(v, s, Total(w))
    <3>1. f = Len(w.frames) + 1
      BY <1>1
    <3> HIDE DEF k, f
    <3> QED
      BY SMTT(30), <1>2, <2>1, <2>4, <2>6, <3>1, FrameRun
  <2>8. wire' = [wire EXCEPT ![c] = @ \o s]
    BY <1>5, <2>6 DEF WriteFrame, FrameOf, HeaderOf, Header
  <2>9. frames'[c] \in Seq(Frame)
    BY <2>3, <2>5 DEF Writing, Written
  <2> QED
    BY <2>3, <2>5, <2>7, <2>8, <2>9
<1> QED
  BY <1>4, <1>5

\* Write sends a frame, or the whole of b.
LEMMA CarriedWrite ==
  ASSUME TypeOK, NEW c \in Conns, Carried(c), WriteFrame(c)
  PROVE  Carried(c)'
<1>1. PICK w \in Writing, P \in Seq(Seq(Byte)), d \in Seq(Nat), a \in Seq(Byte), y \in Nat :
        /\ w = Written(c) /\ P = Pieces(c) /\ d = Plaintext(c) /\ a = acc[c] /\ y = OnWire(c)
        /\ w.crypt = crypt /\ w.frames = frames[c] /\ w.sent = sent[c]
        /\ Total(w) \in Nat /\ Len(wire[c]) \in Nat /\ y = Total(w) - Len(wire[c])
        /\ Divided(w) /\ InOrder(w, P, y) /\ ReadInOrder(w, P, y, d, a)
        /\ Run(w, wire[c], y)
        /\ c \notin dropped =>
             NothingMissing(w, P, y, conn[c] = "closed", d, a, reader[c], length[c])
  BY Known
<1>2. PICK v \in Writing, s \in Seq(Byte) :
        /\ v = Written(c)' /\ Divided(v) /\ Grows(w, v)
        /\ wire' = [wire EXCEPT ![c] = @ \o s]
        /\ Run(v, s, Total(w)) /\ Total(v) = Total(w) + Len(s)
  <2>1. w = Written(c) /\ Divided(w)
    BY <1>1
  <2>2. \E v \in Writing, s \in Seq(Byte) :
           /\ v = Written(c)' /\ Divided(v) /\ Grows(w, v)
           /\ wire' = [wire EXCEPT ![c] = @ \o s]
           /\ Run(v, s, Total(w)) /\ Total(v) = Total(w) + Len(s)
           /\ frames'[c] \in Seq(Frame)
    BY <2>1, WriteGrows
  <2> QED
    BY <2>2
<1>3. /\ conn' = conn /\ closeCh' = closeCh /\ dropped' = dropped /\ crypt' = crypt
      /\ readBuf' = readBuf /\ readCh' = readCh
      /\ reader' = reader /\ acc' = acc /\ length' = length /\ plain' = plain
      /\ delivered' = delivered
  BY DEF WriteFrame, dataVars, readVars
<1>4. Pieces(c)' = P /\ Plaintext(c)' = d /\ acc'[c] = a
  BY <1>1, <1>3 DEF Pieces, Plaintext
<1>5. wire[c] \in Seq(Byte) /\ wire'[c] = wire[c] \o s
  BY <1>2, Types DEF TypeOK, GnetTypeOK
<1>6. OnWire(c)' = y
  <2>1. PICK T \in Nat, m \in Nat, n \in Nat :
          T = Total(w) /\ m = Len(wire[c]) /\ n = Len(s) /\ y = T - m
    BY <1>1
  <2>2. Len(wire[c] \o s) = m + n
    BY <1>5, <2>1, Joined
  <2>3. (T + n) - (m + n) = T - m
    OBVIOUS
  <2> QED
    BY <1>2, <1>5, <2>1, <2>2, <2>3 DEF OnWire
<1>7. Run(v, wire'[c], y)
  <2>1. Run(v, wire[c], y)
    BY <1>1, <1>2, <1>5, RunGrown
  <2>2. Run(v, s, y + Len(wire[c]))
    <3>1. y + Len(wire[c]) = Total(w)
      BY <1>1
    <3> QED
      BY <1>2, <3>1
  <2>3. Run(v, wire[c] \o s, y)
    <3>1. y \in Int
      OBVIOUS
    <3> QED
      BY <1>5, <2>1, <2>2, <3>1, RunJoined
  <2> QED
    BY <1>5, <2>3
<1>8. InOrder(v, P, y) /\ ReadInOrder(v, P, y, d, a)
  BY <1>1, <1>2, PiecesGrown, OrderGrown
<1>9. ASSUME c \notin dropped
      PROVE  NothingMissing(v, P, y, conn[c] = "closed", d, a, reader[c], length[c])
  <2>1. NothingMissing(w, P, y, conn[c] = "closed", d, a, reader[c], length[c])
    BY <1>1, <1>9
  <2> QED
    BY <1>1, <1>2, <2>1, MissingGrown
<1>10. unwritten'[c] + sent'[c] <= MaxBytes
  <2> DEFINE k == IF crypt = "none" THEN unwritten[c] ELSE Min({unwritten[c], maxPayload})
  <2>1. unwritten'[c] = unwritten[c] - k /\ sent'[c] = sent[c] + k /\ unwritten[c] > 0
    BY DEF WriteFrame, TypeOK
  <2>2. (unwritten[c] - k) + (sent[c] + k) <= MaxBytes
    <3>1. unwritten[c] > 0
      BY <2>1
    <3> QED
      BY <3>1, TakenSize
  <2> QED
    BY <2>1, <2>2
<1>11. /\ crypt = "none" =>
            reader[c] \in {"length", "eof"} /\ acc[c] = <<>> /\ plain[c] = <<>>
       /\ reader[c] = "eof" => c \in closeCh
  BY DEF Carried
<1> QED
  BY <1>1, <1>2, <1>3, <1>4, <1>6, <1>7, <1>8, <1>9, <1>10, <1>11 DEF Carried

-----------------------------------------------------------------------------
(* Types *)

\* What TypeOK says of the client and the reader.
EndsTypeOK ==
  /\ crypt \in {"none", "chacha20"}
  /\ unwritten \in [Conns -> Nat] /\ sent \in [Conns -> 0..MaxBytes]
  /\ frames \in [Conns -> Seq(Frame)]
  /\ reader \in [Conns -> {"length", "body", "eof", "corrupt"}]
  /\ acc \in [Conns -> Seq(Byte)]
  /\ length \in [Conns -> 0..(LengthLimit - 1)]
  /\ plain \in [Conns -> Seq(1..MaxBytes)]
  /\ delivered \in [Conns -> Seq(1..MaxBytes)]

\* TypeOK has two halves.
LEMMA TypeHalves ==
  TypeOK <=> GnetTypeOK(Byte) /\ EndsTypeOK
BY DEF TypeOK, EndsTypeOK, Byte, Frame

\* The same of the next state.
LEMMA TypeHalvesNext ==
  ASSUME GnetTypeOK(Byte)', EndsTypeOK'
  PROVE  TypeOK'
<1>1. TypeOK' <=> (GnetTypeOK(Byte) /\ EndsTypeOK)'
  BY TypeHalves, PTL
<1> QED
  BY <1>1

\* The event loop hands over a connection.
LEMMA TypeOpen ==
  ASSUME GnetTypeOK(Byte), OnOpenHandOver
  PROVE  GnetTypeOK(Byte)'
<1>1. /\ loop \in Conns /\ acceptCh \in Seq(Conns) /\ Len(acceptCh) < AcceptCap
      /\ acceptCh' = Append(acceptCh, loop) /\ loop' = None
  BY DEF GnetTypeOK, OnOpenHandOver
<1>2. acceptCh' \in Seq(Conns) /\ Len(acceptCh') = Len(acceptCh) + 1 /\ Len(acceptCh) \in Nat
  BY <1>1, Appended
<1>3. Len(acceptCh') <= AcceptCap
  BY <1>1, <1>2, GnetAssumption
<1> QED
  BY <1>1, <1>2, <1>3 DEF GnetTypeOK, OnOpenHandOver, dataVars

\* The event loop takes n bytes from the wire.
LEMMA TypeTraffic ==
  ASSUME GnetTypeOK(Byte), NEW c \in Conns, OnTraffic(c)
  PROVE  GnetTypeOK(Byte)'
<1>1. PICK n \in 1..Len(wire[c]) :
        /\ wire' = [wire EXCEPT ![c] = SubSeq(@, n + 1, Len(@))]
        /\ \/ /\ Len(readCh[c]) < ReadCap
              /\ readCh' = [readCh EXCEPT ![c] = Append(@, SubSeq(wire[c], 1, n))]
              /\ UNCHANGED <<conn, dropped>>
           \/ /\ conn' = [conn EXCEPT ![c] = "closed"]
              /\ UNCHANGED <<readCh, dropped>>
           \/ /\ dropped' = dropped \cup {c}
              /\ UNCHANGED <<conn, readCh>>
  BY DEF OnTraffic
<1>2. wire[c] \in Seq(Byte) /\ readCh[c] \in Seq(Seq(Byte)) /\ n \in 0..Len(wire[c])
  BY DEF GnetTypeOK
<1>3. SubSeq(wire[c], 1, n) \in Seq(Byte) /\ SubSeq(wire[c], n + 1, Len(wire[c])) \in Seq(Byte)
  BY <1>2, Parts
<1>4. wire' \in [Conns -> Seq(Byte)]
  BY <1>1, <1>3 DEF GnetTypeOK
<1>5. readCh' \in [Conns -> Seq(Seq(Byte))] /\ \A e \in Conns : Len(readCh'[e]) <= ReadCap
  <2>1. CASE /\ Len(readCh[c]) < ReadCap
             /\ readCh' = [readCh EXCEPT ![c] = Append(@, SubSeq(wire[c], 1, n))]
    <3>1. PICK r \in Seq(Seq(Byte)) :
            r = Append(readCh[c], SubSeq(wire[c], 1, n)) /\ Len(r) <= ReadCap
      <4>1. /\ Append(readCh[c], SubSeq(wire[c], 1, n)) \in Seq(Seq(Byte))
            /\ Len(Append(readCh[c], SubSeq(wire[c], 1, n))) = Len(readCh[c]) + 1
            /\ Len(readCh[c]) \in Nat
        BY <1>2, <1>3, Appended
      <4>2. PICK N \in Nat, M \in Nat : N = Len(readCh[c]) /\ M = ReadCap /\ N < M
        BY <2>1, <4>1, GnetAssumption
      <4>3. N + 1 <= M
        BY <4>2
      <4> QED
        BY <4>1, <4>2, <4>3
    <3>2. readCh' = [readCh EXCEPT ![c] = r]
      BY <2>1, <3>1
    <3> QED
      BY <3>1, <3>2 DEF GnetTypeOK
  <2>2. CASE readCh' = readCh
    BY <2>2 DEF GnetTypeOK
  <2> QED
    BY <1>1, <2>1, <2>2
<1>6. conn' \in [Conns -> {"new", "pending", "open", "closed"}] /\ dropped' \subseteq Conns
  BY <1>1 DEF GnetTypeOK
<1> QED
  BY <1>4, <1>5, <1>6 DEF GnetTypeOK, OnTraffic, listenVars

\* Accept returns a connection.
LEMMA TypeAccept ==
  ASSUME GnetTypeOK(Byte), Accept
  PROVE  GnetTypeOK(Byte)'
<1>1. acceptCh \in Seq(Conns) /\ acceptCh # <<>> /\ acceptCh' = Tail(acceptCh)
      /\ accepted' = accepted \cup {Head(acceptCh)} /\ Len(acceptCh) <= AcceptCap
  BY DEF GnetTypeOK, Accept
<1>2. /\ acceptCh' \in Seq(Conns) /\ Len(acceptCh') = Len(acceptCh) - 1
      /\ Len(acceptCh) \in Nat \ {0} /\ Head(acceptCh) \in Conns
  BY <1>1, Remaining
<1>3. Len(acceptCh') <= AcceptCap
  BY <1>1, <1>2, GnetAssumption
<1> QED
  BY <1>1, <1>2, <1>3 DEF GnetTypeOK, Accept, dataVars

\* The listener and the engine keep their types.
LEMMA TypeGnet ==
  ASSUME TypeOK, Gnet
  PROVE  TypeOK'
<1>1. GnetTypeOK(Byte) /\ EndsTypeOK
  BY TypeHalves
<1>2. EndsTypeOK'
  BY <1>1 DEF EndsTypeOK, Gnet, writeVars, readVars
<1>3. GnetTypeOK(Byte)'
  <2>1. CASE OnOpenHandOver
    BY <1>1, <2>1, TypeOpen
  <2>2. CASE OnOpenRefuse
    BY <1>1, <2>2 DEF GnetTypeOK, OnOpenRefuse, dataVars
  <2>3. CASE StopEngine
    BY <1>1, <2>3 DEF GnetTypeOK, StopEngine, dataVars
  <2>4. ASSUME NEW c \in Conns, OnOpen(c) PROVE GnetTypeOK(Byte)'
    BY <1>1, <2>4 DEF GnetTypeOK, OnOpen, dataVars
  <2>5. ASSUME NEW c \in Conns, OnTraffic(c) PROVE GnetTypeOK(Byte)'
    BY <1>1, <2>5, TypeTraffic
  <2>6. ASSUME NEW c \in Conns, OnClose(c) PROVE GnetTypeOK(Byte)'
    BY <1>1, <2>6 DEF GnetTypeOK, OnClose, dataVars, listenVars
  <2>7. CASE Accept
    BY <1>1, <2>7, TypeAccept
  <2>8. CASE AcceptFails \/ CloseListener \/ Boot
    BY <1>1, <2>8 DEF GnetTypeOK, AcceptFails, CloseListener, Boot, dataVars
  <2>9. ASSUME NEW c \in Conns, PeerConnects(c) PROVE GnetTypeOK(Byte)'
    BY <1>1, <2>9 DEF GnetTypeOK, PeerConnects, dataVars, listenVars
  <2>10. ASSUME NEW c \in Conns, PeerCloses(c) PROVE GnetTypeOK(Byte)'
    BY <1>1, <2>10 DEF GnetTypeOK, PeerCloses, dataVars, listenVars
  <2> QED
    BY <2>1, <2>2, <2>3, <2>4, <2>5, <2>6, <2>7, <2>8, <2>9, <2>10, ChannelAssumption
    DEF Gnet, Engine
<1> QED
  BY <1>2, <1>3, TypeHalvesNext

\* What a Read returns of s, and what it leaves.
LEMMA CutTypes ==
  ASSUME NEW S, NEW s \in Seq(S), NEW m \in Nat
  PROVE  SubSeq(s, 1, Min({m, Len(s)})) \in Seq(S) /\ SubSeq(s, m + 1, Len(s)) \in Seq(S)
<1>1. PICK N \in Nat : N = Len(s)
  OBVIOUS
<1>2. Min({m, N}) = IF m <= N THEN m ELSE N
  BY MinPair
<1>3. CASE m <= N
  <2>1. m \in 0..Len(s)
    BY <1>1, <1>3
  <2>2. SubSeq(s, 1, m) \in Seq(S) /\ SubSeq(s, m + 1, Len(s)) \in Seq(S)
    BY <2>1, Parts
  <2> QED
    BY <1>1, <1>2, <1>3, <2>2
<1>4. CASE ~(m <= N)
  <2>1. N \in 0..Len(s)
    BY <1>1
  <2>2. SubSeq(s, 1, N) \in Seq(S)
    BY <2>1, Parts
  <2>3. SubSeq(s, m + 1, Len(s)) = <<>>
    BY <1>1, <1>4
  <2>4. <<>> \in Seq(S)
    OBVIOUS
  <2> QED
    BY <1>1, <1>2, <1>4, <2>2, <2>3, <2>4
<1> QED
  BY <1>3, <1>4

\* Read below returns bytes.
LEMMA TypeRead ==
  ASSUME GnetTypeOK(Byte), NEW c \in Conns, NEW m \in Nat, Read(c, m)
  PROVE  GnetTypeOK(Byte)' /\ ReadBytes(c, m) \in Seq(Byte)
<1>1. /\ readBuf[c] \in Seq(Byte) /\ readCh[c] \in Seq(Seq(Byte)) /\ Len(readCh[c]) <= ReadCap
      /\ readBuf[c] = <<>> => readCh[c] # <<>>
  BY DEF GnetTypeOK, Read, CanRead
<1>2. readBuf[c] = <<>> =>
        /\ Tail(readCh[c]) \in Seq(Seq(Byte)) /\ Len(Tail(readCh[c])) = Len(readCh[c]) - 1
        /\ Len(readCh[c]) \in Nat \ {0} /\ Head(readCh[c]) \in Seq(Byte)
  <2>1. CASE readBuf[c] = <<>>
    <3>1. readCh[c] # <<>>
      BY <1>1, <2>1
    <3>2. /\ Tail(readCh[c]) \in Seq(Seq(Byte)) /\ Len(Tail(readCh[c])) = Len(readCh[c]) - 1
          /\ Len(readCh[c]) \in Nat \ {0} /\ Head(readCh[c]) = readCh[c][1]
          /\ readCh[c][1] \in Seq(Byte)
      BY <1>1, <3>1, Remaining
    <3> QED
      BY <3>2
  <2> QED
    BY <2>1
<1>3. Piece(c) \in Seq(Byte)
  BY <1>1, <1>2 DEF Piece
<1>4. /\ ReadBytes(c, m) \in Seq(Byte) /\ SubSeq(Piece(c), m + 1, Len(Piece(c))) \in Seq(Byte)
  BY <1>3, CutTypes DEF ReadBytes
<1>5. readBuf' \in [Conns -> Seq(Byte)]
  BY <1>4 DEF GnetTypeOK, Read
<1>6. readCh' \in [Conns -> Seq(Seq(Byte))] /\ \A e \in Conns : Len(readCh'[e]) <= ReadCap
  <2>1. CASE readBuf[c] # <<>>
    BY <2>1 DEF GnetTypeOK, Read
  <2>2. CASE readBuf[c] = <<>>
    <3>1. PICK r \in Seq(Seq(Byte)) : r = Tail(readCh[c]) /\ Len(r) <= ReadCap
      <4>1. PICK k \in Nat, M \in Nat : k = Len(readCh[c]) /\ M = ReadCap /\ k <= M
        BY <1>1, <1>2, <2>2, GnetAssumption
      <4>2. k - 1 <= M
        BY <4>1
      <4> QED
        BY <1>2, <2>2, <4>1, <4>2
    <3>2. readCh' = [readCh EXCEPT ![c] = r]
      BY <2>2, <3>1 DEF Read
    <3> QED
      BY <3>1, <3>2 DEF GnetTypeOK
  <2> QED
    BY <2>1, <2>2
<1> QED
  BY <1>4, <1>5, <1>6 DEF GnetTypeOK, Read, listenVars

\* What was sent are numbers up to MaxBytes.
LEMMA TypePlain ==
  ASSUME TypeOK, NEW c \in Conns, Carried(c), NEW m \in Nat \ {0}, ReadPlain(c, m)
  PROVE  TypeOK'
<1>1. GnetTypeOK(Byte) /\ EndsTypeOK
  BY TypeHalves
<1>2. crypt = "none" /\ Read(c, m)
  BY DEF ReadPlain
<1>3. PICK w \in Writing, s \in Seq(Byte), x \in Nat, N \in Nat, M \in Nat :
        /\ s = ReadBytes(c, m) /\ Run(w, s, x) /\ w.crypt = "none" /\ N = w.sent
        /\ M = MaxBytes /\ N <= M
  <2>1. PICK w \in Writing, P \in Seq(Seq(Byte)), d \in Seq(Nat), a \in Seq(Byte), y \in Nat :
          /\ P = Pieces(c) /\ w.crypt = crypt /\ w.sent = sent[c]
          /\ Divided(w) /\ InOrder(w, P, y)
    <3>1. PICK w \in Writing, P \in Seq(Seq(Byte)), d \in Seq(Nat), a \in Seq(Byte), y \in Nat :
            /\ w = Written(c) /\ P = Pieces(c) /\ d = Plaintext(c) /\ a = acc[c] /\ y = OnWire(c)
            /\ w.crypt = crypt /\ w.frames = frames[c] /\ w.sent = sent[c]
            /\ Total(w) \in Nat /\ Len(wire[c]) \in Nat /\ y = Total(w) - Len(wire[c])
            /\ Divided(w) /\ InOrder(w, P, y) /\ ReadInOrder(w, P, y, d, a)
            /\ Run(w, wire[c], y)
            /\ c \notin dropped =>
                 NothingMissing(w, P, y, conn[c] = "closed", d, a, reader[c], length[c])
      BY Known
    <3> QED
      BY <3>1
  <2>2. PICK n \in Nat :
          /\ P # <<>> /\ n \in 1..Len(P[1]) /\ ReadBytes(c, m) = SubSeq(P[1], 1, n)
    <3>1. \E Q \in Seq(Seq(Byte)), n \in Nat :
            /\ Q = Pieces(c) /\ Q # <<>> /\ n \in 1..Len(Q[1]) /\ n <= m
            /\ ReadBytes(c, m) = SubSeq(Q[1], 1, n) /\ Pieces(c)' = Rest(Q, n)
      BY <1>2, ReadCuts
    <3> QED
      BY <2>1, <3>1
  <2>3. /\ SubSeq(P[1], 1, n) \in Seq(Byte) /\ Start(w, P[1]) \in Nat
        /\ Run(w, SubSeq(P[1], 1, n), Start(w, P[1]))
    BY <2>1, <2>2, PieceCut
  <2>4. sent[c] \in Nat /\ sent[c] <= MaxBytes /\ MaxBytes \in Nat
    BY <1>1, ChannelAssumption DEF EndsTypeOK
  <2>5. /\ ReadBytes(c, m) \in Seq(Byte) /\ Start(w, P[1]) \in Nat
        /\ Run(w, ReadBytes(c, m), Start(w, P[1]))
    BY <2>2, <2>3
  <2>6. w.crypt = "none" /\ w.sent \in Nat /\ w.sent <= MaxBytes
    BY <1>2, <2>1, <2>4
  <2> QED
    BY <2>4, <2>5, <2>6
<1>4. Values(s) \in Seq(1..MaxBytes)
  <2>1. Len(s) \in Nat /\ \A i \in 1..Len(s) : s[i] \in Byte
    OBVIOUS
  <2>2. ASSUME NEW i \in 1..Len(s) PROVE s[i][2] \in 1..M
    <3>1. s[i][2] \in Nat \ {0}
      BY <2>1 DEF Byte
    <3>2. s[i][2] <= N
      BY <1>3 DEF Run, IsByte
    <3>3. PICK k \in Nat \ {0} : k = s[i][2] /\ k <= N
      BY <3>1, <3>2
    <3>4. k \in 1..M
      BY <1>3, <3>3
    <3> QED
      BY <3>3, <3>4
  <2>3. [i \in 1..Len(s) |-> s[i][2]] \in Seq(1..M)
    BY <2>1, <2>2
  <2> QED
    BY <1>3, <2>3 DEF Values
<1>5. delivered' \in [Conns -> Seq(1..MaxBytes)]
  <2>1. PICK v \in Seq(1..MaxBytes) : v = delivered[c] \o Values(s)
    <3>1. delivered[c] \in Seq(1..MaxBytes)
      BY <1>1 DEF EndsTypeOK
    <3>2. delivered[c] \o Values(s) \in Seq(1..MaxBytes)
      BY <1>4, <3>1, Joined
    <3> QED
      BY <3>2
  <2>2. delivered' = [delivered EXCEPT ![c] = v]
    BY <1>3, <2>1 DEF ReadPlain, Values
  <2> QED
    BY <1>1, <2>1, <2>2 DEF EndsTypeOK
<1>6. GnetTypeOK(Byte)'
  <2>1. m \in Nat
    OBVIOUS
  <2> QED
    BY <1>1, <1>2, <2>1, TypeRead
<1>7. EndsTypeOK'
  BY <1>1, <1>5 DEF EndsTypeOK, ReadPlain, writeVars
<1> QED
  BY <1>6, <1>7, TypeHalvesNext

\* A step of the reader that leaves the connection below alone.
LEMMA GnetStays ==
  ASSUME GnetTypeOK(Byte), UNCHANGED gnetVars
  PROVE  GnetTypeOK(Byte)'
BY DEF GnetTypeOK, gnetVars, listenVars, dataVars

\* Buffered plaintext goes from plain to delivered.
LEMMA TypeBuffered ==
  ASSUME TypeOK, NEW c \in Conns, NEW m \in Nat \ {0}, ReadBuffered(c, m)
  PROVE  TypeOK'
<1>1. GnetTypeOK(Byte) /\ EndsTypeOK
  BY TypeHalves
<1>2. PICK v \in Seq(1..MaxBytes), p \in Seq(1..MaxBytes) :
        /\ v = delivered[c] \o SubSeq(plain[c], 1, Min({m, Len(plain[c])}))
        /\ p = SubSeq(plain[c], m + 1, Len(plain[c]))
  <2>1. delivered[c] \in Seq(1..MaxBytes) /\ plain[c] \in Seq(1..MaxBytes) /\ m \in Nat
    BY <1>1 DEF EndsTypeOK
  <2>2. /\ SubSeq(plain[c], 1, Min({m, Len(plain[c])})) \in Seq(1..MaxBytes)
        /\ SubSeq(plain[c], m + 1, Len(plain[c])) \in Seq(1..MaxBytes)
    BY <2>1, CutTypes
  <2>3. delivered[c] \o SubSeq(plain[c], 1, Min({m, Len(plain[c])})) \in Seq(1..MaxBytes)
    BY <2>1, <2>2, Joined
  <2> QED
    BY <2>2, <2>3
<1>3. delivered' = [delivered EXCEPT ![c] = v] /\ plain' = [plain EXCEPT ![c] = p]
  BY <1>2 DEF ReadBuffered
<1>4. EndsTypeOK'
  <2>1. /\ plain \in [Conns -> Seq(1..MaxBytes)]
        /\ delivered \in [Conns -> Seq(1..MaxBytes)]
    BY <1>1 DEF EndsTypeOK
  <2>2. delivered' \in [Conns -> Seq(1..MaxBytes)]
    BY <1>3, <2>1
  <2>3. plain' \in [Conns -> Seq(1..MaxBytes)]
    BY <1>3, <2>1
  <2>4. UNCHANGED <<crypt, unwritten, sent, frames, reader, acc, length>>
    BY DEF ReadBuffered, writeVars
  <2> QED
    BY <1>1, <2>2, <2>3, <2>4 DEF EndsTypeOK
<1>5. GnetTypeOK(Byte)'
  BY <1>1, GnetStays DEF ReadBuffered
<1> QED
  BY <1>4, <1>5, TypeHalvesNext

\* ReadFull gets bytes.
LEMMA TypeFull ==
  ASSUME TypeOK, NEW c \in Conns, ReadFull(c)
  PROVE  TypeOK'
<1>1. GnetTypeOK(Byte) /\ EndsTypeOK
  BY TypeHalves
<1>2. PICK m \in Nat : m = Wanted(c) - Len(acc[c]) /\ Read(c, m)
  <2>1. PICK k \in Nat, n \in Nat : k = Wanted(c) /\ n = Len(acc[c]) /\ n < k
    <3>1. Wanted(c) \in Nat /\ Len(acc[c]) \in Nat
      BY Types, Sizes DEF Wanted
    <3> QED
      BY <3>1 DEF ReadFull
  <2>2. k - n \in Nat
    BY <2>1
  <2> QED
    BY <2>1, <2>2 DEF ReadFull
<1>3. GnetTypeOK(Byte)' /\ ReadBytes(c, m) \in Seq(Byte)
  BY <1>1, <1>2, TypeRead
<1>4. PICK v \in Seq(Byte) : v = acc[c] \o ReadBytes(c, m)
  <2>1. acc[c] \in Seq(Byte)
    BY <1>1 DEF EndsTypeOK
  <2> QED
    BY <1>3, <2>1, Joined
<1>5. acc' = [acc EXCEPT ![c] = v]
  BY <1>2, <1>4 DEF ReadFull
<1>6. EndsTypeOK'
  BY <1>1, <1>5 DEF EndsTypeOK, ReadFull, writeVars
<1> QED
  BY <1>3, <1>6, TypeHalvesNext

\* A length is below LengthLimit.
LEMMA TypeLength ==
  ASSUME TypeOK, NEW c \in Conns, ReadLength(c)
  PROVE  TypeOK'
<1>1. GnetTypeOK(Byte) /\ EndsTypeOK
  BY TypeHalves
<1>2. PICK n \in LengthsOf(c, acc[c]) :
        /\ reader' = [reader EXCEPT ![c] = IF n < Overhead THEN "corrupt" ELSE "body"]
        /\ length' = [length EXCEPT ![c] = n]
  BY DEF ReadLength
<1>3. n \in 0..(LengthLimit - 1)
  <2>1. CASE \E f \in 1..Len(frames[c]) : n = FrameLen(c, f) % LengthLimit
    <3>1. PICK f \in 1..Len(frames[c]) : n = FrameLen(c, f) % LengthLimit
      BY <2>1
    <3>2. frames[c] \in Seq(Frame)
      BY <1>1 DEF EndsTypeOK
    <3>3. frames[c][f] \in Frame
      BY <3>2
    <3>4. PICK k \in Nat, t \in Nat \ {0} : k = FrameLen(c, f) /\ t = LengthLimit
      <4>1. PICK i \in Nat, h \in Nat : i = frames[c][f].size /\ h = Overhead
        BY <3>3, Sizes DEF Frame
      <4>2. LengthLimit \in Nat \ {0}
        BY ChannelAssumption
      <4> QED
        BY <4>1, <4>2 DEF FrameLen
    <3>5. k % t \in 0..(t - 1)
      OBVIOUS
    <3> QED
      BY <3>1, <3>4, <3>5
  <2>2. CASE n \in 0..(LengthLimit - 1)
    BY <2>2
  <2> QED
    BY <1>2, <2>1, <2>2 DEF LengthsOf
<1>4. EndsTypeOK'
  <2>1. acc' = [acc EXCEPT ![c] = <<>>] /\ <<>> \in Seq(Byte)
    BY DEF ReadLength
  <2> QED
    BY <1>1, <1>2, <1>3, <2>1 DEF EndsTypeOK, ReadLength, writeVars
<1>5. GnetTypeOK(Byte)'
  BY <1>1, GnetStays DEF ReadLength
<1> QED
  BY <1>4, <1>5, TypeHalvesNext

\* The payload of a frame was sent.
LEMMA PayloadSent ==
  ASSUME TypeOK, NEW c \in Conns, Carried(c), NEW f \in 1..Len(frames[c])
  PROVE  Payload(c, f) \in Seq(1..MaxBytes)
<1>1. PICK w \in Writing :
        Divided(w) /\ w.frames = frames[c] /\ w.sent = sent[c]
  <2>1. PICK w \in Writing, P \in Seq(Seq(Byte)), d \in Seq(Nat), a \in Seq(Byte), y \in Nat :
          /\ w = Written(c) /\ P = Pieces(c) /\ d = Plaintext(c) /\ a = acc[c] /\ y = OnWire(c)
          /\ w.crypt = crypt /\ w.frames = frames[c] /\ w.sent = sent[c]
          /\ Total(w) \in Nat /\ Len(wire[c]) \in Nat /\ y = Total(w) - Len(wire[c])
          /\ Divided(w) /\ InOrder(w, P, y) /\ ReadInOrder(w, P, y, d, a)
          /\ Run(w, wire[c], y)
          /\ c \notin dropped =>
               NothingMissing(w, P, y, conn[c] = "closed", d, a, reader[c], length[c])
    BY Known
  <2> QED
    BY <2>1
<1>2. PICK p \in Nat, z \in Nat \ {0} :
        /\ p = Lead(w, f - 1) /\ z = w.frames[f].size /\ p + z = Lead(w, f)
        /\ PayloadOf(w, f) = [i \in 1..z |-> p + i]
  <2>1. f \in 1..Len(w.frames) /\ Divided(w)
    BY <1>1
  <2>2. \E p \in Nat, z \in Nat \ {0} :
          /\ p = Lead(w, f - 1) /\ z = w.frames[f].size /\ p + z = Lead(w, f)
          /\ PayloadOf(w, f) = [i \in 1..z |-> p + i]
    BY <2>1, PayloadNumbers
  <2> QED
    BY <2>2
<1>3. PICK M \in Nat, N \in Nat, t \in Nat :
        M = MaxBytes /\ N = sent[c] /\ N <= M /\ t = Lead(w, f) /\ t <= N
  <2>1. sent[c] \in Nat /\ sent[c] <= MaxBytes /\ MaxBytes \in Nat
    BY ChannelAssumption DEF TypeOK
  <2>2. f \in 0..Len(w.frames) /\ Len(w.frames) \in 0..Len(w.frames) /\ f <= Len(w.frames)
    BY <1>1 DEF Writing
  <2>3. Lead(w, f) <= Lead(w, Len(w.frames)) /\ Lead(w, f) \in Nat
    BY <1>1, <2>2, PlaceOrder, LeadTypes
  <2>4. Lead(w, Len(w.frames)) = sent[c]
    BY <1>1, <2>2 DEF Lead
  <2> QED
    BY <2>1, <2>3, <2>4
<1>4. ASSUME NEW i \in 1..z PROVE p + i \in 1..M
  <2>1. p + z <= M
    BY <1>2, <1>3
  <2> QED
    BY <2>1
<1>5. [i \in 1..z |-> p + i] \in Seq(1..M)
  BY <1>4
<1>6. Payload(c, f) = PayloadOf(w, f)
  BY <1>1 DEF Payload, PayloadOf
<1> QED
  BY <1>2, <1>3, <1>5, <1>6

\* readFrame has opened a body, or not.
LEMMA TypeBody ==
  ASSUME TypeOK, NEW c \in Conns, Carried(c), ReadBody(c)
  PROVE  TypeOK'
<1>1. GnetTypeOK(Byte) /\ EndsTypeOK
  BY TypeHalves
<1>2. plain' \in [Conns -> Seq(1..MaxBytes)]
  <2>1. CASE plain' = plain
    BY <1>1, <2>1 DEF EndsTypeOK
  <2>2. CASE \E f \in 1..Len(frames[c]) : plain' = [plain EXCEPT ![c] = Payload(c, f)]
    BY <1>1, <2>2, PayloadSent DEF EndsTypeOK
  <2> QED
    BY <2>1, <2>2 DEF ReadBody
<1>3. reader' \in [Conns -> {"length", "body", "eof", "corrupt"}]
  BY <1>1 DEF EndsTypeOK, ReadBody
<1>4. acc' \in [Conns -> Seq(Byte)] /\ length' \in [Conns -> 0..(LengthLimit - 1)]
  <2>1. <<>> \in Seq(Byte)
    OBVIOUS
  <2>2. 0 \in 0..(LengthLimit - 1)
    BY ChannelAssumption
  <2> QED
    BY <1>1, <2>1, <2>2 DEF EndsTypeOK, ReadBody
<1>5. EndsTypeOK'
  BY <1>1, <1>2, <1>3, <1>4 DEF EndsTypeOK, ReadBody, writeVars
<1>6. GnetTypeOK(Byte)'
  BY <1>1, GnetStays DEF ReadBody
<1> QED
  BY <1>5, <1>6, TypeHalvesNext

\* The reader has ended.
LEMMA TypeEnds ==
  ASSUME TypeOK, NEW c \in Conns, ReadEnds(c)
  PROVE  TypeOK'
<1>1. GnetTypeOK(Byte) /\ EndsTypeOK
  BY TypeHalves
<1>2. acc' \in [Conns -> Seq(Byte)] /\ length' \in [Conns -> 0..(LengthLimit - 1)]
  <2>1. <<>> \in Seq(Byte)
    OBVIOUS
  <2>2. 0 \in 0..(LengthLimit - 1)
    BY ChannelAssumption
  <2> QED
    BY <1>1, <2>1, <2>2 DEF EndsTypeOK, ReadEnds
<1>3. EndsTypeOK'
  BY <1>1, <1>2 DEF EndsTypeOK, ReadEnds, writeVars
<1>4. GnetTypeOK(Byte)'
  BY <1>1, GnetStays DEF ReadEnds
<1> QED
  BY <1>3, <1>4, TypeHalvesNext

\* The client writes, or the server closes.
LEMMA TypeWrites ==
  ASSUME TypeOK, NEW c \in Conns, Carried(c),
         (\E n \in WriteSizes : Write(c, n)) \/ WriteFrame(c) \/ WriteFails(c) \/ ServerCloses(c)
  PROVE  TypeOK'
<1>1. GnetTypeOK(Byte) /\ EndsTypeOK
  BY TypeHalves
<1>2. CASE \E n \in WriteSizes : Write(c, n)
  <2>1. PICK n \in Nat : unwritten' = [unwritten EXCEPT ![c] = n]
    BY <1>2, ChannelAssumption DEF Write
  <2>2. EndsTypeOK'
    BY <1>1, <1>2, <2>1 DEF EndsTypeOK, Write, readVars
  <2>3. GnetTypeOK(Byte)'
    BY <1>1, <1>2, GnetStays DEF Write
  <2> QED
    BY <2>2, <2>3, TypeHalvesNext
<1>3. CASE WriteFrame(c)
  <2> DEFINE k == IF crypt = "none" THEN unwritten[c] ELSE Min({unwritten[c], maxPayload})
  <2>1. PICK i \in Nat, j \in 0..MaxBytes :
          unwritten' = [unwritten EXCEPT ![c] = i] /\ sent' = [sent EXCEPT ![c] = j]
    <3>1. unwritten[c] - k \in Nat /\ sent[c] + k \in 0..MaxBytes
      <4>1. unwritten[c] > 0
        BY <1>3 DEF WriteFrame
      <4> QED
        BY <4>1, TakenSize
    <3>2. unwritten' = [unwritten EXCEPT ![c] = @ - k] /\ sent' = [sent EXCEPT ![c] = @ + k]
      BY <1>3 DEF WriteFrame
    <3> HIDE DEF k
    <3> QED
      BY <3>1, <3>2
  <2>2. PICK s \in Seq(Byte) : wire' = [wire EXCEPT ![c] = @ \o s] /\ frames'[c] \in Seq(Frame)
    <3>1. \E w \in Writing : w = Written(c) /\ Divided(w)
      BY Known
    <3> QED
      BY <1>3, <3>1, WriteGrows
  <2>3. wire' \in [Conns -> Seq(Byte)]
    <3>1. PICK v \in Seq(Byte) : v = wire[c] \o s
      <4>1. wire[c] \in Seq(Byte)
        BY <1>1 DEF GnetTypeOK
      <4> QED
        BY <4>1, Joined
    <3>2. wire' = [wire EXCEPT ![c] = v]
      BY <2>2, <3>1
    <3> QED
      BY <1>1, <3>1, <3>2 DEF GnetTypeOK
  <2>4. frames' \in [Conns -> Seq(Frame)]
    <3>1. PICK F \in Seq(Frame) : F = frames'[c]
      BY <2>2
    <3>2. frames' = frames \/ \E e : frames' = [frames EXCEPT ![c] = Append(@, e)]
      BY <1>3 DEF WriteFrame
    <3>3. frames' = frames \/ frames' = [frames EXCEPT ![c] = F]
      BY <1>1, <3>1, <3>2 DEF EndsTypeOK
    <3> QED
      BY <1>1, <3>1, <3>3 DEF EndsTypeOK
  <2>5. EndsTypeOK'
    BY SMTT(30), <1>1, <1>3, <2>1, <2>4 DEF EndsTypeOK, WriteFrame, readVars
  <2>6. GnetTypeOK(Byte)'
    BY <1>1, <1>3, <2>3 DEF GnetTypeOK, WriteFrame, listenVars, dataVars
  <2> QED
    BY <2>5, <2>6, TypeHalvesNext
<1>4. CASE WriteFails(c)
  <2>1. EndsTypeOK'
    BY <1>1, <1>4 DEF EndsTypeOK, WriteFails, readVars
  <2>2. GnetTypeOK(Byte)'
    BY <1>1, <1>4, GnetStays DEF WriteFails
  <2> QED
    BY <2>1, <2>2, TypeHalvesNext
<1>5. CASE ServerCloses(c)
  <2>1. EndsTypeOK'
    BY <1>1, <1>5 DEF EndsTypeOK, ServerCloses, readVars, writeVars
  <2>2. GnetTypeOK(Byte)'
    BY <1>1, <1>5 DEF GnetTypeOK, ServerCloses, Close, listenVars, dataVars
  <2> QED
    BY <2>1, <2>2, TypeHalvesNext
<1> QED
  BY <1>2, <1>3, <1>4, <1>5

-----------------------------------------------------------------------------
(* The invariant *)

\* Nothing was written and nothing is missing when a connection begins.
LEMMA CarriedInit ==
  ASSUME Init, NEW c \in Conns
  PROVE  Carried(c)
<1>1. PICK w : w = Written(c)
  OBVIOUS
<1>2. w.crypt = crypt /\ w.frames = <<>> /\ w.sent = 0
  BY <1>1 DEF Init, Written
<1>3. Len(w.frames) = 0
  BY <1>2
<1>4. Lead(w, 0) = 0 /\ Place(w, 0) = 0 /\ Total(w) = 0
  <2>1. Lead(w, 0) = 0
    BY <1>2, <1>3 DEF Lead
  <2>2. LengthSize + Overhead \in Nat
    BY Sizes
  <2>3. 0 * (LengthSize + Overhead) = 0
    BY <2>2
  <2> QED
    BY <1>3, <2>1, <2>3 DEF Place, Total
<1>5. Divided(w)
  <2>1. ASSUME NEW m \in 0..Len(w.frames), NEW n \in 0..Len(w.frames), m <= n
        PROVE  Lead(w, m) <= Lead(w, n)
    <3>1. m = 0 /\ n = 0
      BY <1>3
    <3> QED
      BY <1>4, <3>1
  <2>2. IF w.crypt = "none" THEN w.frames = <<>> ELSE Lead(w, 0) = 0
    BY <1>2, <1>4
  <2>3. 1..Len(w.frames) = {}
    BY <1>3
  <2> QED
    BY <2>1, <2>2, <2>3 DEF Divided
<1>6. /\ wire[c] = <<>> /\ Pieces(c) = <<>> /\ Plaintext(c) = <<>> /\ acc[c] = <<>>
      /\ plain[c] = <<>> /\ reader[c] = "length" /\ conn[c] = "new"
      /\ unwritten[c] = 0 /\ sent[c] = 0
  BY DEF Init, GnetInit, Pieces, Plaintext
<1>7. OnWire(c) = 0
  <2>1. Len(wire[c]) = 0
    BY <1>6
  <2>2. Total(Written(c)) = 0
    BY <1>1, <1>4
  <2> QED
    BY <2>1, <2>2 DEF OnWire
<1>8. Run(w, <<>>, 0) /\ InOrder(w, <<>>, 0)
  BY DEF Run, InOrder
<1>9. ReadInOrder(w, <<>>, 0, <<>>, <<>>)
  <2>1. Ahead(w, <<>>, 0, 0)
    BY DEF Ahead
  <2>2. IF w.crypt = "none" THEN \A i \in 1..Len(<<>>) : <<>>[i] <= 0
        ELSE \E n \in 0..Len(w.frames) :
               /\ Place(w, n) <= 0 /\ \A i \in 1..Len(<<>>) : <<>>[i] <= Lead(w, n)
               /\ \A k \in 1..Len(<<>>) : Place(w, n) < Rank(w, <<>>[k])
    <3>1. 0 \in 0..Len(w.frames) /\ Place(w, 0) <= 0
      BY <1>3, <1>4
    <3>2. 1..Len(<<>>) = {}
      OBVIOUS
    <3> QED
      BY <3>1, <3>2
  <2>3. 0 \in 0..0 /\ 1..Len(<<>>) = {}
    OBVIOUS
  <2> QED
    BY <2>1, <2>2, <2>3 DEF ReadInOrder
<1>10. NothingMissing(w, <<>>, 0, FALSE, <<>>, <<>>, "length", length[c])
  <2>1. Gapless(w, <<>>, 0, 0, FALSE)
    BY DEF Gapless
  <2>2. Len(<<>>) = 0 /\ 1..Len(<<>>) = {}
    OBVIOUS
  <2>3. w.crypt = "none" => Gapless(w, <<>>, Len(<<>>), 0, FALSE)
    BY <2>1, <2>2
  <2>4. PICK n \in 0..Len(w.frames) : n = 0
    BY <1>3
  <2>5. /\ Len(<<>>) = Lead(w, n) /\ Place(w, n) + 0 = 0
        /\ Run(w, <<>>, Place(w, n) + 0)
        /\ Gapless(w, <<>>, (Place(w, n) + 0) + Len(<<>>), 0, FALSE)
    <3>1. Len(<<>>) = Lead(w, n) /\ Place(w, n) + 0 = 0
      BY <1>4, <2>2, <2>4
    <3>2. (Place(w, n) + 0) + Len(<<>>) = 0
      BY <2>2, <3>1
    <3> QED
      BY <1>8, <2>1, <3>1, <3>2
  <2> QED
    BY <2>2, <2>3, <2>5 DEF NothingMissing
<1>11. (conn[c] = "closed") = FALSE
  BY <1>6
<1>12. NothingMissing(w, <<>>, 0, conn[c] = "closed", <<>>, <<>>, "length", length[c])
  BY <1>10, <1>11
<1>13. unwritten[c] + sent[c] <= MaxBytes
  BY <1>6, ChannelAssumption
<1> QED
  BY <1>1, <1>5, <1>6, <1>7, <1>8, <1>9, <1>12, <1>13 DEF Carried

\* The types hold at the beginning.
LEMMA TypeInit ==
  ASSUME Init
  PROVE  TypeOK
<1>1. <<>> \in Seq(Byte) /\ <<>> \in Seq(Seq(Byte)) /\ <<>> \in Seq(Frame)
      /\ <<>> \in Seq(Conns) /\ <<>> \in Seq(1..MaxBytes)
  OBVIOUS
<1>2. 0 \in 0..MaxBytes /\ 0 \in 0..(LengthLimit - 1)
  BY ChannelAssumption
<1>3. EndsTypeOK
  BY <1>1, <1>2 DEF Init, EndsTypeOK
<1>4. GnetTypeOK(Byte)
  <2>1. Len(<<>>) = 0 /\ 0 <= ReadCap /\ 0 <= AcceptCap
    BY GnetAssumption
  <2> QED
    BY <1>1, <2>1 DEF Init, GnetInit, GnetTypeOK
<1> QED
  BY <1>3, <1>4, TypeHalves

\* The engine and the listener leave the data of a connection alone, but for
\* those that OnTraffic takes.
LEMMA GnetSame ==
  ASSUME TypeOK, Gnet
  PROVE  /\ unwritten' = unwritten /\ UNCHANGED <<writeVars, readVars>>
         /\ \/ \A e \in Conns : SameData(e)
            \/ \E c \in Conns : OnTraffic(c) /\ \A e \in Conns \ {c} : SameData(e)
<1>1. UNCHANGED <<writeVars, readVars>> /\ unwritten' = unwritten
  BY DEF Gnet, writeVars
<1>2. /\ conn \in [Conns -> {"new", "pending", "open", "closed"}]
      /\ wire \in [Conns -> Seq(Byte)] /\ readCh \in [Conns -> Seq(Seq(Byte))]
      /\ loop \in Conns \cup {None}
  BY TypeHalves DEF GnetTypeOK
<1>3. CASE OnOpenHandOver \/ Accept \/ AcceptFails \/ CloseListener \/ Boot
  <2>1. \A e \in Conns : SameData(e)
    BY <1>1, <1>3
    DEF OnOpenHandOver, Accept, AcceptFails, CloseListener, Boot, SameData, writeVars,
        readVars, dataVars
  <2> QED
    BY <1>1, <2>1
<1>4. CASE OnOpenRefuse
  <2>1. \A e \in Conns : SameData(e)
    BY <1>1, <1>2, <1>4 DEF OnOpenRefuse, SameData, writeVars, readVars, dataVars
  <2> QED
    BY <1>1, <2>1
<1>5. CASE StopEngine
  <2>1. \A e \in Conns : SameData(e)
    BY <1>1, <1>2, <1>5 DEF StopEngine, SameData, writeVars, readVars, dataVars
  <2> QED
    BY <1>1, <2>1
<1>6. ASSUME NEW c \in Conns, OnOpen(c) \/ OnClose(c) \/ PeerConnects(c) \/ PeerCloses(c)
      PROVE  \A e \in Conns : SameData(e)
  BY <1>1, <1>2, <1>6
  DEF OnOpen, OnClose, PeerConnects, PeerCloses, SameData, writeVars, readVars, dataVars
<1>7. ASSUME NEW c \in Conns, OnTraffic(c) PROVE \A e \in Conns \ {c} : SameData(e)
  BY <1>1, <1>2, <1>7 DEF OnTraffic, SameData, writeVars, readVars
<1>8. CASE Engine
  <2>1. CASE \E c \in Conns : OnOpen(c) \/ OnTraffic(c) \/ OnClose(c)
    BY <1>1, <1>6, <1>7, <2>1
  <2> QED
    BY <1>3, <1>4, <1>5, <1>8, <2>1 DEF Engine
<1>9. CASE (\E c \in Conns : PeerConnects(c)) \/ \E c \in Active : PeerCloses(c)
  <2>1. Active \subseteq Conns
    BY ChannelAssumption
  <2> QED
    BY <1>1, <1>6, <1>9, <2>1
<1> QED
  BY <1>3, <1>8, <1>9 DEF Gnet

\* A reader leaves the data of other connections alone.
LEMMA ReadSame ==
  ASSUME TypeOK, NEW c \in Conns, NEW e \in Conns, e # c, ReadStep(c)
  PROVE  SameData(e) /\ unwritten' = unwritten
<1>1. /\ readCh \in [Conns -> Seq(Seq(Byte))] /\ readBuf \in [Conns -> Seq(Byte)]
      /\ EndsTypeOK
  BY TypeHalves DEF GnetTypeOK
<1>2. ASSUME NEW m, Read(c, m)
      PROVE  /\ wire' = wire /\ conn' = conn /\ closeCh' = closeCh /\ dropped' = dropped
             /\ readBuf'[e] = readBuf[e] /\ readCh'[e] = readCh[e]
  BY <1>1, <1>2 DEF Read
<1>3. CASE ReadFull(c)
  BY <1>1, <1>2, <1>3 DEF ReadFull, SameData, EndsTypeOK, writeVars
<1>4. CASE ReadLength(c)
  BY <1>1, <1>4 DEF ReadLength, SameData, EndsTypeOK, writeVars, gnetVars, dataVars
<1>5. CASE ReadBody(c)
  BY <1>1, <1>5 DEF ReadBody, SameData, EndsTypeOK, writeVars, gnetVars, dataVars
<1>6. CASE ReadEnds(c)
  BY <1>1, <1>6 DEF ReadEnds, SameData, EndsTypeOK, writeVars, gnetVars, dataVars
<1>7. ASSUME NEW m, ReadPlain(c, m) PROVE SameData(e) /\ unwritten' = unwritten
  BY <1>1, <1>2, <1>7 DEF ReadPlain, SameData, EndsTypeOK, writeVars
<1>8. ASSUME NEW m, ReadBuffered(c, m) PROVE SameData(e) /\ unwritten' = unwritten
  BY <1>1, <1>8 DEF ReadBuffered, SameData, EndsTypeOK, writeVars, gnetVars, dataVars
<1> QED
  BY <1>3, <1>4, <1>5, <1>6, <1>7, <1>8 DEF ReadStep

\* So does a client, and a Write that has sent nothing yet leaves its own alone.
LEMMA WriteSame ==
  ASSUME TypeOK, NEW c \in Conns, NEW e \in Conns, Carried(e),
         \/ \E n \in WriteSizes : Write(c, n)
         \/ WriteFrame(c) /\ e # c
         \/ WriteFails(c)
         \/ ServerCloses(c)
  PROVE  SameData(e) /\ unwritten'[e] + sent[e] <= MaxBytes
<1>1. wire \in [Conns -> Seq(Byte)] /\ EndsTypeOK
  BY TypeHalves DEF GnetTypeOK
<1>2. /\ unwritten[e] \in Nat /\ sent[e] \in Nat
      /\ unwritten[e] + sent[e] <= MaxBytes /\ MaxBytes \in Nat
  BY Types DEF Carried
<1>3. sent[e] <= MaxBytes
  <2>1. PICK u \in Nat, s \in Nat, M \in Nat :
          u = unwritten[e] /\ s = sent[e] /\ M = MaxBytes /\ u + s <= M
    BY <1>2
  <2>2. s <= M
    BY <2>1
  <2> QED
    BY <2>1, <2>2
<1>4. ASSUME NEW n \in WriteSizes, Write(c, n)
      PROVE  SameData(e) /\ unwritten'[e] + sent[e] <= MaxBytes
  <2>1. SameData(e)
    BY <1>4 DEF Write, SameData, readVars, gnetVars, dataVars
  <2>2. n \in Nat /\ sent[c] + n <= MaxBytes
    BY <1>4, ChannelAssumption DEF Write
  <2>3. CASE e = c
    <3>1. unwritten'[e] = n
      BY <1>1, <1>4, <2>3 DEF Write, EndsTypeOK
    <3>2. n + sent[e] <= MaxBytes
      BY <1>2, <2>2, <2>3
    <3> QED
      BY <2>1, <3>1, <3>2
  <2>4. CASE e # c
    <3>1. unwritten'[e] = unwritten[e]
      BY <1>1, <1>4, <2>4 DEF Write, EndsTypeOK
    <3> QED
      BY <1>2, <2>1, <3>1
  <2> QED
    BY <2>3, <2>4
<1>5. CASE WriteFrame(c) /\ e # c
  <2>1. SameData(e)
    <3>1. wire'[e] = wire[e] /\ sent'[e] = sent[e]
      BY <1>1, <1>5 DEF WriteFrame, EndsTypeOK
    <3>2. frames'[e] = frames[e]
      BY <1>1, <1>5 DEF WriteFrame, EndsTypeOK
    <3> QED
      BY <1>5, <3>1, <3>2 DEF WriteFrame, SameData, readVars, dataVars
  <2>2. unwritten'[e] = unwritten[e]
    BY <1>1, <1>5 DEF WriteFrame, EndsTypeOK
  <2> QED
    BY <1>2, <2>1, <2>2
<1>6. CASE WriteFails(c)
  <2>1. SameData(e)
    BY <1>6 DEF WriteFails, SameData, readVars, gnetVars, dataVars
  <2>2. unwritten'[e] = unwritten[e] \/ unwritten'[e] = 0
    BY <1>1, <1>6 DEF WriteFails, EndsTypeOK
  <2>3. 0 + sent[e] <= MaxBytes
    BY <1>2, <1>3
  <2> QED
    BY <1>2, <2>1, <2>2, <2>3
<1>7. CASE ServerCloses(c)
  <2>1. SameData(e)
    BY <1>7 DEF ServerCloses, Close, SameData, readVars, writeVars, dataVars
  <2>2. unwritten' = unwritten
    BY <1>7 DEF ServerCloses, writeVars
  <2> QED
    BY <1>2, <2>1, <2>2
<1> QED
  BY <1>4, <1>5, <1>6, <1>7

\* A step of any kind keeps what was said of a connection.
LEMMA CarriedStep ==
  ASSUME TypeOK, \A c \in Conns : Carried(c), [Next]_vars
  PROVE  TypeOK' /\ \A e \in Conns : Carried(e)'
<1>1. CASE Gnet
  <2>1. TypeOK'
    BY <1>1, TypeGnet
  <2>2. /\ unwritten' = unwritten /\ UNCHANGED <<writeVars, readVars>>
        /\ \/ \A e \in Conns : SameData(e)
           \/ \E c \in Conns : OnTraffic(c) /\ \A e \in Conns \ {c} : SameData(e)
    BY <1>1, GnetSame
  <2>3. ASSUME NEW e \in Conns, SameData(e) PROVE Carried(e)'
    <3>1. unwritten'[e] + sent[e] <= MaxBytes
      BY <2>2 DEF Carried
    <3> QED
      BY <2>3, <3>1, SameDataKept
  <2>4. ASSUME NEW c \in Conns, OnTraffic(c) PROVE Carried(c)'
    BY <2>2, <2>4, CarriedTraffic
  <2> QED
    BY <2>1, <2>2, <2>3, <2>4
<1>2. ASSUME NEW c \in Conns, ReadStep(c) PROVE TypeOK' /\ \A e \in Conns : Carried(e)'
  <2>1. TypeOK' /\ Carried(c)'
    <3>1. CASE ReadFull(c)
      BY <3>1, TypeFull, CarriedFull
    <3>2. CASE ReadLength(c)
      BY <3>2, TypeLength, CarriedLength
    <3>3. CASE ReadBody(c)
      BY <3>3, TypeBody, CarriedBody
    <3>4. CASE ReadEnds(c)
      BY <3>4, TypeEnds, CarriedEnds
    <3>5. ASSUME NEW m \in BufSizes, ReadPlain(c, m) PROVE TypeOK' /\ Carried(c)'
      <4>1. m \in Nat \ {0}
        BY ChannelAssumption
      <4> QED
        BY <3>5, <4>1, TypePlain, CarriedPlain
    <3>6. ASSUME NEW m \in BufSizes, ReadBuffered(c, m) PROVE TypeOK' /\ Carried(c)'
      <4>1. m \in Nat \ {0}
        BY ChannelAssumption
      <4> QED
        BY <3>6, <4>1, TypeBuffered, CarriedBuffered
    <3> QED
      BY <1>2, <3>1, <3>2, <3>3, <3>4, <3>5, <3>6 DEF ReadStep
  <2>2. ASSUME NEW e \in Conns, e # c PROVE Carried(e)'
    <3>1. SameData(e) /\ unwritten' = unwritten
      BY <1>2, <2>2, ReadSame
    <3>2. unwritten'[e] + sent[e] <= MaxBytes
      BY <3>1 DEF Carried
    <3> QED
      BY <3>1, <3>2, SameDataKept
  <2> QED
    BY <2>1, <2>2
<1>3. ASSUME NEW c \in Conns,
             \/ \E n \in WriteSizes : Write(c, n)
             \/ WriteFrame(c) \/ WriteFails(c) \/ ServerCloses(c)
      PROVE  TypeOK' /\ \A e \in Conns : Carried(e)'
  <2>1. TypeOK'
    BY <1>3, TypeWrites
  <2>2. ASSUME NEW e \in Conns PROVE Carried(e)'
    <3>1. CASE WriteFrame(c) /\ e = c
      BY <3>1, CarriedWrite
    <3>2. CASE ~(WriteFrame(c) /\ e = c)
      <4>1. SameData(e) /\ unwritten'[e] + sent[e] <= MaxBytes
        BY <1>3, <3>2, WriteSame
      <4> QED
        BY <4>1, SameDataKept
    <3> QED
      BY <3>1, <3>2
  <2> QED
    BY <2>1, <2>2
<1>4. CASE UNCHANGED vars
  <2>1. UNCHANGED <<gnetVars, writeVars, readVars>>
    BY <1>4 DEF vars
  <2>2. TypeOK'
    <3>1. GnetTypeOK(Byte)'
      BY <2>1, TypeHalves, GnetStays
    <3>2. EndsTypeOK'
      BY <2>1, TypeHalves DEF EndsTypeOK, writeVars, readVars
    <3> QED
      BY <3>1, <3>2, TypeHalvesNext
  <2>3. ASSUME NEW e \in Conns PROVE Carried(e)'
    <3>1. SameData(e) /\ unwritten' = unwritten
      BY <2>1 DEF SameData, gnetVars, dataVars, writeVars, readVars
    <3>2. unwritten'[e] + sent[e] <= MaxBytes
      BY <3>1 DEF Carried
    <3> QED
      BY <3>1, <3>2, SameDataKept
  <2> QED
    BY <2>2, <2>3
<1> QED
  BY <1>1, <1>2, <1>3, <1>4, ChannelAssumption DEF Next

-----------------------------------------------------------------------------
(* What the invariant says *)

\* Where p + 1 to p + z are.
PlacesOf(d, p, z) == {i \in 1..Len(d) : d[i] \in (p + 1)..(p + z)}

\* In an increasing sequence with all of p + 1 to p + z, these have z places.
LEMMA WholeFrame ==
  ASSUME NEW d \in Seq(Nat), \A i, j \in 1..Len(d) : i < j => d[i] < d[j],
         NEW p \in Nat, NEW z \in Nat,
         \A v \in (p + 1)..(p + z) : \E j \in 1..Len(d) : d[j] = v
  PROVE  Cardinality(PlacesOf(d, p, z)) = z
<1>0. PICK G : G = PlacesOf(d, p, z) /\ G = {i \in 1..Len(d) : d[i] \in (p + 1)..(p + z)}
  BY DEF PlacesOf
<1> DEFINE h == [k \in 1..z |-> CHOOSE j \in 1..Len(d) : d[j] = p + k]
<1>1. ASSUME NEW k \in 1..z PROVE h[k] \in 1..Len(d) /\ d[h[k]] = p + k
  <2>1. p + k \in (p + 1)..(p + z)
    OBVIOUS
  <2>2. \E j \in 1..Len(d) : d[j] = p + k
    BY <2>1
  <2> QED
    BY <2>2
<1> HIDE DEF h
<1>2. h \in [1..z -> G]
  <2>1. \A k \in 1..z : h[k] \in G
    <3>1. \A k \in 1..z : p + k \in (p + 1)..(p + z)
      OBVIOUS
    <3> QED
      BY <1>0, <1>1, <3>1
  <2> QED
    BY <2>1 DEF h
<1>3. \A k, l \in 1..z : h[k] = h[l] => k = l
  <2>1. ASSUME NEW k \in 1..z, NEW l \in 1..z, h[k] = h[l] PROVE k = l
    <3>1. p + k = p + l
      BY <1>1, <2>1
    <3> QED
      BY <3>1
  <2> QED
    BY <2>1
<1>4. ASSUME NEW i \in G PROVE \E k \in 1..z : h[k] = i
  <2>1. i \in 1..Len(d) /\ d[i] \in (p + 1)..(p + z)
    BY <1>0
  <2>2. PICK k \in 1..z : d[i] = p + k
    <3>1. d[i] - p \in 1..z /\ d[i] = p + (d[i] - p)
      BY <2>1
    <3> QED
      BY <3>1
  <2>3. h[k] \in 1..Len(d) /\ d[h[k]] = d[i]
    BY <1>1, <2>2
  <2>4. PICK j \in 1..Len(d) : j = h[k] /\ d[j] = d[i]
    BY <2>3
  <2>5. d[i] \in Nat /\ d[j] \in Nat /\ ~(d[i] < d[j]) /\ ~(d[j] < d[i])
    BY <2>1, <2>4
  <2>6. i = j
    BY <2>1, <2>5
  <2> QED
    BY <2>4, <2>6
<1>5. ExistsBijection(1..z, G)
  <2>1. h \in Bijection(1..z, G)
    BY <1>2, <1>3, <1>4 DEF Bijection, Injection, Surjection, IsInjective
  <2> QED
    BY <2>1 DEF ExistsBijection
<1>6. IsFiniteSet(1..z) /\ Cardinality(1..z) = z
  <2>1. IsFiniteSet(1..z) /\ Cardinality(1..z) = IF 1 > z THEN 0 ELSE z - 1 + 1
    BY FS_Interval
  <2>2. (IF 1 > z THEN 0 ELSE z - 1 + 1) = z
    OBVIOUS
  <2> QED
    BY <2>1, <2>2
<1> QED
  BY <1>0, <1>5, <1>6, FS_Bijection

\* Frames are whole, in order and were sent.
LEMMA FramesWhole ==
  ASSUME TypeOK, \A c \in Conns : Carried(c)
  PROVE  FramesIntact
<1>1. ASSUME NEW c \in Conns
      PROVE  LET e == Plaintext(c) IN
             /\ \A i \in 1..Len(e) : e[i] <= sent[c]
             /\ \A i \in 1..(Len(e) - 1) : e[i] < e[i + 1]
             /\ \A f \in 1..Len(frames[c]) :
                  LET got == {i \in 1..Len(e) : \E k \in 1..frames[c][f].size :
                                                  e[i] = Payload(c, f)[k]}
                  IN got = {} \/ Cardinality(got) = frames[c][f].size
  <2>1. PICK w \in Writing, P \in Seq(Seq(Byte)), d \in Seq(Nat), a \in Seq(Byte), y \in Nat :
          /\ d = Plaintext(c) /\ w.frames = frames[c] /\ w.sent = sent[c]
          /\ Total(w) \in Nat /\ Len(wire[c]) \in Nat /\ y = Total(w) - Len(wire[c])
          /\ Divided(w) /\ ReadInOrder(w, P, y, d, a)
    <3>1. PICK w \in Writing, P \in Seq(Seq(Byte)), d \in Seq(Nat), a \in Seq(Byte), y \in Nat :
            /\ w = Written(c) /\ P = Pieces(c) /\ d = Plaintext(c) /\ a = acc[c] /\ y = OnWire(c)
            /\ w.crypt = crypt /\ w.frames = frames[c] /\ w.sent = sent[c]
            /\ Total(w) \in Nat /\ Len(wire[c]) \in Nat /\ y = Total(w) - Len(wire[c])
            /\ Divided(w) /\ InOrder(w, P, y) /\ ReadInOrder(w, P, y, d, a)
            /\ Run(w, wire[c], y)
            /\ c \notin dropped =>
                 NothingMissing(w, P, y, conn[c] = "closed", d, a, reader[c], length[c])
      BY Known
    <3> QED
      BY <3>1
  <2>2. /\ \A i, j \in 1..Len(d) : i < j => d[i] < d[j]
        /\ \A f \in 1..Len(w.frames), i \in 1..Len(d) :
             d[i] \in (Lead(w, f - 1) + 1)..Lead(w, f) =>
               \A v \in (Lead(w, f - 1) + 1)..Lead(w, f) : \E j \in 1..Len(d) : d[j] = v
    BY <2>1 DEF ReadInOrder
  <2>3. ASSUME NEW i \in 1..Len(d) PROVE d[i] <= sent[c]
    <3>1. y <= Total(w) /\ w.sent \in Nat /\ d[i] \in Nat
      BY SMTT(30), <2>1 DEF Writing
    <3>2. CASE w.crypt = "none"
      <4>1. PICK x \in 0..y : d[i] <= x
        BY <2>1, <3>2 DEF ReadInOrder
      <4>2. Total(w) = w.sent
        <5>1. Len(w.frames) = 0
          BY <2>1, <3>2 DEF Divided
        <5>2. Lead(w, 0) = w.sent
          BY <5>1 DEF Lead
        <5>3. 0 * (LengthSize + Overhead) = 0
          <6>1. LengthSize + Overhead \in Nat
            BY Sizes
          <6> QED
            BY <6>1
        <5> QED
          BY <3>1, <5>1, <5>2, <5>3 DEF Total, Place
      <4>3. d[i] <= Total(w)
        BY <2>1, <3>1, <4>1
      <4> QED
        BY <2>1, <4>2, <4>3
    <3>3. CASE w.crypt # "none"
      <4>1. PICK n \in 0..Len(w.frames) : d[i] <= Lead(w, n)
        BY <2>1, <3>3 DEF ReadInOrder
      <4>2. n \in Nat /\ Len(w.frames) \in 0..Len(w.frames) /\ n <= Len(w.frames)
        BY <2>1 DEF Writing
      <4>3. Lead(w, n) <= Lead(w, Len(w.frames)) /\ Lead(w, n) \in Nat
        BY <2>1, <4>2, PlaceOrder, LeadTypes
      <4>4. Lead(w, Len(w.frames)) = w.sent
        BY <4>2 DEF Lead
      <4> QED
        BY <2>1, <3>1, <4>1, <4>3, <4>4
    <3> QED
      BY <3>2, <3>3
  <2>4. ASSUME NEW i \in 1..(Len(d) - 1) PROVE d[i] < d[i + 1]
    <3>1. i \in 1..Len(d) /\ i + 1 \in 1..Len(d) /\ i < i + 1
      OBVIOUS
    <3> QED
      BY <2>2, <3>1
  <2>5. ASSUME NEW f \in 1..Len(frames[c]),
               {i \in 1..Len(d) : \E k \in 1..frames[c][f].size : d[i] = Payload(c, f)[k]} # {}
        PROVE  Cardinality({i \in 1..Len(d) : \E k \in 1..frames[c][f].size :
                                                d[i] = Payload(c, f)[k]}) = frames[c][f].size
    <3>1. PICK p \in Nat, z \in Nat \ {0} :
            /\ p = Lead(w, f - 1) /\ z = w.frames[f].size /\ p + z = Lead(w, f)
            /\ PayloadOf(w, f) = [i \in 1..z |-> p + i]
      <4>1. f \in 1..Len(w.frames)
        BY <2>1
      <4> QED
        BY <2>1, <4>1, PayloadNumbers
    <3>2. PICK G : G = PlacesOf(d, p, z) /\ G = {i \in 1..Len(d) : d[i] \in (p + 1)..(p + z)}
      BY DEF PlacesOf
    <3>3. \A i \in 1..Len(d) :
            (\E k \in 1..frames[c][f].size : d[i] = Payload(c, f)[k]) <=> d[i] \in (p + 1)..(p + z)
      <4>1. frames[c][f].size = z /\ \A k \in 1..z : Payload(c, f)[k] = p + k
        <5>1. Payload(c, f) = [i \in 1..z |-> p + i] /\ frames[c][f].size = z
          BY <2>1, <3>1 DEF Payload, PayloadOf
        <5> QED
          BY <5>1
      <4>2. \A v \in Nat : (\E k \in 1..z : v = p + k) <=> v \in (p + 1)..(p + z)
        <5>1. ASSUME NEW v \in Nat, v \in (p + 1)..(p + z) PROVE \E k \in 1..z : v = p + k
          <6>1. v - p \in 1..z /\ v = p + (v - p)
            BY <5>1
          <6> QED
            BY <6>1
        <5>2. ASSUME NEW v \in Nat, NEW k \in 1..z, v = p + k PROVE v \in (p + 1)..(p + z)
          BY <5>2
        <5> QED
          BY <5>1, <5>2
      <4>3. \A i \in 1..Len(d) : d[i] \in Nat
        OBVIOUS
      <4>4. ASSUME NEW i \in 1..Len(d)
            PROVE  (\E k \in 1..frames[c][f].size : d[i] = Payload(c, f)[k])
                     <=> d[i] \in (p + 1)..(p + z)
        <5>1. PICK v \in Nat : v = d[i]
          BY <4>3
        <5>2. (\E k \in 1..z : v = p + k) <=> v \in (p + 1)..(p + z)
          BY <4>2
        <5>3. (\E k \in 1..z : v = Payload(c, f)[k]) <=> \E k \in 1..z : v = p + k
          BY <4>1
        <5> QED
          BY <4>1, <5>1, <5>2, <5>3
      <4> QED
        BY <4>4
    <3>4. G = {i \in 1..Len(d) : \E k \in 1..frames[c][f].size : d[i] = Payload(c, f)[k]}
      BY <3>2, <3>3
    <3>5. \A v \in (p + 1)..(p + z) : \E j \in 1..Len(d) : d[j] = v
      <4>1. PICK i \in 1..Len(d) : d[i] \in (p + 1)..(p + z)
        BY <2>5, <3>2, <3>4
      <4>2. \A v \in (Lead(w, f - 1) + 1)..Lead(w, f) : \E j \in 1..Len(d) : d[j] = v
        <5>1. f \in 1..Len(w.frames) /\ d[i] \in (Lead(w, f - 1) + 1)..Lead(w, f)
          BY <2>1, <3>1, <4>1
        <5> QED
          BY <2>2, <5>1
      <4> QED
        BY <3>1, <4>2
    <3>6. Cardinality(G) = z
      <4>1. \A i, j \in 1..Len(d) : i < j => d[i] < d[j]
        BY <2>2
      <4>2. z \in Nat
        OBVIOUS
      <4>3. Cardinality(PlacesOf(d, p, z)) = z
        BY <3>5, <4>1, <4>2, WholeFrame
      <4> QED
        BY <3>2, <4>3
    <3> QED
      BY <2>1, <3>1, <3>4, <3>6
  <2> QED
    BY <2>1, <2>3, <2>4, <2>5
<1> QED
  BY <1>1 DEF FramesIntact

\* Without loss what was returned is a prefix of what was written.
LEMMA OnlyGaps ==
  ASSUME TypeOK, \A c \in Conns : Carried(c)
  PROVE  GapsOnlyByOverflow
<1>1. ASSUME NEW c \in Conns \ dropped
      PROVE  /\ \A i \in 1..Len(delivered[c]) : delivered[c][i] = i
             /\ reader[c] # "corrupt"
             /\ reader[c] = "eof" => c \in closeCh
  <2>1. /\ \A i \in 1..Len(Plaintext(c)) : Plaintext(c)[i] = i
        /\ reader[c] # "corrupt"
    BY DEF Carried, NothingMissing
  <2>2. reader[c] = "eof" => c \in closeCh
    BY DEF Carried
  <2>3. ASSUME NEW i \in 1..Len(delivered[c]) PROVE delivered[c][i] = i
    <3>1. delivered[c] \in Seq(Nat) /\ plain[c] \in Seq(Nat)
      BY Types
    <3>2. PICK e \in Seq(Nat), p \in Seq(Nat), m \in Nat, n \in Nat :
            e = delivered[c] /\ p = plain[c] /\ m = Len(e) /\ n = Len(p)
      BY <3>1
    <3>3. Len(e \o p) = m + n /\ \A k \in 1..m : (e \o p)[k] = e[k]
      <4>1. Len(e \o p) = Len(e) + Len(p) /\ \A k \in 1..Len(e) : (e \o p)[k] = e[k]
        BY Joined
      <4> QED
        BY <3>2, <4>1
    <3>4. i \in 1..m /\ 1..m \subseteq 1..(m + n)
      <4>1. 1..m \subseteq 1..(m + n)
        OBVIOUS
      <4> QED
        BY <3>2, <4>1
    <3>5. Plaintext(c) = e \o p
      BY <3>2 DEF Plaintext
    <3>6. i \in 1..Len(Plaintext(c)) /\ Plaintext(c)[i] = delivered[c][i]
      BY <3>2, <3>3, <3>4, <3>5
    <3> QED
      BY <2>1, <3>6
  <2> QED
    BY <2>1, <2>2, <2>3
<1> QED
  BY <1>1 DEF GapsOnlyByOverflow

\* What the client's Writes put on the connection reaches Read in order and
\* once, through OnTraffic, readCh and readBuf: what is on the wire, what was
\* handed over and what readFrame has are pieces of what was written, one
\* after the other, and of a frame Read returns all or nothing.
THEOREM ChannelSafety == Spec => []ChannelInv
<1>1. Init => ChannelInv
  <2> SUFFICES ASSUME Init PROVE ChannelInv
    OBVIOUS
  <2>1. TypeOK /\ \A c \in Conns : Carried(c)
    BY TypeInit, CarriedInit
  <2> QED
    BY <2>1, FramesWhole DEF ChannelInv
<1>2. ChannelInv /\ [Next]_vars => (TypeOK /\ \A c \in Conns : Carried(c))'
  <2> SUFFICES ASSUME ChannelInv, [Next]_vars PROVE (TypeOK /\ \A c \in Conns : Carried(c))'
    OBVIOUS
  <2>1. TypeOK /\ \A c \in Conns : Carried(c)
    BY DEF ChannelInv
  <2>2. TypeOK' /\ \A e \in Conns : Carried(e)'
    BY <2>1, CarriedStep
  <2> QED
    BY <2>2
<1>3. TypeOK /\ (\A c \in Conns : Carried(c)) => ChannelInv
  BY FramesWhole DEF ChannelInv
<1> QED
  BY <1>1, <1>2, <1>3, PTL DEF Spec

\* Read returns all that was written up to some point, and fails only at the
\* end, unless OnTraffic dropped data.
THEOREM OnlyOverflowGaps == Spec => []GapsOnlyByOverflow
<1>1. ChannelInv => GapsOnlyByOverflow
  BY OnlyGaps DEF ChannelInv
<1> QED
  BY <1>1, ChannelSafety, PTL

-----------------------------------------------------------------------------
(* The stream of a QUIC connection, for any number of Writes and of streams *)
(* that could be opened                                                     *)

USE DEF goVars, initVars, netVars, endVars, quicVars

Labels == {"idle", "lock", "init", "io", "failed"}

\* The initial state satisfies the invariant.
LEMMA StreamInvInit == QuicInit => StreamInv
<1> SUFFICES ASSUME QuicInit PROVE StreamInv
  OBVIOUS
<1>1. QuicTypeOK
  <2>1. /\ pc \in [Sides \X Ops -> {"idle", "lock", "init", "io", "failed"}]
        /\ mu \in [Sides -> Ops \cup {Nobody}]
        /\ closing \in [Sides -> {"no", "called", "stream", "conn", "done"}]
    BY DEF QuicInit
  <2>2. /\ streamInit \in [Sides -> BOOLEAN] /\ dead \in [Sides -> BOOLEAN]
        /\ silent \in BOOLEAN /\ finished \subseteq Streams \X Sides
        /\ announced \subseteq Streams
    BY DEF QuicInit
  <2>3. 0 \in 0..MaxStreams /\ 0 \in 0..MaxWrites
    BY QuicAssumption
  <2>4. /\ stream \in [Sides -> 0..MaxStreams]
        /\ opened \in 0..MaxStreams /\ taken \in 0..MaxStreams
        /\ written \in [Streams \X Sides -> 0..MaxWrites]
        /\ read \in [Streams \X Sides -> 0..MaxWrites]
    BY <2>3 DEF QuicInit
  <2> QED
    BY <2>1, <2>2, <2>4 DEF QuicTypeOK
<1>2. InitExclusive /\ OneStream /\ WriteBounded
  BY QuicAssumption DEF QuicInit, InitExclusive, OneStream, WriteBounded, At, Sides, Ops
<1> QED
  BY <1>1, <1>2 DEF StreamInv

\* Goto moves one goroutine.
LEMMA GotoMoves ==
  ASSUME QuicTypeOK, NEW s \in Sides, NEW op \in Ops, NEW l \in Labels, Goto(s, op, l)
  PROVE  /\ pc' \in [Sides \X Ops -> Labels]
         /\ pc'[<<s, op>>] = l
         /\ \A t \in Sides, q \in Ops : t # s \/ q # op => pc'[<<t, q>>] = pc[<<t, q>>]
<1>1. <<s, op>> \in Sides \X Ops /\ pc \in [Sides \X Ops -> Labels]
  BY DEF QuicTypeOK, Labels
<1>2. \A t \in Sides, q \in Ops : <<t, q>> \in Sides \X Ops
  OBVIOUS
<1> QED
  BY <1>1, <1>2 DEF Goto

\* A goroutine that goes on without touching the stream's initialisation.
LEMMA StepOutside ==
  ASSUME StreamInv, NEW s \in Sides, NEW op \in Ops, NEW l \in {"idle", "lock", "io", "failed"},
         Goto(s, op, l), l = "io" => streamInit[s],
         UNCHANGED <<streamInit, stream, opened, announced, taken, closing>>,
         \A t \in Sides, q \in Ops : (t # s \/ q # op) /\ At(t, q, "init") => mu'[t] = mu[t]
  PROVE  InitExclusive' /\ OneStream'
<1>1. l \in Labels /\ QuicTypeOK
  BY DEF Labels, StreamInv
<1>2. /\ pc'[<<s, op>>] = l
      /\ \A t \in Sides, q \in Ops : t # s \/ q # op => pc'[<<t, q>>] = pc[<<t, q>>]
  BY <1>1, GotoMoves
<1>3. InitExclusive'
  BY <1>2 DEF StreamInv, InitExclusive, At
<1>4. OneStream'
  BY DEF StreamInv, OneStream
<1> QED
  BY <1>3, <1>4

\* Read or Write is called.
LEMMA CallStep ==
  ASSUME StreamInv, NEW s \in Sides, NEW op \in Ops, Call(s, op)
  PROVE  StreamInv'
<1>1. QuicTypeOK /\ Goto(s, op, "lock") /\ UNCHANGED <<mu, initVars, netVars, endVars>>
  BY DEF StreamInv, Call
<1>2. /\ pc' \in [Sides \X Ops -> Labels] /\ pc'[<<s, op>>] = "lock"
      /\ \A t \in Sides, q \in Ops : t # s \/ q # op => pc'[<<t, q>>] = pc[<<t, q>>]
  BY <1>1, GotoMoves DEF Labels
<1>3. QuicTypeOK'
  BY <1>1, <1>2 DEF QuicTypeOK, Labels
<1>4. InitExclusive' /\ OneStream'
  BY <1>1, StepOutside
<1>5. WriteBounded'
  BY <1>1, <1>2 DEF StreamInv, WriteBounded, Call, Ops
<1> QED
  BY <1>3, <1>4, <1>5 DEF StreamInv

\* c.mu is taken by nobody but the goroutine that initialises.
LEMMA LockStep ==
  ASSUME StreamInv, NEW s \in Sides, NEW op \in Ops, Lock(s, op)
  PROVE  StreamInv'
<1>1. QuicTypeOK /\ UNCHANGED <<initVars, netVars, endVars>>
  BY DEF StreamInv, Lock
<1>2. PICK l \in {"init", "io"} :
        /\ Goto(s, op, l)
        /\ l = "io" => streamInit[s]
        /\ l = "init" => ~streamInit[s]
        /\ l = "io" => mu' = mu
        /\ l = "init" => mu' = [mu EXCEPT ![s] = op]
  BY DEF Lock
<1>3. /\ pc' \in [Sides \X Ops -> Labels] /\ pc'[<<s, op>>] = l
      /\ \A t \in Sides, q \in Ops : t # s \/ q # op => pc'[<<t, q>>] = pc[<<t, q>>]
  BY <1>1, <1>2, GotoMoves, ZenonT(30) DEF Labels
<1>4. mu' \in [Sides -> Ops \cup {Nobody}]
  BY <1>1, <1>2 DEF QuicTypeOK
<1>5. QuicTypeOK'
  BY <1>1, <1>3, <1>4 DEF QuicTypeOK, Labels
<1>6. InitExclusive'
  <2>1. \A q \in Ops : ~At(s, q, "init")
    BY DEF StreamInv, InitExclusive, Lock, Nobody, Ops
  <2>2. \A t \in Sides : t # s => mu'[t] = mu[t]
    BY <1>1, <1>2 DEF QuicTypeOK
  <2>3. l = "init" => mu'[s] = op
    BY <1>1, <1>2 DEF QuicTypeOK
  <2> QED
    BY <1>1, <1>2, <1>3, <2>1, <2>2, <2>3 DEF StreamInv, InitExclusive, At
<1>7. OneStream'
  BY <1>1 DEF StreamInv, OneStream
<1>8. WriteBounded'
  BY <1>1, <1>3 DEF StreamInv, WriteBounded, Lock, At, Ops
<1> QED
  BY <1>5, <1>6, <1>7, <1>8 DEF StreamInv

\* initStream has its stream: nobody else of this end is in initStream.
LEMMA HasStreamStep ==
  ASSUME StreamInv, NEW s \in Sides, NEW op \in Ops, At(s, op, "init"),
         HasStream(s, op, 1), UNCHANGED <<announced, written, finished, read, endVars>>,
         \/ /\ s = "client" /\ opened = 0 /\ opened' = 1 /\ taken' = taken
         \/ s = "server" /\ taken = 0 /\ taken' = 1 /\ opened = 1 /\ opened' = 1
  PROVE  StreamInv'
<1>1. QuicTypeOK /\ Goto(s, op, "io") /\ Unlock(s)
  BY DEF StreamInv, HasStream
<1>2. /\ pc' \in [Sides \X Ops -> Labels] /\ pc'[<<s, op>>] = "io"
      /\ \A t \in Sides, q \in Ops : t # s \/ q # op => pc'[<<t, q>>] = pc[<<t, q>>]
  BY <1>1, GotoMoves DEF Labels
<1>3. /\ mu' \in [Sides -> Ops \cup {Nobody}]
      /\ \A t \in Sides : t # s => mu'[t] = mu[t]
  BY <1>1 DEF Unlock, QuicTypeOK
<1>4. /\ streamInit' \in [Sides -> BOOLEAN] /\ streamInit'[s]
      /\ stream'[s] = 1
      /\ \A t \in Sides : t # s => streamInit'[t] = streamInit[t] /\ stream'[t] = stream[t]
  BY <1>1 DEF HasStream, QuicTypeOK
<1>5. 1 \in 0..MaxStreams
  BY QuicAssumption
<1>6. stream' \in [Sides -> 0..MaxStreams] /\ opened' \in 0..MaxStreams
      /\ taken' \in 0..MaxStreams
  BY <1>1, <1>5 DEF HasStream, QuicTypeOK
<1>7. QuicTypeOK'
  BY <1>1, <1>2, <1>3, <1>4, <1>6 DEF QuicTypeOK, Labels
<1>8. InitExclusive'
  <2>1. \A q \in Ops : q # op => ~At(s, q, "init")
    BY DEF StreamInv, InitExclusive
  <2> QED
    BY <1>2, <1>3, <1>4, <2>1 DEF StreamInv, InitExclusive, At
<1>9. OneStream'
  <2>1. "client" \in Sides /\ "server" \in Sides
    BY DEF Sides
  <2>2. CASE s = "client"
    <3>1. /\ stream'["client"] = 1 /\ stream'["server"] = stream["server"]
          /\ opened' = 1 /\ taken' = taken /\ streamInit'["client"]
          /\ streamInit'["server"] = streamInit["server"]
      BY <1>4, <2>1, <2>2
    <3>2. stream["server"] = 0 /\ ~streamInit["server"] /\ announced = {}
      BY <1>1, <2>1, <2>2 DEF StreamInv, OneStream, QuicTypeOK
    <3> QED
      BY <3>1, <3>2 DEF StreamInv, OneStream, Sides
  <2>3. CASE s = "server"
    <3>1. /\ stream'["server"] = 1 /\ stream'["client"] = stream["client"]
          /\ opened' = opened /\ opened = 1 /\ taken' = 1 /\ streamInit'["server"]
          /\ streamInit'["client"] = streamInit["client"]
      BY <1>4, <2>1, <2>3
    <3> QED
      BY <3>1 DEF StreamInv, OneStream, Sides
  <2> QED
    BY <2>2, <2>3 DEF Sides
<1>10. WriteBounded'
  BY <1>2 DEF StreamInv, WriteBounded, At, Ops
<1> QED
  BY <1>7, <1>8, <1>9, <1>10 DEF StreamInv

\* The client opens its stream, which is the first one.
LEMMA OpenStreamStep ==
  ASSUME StreamInv, NEW op \in Ops, OpenStreamSync(op)
  PROVE  StreamInv'
<1>1. "client" \in Sides /\ At("client", op, "init")
  BY DEF Sides, OpenStreamSync
<1>2. ~streamInit["client"]
  BY <1>1 DEF StreamInv, InitExclusive
<1>3. opened \in Nat /\ opened <= 1 /\ opened # 1
  BY <1>1, <1>2 DEF StreamInv, OneStream, QuicTypeOK
<1>4. opened = 0
  BY <1>3
<1>5. HasStream("client", op, 1) /\ opened' = 1
  BY <1>4 DEF OpenStreamSync
<1> QED
  BY <1>1, <1>4, <1>5, HasStreamStep DEF OpenStreamSync

\* The server takes the first stream it hears of.
LEMMA AcceptStreamStep ==
  ASSUME StreamInv, NEW op \in Ops, AcceptStream(op)
  PROVE  StreamInv'
<1>1. "server" \in Sides /\ At("server", op, "init")
  BY DEF Sides, AcceptStream
<1>2. ~streamInit["server"]
  BY <1>1 DEF StreamInv, InitExclusive
<1>3. taken \in Nat /\ opened \in Nat /\ taken <= opened /\ opened <= 1 /\ taken # 1
  BY <1>1, <1>2 DEF StreamInv, OneStream, QuicTypeOK
<1>4. taken = 0
  BY <1>3
<1>5. 1 \in 1..opened
  BY <1>4 DEF AcceptStream, StreamInv, OneStream
<1>6. opened = 1
  BY <1>3, <1>5
<1>7. HasStream("server", op, 1) /\ taken' = 1 /\ opened' = 1
  BY <1>4, <1>6 DEF AcceptStream
<1> QED
  BY <1>1, <1>4, <1>6, <1>7, HasStreamStep DEF AcceptStream

\* Failures of initStream, Read and Write.
LEMMA FailStep ==
  ASSUME StreamInv, NEW s \in Sides, NEW op \in Ops, InitFails(s, op) \/ IoFails(s, op)
  PROVE  StreamInv'
<1>1. /\ QuicTypeOK /\ Goto(s, op, "failed") /\ UNCHANGED <<initVars, netVars, endVars>>
  BY DEF StreamInv, InitFails, IoFails
<1>2. /\ pc' \in [Sides \X Ops -> Labels] /\ pc'[<<s, op>>] = "failed"
      /\ \A t \in Sides, q \in Ops : t # s \/ q # op => pc'[<<t, q>>] = pc[<<t, q>>]
  BY <1>1, GotoMoves DEF Labels
<1>3. mu' = mu \/ (At(s, op, "init") /\ mu' = [mu EXCEPT ![s] = Nobody])
  BY DEF InitFails, IoFails, Unlock
<1>4. QuicTypeOK'
  <2>1. mu' \in [Sides -> Ops \cup {Nobody}]
    BY <1>1, <1>3 DEF QuicTypeOK
  <2> QED
    BY <1>1, <1>2, <2>1 DEF QuicTypeOK, Labels
<1>5. \A t \in Sides, q \in Ops : (t # s \/ q # op) /\ At(t, q, "init") => mu'[t] = mu[t]
  BY <1>1, <1>3 DEF StreamInv, InitExclusive, QuicTypeOK
<1>6. InitExclusive' /\ OneStream'
  BY <1>1, <1>5, StepOutside
<1>7. WriteBounded'
  BY <1>1, <1>2 DEF StreamInv, WriteBounded, Ops
<1> QED
  BY <1>4, <1>6, <1>7 DEF StreamInv

\* A Write succeeds: the peer may learn of the stream, which is the one
\* that was opened.
LEMMA StreamWriteStep ==
  ASSUME StreamInv, NEW s \in Sides, StreamWrite(s)
  PROVE  StreamInv'
<1>1. /\ QuicTypeOK /\ "Write" \in Ops /\ Goto(s, "Write", "idle")
      /\ UNCHANGED <<mu, initVars, opened, taken, finished, read, endVars>>
  BY DEF StreamInv, StreamWrite, Ops
<1>2. /\ pc' \in [Sides \X Ops -> Labels] /\ pc'[<<s, "Write">>] = "idle"
      /\ \A t \in Sides, q \in Ops : t # s \/ q # "Write" => pc'[<<t, q>>] = pc[<<t, q>>]
  BY <1>1, GotoMoves DEF Labels
<1>3. pc[<<s, "Write">>] = "io" /\ stream[s] = 1 /\ 1 <= opened
  BY <1>1 DEF StreamWrite, At, StreamInv, InitExclusive, OneStream
<1>4. 1 \in Streams /\ 1 \in 1..opened
  BY <1>1, <1>3, QuicAssumption DEF Streams, QuicTypeOK
<1>5. announced' \subseteq announced \cup {1}
  BY <1>3 DEF StreamWrite
<1>6. /\ written' \in [Streams \X Sides -> 0..MaxWrites]
      /\ \A x \in Streams, t \in Sides : t # s => written'[<<x, t>>] = written[<<x, t>>]
  <2>1. <<1, s>> \in Streams \X Sides
    BY <1>4
  <2>2. written' = [written EXCEPT ![<<1, s>>] = written[<<1, s>>] + 1]
    BY <1>3 DEF StreamWrite
  <2>3. written[<<1, s>>] + 1 \in 0..MaxWrites
    <3>1. written[<<1, s>>] \in 0..MaxWrites
      BY <1>1, <2>1 DEF QuicTypeOK
    <3>2. written[<<1, s>>] < MaxWrites
      BY <1>3, <1>4 DEF StreamInv, WriteBounded
    <3> QED
      BY <3>1, <3>2, QuicAssumption
  <2> QED
    BY <1>1, <2>1, <2>2, <2>3 DEF QuicTypeOK
<1>7. QuicTypeOK'
  BY <1>1, <1>2, <1>4, <1>5, <1>6 DEF QuicTypeOK, Labels
<1>8. InitExclusive'
  BY <1>1, <1>2 DEF StreamInv, InitExclusive, At
<1>9. OneStream'
  BY <1>1, <1>4, <1>5 DEF StreamInv, OneStream
<1>10. WriteBounded'
  BY <1>1, <1>2, <1>6 DEF StreamInv, WriteBounded
<1> QED
  BY <1>7, <1>8, <1>9, <1>10 DEF StreamInv

\* A Read returns data.
LEMMA StreamReadStep ==
  ASSUME StreamInv, NEW s \in Sides, StreamRead(s)
  PROVE  StreamInv'
<1>1. /\ QuicTypeOK /\ "Read" \in Ops /\ Goto(s, "Read", "idle")
      /\ UNCHANGED <<mu, initVars, opened, announced, taken, written, finished, endVars>>
  BY DEF StreamInv, StreamRead, Ops
<1>2. /\ pc' \in [Sides \X Ops -> Labels] /\ pc'[<<s, "Read">>] = "idle"
      /\ \A t \in Sides, q \in Ops : t # s \/ q # "Read" => pc'[<<t, q>>] = pc[<<t, q>>]
  BY <1>1, GotoMoves DEF Labels
<1>3. stream[s] = 1
  BY <1>1 DEF StreamRead, At, StreamInv, InitExclusive, OneStream
<1>4. read' \in [Streams \X Sides -> 0..MaxWrites]
  <2>1. <<1, s>> \in Streams \X Sides /\ <<1, Other(s)>> \in Streams \X Sides
    BY QuicAssumption DEF Streams, Other, Sides
  <2>2. read[<<1, s>>] \in 0..MaxWrites /\ written[<<1, Other(s)>>] \in 0..MaxWrites
    BY <1>1, <2>1 DEF QuicTypeOK
  <2>3. read[<<1, s>>] < written[<<1, Other(s)>>]
    BY <1>3 DEF StreamRead
  <2>4. read[<<1, s>>] + 1 \in 0..MaxWrites
    BY <2>2, <2>3, QuicAssumption
  <2>5. read' = [read EXCEPT ![<<1, s>>] = read[<<1, s>>] + 1]
    BY <1>3 DEF StreamRead
  <2> QED
    BY <1>1, <2>1, <2>4, <2>5 DEF QuicTypeOK
<1>5. QuicTypeOK'
  BY <1>1, <1>2, <1>4 DEF QuicTypeOK, Labels
<1>6. InitExclusive' /\ OneStream'
  BY <1>1, <1>2 DEF StreamInv, InitExclusive, OneStream, At
<1>7. WriteBounded'
  BY <1>1, <1>2 DEF StreamInv, WriteBounded, Ops
<1> QED
  BY <1>5, <1>6, <1>7 DEF StreamInv

\* Close, step by step, and what the ends hear of each other.
LEMMA CloseSteps ==
  ASSUME StreamInv, NEW s \in Sides,
         CallClose(s) \/ CloseBegin(s) \/ CloseStream(s) \/ CloseConn(s)
           \/ EndNotices(s) \/ GoSilent
  PROVE  StreamInv'
<1>1. QuicTypeOK /\ UNCHANGED <<goVars, initVars, opened, taken, written, read>>
  BY DEF StreamInv, CallClose, CloseBegin, CloseStream, CloseConn, EndNotices, GoSilent
<1>2. /\ closing' \in [Sides -> {"no", "called", "stream", "conn", "done"}]
      /\ \A t \in Sides : closing'[t] = "stream" => streamInit[t]
  BY <1>1, SMTT(30) DEF StreamInv, InitExclusive, QuicTypeOK,
     CallClose, CloseBegin, CloseStream, CloseConn, EndNotices, GoSilent
<1>3. dead' \in [Sides -> BOOLEAN] /\ silent' \in BOOLEAN
  BY <1>1 DEF QuicTypeOK,
     CallClose, CloseBegin, CloseStream, CloseConn, EndNotices, GoSilent
<1>4. /\ finished' \subseteq Streams \X Sides
      /\ announced' \subseteq Streams /\ announced' \subseteq 1..opened
  <2>1. CASE CloseStream(s)
    <3>1. stream[s] = 1 /\ 1 <= opened
      BY <2>1 DEF CloseStream, StreamInv, InitExclusive, OneStream
    <3>2. 1 \in Streams /\ 1 \in 1..opened
      BY <1>1, <3>1, QuicAssumption DEF Streams, QuicTypeOK
    <3> QED
      BY <1>1, <2>1, <3>1, <3>2 DEF CloseStream, QuicTypeOK, StreamInv, OneStream
  <2>2. CASE UNCHANGED <<finished, announced>>
    BY <1>1, <2>2 DEF QuicTypeOK, StreamInv, OneStream
  <2> QED
    BY <2>1, <2>2 DEF CallClose, CloseBegin, CloseConn, EndNotices, GoSilent
<1>5. QuicTypeOK'
  BY <1>1, <1>2, <1>3, <1>4 DEF QuicTypeOK
<1>6. InitExclusive' /\ OneStream' /\ WriteBounded'
  BY <1>1, <1>2, <1>4 DEF StreamInv, InitExclusive, OneStream, WriteBounded, At
<1> QED
  BY <1>5, <1>6 DEF StreamInv

\* Every step preserves the invariant.
LEMMA StreamInvStep == StreamInv /\ [QuicNext]_quicVars => StreamInv'
<1> SUFFICES ASSUME StreamInv, [QuicNext]_quicVars PROVE StreamInv'
  OBVIOUS
<1>1. ASSUME NEW s \in Sides, NEW op \in Ops, Call(s, op) PROVE StreamInv'
  BY <1>1, CallStep
<1>2. ASSUME NEW s \in Sides, NEW op \in Ops, Step(s, op) PROVE StreamInv'
  <2>1. CASE Lock(s, op)
    BY <2>1, LockStep
  <2>2. CASE OpenStreamSync(op)
    BY <2>2, OpenStreamStep
  <2>3. CASE AcceptStream(op)
    BY <2>3, AcceptStreamStep
  <2>4. CASE InitFails(s, op) \/ IoFails(s, op)
    BY <2>4, FailStep
  <2>5. CASE StreamWrite(s)
    BY <2>5, StreamWriteStep
  <2>6. CASE StreamRead(s)
    BY <2>6, StreamReadStep
  <2> QED
    BY <1>2, <2>1, <2>2, <2>3, <2>4, <2>5, <2>6 DEF Step
<1>3. ASSUME NEW s \in Sides, CallClose(s) \/ CloseStep(s) \/ EndNotices(s)
      PROVE  StreamInv'
  BY <1>3, CloseSteps DEF CloseStep
<1>4. CASE GoSilent
  <2>1. "client" \in Sides
    BY DEF Sides
  <2> QED
    BY <1>4, <2>1, CloseSteps
<1>5. CASE UNCHANGED quicVars
  BY <1>5 DEF StreamInv, QuicTypeOK, InitExclusive, OneStream, WriteBounded, At
<1> QED
  BY <1>1, <1>2, <1>3, <1>4, <1>5 DEF QuicNext

\* The two ends of a QUICConn read and write on one stream, whichever of
\* their goroutines initialises it and whenever the connection is closed.
THEOREM OneStreamUsed == QuicSpec => []StreamInv
<1> QED
  BY StreamInvInit, StreamInvStep, PTL DEF QuicSpec
=============================================================================
