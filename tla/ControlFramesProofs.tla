------------------------- MODULE ControlFramesProofs ------------------------
(***************************************************************************)
(* Proofs about the messages on a control stream, for any number of        *)
(* senders, messages and sizes, and however Read splits the bytes.         *)
(***************************************************************************)
EXTENDS ControlFrames, TLAPS

USE DEF writeVars, readVars, vars

-----------------------------------------------------------------------------
(* Sequences of bytes *)

\* The smaller of two numbers, as Read uses it.
LEMMA MinPair ==
  ASSUME NEW a \in Int, NEW b \in Int
  PROVE  Min({a, b}) = IF a <= b THEN a ELSE b
<1>1. \E x \in {a, b} : \A y \in {a, b} : x =< y
  OBVIOUS
<1>2. Min({a, b}) \in {a, b} /\ \A y \in {a, b} : Min({a, b}) =< y
  BY <1>1 DEF Min
<1> QED
  BY <1>2

\* What is in a \o w.
LEMMA Joined ==
  ASSUME NEW a \in Seq(Byte), NEW w \in Seq(Byte)
  PROVE  /\ a \o w \in Seq(Byte) /\ Len(a \o w) = Len(a) + Len(w)
         /\ Len(a) \in Nat /\ Len(w) \in Nat
         /\ \A i \in 1..Len(a) : (a \o w)[i] = a[i]
         /\ \A i \in 1..Len(w) : (a \o w)[Len(a) + i] = w[i]
         /\ \A k \in 1..Len(a \o w) : \/ k \in 1..Len(a)
                                      \/ k - Len(a) \in 1..Len(w) /\ k = Len(a) + (k - Len(a))
<1>1. /\ a \o w \in Seq(Byte) /\ Len(a \o w) = Len(a) + Len(w)
      /\ Len(a) \in Nat /\ Len(w) \in Nat
  OBVIOUS
<1>2. \A i \in 1..Len(a) : (a \o w)[i] = a[i]
  OBVIOUS
<1>3. \A i \in 1..Len(w) : (a \o w)[Len(a) + i] = w[i]
  OBVIOUS
<1>4. \A k \in 1..(Len(a) + Len(w)) :
        \/ k \in 1..Len(a)
        \/ k - Len(a) \in 1..Len(w) /\ k = Len(a) + (k - Len(a))
  BY <1>1
<1> QED
  BY <1>1, <1>2, <1>3, <1>4

\* A Read moves bytes from the front of the wire to what ReadFull has.
LEMMA Moved ==
  ASSUME NEW a \in Seq(Byte), NEW w \in Seq(Byte), NEW n \in 1..Len(w)
  PROVE  /\ a \o SubSeq(w, 1, n) \in Seq(Byte) /\ SubSeq(w, n + 1, Len(w)) \in Seq(Byte)
         /\ (a \o SubSeq(w, 1, n)) \o SubSeq(w, n + 1, Len(w)) = a \o w
<1>1. PICK f \in Seq(Byte) : /\ f = SubSeq(w, 1, n) /\ Len(f) = n
                             /\ \A i \in 1..n : f[i] = w[i]
  <2>1. SubSeq(w, 1, n) \in Seq(Byte) /\ Len(SubSeq(w, 1, n)) = n
    OBVIOUS
  <2>2. \A i \in 1..n : SubSeq(w, 1, n)[i] = w[i]
    OBVIOUS
  <2> QED
    BY <2>1, <2>2
<1>2. PICK g \in Seq(Byte) : /\ g = SubSeq(w, n + 1, Len(w)) /\ Len(g) = Len(w) - n
                             /\ \A i \in 1..(Len(w) - n) : g[i] = w[n + i]
  <2>1. SubSeq(w, n + 1, Len(w)) \in Seq(Byte) /\ Len(SubSeq(w, n + 1, Len(w))) = Len(w) - n
    OBVIOUS
  <2>2. \A i \in 1..(Len(w) - n) : SubSeq(w, n + 1, Len(w))[i] = w[n + i]
    OBVIOUS
  <2> QED
    BY <2>1, <2>2
<1>3. PICK x \in Seq(Byte) : x = a \o f
  BY Joined
<1>4. PICK y \in Seq(Byte) : y = x \o g
  BY Joined
<1>5. PICK z \in Seq(Byte) : z = a \o w
  BY Joined
<1>6. /\ Len(x) = Len(a) + n /\ Len(y) = Len(z) /\ Len(z) = Len(a) + Len(w)
      /\ Len(a) \in Nat /\ Len(w) \in Nat /\ n \in Nat
  <2>1. Len(a) \in Nat /\ Len(w) \in Nat /\ n \in Nat
    OBVIOUS
  <2>2. Len(x) = Len(a) + n
    BY <1>1, <1>3, Joined
  <2>3. Len(y) = Len(x) + (Len(w) - n)
    <3>1. Len(y) = Len(x) + Len(g)
      BY <1>4, Joined
    <3> QED
      BY <1>2, <3>1
  <2>4. Len(z) = Len(a) + Len(w)
    BY <1>5, Joined
  <2> QED
    BY <2>1, <2>2, <2>3, <2>4
<1>7. ASSUME NEW k \in 1..Len(z) PROVE y[k] = z[k]
  <2>1. CASE k \in 1..Len(a)
    <3>1. k \in 1..Len(x)
      BY <1>6, <2>1
    <3>2. y[k] = x[k] /\ x[k] = a[k] /\ z[k] = a[k]
      BY <1>3, <1>4, <1>5, <2>1, <3>1, Joined
    <3> QED
      BY <3>2
  <2>2. CASE k > Len(a) /\ k <= Len(x)
    <3>1. PICK i \in 1..n : k = Len(a) + i
      <4>1. k - Len(a) \in 1..n /\ k = Len(a) + (k - Len(a))
        BY <1>6, <2>2
      <4> QED
        BY <4>1
    <3>2. k \in 1..Len(x) /\ i \in 1..Len(f) /\ i \in 1..Len(w)
      BY <1>1, <1>6, <2>2
    <3>3. y[k] = x[k]
      BY <1>4, <3>2, Joined
    <3>4. x[Len(a) + i] = f[i]
      BY <1>3, <3>2, Joined
    <3>5. z[Len(a) + i] = w[i]
      BY <1>5, <3>2, Joined
    <3> QED
      BY <1>1, <3>1, <3>3, <3>4, <3>5
  <2>3. CASE k > Len(x)
    <3>1. PICK i \in 1..(Len(w) - n) : k = Len(x) + i
      <4>1. k - Len(x) \in 1..(Len(w) - n) /\ k = Len(x) + (k - Len(x))
        BY <1>6, <2>3
      <4> QED
        BY <4>1
    <3>2. i \in 1..Len(g) /\ n + i \in 1..Len(w)
      BY <1>2, <1>6
    <3>3. y[Len(x) + i] = g[i]
      BY <1>4, <3>2, Joined
    <3>4. z[Len(a) + (n + i)] = w[n + i]
      BY <1>5, <3>2, Joined
    <3>5. k = Len(a) + (n + i)
      BY <1>6, <3>1
    <3> QED
      BY <1>2, <3>1, <3>3, <3>4, <3>5
  <2> QED
    BY <1>6, <2>1, <2>2, <2>3
<1>8. y = z
  BY <1>6, <1>7
<1> QED
  BY <1>1, <1>2, <1>3, <1>4, <1>5, <1>8

-----------------------------------------------------------------------------
(* Unbroken streams, for fixed sizes sz of the messages.  The set ends      *)
(* holds the byte that is written next, or nothing when none will be.       *)

Succeeds(sz, b, d, c) ==
  /\ b[2] + d <= LengthSize + sz[b[1]] => c = <<b[1], b[2] + d>>
  /\ b[2] + d = LengthSize + sz[b[1]] + 1 => c = <<b[1] + 1, 1>>

Whole(u, sz, ends, x) ==
  /\ \A i \in 1..Len(u) :
       /\ u[i][1] \in 1..Len(sz) /\ u[i][2] \in 1..(LengthSize + sz[u[i][1]])
       /\ \A k \in i..Len(u) : Succeeds(sz, u[i], k - i, u[k])
       /\ \A e \in ends : Succeeds(sz, u[i], Len(u) + 1 - i, e)
  /\ u # <<>> => u[1] = x
  /\ u = <<>> => \A e \in ends : e = x

Ends == IF closed THEN {} ELSE {NextWritten}

\* Unbroken in terms of Whole, whose arguments are all explicit.
LEMMA UnbrokenWhole ==
  ASSUME NEW u \in Seq(Byte)
  PROVE  Unbroken(u) <=> Whole(u, size, Ends, FirstRead)
<1>1. CASE closed
  BY <1>1 DEF Unbroken, Whole, Ends, Follows, Succeeds, FrameSize
<1>2. CASE ~closed
  BY <1>2 DEF Unbroken, Whole, Ends, Follows, Succeeds, FrameSize
<1> QED
  BY <1>1, <1>2

\* Names for what the lemmas below pass on: an unbroken stream a \o w, the
\* byte d places after another, and bytes of frame n from number c on.
Run(a, w, sz, ends, x) == Whole(a \o w, sz, ends, x)
After(sz, x, d, y) == \A c : Succeeds(sz, x, d, c) => c = y
FrameBytes(a, n, c, last) ==
  \A j \in 1..Len(a) : c + (j - 1) <= last => a[j] = <<n, c + (j - 1)>>
FrontOf(a, n, c, sz) ==
  n \in 1..Len(sz) /\ sz[n] \in Nat \ {0} /\ FrameBytes(a, n, c, LengthSize + sz[n])

\* Bytes are taken from the front.
LEMMA FrontTaken ==
  ASSUME NEW a \in Seq(Byte), NEW w \in Seq(Byte), NEW sz \in Seq(Sizes), NEW E,
         NEW x, NEW y, a # <<>>, Run(a, w, sz, E, x), After(sz, x, Len(a), y)
  PROVE  Whole(w, sz, E, y)
<1>1. PICK u \in Seq(Byte) : u = a \o w
  BY Joined
<1>2. /\ Len(u) = Len(a) + Len(w) /\ Len(a) \in Nat /\ Len(w) \in Nat /\ Len(a) >= 1
      /\ \A i \in 1..Len(w) : u[Len(a) + i] = w[i]
  <2>1. Len(a) \in Nat /\ Len(a) >= 1
    OBVIOUS
  <2> QED
    BY <1>1, <2>1, Joined
<1>3. /\ \A i \in 1..Len(u) :
           /\ u[i][1] \in 1..Len(sz) /\ u[i][2] \in 1..(LengthSize + sz[u[i][1]])
           /\ \A k \in i..Len(u) : Succeeds(sz, u[i], k - i, u[k])
           /\ \A e \in E : Succeeds(sz, u[i], Len(u) + 1 - i, e)
      /\ u # <<>> => u[1] = x
  BY <1>1 DEF Run, Whole
<1>4. 1 \in 1..Len(u) /\ u # <<>> /\ u[1] = x
  <2>1. 1 \in 1..Len(u) /\ u # <<>>
    BY <1>2
  <2> QED
    BY <1>3, <2>1
<1>5. ASSUME NEW i \in 1..Len(w)
      PROVE  /\ w[i][1] \in 1..Len(sz) /\ w[i][2] \in 1..(LengthSize + sz[w[i][1]])
             /\ \A k \in i..Len(w) : Succeeds(sz, w[i], k - i, w[k])
             /\ \A e \in E : Succeeds(sz, w[i], Len(w) + 1 - i, e)
  <2>1. PICK j \in 1..Len(u) : j = Len(a) + i /\ u[j] = w[i]
    <3>1. Len(a) + i \in 1..Len(u)
      BY <1>2
    <3> QED
      BY <1>2, <3>1
  <2>2. ASSUME NEW k \in i..Len(w) PROVE Succeeds(sz, w[i], k - i, w[k])
    <3>1. PICK l \in j..Len(u) : l = Len(a) + k /\ u[l] = w[k] /\ l - j = k - i
      <4>1. /\ Len(a) + k \in j..Len(u) /\ k \in 1..Len(w)
            /\ (Len(a) + k) - j = k - i
        BY <1>2, <2>1
      <4> QED
        BY <1>2, <4>1
    <3>2. Succeeds(sz, u[j], l - j, u[l])
      BY <1>3
    <3> QED
      BY <2>1, <3>1, <3>2
  <2>3. ASSUME NEW e \in E PROVE Succeeds(sz, w[i], Len(w) + 1 - i, e)
    <3>1. Succeeds(sz, u[j], Len(u) + 1 - j, e)
      BY <1>3
    <3>2. Len(u) + 1 - j = Len(w) + 1 - i
      BY <1>2, <2>1
    <3> QED
      BY <2>1, <3>1, <3>2
  <2> QED
    BY <1>3, <2>1, <2>2, <2>3
<1>6. ASSUME w # <<>> PROVE w[1] = y
  <2>1. Len(a) + 1 \in 1..Len(u) /\ 1 \in 1..Len(w) /\ (Len(a) + 1) - 1 = Len(a)
    BY <1>2, <1>6
  <2>2. Succeeds(sz, u[1], (Len(a) + 1) - 1, u[Len(a) + 1])
    BY <1>3, <1>4, <2>1
  <2> QED
    BY <1>2, <1>4, <2>1, <2>2 DEF After
<1>7. ASSUME w = <<>>, NEW e \in E PROVE e = y
  <2>1. Succeeds(sz, u[1], Len(u) + 1 - 1, e)
    BY <1>3, <1>4
  <2>2. Len(u) + 1 - 1 = Len(a)
    BY <1>2, <1>7
  <2> QED
    BY <1>4, <2>1, <2>2 DEF After
<1> QED
  BY <1>5, <1>6, <1>7 DEF Whole

\* The bytes of a frame that Decode has read are those of its message.
LEMMA FrontBytes ==
  ASSUME NEW a \in Seq(Byte), NEW w \in Seq(Byte), NEW sz \in Seq(Sizes), NEW E,
         NEW n \in Nat \ {0}, NEW c \in Nat \ {0}, a # <<>>,
         Run(a, w, sz, E, <<n, c>>)
  PROVE  FrontOf(a, n, c, sz)
<1>1. PICK u \in Seq(Byte) : u = a \o w
  BY Joined
<1>2. /\ Len(u) = Len(a) + Len(w) /\ Len(a) \in Nat /\ Len(w) \in Nat /\ Len(a) >= 1
      /\ \A i \in 1..Len(a) : u[i] = a[i]
  <2>1. Len(a) \in Nat /\ Len(a) >= 1
    OBVIOUS
  <2> QED
    BY <1>1, <2>1, Joined
<1>3. 1 \in 1..Len(u) /\ u # <<>>
  BY <1>2
<1>4. /\ u[1] = <<n, c>> /\ u[1][1] \in 1..Len(sz)
      /\ \A k \in 1..Len(u) : Succeeds(sz, u[1], k - 1, u[k])
  BY <1>1, <1>3 DEF Run, Whole
<1>5. n \in 1..Len(sz) /\ sz[n] \in Nat \ {0}
  <2>1. n \in 1..Len(sz)
    BY <1>4
  <2>2. sz[n] \in Sizes
    BY <2>1
  <2> QED
    BY <2>1, <2>2, FramesAssumption
<1>6. ASSUME NEW j \in 1..Len(a), c + (j - 1) <= LengthSize + sz[n]
      PROVE  a[j] = <<n, c + (j - 1)>>
  <2>1. j \in 1..Len(u)
    BY <1>2
  <2>2. Succeeds(sz, <<n, c>>, j - 1, a[j])
    BY <1>2, <1>4, <2>1
  <2> QED
    BY <1>6, <2>2 DEF Succeeds
<1> QED
  BY <1>5, <1>6 DEF FrontOf, FrameBytes

\* What Decode has after reading LengthSize bytes at the start of a frame is
\* the header of that frame, and the data are next.
LEMMA HeaderRead ==
  ASSUME NEW a \in Seq(Byte), NEW w \in Seq(Byte), NEW sz \in Seq(Sizes), NEW E,
         NEW n \in Nat \ {0}, Len(a) = LengthSize,
         Run(a, w, sz, E, <<n, 1>>)
  PROVE  /\ n \in 1..Len(sz) /\ a = Header(n)
         /\ Whole(w, sz, E, <<n, LengthSize + 1>>)
<1>1. LengthSize \in Nat \ {0} /\ a # <<>> /\ 1 \in Nat \ {0}
  BY FramesAssumption
<1>2. FrontOf(a, n, 1, sz)
  BY <1>1, FrontBytes
<1>3. /\ n \in 1..Len(sz) /\ sz[n] \in Nat \ {0}
      /\ \A j \in 1..Len(a) : 1 + (j - 1) <= LengthSize + sz[n] => a[j] = <<n, 1 + (j - 1)>>
  BY <1>2 DEF FrontOf, FrameBytes
<1>4. ASSUME NEW j \in 1..LengthSize PROVE a[j] = <<n, j>>
  <2>1. 1 + (j - 1) <= LengthSize + sz[n] /\ 1 + (j - 1) = j /\ j \in 1..Len(a)
    BY <1>1, <1>3
  <2> QED
    BY <1>3, <2>1
<1>5. a = Header(n)
  BY <1>4 DEF Header
<1>6. After(sz, <<n, 1>>, Len(a), <<n, LengthSize + 1>>)
  <2>1. 1 + Len(a) <= LengthSize + sz[n] /\ 1 + Len(a) = LengthSize + 1
    BY <1>1, <1>3
  <2> QED
    BY <2>1 DEF Succeeds, After
<1>7. Whole(w, sz, E, <<n, LengthSize + 1>>)
  BY <1>1, <1>6, FrontTaken
<1> QED
  BY <1>3, <1>5, <1>7

\* What Decode has after reading as many bytes as the header says is the data
\* of that message, and the next frame is next.
LEMMA DataRead ==
  ASSUME NEW a \in Seq(Byte), NEW w \in Seq(Byte), NEW sz \in Seq(Sizes), NEW E,
         NEW n \in 1..Len(sz), Len(a) = sz[n],
         Run(a, w, sz, E, <<n, LengthSize + 1>>)
  PROVE  /\ a = [j \in 1..sz[n] |-> <<n, LengthSize + j>>]
         /\ Whole(w, sz, E, <<n + 1, 1>>)
<1>1. /\ LengthSize \in Nat \ {0} /\ LengthSize + 1 \in Nat \ {0}
      /\ n \in Nat \ {0} /\ sz[n] \in Nat \ {0}
  <2>1. sz[n] \in Sizes
    OBVIOUS
  <2> QED
    BY <2>1, FramesAssumption
<1>2. a # <<>>
  BY <1>1
<1>3. FrontOf(a, n, LengthSize + 1, sz)
  BY <1>1, <1>2, FrontBytes
<1>4. \A j \in 1..Len(a) : (LengthSize + 1) + (j - 1) <= LengthSize + sz[n] => a[j] = <<n, (LengthSize + 1) + (j - 1)>>
  BY <1>3 DEF FrontOf, FrameBytes
<1>5. ASSUME NEW j \in 1..sz[n] PROVE a[j] = <<n, LengthSize + j>>
  <2>1. /\ (LengthSize + 1) + (j - 1) <= LengthSize + sz[n]
        /\ (LengthSize + 1) + (j - 1) = LengthSize + j /\ j \in 1..Len(a)
    BY <1>1
  <2> QED
    BY <1>4, <2>1
<1>6. a = [j \in 1..sz[n] |-> <<n, LengthSize + j>>]
  BY <1>5
<1>7. After(sz, <<n, LengthSize + 1>>, Len(a), <<n + 1, 1>>)
  <2>1. (LengthSize + 1) + Len(a) = LengthSize + sz[n] + 1
    <3>1. \A k, l \in Nat : (l + 1) + k = l + k + 1
      OBVIOUS
    <3> QED
      BY <1>1, <3>1
  <2> QED
    BY <1>1, <2>1 DEF Succeeds, After
<1>8. Whole(w, sz, E, <<n + 1, 1>>)
  BY <1>2, <1>7, FrontTaken
<1> QED
  BY <1>6, <1>8

\* A byte is a message and a place in its frame.
LEMMA BytePair ==
  ASSUME NEW b \in Byte
  PROVE  b[1] \in Nat \ {0} /\ b[2] \in Nat \ {0} /\ b = <<b[1], b[2]>>
BY DEF Byte

\* Numbers: what follows a byte <<b1, b2>> after s places is <<m, c>>; then
\* what follows it after s + d is <<m, c + d>>, within the frame of m.
LEMMA StepOn ==
  ASSUME NEW b1 \in Nat, NEW b2 \in Nat, NEW r \in Nat, NEW s \in Nat, NEW m \in Nat,
         NEW c \in Nat, NEW d \in Nat, NEW last \in Nat,
         b2 + s <= r => m = b1 /\ c = b2 + s,
         b2 + s = r + 1 => m = b1 + 1 /\ c = 1,
         m = b1 => last = r, c + d <= last
  PROVE  /\ b2 + (s + d) <= r => m = b1 /\ c + d = b2 + (s + d)
         /\ b2 + (s + d) = r + 1 => m = b1 + 1 /\ c + d = 1
OBVIOUS

\* The arithmetic of Carried and CarriedOver.
LEMMA StepOver ==
  ASSUME NEW b1 \in Nat, NEW b2 \in Nat, NEW r \in Nat, NEW s \in Nat, NEW m \in Nat,
         NEW c \in Nat, NEW l \in Nat \ {0}, NEW last \in Nat,
         b2 + s <= r => m = b1 /\ c = b2 + s,
         m = b1 => last = r
  PROVE  /\ b2 + (s + l) <= r => m = b1 /\ c + l <= last /\ c + l = b2 + (s + l)
         /\ b2 + (s + l) = r + 1 => m = b1 /\ c + l = last + 1
OBVIOUS

\* z extends the sizes sz.
Extends(z, sz) == Len(sz) <= Len(z) /\ \A i \in 1..Len(sz) : z[i] = sz[i]

\* The numbers of the bytes in Succeeds.
LEMMA Numbers ==
  ASSUME NEW sz \in Seq(Sizes), NEW z \in Seq(Sizes), Extends(z, sz),
         NEW b1 \in 1..Len(sz)
  PROVE  /\ b1 \in 1..Len(z) /\ b1 \in Nat /\ z[b1] = sz[b1]
         /\ LengthSize + z[b1] \in Nat /\ z[b1] \in Nat \ {0}
<1>1. b1 \in 1..Len(z) /\ z[b1] = sz[b1] /\ b1 \in Nat
  BY DEF Extends
<1>2. z[b1] \in Sizes
  BY <1>1
<1>3. z[b1] \in Nat \ {0} /\ LengthSize \in Nat
  BY <1>2, FramesAssumption
<1>4. LengthSize + z[b1] \in Nat
  BY <1>3
<1> QED
  BY <1>1, <1>3, <1>4

\* Succeeds goes on within a frame, also when messages are added.
LEMMA Carried ==
  ASSUME NEW sz \in Seq(Sizes), NEW z \in Seq(Sizes), Extends(z, sz),
         NEW b \in Byte, b[1] \in 1..Len(sz),
         NEW m \in 1..Len(z), NEW c \in Nat \ {0}, NEW s \in Nat, NEW d \in Nat,
         c + d <= LengthSize + z[m], Succeeds(sz, b, s, <<m, c>>)
  PROVE  Succeeds(z, b, s + d, <<m, c + d>>)
<1>1. PICK b1 \in 1..Len(sz), b2 \in Nat : b = <<b1, b2>> /\ b1 = b[1] /\ b2 = b[2]
  BY BytePair
<1>2. PICK r \in Nat : r = LengthSize + z[b1] /\ r = LengthSize + sz[b1] /\ b1 \in Nat
  BY Numbers
<1>3. PICK last \in Nat : last = LengthSize + z[m] /\ m \in Nat /\ c + d <= last
  <2>1. Extends(z, z)
    BY DEF Extends
  <2> QED
    BY <2>1, Numbers
<1>4. /\ b2 + s <= r => m = b1 /\ c = b2 + s
      /\ b2 + s = r + 1 => m = b1 + 1 /\ c = 1
  BY <1>1, <1>2 DEF Succeeds
<1>5. m = b1 => last = r
  BY <1>2, <1>3
<1>6. /\ b2 + (s + d) <= r => m = b1 /\ c + d = b2 + (s + d)
      /\ b2 + (s + d) = r + 1 => m = b1 + 1 /\ c + d = 1
  BY <1>2, <1>3, <1>4, <1>5, StepOn, SMTT(30)
<1> QED
  BY <1>1, <1>2, <1>6 DEF Succeeds

\* Succeeds is transitive.
LEMMA CarriedOver ==
  ASSUME NEW sz \in Seq(Sizes), NEW z \in Seq(Sizes), Extends(z, sz),
         NEW b \in Byte, b[1] \in 1..Len(sz),
         NEW m \in 1..Len(z), NEW c \in Nat \ {0}, NEW s \in Nat, NEW l \in Nat \ {0}, NEW q,
         Succeeds(sz, b, s, <<m, c>>), Succeeds(z, <<m, c>>, l, q)
  PROVE  Succeeds(z, b, s + l, q)
<1>1. PICK b1 \in 1..Len(sz), b2 \in Nat : b = <<b1, b2>> /\ b1 = b[1] /\ b2 = b[2]
  BY BytePair
<1>2. PICK r \in Nat : r = LengthSize + z[b1] /\ r = LengthSize + sz[b1] /\ b1 \in Nat
  BY Numbers
<1>3. PICK last \in Nat : last = LengthSize + z[m] /\ m \in Nat
  <2>1. Extends(z, z)
    BY DEF Extends
  <2> QED
    BY <2>1, Numbers, SMTT(30)
<1>4. b2 + s <= r => m = b1 /\ c = b2 + s
  BY <1>1, <1>2 DEF Succeeds
<1>5. m = b1 => last = r
  BY <1>2, <1>3
<1>6. /\ b2 + (s + l) <= r => m = b1 /\ c + l <= last /\ c + l = b2 + (s + l)
      /\ b2 + (s + l) = r + 1 => m = b1 /\ c + l = last + 1
  <2>1. /\ b1 \in Nat /\ b2 \in Nat /\ r \in Nat /\ s \in Nat /\ m \in Nat /\ c \in Nat
        /\ last \in Nat
    BY <1>2, <1>3
  <2> HIDE <1>1, <1>2, <1>3
  <2> QED
    BY <2>1, <1>4, <1>5, StepOver
<1>7. /\ c + l <= last => q = <<m, c + l>>
      /\ c + l = last + 1 => q = <<m + 1, 1>>
  BY <1>3 DEF Succeeds
<1>8. /\ b2 + (s + l) <= r => q = <<b1, b2 + (s + l)>>
      /\ b2 + (s + l) = r + 1 => q = <<b1 + 1, 1>>
  BY <1>6, <1>7
<1> QED
  BY <1>1, <1>2, <1>8 DEF Succeeds

\* Bytes of frame m, from number c on, are appended to a stream that goes on
\* with them; z are the sizes afterwards, q follows.
LEMMA BackGrown ==
  ASSUME NEW u \in Seq(Byte), NEW v \in Seq(Byte), NEW sz \in Seq(Sizes),
         NEW z \in Seq(Sizes), NEW m \in 1..Len(z), NEW c \in Nat \ {0}, NEW x, NEW q,
         Extends(z, sz), v # <<>>, c + (Len(v) - 1) <= LengthSize + z[m],
         \A j \in 1..Len(v) : v[j] = <<m, c + (j - 1)>>,
         Whole(u, sz, {<<m, c>>}, x), Succeeds(z, <<m, c>>, Len(v), q)
  PROVE  Run(u, v, z, {q}, x)
<1>1. PICK t \in Seq(Byte) : t = u \o v
  BY Joined
<1>2. /\ Len(t) = Len(u) + Len(v) /\ Len(u) \in Nat /\ Len(v) \in Nat \ {0}
      /\ \A i \in 1..Len(u) : t[i] = u[i]
      /\ \A i \in 1..Len(v) : t[Len(u) + i] = v[i]
      /\ \A k \in 1..Len(t) : \/ k \in 1..Len(u)
                              \/ k - Len(u) \in 1..Len(v) /\ k = Len(u) + (k - Len(u))
  <2>1. Len(v) \in Nat \ {0}
    OBVIOUS
  <2> QED
    BY <1>1, <2>1, Joined
<1>3. /\ LengthSize + z[m] \in Nat /\ m \in Nat /\ Extends(z, z)
  <2>1. Extends(z, z)
    BY DEF Extends
  <2> QED
    BY <2>1, Numbers
<1>4. ASSUME NEW i \in 1..Len(u)
      PROVE  /\ u[i] \in Byte /\ u[i][1] \in 1..Len(sz)
             /\ u[i][2] \in 1..(LengthSize + sz[u[i][1]])
             /\ \A k \in i..Len(u) : Succeeds(sz, u[i], k - i, u[k])
             /\ Succeeds(sz, u[i], Len(u) + 1 - i, <<m, c>>)
  <2>1. u[i] \in Byte
    OBVIOUS
  <2>2. /\ u[i][1] \in 1..Len(sz) /\ u[i][2] \in 1..(LengthSize + sz[u[i][1]])
        /\ \A k \in i..Len(u) : Succeeds(sz, u[i], k - i, u[k])
        /\ \A e \in {<<m, c>>} : Succeeds(sz, u[i], Len(u) + 1 - i, e)
    BY DEF Whole
  <2>3. Succeeds(sz, u[i], Len(u) + 1 - i, <<m, c>>)
    BY <2>2
  <2> QED
    BY <2>1, <2>2, <2>3
\* A byte of u is followed by the new ones as it was by <<m, c>>.
<1>5. ASSUME NEW i \in 1..Len(u), NEW d \in Nat, d <= Len(v) - 1
      PROVE  Succeeds(z, u[i], (Len(u) + 1 - i) + d, <<m, c + d>>)
  <2>1. c + d <= LengthSize + z[m] /\ Len(u) + 1 - i \in Nat
    BY <1>2, <1>3, <1>5, SMTT(30)
  <2> QED
    BY <1>4, <2>1, Carried
<1>6. ASSUME NEW i \in 1..Len(u) PROVE Succeeds(z, u[i], Len(t) + 1 - i, q)
  <2>1. Len(t) + 1 - i = (Len(u) + 1 - i) + Len(v) /\ Len(u) + 1 - i \in Nat
    BY <1>2
  <2>2. Succeeds(z, u[i], (Len(u) + 1 - i) + Len(v), q)
    <3>1. /\ u[i] \in Byte /\ u[i][1] \in 1..Len(sz)
          /\ Succeeds(sz, u[i], Len(u) + 1 - i, <<m, c>>)
      BY <1>4
    <3>2. Len(v) \in Nat \ {0} /\ Len(u) + 1 - i \in Nat
      BY <1>2, <2>1
    <3> QED
      BY <3>1, <3>2, CarriedOver
  <2> QED
    BY <2>1, <2>2
\* The new bytes follow each other.
<1>7. ASSUME NEW a \in 1..Len(v)
      PROVE  /\ v[a][1] \in 1..Len(z) /\ v[a][2] \in 1..(LengthSize + z[v[a][1]])
             /\ \A l \in a..Len(v) : Succeeds(z, v[a], l - a, v[l])
             /\ Succeeds(z, v[a], Len(v) + 1 - a, q)
  <2>1. PICK e \in Nat \ {0} : e = c + (a - 1) /\ v[a] = <<m, e>> /\ e <= LengthSize + z[m]
    <3>1. c + (a - 1) \in Nat \ {0} /\ c + (a - 1) <= LengthSize + z[m]
      BY <1>2, <1>3
    <3> QED
      BY <3>1
  <2>2. ASSUME NEW l \in a..Len(v) PROVE Succeeds(z, <<m, e>>, l - a, v[l])
    <3>1. l \in 1..Len(v) /\ c + (l - 1) <= LengthSize + z[m]
      BY <1>2, <1>3, SMTT(30)
    <3>2. v[l] = <<m, c + (l - 1)>>
      BY <3>1
    <3>3. e + (l - a) = c + (l - 1)
      BY <1>2, <2>1
    <3>4. c + (l - 1) # LengthSize + z[m] + 1
      BY <1>2, <1>3, <3>1, SMTT(30)
    <3> QED
      BY <3>2, <3>3, <3>4 DEF Succeeds
  <2>3. Succeeds(z, <<m, e>>, Len(v) + 1 - a, q)
    <3>1. e + (Len(v) + 1 - a) = c + Len(v)
      BY <1>2, <2>1
    <3> QED
      BY <3>1 DEF Succeeds
  <2>4. e \in 1..(LengthSize + z[m])
    BY <1>3, <2>1
  <2>5. <<m, e>>[1] = m /\ <<m, e>>[2] = e
    OBVIOUS
  <2> QED
    BY <2>1, <2>2, <2>3, <2>4, <2>5
<1>8. ASSUME NEW i \in 1..Len(t)
      PROVE  /\ t[i][1] \in 1..Len(z) /\ t[i][2] \in 1..(LengthSize + z[t[i][1]])
             /\ \A k \in i..Len(t) : Succeeds(z, t[i], k - i, t[k])
             /\ Succeeds(z, t[i], Len(t) + 1 - i, q)
  <2>1. CASE i \in 1..Len(u)
    <3>1. t[i] = u[i]
      BY <1>2, <2>1
    <3>2. u[i][1] \in 1..Len(z) /\ u[i][2] \in 1..(LengthSize + z[u[i][1]])
      <4>1. u[i][1] \in 1..Len(sz) /\ u[i][2] \in 1..(LengthSize + sz[u[i][1]])
        BY <1>4, <2>1
      <4>2. u[i][1] \in 1..Len(z) /\ z[u[i][1]] = sz[u[i][1]]
        BY <4>1, Numbers, SMTT(30)
      <4> QED
        BY <4>1, <4>2
    <3>3. ASSUME NEW k \in i..Len(t) PROVE Succeeds(z, u[i], k - i, t[k])
      <4>1. CASE k \in 1..Len(u)
        <5>1. Succeeds(sz, u[i], k - i, u[k]) /\ u[i][1] \in 1..Len(sz)
          <6>1. k \in i..Len(u)
            BY <1>2, <2>1, <4>1
          <6> QED
            BY <1>4, <2>1, <6>1
        <5>2. z[u[i][1]] = sz[u[i][1]]
          BY <5>1, Numbers, SMTT(30)
        <5>3. Succeeds(z, u[i], k - i, u[k])
          BY <5>1, <5>2 DEF Succeeds
        <5> QED
          BY <1>2, <4>1, <5>3
      <4>2. CASE k - Len(u) \in 1..Len(v)
        <5>1. PICK l \in 1..Len(v), d \in Nat :
                l = k - Len(u) /\ d = l - 1 /\ d <= Len(v) - 1 /\ k = Len(u) + l
          <6>1. (k - Len(u)) - 1 \in Nat /\ (k - Len(u)) - 1 <= Len(v) - 1
                /\ k = Len(u) + (k - Len(u))
            BY <1>2, <4>2
          <6> QED
            BY <4>2, <6>1
        <5>2. t[k] = <<m, c + d>>
          BY <1>2, <5>1
        <5>3. (Len(u) + 1 - i) + d = k - i
          BY <1>2, <5>1
        <5>4. Succeeds(z, u[i], (Len(u) + 1 - i) + d, <<m, c + d>>)
          BY <1>5, <2>1, <5>1
        <5> QED
          BY <5>2, <5>3, <5>4
      <4>3. k \in 1..Len(t)
        BY <1>2
      <4> QED
        BY <1>2, <4>1, <4>2, <4>3
    <3> QED
      BY <1>6, <2>1, <3>1, <3>2, <3>3
  <2>2. CASE i - Len(u) \in 1..Len(v)
    <3>1. PICK a \in 1..Len(v) : a = i - Len(u) /\ i = Len(u) + a
      <4>1. i = Len(u) + (i - Len(u))
        BY <1>2
      <4> QED
        BY <2>2, <4>1
    <3>2. t[i] = v[a]
      BY <1>2, <3>1
    <3>3. Len(t) + 1 - i = Len(v) + 1 - a
      BY <1>2, <3>1
    <3>4. ASSUME NEW k \in i..Len(t) PROVE Succeeds(z, v[a], k - i, t[k])
      <4>1. PICK l \in a..Len(v) : k = Len(u) + l
        <5>1. k - Len(u) \in a..Len(v) /\ k = Len(u) + (k - Len(u))
          BY <1>2, <3>1
        <5> QED
          BY <5>1
      <4>2. l \in 1..Len(v) /\ k - i = l - a
        BY <1>2, <3>1, <4>1
      <4>3. t[k] = v[l] /\ Succeeds(z, v[a], l - a, v[l])
        BY <1>2, <1>7, <4>1, <4>2
      <4> QED
        BY <4>2, <4>3
    <3> QED
      BY <1>7, <3>2, <3>3, <3>4
  <2> QED
    BY <1>2, <2>1, <2>2
<1>9. t # <<>> /\ t[1] = x
  <2>1. t # <<>>
    BY <1>2
  <2>2. CASE u = <<>>
    <3>1. Len(u) = 0 /\ 1 \in 1..Len(v) /\ x = <<m, c>>
      BY <1>2, <2>2 DEF Whole
    <3>2. t[0 + 1] = v[1] /\ v[1] = <<m, c + (1 - 1)>>
      BY <1>2, <3>1
    <3>3. c + (1 - 1) = c /\ 0 + 1 = 1
      OBVIOUS
    <3> QED
      BY <2>1, <3>1, <3>2, <3>3
  <2>3. CASE u # <<>>
    <3>1. 1 \in 1..Len(u) /\ u[1] = x
      BY <2>3 DEF Whole
    <3> QED
      BY <1>2, <2>1, <3>1
  <2> QED
    BY <2>2, <2>3
<1> QED
  BY <1>1, <1>8, <1>9 DEF Run, Whole

\* Bytes written behind what is on the wire are behind what was read.
LEMMA Regrouped ==
  ASSUME NEW a \in Seq(Byte), NEW w \in Seq(Byte), NEW v \in Seq(Byte)
  PROVE  a \o (w \o v) = (a \o w) \o v
OBVIOUS

\* Decode starts again with nothing read.
LEMMA EmptyFront ==
  ASSUME NEW w \in Seq(Byte)
  PROVE  <<>> \o w = w
OBVIOUS

-----------------------------------------------------------------------------
(* Frames *)

\* The bytes of a header, as WriteLength appends them.
LEMMA HeaderBytes ==
  ASSUME NEW m \in Nat \ {0}
  PROVE  /\ Header(m) \in Seq(Byte) /\ Len(Header(m)) = LengthSize /\ Header(m) # <<>>
         /\ \A j \in 1..Len(Header(m)) : Header(m)[j] = <<m, 1 + (j - 1)>>
<1>1. LengthSize \in Nat \ {0}
  BY FramesAssumption
<1>2. \A j \in 1..LengthSize : <<m, j>> \in Byte /\ 1 + (j - 1) = j
  BY <1>1 DEF Byte
<1>3. Header(m) \in [1..LengthSize -> Byte]
  BY <1>2 DEF Header
<1>4. Header(m) \in Seq(Byte) /\ Len(Header(m)) = LengthSize
  BY <1>1, <1>3
<1>5. \A j \in 1..LengthSize : Header(m)[j] = <<m, j>>
  BY DEF Header
<1>6. Header(m) # <<>>
  BY <1>1, <1>4
<1> QED
  BY <1>2, <1>4, <1>5, <1>6

\* A header tells its message.
LEMMA HeaderOnce ==
  ASSUME NEW m, NEW n, Header(m) = Header(n)
  PROVE  m = n
<1>1. 1 \in 1..LengthSize
  BY FramesAssumption
<1>2. Header(m)[1] = <<m, 1>> /\ Header(n)[1] = <<n, 1>>
  BY <1>1 DEF Header
<1>3. <<m, 1>> = <<n, 1>>
  BY <1>2
<1> QED
  BY <1>3

\* The bytes of the data, as WriteData appends them.
LEMMA DataBytes ==
  ASSUME TypeOK, NEW m \in 1..Len(size)
  PROVE  /\ m \in Nat \ {0} /\ m <= MaxMessages /\ size[m] \in Nat \ {0}
         /\ Data(m) \in Seq(Byte) /\ Len(Data(m)) = size[m] /\ Data(m) # <<>>
         /\ \A j \in 1..Len(Data(m)) : Data(m)[j] = <<m, (LengthSize + 1) + (j - 1)>>
<1>1. LengthSize \in Nat \ {0} /\ size[m] \in Nat \ {0} /\ m \in Nat \ {0} /\ m <= MaxMessages
  <2>1. size[m] \in Sizes /\ Len(size) \in Nat /\ Len(size) <= MaxMessages
    BY DEF TypeOK
  <2>2. size[m] \in Nat \ {0} /\ LengthSize \in Nat \ {0} /\ MaxMessages \in Nat
    BY <2>1, FramesAssumption
  <2>3. m \in Nat \ {0} /\ m <= MaxMessages
    BY <2>1, <2>2
  <2> QED
    BY <2>2, <2>3
<1>2. \A j \in 1..size[m] :
        <<m, LengthSize + j>> \in Byte /\ (LengthSize + 1) + (j - 1) = LengthSize + j
  BY <1>1 DEF Byte
<1>3. Data(m) \in [1..size[m] -> Byte]
  BY <1>2 DEF Data
<1>4. Data(m) \in Seq(Byte) /\ Len(Data(m)) = size[m]
  BY <1>1, <1>3
<1>5. \A j \in 1..size[m] : Data(m)[j] = <<m, LengthSize + j>>
  BY DEF Data
<1>6. Data(m) # <<>>
  BY <1>1, <1>4
<1> QED
  BY <1>1, <1>2, <1>4, <1>5, <1>6

\* The data tell their message.
LEMMA DataOnce ==
  ASSUME TypeOK, NEW m \in 1..Len(size), NEW n \in 1..Len(size), Data(m) = Data(n)
  PROVE  m = n
<1>1. 1 \in 1..size[m] /\ 1 \in 1..size[n]
  BY DataBytes
<1>2. Data(m)[1] = <<m, LengthSize + 1>> /\ Data(n)[1] = <<n, LengthSize + 1>>
  BY <1>1 DEF Data
<1>3. <<m, LengthSize + 1>> = <<n, LengthSize + 1>>
  BY <1>2
<1> QED
  BY <1>3

\* What DecodeLength may take for a length is a number.
LEMMA LengthsTyped ==
  ASSUME TypeOK, NEW b, NEW n \in LengthsOf(b)
  PROVE  n \in Nat
<1>1. MaxMsgSize \in Nat
  BY FramesAssumption
<1>2. \A m \in 1..Len(size) : size[m] \in Nat
  BY DataBytes
<1> QED
  BY <1>1, <1>2 DEF LengthsOf

\* What DecodeData may take for a message is one, or 0.
LEMMA MessagesTyped ==
  ASSUME TypeOK, NEW b, NEW m \in MessagesOf(b)
  PROVE  m \in 0..MaxMessages
<1>1. MaxMessages \in Nat
  BY FramesAssumption
<1>2. \A k \in 1..Len(size) : k \in 0..MaxMessages
  BY <1>1, DataBytes
<1> QED
  BY <1>1, <1>2 DEF MessagesOf

-----------------------------------------------------------------------------
(* Types *)

\* A Read returns at least one byte and at most what is there and wanted.
LEMMA ReadSome ==
  ASSUME TypeOK, ReadFull, NEW n \in 1..Min({Len(wire), Wanted - Len(acc)})
  PROVE  n \in 1..Len(wire) /\ n <= Wanted - Len(acc)
<1>1. Len(wire) \in Nat /\ Len(acc) \in Nat /\ Wanted \in Nat
  BY FramesAssumption DEF TypeOK, Wanted
<1>2. Min({Len(wire), Wanted - Len(acc)})
        = IF Len(wire) <= Wanted - Len(acc) THEN Len(wire) ELSE Wanted - Len(acc)
  BY <1>1, MinPair
<1> QED
  BY <1>1, <1>2

\* Every step keeps the types.
LEMMA TypeNext ==
  ASSUME TypeOK, [Next]_vars
  PROVE  TypeOK'
<1>1. MaxMessages \in Nat /\ MaxMsgSize \in Nat /\ Len(size) \in Nat
  BY FramesAssumption DEF TypeOK
<1>2. ASSUME NEW w \in Writers, NEW s \in Sizes, WriteLength(w, s) PROVE TypeOK'
  <2>1. Len(size) + 1 \in Nat \ {0} /\ Len(size) + 1 <= MaxMessages
    BY <1>1, <1>2 DEF WriteLength
  <2>2. size' \in Seq(Sizes) /\ Len(size') <= MaxMessages
    BY <1>1, <1>2, <2>1 DEF TypeOK, WriteLength
  <2>3. pending' \in [Writers -> 0..Len(size')]
    <3>1. /\ pending \in [Writers -> 0..Len(size)] /\ Len(size') = Len(size) + 1
          /\ pending' = [pending EXCEPT ![w] = Len(size) + 1]
      BY <1>2 DEF TypeOK, WriteLength
    <3> QED
      BY <1>1, <3>1
  <2>4. mixed' \in BOOLEAN
    BY <1>2 DEF TypeOK, WriteLength
  <2>5. wire' \in Seq(Byte)
    <3>1. PICK h \in Seq(Byte) : h = Header(Len(size) + 1)
      BY <2>1, HeaderBytes
    <3>2. wire' = wire \o h /\ wire \in Seq(Byte)
      BY <1>2, <3>1 DEF TypeOK, WriteLength
    <3> QED
      BY <3>2
  <2> QED
    BY <1>2, <2>2, <2>3, <2>4, <2>5 DEF TypeOK, WriteLength
<1>3. ASSUME NEW w \in Writers, WriteData(w) PROVE TypeOK'
  <2>1. pending[w] \in 1..Len(size)
    BY <1>1, <1>3 DEF TypeOK, WriteData
  <2>2. PICK d \in Seq(Byte) : d = Data(pending[w])
    BY <2>1, DataBytes
  <2>3. wire' \in Seq(Byte)
    <3>1. wire \in Seq(Byte) /\ wire' = IF closed THEN wire ELSE wire \o d
      BY <1>3, <2>2 DEF TypeOK, WriteData
    <3> QED
      BY <3>1
  <2>4. pending' \in [Writers -> 0..Len(size')]
    BY <1>1, <1>3 DEF TypeOK, WriteData
  <2> QED
    BY <1>3, <2>3, <2>4 DEF TypeOK, WriteData
<1>4. ASSUME ReadFull PROVE TypeOK'
  <2>1. PICK n \in 1..Min({Len(wire), Wanted - Len(acc)}) :
          acc' = acc \o SubSeq(wire, 1, n) /\ wire' = SubSeq(wire, n + 1, Len(wire))
    BY <1>4 DEF ReadFull
  <2>2. n \in 1..Len(wire)
    BY <1>4, <2>1, ReadSome
  <2>3. acc' \in Seq(Byte) /\ wire' \in Seq(Byte)
    <3>1. acc \in Seq(Byte) /\ wire \in Seq(Byte)
      BY DEF TypeOK
    <3> QED
      BY <2>1, <2>2, <3>1, Moved
  <2> QED
    BY <1>4, <2>3 DEF TypeOK, ReadFull
<1>5. ASSUME ReadFails PROVE TypeOK'
  BY <1>5 DEF TypeOK, ReadFails
<1>6. ASSUME DecodeLength PROVE TypeOK'
  <2>1. PICK n \in LengthsOf(acc) :
          \/ n > MaxMsgSize /\ phase' = "failed" /\ UNCHANGED <<acc, length>>
          \/ n <= MaxMsgSize /\ phase' = "data" /\ acc' = <<>> /\ length' = n
    BY <1>6 DEF DecodeLength
  <2>2. n \in Nat
    BY LengthsTyped
  <2>3. length' \in 0..MaxMsgSize
    BY <1>1, <2>1, <2>2 DEF TypeOK
  <2>4. acc' \in Seq(Byte) /\ phase' \in {"length", "data", "failed"}
    <3>1. acc \in Seq(Byte) /\ acc' \in {acc, <<>>}
      BY <2>1 DEF TypeOK
    <3>2. <<>> \in Seq(Byte)
      OBVIOUS
    <3>3. phase' \in {"length", "data", "failed"}
      BY <2>1
    <3> QED
      BY <3>1, <3>2, <3>3
  <2>5. UNCHANGED <<writeVars, wire, closed, retries, delivered>>
    BY <1>6 DEF DecodeLength
  <2> QED
    BY <2>3, <2>4, <2>5 DEF TypeOK
<1>7. ASSUME DecodeData PROVE TypeOK'
  <2>1. PICK m \in MessagesOf(acc) :
          \/ delivered' = Append(delivered, m) /\ phase' = "length" /\ acc' = <<>> /\ length' = 0
          \/ m = 0 /\ phase' = "failed" /\ UNCHANGED <<delivered, acc, length>>
    BY <1>7 DEF DecodeData
  <2>2. m \in 0..MaxMessages
    BY MessagesTyped
  <2>3. delivered' \in Seq(0..MaxMessages)
    <3>1. delivered \in Seq(0..MaxMessages) /\ delivered' \in {delivered, Append(delivered, m)}
      BY <2>1 DEF TypeOK
    <3>2. Append(delivered, m) \in Seq(0..MaxMessages)
      BY <2>2, <3>1
    <3> QED
      BY <3>1, <3>2
  <2>4. length' \in 0..MaxMsgSize
    BY <1>1, <2>1 DEF TypeOK
  <2>5. acc' \in Seq(Byte) /\ phase' \in {"length", "data", "failed"}
    <3>1. acc \in Seq(Byte) /\ acc' \in {acc, <<>>}
      BY <2>1 DEF TypeOK
    <3>2. <<>> \in Seq(Byte)
      OBVIOUS
    <3>3. phase' \in {"length", "data", "failed"}
      BY <2>1
    <3> QED
      BY <3>1, <3>2, <3>3
  <2>6. UNCHANGED <<writeVars, wire, closed, retries>>
    BY <1>7 DEF DecodeData
  <2> QED
    BY <2>3, <2>4, <2>5, <2>6 DEF TypeOK
<1>8. ASSUME CloseStream PROVE TypeOK'
  BY <1>8 DEF TypeOK, CloseStream
<1>9. ASSUME UNCHANGED vars PROVE TypeOK'
  BY <1>9 DEF TypeOK
<1>10. ASSUME DecodeAgain PROVE TypeOK'
  <2>1. retries' \in 0..Registrations /\ length' \in 0..MaxMsgSize
    BY <1>1, <1>10, FramesAssumption DEF TypeOK, DecodeAgain
  <2>2. acc' = <<>> /\ <<>> \in Seq(Byte)
    BY <1>10 DEF DecodeAgain
  <2> QED
    BY <1>10, <2>1, <2>2 DEF TypeOK, DecodeAgain
<1> QED
  BY <1>2, <1>3, <1>4, <1>5, <1>6, <1>7, <1>8, <1>9, <1>10 DEF Next, Decode
-----------------------------------------------------------------------------
(* The stream, before and after a step *)

\* UnbrokenWhole for the next state.
LEMMA UnbrokenWholePrimed ==
  ASSUME NEW u \in Seq(Byte)
  PROVE  Unbroken(u)' <=> Whole(u, size', Ends', FirstRead')
<1>1. CASE closed'
  BY <1>1 DEF Unbroken, Whole, Ends, Follows, Succeeds, FrameSize
<1>2. CASE ~closed'
  BY <1>2 DEF Unbroken, Whole, Ends, Follows, Succeeds, FrameSize
<1> QED
  BY <1>1, <1>2

\* The message that is read, when the length has been.
DataOfMessage ==
  phase = "data" => Len(delivered) < Len(size) /\ length = size[Len(delivered) + 1]

\* The parts of StreamUnbroken, as the lemmas on the actions use them.
LEMMA StreamBefore ==
  ASSUME TypeOK, StreamUnbroken, InStep, phase # "failed"
  PROVE  Run(acc, wire, size, Ends, FirstRead) /\ DataOfMessage
<1>1. PICK u \in Seq(Byte) : u = acc \o wire
  BY Joined DEF TypeOK
<1>2. Unbroken(u) /\ DataOfMessage
  BY <1>1 DEF StreamUnbroken, DataOfMessage
<1>3. Whole(u, size, Ends, FirstRead)
  BY <1>2, UnbrokenWhole
<1> QED
  BY <1>1, <1>2, <1>3 DEF Run

\* The converse of StreamBefore, for the next state.
LEMMA StreamAfter ==
  ASSUME TypeOK', Run(acc', wire', size', Ends', FirstRead'), DataOfMessage'
  PROVE  StreamUnbroken'
<1>1. PICK u \in Seq(Byte) : u = acc' \o wire'
  BY Joined DEF TypeOK
<1>2. Whole(u, size', Ends', FirstRead')
  BY <1>1 DEF Run
<1>3. Unbroken(u)'
  BY <1>2, UnbrokenWholePrimed
<1> QED
  BY <1>1, <1>3 DEF StreamUnbroken, DataOfMessage

\* A step that leaves the stream and the places alone.
LEMMA StreamSame ==
  ASSUME TypeOK', Run(acc, wire, size, Ends, FirstRead), DataOfMessage,
         acc' \o wire' = acc \o wire, Ends' \in {Ends, {}},
         UNCHANGED <<size, phase, length, delivered>>
  PROVE  StreamUnbroken'
<1>1. FirstRead' = FirstRead /\ DataOfMessage'
  BY DEF FirstRead, DataOfMessage
<1>2. Whole(acc \o wire, size, Ends', FirstRead)
  BY DEF Run, Whole
<1>3. Run(acc', wire', size', Ends', FirstRead')
  BY <1>1, <1>2 DEF Run
<1> QED
  BY <1>1, <1>3, StreamAfter

\* Encode writes a length.
LEMMA LengthWritten ==
  ASSUME FramesInv, TypeOK', NEW w \in Writers, NEW s \in Sizes, WriteLength(w, s), InStep',
         phase # "failed"
  PROVE  StreamUnbroken'
<1>1. /\ InStep /\ \A v \in Writers : pending[v] = 0
      /\ ~closed /\ ~closed'
  BY DEF WriteLength, FramesInv, TypeOK, InStep
<1>2. PICK M \in Nat \ {0} : M = Len(size) + 1 /\ Len(size') = M /\ M \in 1..Len(size')
  BY DEF WriteLength, FramesInv, TypeOK
<1>3. Ends = {<<M, 1>>}
  BY <1>1, <1>2 DEF Ends, NextWritten
<1>4. PICK q : q = <<M, LengthSize + 1>>
  OBVIOUS
<1>5. Ends' = {q}
  <2>1. pending'[w] # 0
    BY <1>2 DEF WriteLength, FramesInv, TypeOK
  <2> QED
    BY <1>1, <1>2, <1>4, <2>1 DEF Ends, NextWritten
<1>6. Run(acc, wire, size, Ends, FirstRead) /\ DataOfMessage
  BY <1>1, StreamBefore DEF FramesInv
<1>7. PICK u \in Seq(Byte) : u = acc \o wire /\ Whole(u, size, {<<M, 1>>}, FirstRead)
  BY <1>3, <1>6, Joined DEF Run, FramesInv, TypeOK
<1>8. PICK v \in Seq(Byte) : /\ v = Header(M) /\ Len(v) = LengthSize /\ v # <<>>
                             /\ \A j \in 1..Len(v) : v[j] = <<M, 1 + (j - 1)>>
  BY HeaderBytes
<1>9. PICK z \in Seq(Sizes) : z = size'
  BY DEF TypeOK
<1>10. Extends(z, size) /\ size \in Seq(Sizes)
  BY <1>9 DEF Extends, WriteLength, FramesInv, TypeOK
<1>11. M \in 1..Len(z) /\ z[M] \in Nat \ {0} /\ LengthSize \in Nat \ {0}
  <2>1. M \in 1..Len(z)
    BY <1>2, <1>9
  <2>2. z[M] \in Sizes
    BY <2>1
  <2> QED
    BY <2>1, <2>2, FramesAssumption
<1>12. 1 + (Len(v) - 1) <= LengthSize + z[M]
  BY <1>8, <1>11
<1>13. Succeeds(z, <<M, 1>>, Len(v), q)
  <2>1. /\ 1 + Len(v) = LengthSize + 1 /\ 1 + Len(v) <= LengthSize + z[M]
        /\ 1 + Len(v) # LengthSize + z[M] + 1
    BY <1>8, <1>11
  <2> QED
    BY <1>4, <2>1 DEF Succeeds
<1>14. Run(u, v, z, {q}, FirstRead)
  <2>1. 1 \in Nat \ {0}
    OBVIOUS
  <2> QED
    BY <1>7, <1>8, <1>10, <1>11, <1>12, <1>13, <2>1, BackGrown
<1>15. acc' \o wire' = u \o v
  <2>1. acc' = acc /\ wire' = wire \o v /\ acc \in Seq(Byte) /\ wire \in Seq(Byte)
    BY <1>2, <1>8 DEF WriteLength, FramesInv, TypeOK
  <2> QED
    BY <1>7, <2>1, Regrouped, SMTT(30)
<1>16. FirstRead' = FirstRead
  BY DEF FirstRead, WriteLength
<1>17. Run(acc', wire', size', Ends', FirstRead')
  BY <1>5, <1>9, <1>14, <1>15, <1>16 DEF Run
<1>18. DataOfMessage'
  <2>1. /\ phase' = phase /\ length' = length /\ delivered' = delivered
        /\ Len(delivered) \in Nat /\ Len(size) \in Nat
    BY DEF WriteLength, FramesInv, TypeOK
  <2>2. ASSUME phase = "data"
        PROVE  Len(delivered) < Len(size') /\ length = size'[Len(delivered) + 1]
    <3>1. Len(delivered) < Len(size) /\ length = size[Len(delivered) + 1]
      BY <1>6, <2>2 DEF DataOfMessage
    <3>2. Len(delivered) + 1 \in 1..Len(size) /\ Len(delivered) < Len(size')
      BY <1>2, <2>1, <3>1
    <3>3. z[Len(delivered) + 1] = size[Len(delivered) + 1]
      BY <1>10, <3>2 DEF Extends
    <3> QED
      BY <1>9, <3>1, <3>2, <3>3
  <2> QED
    BY <2>1, <2>2 DEF DataOfMessage
<1> QED
  BY <1>17, <1>18, StreamAfter

\* Encode writes the data.
LEMMA DataWritten ==
  ASSUME FramesInv, TypeOK', NEW w \in Writers, WriteData(w), InStep,
         phase # "failed"
  PROVE  StreamUnbroken'
<1>1. Run(acc, wire, size, Ends, FirstRead) /\ DataOfMessage
  BY StreamBefore DEF FramesInv
<1>2. CASE closed
  <2>1. Ends' \in {Ends, {}} /\ acc' = acc /\ wire' = wire
    BY <1>2 DEF Ends, WriteData
  <2> QED
    BY <1>1, <2>1, StreamSame DEF WriteData
<1>3. CASE ~closed
  <2>1. PICK M \in 1..Len(size) : M = pending[w] /\ M = Len(size)
    <3>1. pending[w] \in 0..Len(size) /\ pending[w] # 0 /\ Len(size) \in Nat
      BY DEF WriteData, FramesInv, TypeOK
    <3>2. pending[w] = Len(size)
      BY <3>1 DEF FramesInv, OnePending, InStep
    <3> QED
      BY <3>1, <3>2
  <2>2. M \in Nat \ {0} /\ size[M] \in Nat \ {0} /\ LengthSize \in Nat \ {0} /\ size \in Seq(Sizes)
    BY <2>1, DataBytes, FramesAssumption DEF FramesInv, TypeOK
  <2>3. PICK c \in Nat \ {0} : c = LengthSize + 1
    BY <2>2
  <2>4. Ends = {<<M, c>>}
    <3>1. pending[w] # 0
      BY DEF WriteData
    <3> QED
      BY <1>3, <2>1, <2>3, <3>1 DEF Ends, NextWritten
  <2>5. PICK q : q = <<M + 1, 1>>
    OBVIOUS
  <2>6. Ends' = {q}
    <3>1. \A v \in Writers : pending'[v] = 0
      BY DEF WriteData, FramesInv, TypeOK, OnePending, InStep
    <3>2. ~closed' /\ size' = size
      BY <1>3 DEF WriteData
    <3> QED
      BY <2>1, <2>5, <3>1, <3>2 DEF Ends, NextWritten
  <2>7. PICK u \in Seq(Byte) : u = acc \o wire /\ Whole(u, size, {<<M, c>>}, FirstRead)
    BY <1>1, <2>4, Joined DEF Run, FramesInv, TypeOK
  <2>8. PICK v \in Seq(Byte) : /\ v = Data(M) /\ Len(v) = size[M] /\ v # <<>>
                               /\ \A j \in 1..Len(v) : v[j] = <<M, c + (j - 1)>>
    BY <2>3, DataBytes DEF FramesInv
  <2>9. c + (Len(v) - 1) <= LengthSize + size[M] /\ c + Len(v) = LengthSize + size[M] + 1
    BY <2>2, <2>3, <2>8
  <2>10. Succeeds(size, <<M, c>>, Len(v), q)
    <3>1. ~(c + Len(v) <= LengthSize + size[M])
      BY <2>2, <2>9
    <3> QED
      BY <2>5, <3>1 DEF Succeeds
  <2>11. Run(u, v, size, {q}, FirstRead)
    <3>1. Extends(size, size)
      BY <2>2 DEF Extends
    <3>2. c + (Len(v) - 1) <= LengthSize + size[M]
      BY <2>9
    <3> QED
      BY <2>2, <2>7, <2>8, <2>10, <3>1, <3>2, BackGrown
  <2>12. acc' \o wire' = u \o v
    <3>1. acc' = acc /\ wire' = wire \o v /\ acc \in Seq(Byte) /\ wire \in Seq(Byte)
      BY <1>3, <2>1, <2>8 DEF WriteData, FramesInv, TypeOK
    <3> QED
      BY <2>7, <3>1, Regrouped, SMTT(30)
  <2>13. FirstRead' = FirstRead /\ size' = size /\ DataOfMessage'
    BY <1>1 DEF FirstRead, WriteData, DataOfMessage
  <2>14. Run(acc', wire', size', Ends', FirstRead')
    BY <2>6, <2>11, <2>12, <2>13 DEF Run
  <2> QED
    BY <2>13, <2>14, StreamAfter
<1> QED
  BY <1>2, <1>3

\* Decode reads some bytes.
LEMMA BytesRead ==
  ASSUME FramesInv, TypeOK', ReadFull, InStep
  PROVE  StreamUnbroken'
<1>1. Run(acc, wire, size, Ends, FirstRead) /\ DataOfMessage
  BY StreamBefore DEF FramesInv, ReadFull
<1>2. PICK n \in 1..Min({Len(wire), Wanted - Len(acc)}) :
        acc' = acc \o SubSeq(wire, 1, n) /\ wire' = SubSeq(wire, n + 1, Len(wire))
  BY DEF ReadFull
<1>3. n \in 1..Len(wire) /\ acc \in Seq(Byte) /\ wire \in Seq(Byte)
  BY <1>2, ReadSome DEF FramesInv, TypeOK
<1>4. acc' \o wire' = acc \o wire
  BY <1>2, <1>3, Moved
<1>5. Ends' \in {Ends, {}}
  BY DEF Ends, NextWritten, ReadFull
<1> QED
  BY <1>1, <1>4, <1>5, StreamSame DEF ReadFull

\* Decode has a length: it is that of the next message.
LEMMA LengthRead ==
  ASSUME FramesInv, TypeOK', DecodeLength, InStep
  PROVE  /\ \E n \in 1..Len(size) : LengthsOf(acc) = {size[n]}
         /\ phase' # "failed" => StreamUnbroken'
<1>1. Run(acc, wire, size, Ends, FirstRead)
  BY StreamBefore DEF FramesInv, DecodeLength
<1>2. /\ acc \in Seq(Byte) /\ wire \in Seq(Byte) /\ size \in Seq(Sizes)
      /\ Len(delivered) \in Nat
  BY DEF FramesInv, TypeOK
<1>3. PICK n \in Nat \ {0} : n = Len(delivered) + 1
  BY <1>2
<1>4. FirstRead = <<n, 1>> /\ Len(acc) = LengthSize
  BY <1>3 DEF FirstRead, DecodeLength
<1>5. /\ n \in 1..Len(size) /\ acc = Header(n)
      /\ Whole(wire, size, Ends, <<n, LengthSize + 1>>)
  BY <1>1, <1>2, <1>4, HeaderRead
<1>6. LengthsOf(acc) = {size[n]}
  <2>1. \A m \in 1..Len(size) : acc = Header(m) <=> m = n
    BY <1>5, HeaderOnce
  <2>2. {m \in 1..Len(size) : acc = Header(m)} = {n}
    BY <1>5, <2>1
  <2>3. {size[m] : m \in {n}} = {size[n]} /\ {n} # {}
    OBVIOUS
  <2> QED
    BY <2>2, <2>3 DEF LengthsOf
<1>7. ASSUME phase' # "failed" PROVE StreamUnbroken'
  <2>1. /\ phase' = "data" /\ acc' = <<>> /\ length' = size[n]
        /\ UNCHANGED <<writeVars, wire, closed, delivered>>
    BY <1>6, <1>7 DEF DecodeLength
  <2>2. FirstRead' = <<n, LengthSize + 1>> /\ Ends' = Ends
    BY <1>3, <2>1 DEF FirstRead, Ends, NextWritten
  <2>3. acc' \o wire' = wire
    BY <1>2, <2>1, EmptyFront
  <2>4. Run(acc', wire', size', Ends', FirstRead')
    BY <1>5, <2>1, <2>2, <2>3 DEF Run
  <2>5. DataOfMessage'
    <3>1. Len(delivered) < Len(size)
      BY <1>2, <1>3, <1>5
    <3> QED
      BY <1>3, <2>1, <3>1 DEF DataOfMessage
  <2> QED
    BY <2>4, <2>5, StreamAfter
<1> QED
  BY <1>5, <1>6, <1>7

\* Decode has the data: they are those of the next message.
LEMMA MessageRead ==
  ASSUME FramesInv, TypeOK', DecodeData, InStep
  PROVE  /\ delivered' = Append(delivered, Len(delivered) + 1) /\ phase' = "length"
         /\ StreamUnbroken'
<1>1. Run(acc, wire, size, Ends, FirstRead) /\ DataOfMessage
  BY StreamBefore DEF FramesInv, DecodeData
<1>2. /\ acc \in Seq(Byte) /\ wire \in Seq(Byte) /\ size \in Seq(Sizes)
      /\ Len(delivered) \in Nat /\ Len(size) \in Nat
  BY DEF FramesInv, TypeOK
<1>3. PICK n \in 1..Len(size) : n = Len(delivered) + 1 /\ length = size[n]
  <2>1. Len(delivered) + 1 \in 1..Len(size) /\ length = size[Len(delivered) + 1]
    BY <1>1, <1>2 DEF DataOfMessage, DecodeData
  <2> QED
    BY <2>1
<1>4. FirstRead = <<n, LengthSize + 1>> /\ Len(acc) = size[n]
  BY <1>3 DEF FirstRead, DecodeData
<1>5. /\ acc = [j \in 1..size[n] |-> <<n, LengthSize + j>>]
      /\ Whole(wire, size, Ends, <<n + 1, 1>>)
  <2>1. Run(acc, wire, size, Ends, <<n, LengthSize + 1>>)
    BY <1>1, <1>4
  <2> QED
    BY <1>2, <1>4, <2>1, DataRead
<1>6. MessagesOf(acc) = {n}
  <2>1. acc = Data(n)
    BY <1>5 DEF Data
  <2>2. \A m \in 1..Len(size) : acc = Data(m) <=> m = n
    BY <2>1, DataOnce DEF FramesInv
  <2>3. {m \in 1..Len(size) : acc = Data(m)} = {n} /\ {n} # {}
    BY <2>2
  <2> QED
    BY <2>3 DEF MessagesOf
<1>7. /\ delivered' = Append(delivered, n) /\ phase' = "length" /\ acc' = <<>>
      /\ UNCHANGED <<writeVars, wire, closed>>
  <2>1. n # 0
    BY <1>2
  <2> QED
    BY <1>6, <2>1 DEF DecodeData
<1>8. Len(delivered') = n /\ n \in Nat
  <2>1. delivered \in Seq(0..MaxMessages)
    BY DEF FramesInv, TypeOK
  <2>2. Len(Append(delivered, n)) = Len(delivered) + 1
    BY <2>1
  <2> QED
    BY <1>2, <1>3, <1>7, <2>2
<1>9. FirstRead' = <<n + 1, 1>> /\ Ends' = Ends /\ DataOfMessage'
  BY <1>7, <1>8 DEF FirstRead, Ends, NextWritten, DataOfMessage
<1>10. acc' \o wire' = wire
  BY <1>2, <1>7, EmptyFront
<1>11. Run(acc', wire', size', Ends', FirstRead')
  BY <1>5, <1>7, <1>9, <1>10 DEF Run
<1> QED
  BY <1>3, <1>7, <1>9, <1>11, StreamAfter

-----------------------------------------------------------------------------
(* The invariant *)

\* What has happened has happened.
LEMMA HistoryStays ==
  ASSUME TypeOK, [Next]_vars
  PROVE  /\ mixed => mixed'
         /\ retries # 0 => retries' # 0
<1>1. retries \in Nat
  BY DEF TypeOK
<1>2. mixed => mixed'
  BY DEF TypeOK, Next, Decode, WriteLength, WriteData, ReadFull, ReadFails, DecodeLength,
         DecodeData, DecodeAgain, CloseStream
<1>3. retries' \in {retries, retries + 1}
  BY DEF Next, Decode, WriteLength, WriteData, ReadFull, ReadFails, DecodeLength,
         DecodeData, DecodeAgain, CloseStream
<1> QED
  BY <1>1, <1>2, <1>3

\* A decoder that is out of step stays so.
LEMMA InStepBefore ==
  ASSUME TypeOK, [Next]_vars, InStep'
  PROVE  InStep /\ ~DecodeAgain
<1>1. InStep
  BY HistoryStays DEF InStep
<1>2. ~DecodeAgain
  <2>1. retries' = 0 /\ retries \in Nat
    BY DEF InStep, TypeOK
  <2> QED
    BY <2>1 DEF DecodeAgain
<1> QED
  BY <1>1, <1>2

\* Every step keeps the stream unbroken.
LEMMA StreamNext ==
  ASSUME FramesInv, TypeOK', [Next]_vars
  PROVE  StreamUnbroken'
<1>1. SUFFICES ASSUME InStep', phase' # "failed" PROVE StreamUnbroken'
  BY DEF StreamUnbroken
<1>2. InStep /\ ~DecodeAgain
  BY <1>1, InStepBefore DEF FramesInv
<1>3. ASSUME NEW w \in Writers, NEW s \in Sizes, WriteLength(w, s) PROVE StreamUnbroken'
  <2>1. phase # "failed"
    BY <1>1, <1>3 DEF WriteLength
  <2> QED
    BY <1>1, <1>3, <2>1, LengthWritten
<1>4. ASSUME NEW w \in Writers, WriteData(w) PROVE StreamUnbroken'
  <2>1. phase # "failed"
    BY <1>1, <1>4 DEF WriteData
  <2> QED
    BY <1>2, <1>4, <2>1, DataWritten
<1>5. ASSUME ReadFull PROVE StreamUnbroken'
  BY <1>2, <1>5, BytesRead
<1>6. ASSUME ReadFails PROVE StreamUnbroken'
  BY <1>1, <1>6 DEF ReadFails
<1>7. ASSUME DecodeLength PROVE StreamUnbroken'
  BY <1>1, <1>2, <1>7, LengthRead
<1>8. ASSUME DecodeData PROVE StreamUnbroken'
  BY <1>2, <1>8, MessageRead
<1>9. ASSUME CloseStream PROVE StreamUnbroken'
  <2>1. phase # "failed" /\ UNCHANGED <<acc, wire, size, phase, length, delivered>>
    BY <1>1, <1>9 DEF CloseStream
  <2>2. Run(acc, wire, size, Ends, FirstRead) /\ DataOfMessage
    BY <1>2, <2>1, StreamBefore DEF FramesInv
  <2>3. Ends' \in {Ends, {}}
    BY <1>9 DEF Ends, CloseStream
  <2> QED
    BY <2>1, <2>2, <2>3, StreamSame
<1>10. ASSUME UNCHANGED vars PROVE StreamUnbroken'
  <2>1. phase # "failed" /\ UNCHANGED <<acc, wire, size, phase, length, delivered>>
    BY <1>1, <1>10
  <2>2. Run(acc, wire, size, Ends, FirstRead) /\ DataOfMessage
    BY <1>2, <2>1, StreamBefore DEF FramesInv
  <2>3. Ends' \in {Ends, {}}
    BY <1>10 DEF Ends, NextWritten
  <2> QED
    BY <2>1, <2>2, <2>3, StreamSame
<1> QED
  BY <1>2, <1>3, <1>4, <1>5, <1>6, <1>7, <1>8, <1>9, <1>10 DEF Next, Decode

\* A second writer between its Writes would mix the frames.
LEMMA PendingNext ==
  ASSUME FramesInv, [Next]_vars
  PROVE  OnePending'
<1>1. SUFFICES ASSUME ~mixed' PROVE OnePending'
  BY DEF OnePending
<1>2. /\ \A v, w \in Writers :
           /\ pending[v] # 0 => pending[v] = Len(size)
           /\ pending[v] # 0 /\ pending[w] # 0 => v = w
      /\ pending \in [Writers -> 0..Len(size)] /\ Len(size) \in Nat
  BY <1>1, HistoryStays DEF FramesInv, OnePending, TypeOK
<1>3. ASSUME NEW w \in Writers, NEW s \in Sizes, WriteLength(w, s) PROVE OnePending'
  <2>1. \A v \in Writers : pending[v] = 0
    BY <1>1, <1>3 DEF WriteLength
  <2>2. \A v \in Writers : pending'[v] # 0 => v = w
    BY <1>2, <1>3, <2>1 DEF WriteLength
  <2>3. pending'[w] = Len(size) + 1 /\ Len(size') = Len(size) + 1
    BY <1>2, <1>3 DEF WriteLength, FramesInv, TypeOK
  <2> QED
    BY <2>2, <2>3 DEF OnePending
<1>4. ASSUME NEW w \in Writers, WriteData(w) PROVE OnePending'
  <2>1. \A v \in Writers : pending'[v] = 0
    BY <1>2, <1>4 DEF WriteData
  <2> QED
    BY <2>1 DEF OnePending
<1>5. ASSUME UNCHANGED <<pending, size>> PROVE OnePending'
  BY <1>2, <1>5 DEF OnePending
<1> QED
  BY <1>3, <1>4, <1>5 DEF Next, Decode, ReadFull, ReadFails, DecodeLength, DecodeData,
                           DecodeAgain, CloseStream

\* What is delivered next is the next message.
LEMMA OrderNext ==
  ASSUME FramesInv, TypeOK', [Next]_vars
  PROVE  DeliveredInOrder'
<1>1. SUFFICES ASSUME InStep' PROVE DeliveredInOrder'
  BY DEF DeliveredInOrder
<1>2. InStep /\ \A i \in 1..Len(delivered) : delivered[i] = i
  BY <1>1, InStepBefore DEF FramesInv, DeliveredInOrder
<1>3. ASSUME DecodeData PROVE DeliveredInOrder'
  <2>1. PICK k \in Nat : k = Len(delivered) /\ delivered' = Append(delivered, k + 1)
    BY <1>2, <1>3, MessageRead DEF FramesInv, TypeOK
  <2>2. delivered \in Seq(0..MaxMessages)
    BY DEF FramesInv, TypeOK
  <2>3. /\ Len(delivered') = k + 1 /\ delivered'[k + 1] = k + 1
        /\ \A i \in 1..k : delivered'[i] = delivered[i]
    BY <2>1, <2>2
  <2>4. \A i \in 1..(k + 1) : i \in 1..k \/ i = k + 1
    BY <2>1
  <2> QED
    BY <1>2, <2>1, <2>3, <2>4 DEF DeliveredInOrder
<1>4. ASSUME UNCHANGED delivered PROVE DeliveredInOrder'
  BY <1>2, <1>4 DEF DeliveredInOrder
<1> QED
  BY <1>3, <1>4 DEF Next, Decode, WriteLength, WriteData, ReadFull, ReadFails, DecodeLength,
                     DecodeAgain, CloseStream

\* The initial state satisfies the invariant.
LEMMA FramesInit ==
  ASSUME Init
  PROVE  FramesInv /\ FailsForCause
<1>1. TypeOK
  <2>1. <<>> \in Seq(Sizes) /\ <<>> \in Seq(Byte) /\ <<>> \in Seq(0..MaxMessages)
    OBVIOUS
  <2>2. /\ size \in Seq(Sizes) /\ Len(size) = 0 /\ wire \in Seq(Byte) /\ acc \in Seq(Byte)
        /\ delivered \in Seq(0..MaxMessages)
    BY <2>1 DEF Init
  <2>3. MaxMessages \in Nat /\ MaxMsgSize \in Nat /\ Registrations \in Nat
    BY FramesAssumption
  <2>4. pending \in [Writers -> 0..Len(size)]
    BY <2>2 DEF Init
  <2>5. Len(size) <= MaxMessages /\ length \in 0..MaxMsgSize /\ retries \in 0..Registrations
    BY <2>2, <2>3 DEF Init
  <2> QED
    BY <2>2, <2>4, <2>5 DEF Init, TypeOK
<1>2. DeliveredInOrder /\ OnePending /\ FailsForCause
  BY DEF Init, DeliveredInOrder, OnePending, FailsForCause
<1>3. StreamUnbroken
  <2>1. acc \o wire = <<>> /\ Len(acc \o wire) = 0
    BY EmptyFront DEF Init
  <2>2. NextWritten = FirstRead
    BY DEF Init, NextWritten, FirstRead
  <2> QED
    BY <2>1, <2>2 DEF Init, StreamUnbroken, Unbroken
<1> QED
  BY <1>1, <1>2, <1>3 DEF FramesInv

\* Every step preserves the invariant.
LEMMA FramesNext ==
  ASSUME FramesInv, [Next]_vars
  PROVE  FramesInv'
<1>1. TypeOK'
  BY TypeNext DEF FramesInv
<1> QED
  BY <1>1, StreamNext, PendingNext, OrderNext DEF FramesInv

\* codec.go: Encode writes a frame with two Writes and Decode reads it with
\* ReadFulls that Read may split anywhere.  For any number of senders, as long
\* as no two are between their Writes at once, and until Decode fails, what is
\* written and not yet decoded are whole frames, and the messages are decoded
\* in order, each once.
THEOREM FramesSafety == Spec => []FramesInv
<1>1. Init => FramesInv
  BY FramesInit
<1>2. FramesInv /\ [Next]_vars => FramesInv'
  BY FramesNext
<1> QED
  BY <1>1, <1>2, PTL DEF Spec

\* Decode fails for one of the three causes.
LEMMA CauseNext ==
  ASSUME FramesInv, FailsForCause, [Next]_vars
  PROVE  FailsForCause'
<1>1. CASE phase = "failed" \/ retries # 0
  <2>1. mixed \/ closed \/ \E m \in 1..Len(size) : size[m] > MaxMsgSize
    BY <1>1 DEF FailsForCause
  <2>2. (mixed => mixed') /\ (closed => closed')
    BY HistoryStays DEF FramesInv, TypeOK, Next, Decode, WriteLength, WriteData, ReadFull, ReadFails,
       DecodeLength, DecodeData, DecodeAgain, CloseStream
  <2>3. ASSUME NEW m \in 1..Len(size), size[m] > MaxMsgSize
        PROVE  m \in 1..Len(size') /\ size'[m] > MaxMsgSize
    <3>1. ASSUME NEW w \in Writers, NEW s \in Sizes, WriteLength(w, s)
          PROVE  m \in 1..Len(size') /\ size'[m] = size[m]
      BY <3>1 DEF WriteLength, FramesInv, TypeOK
    <3>2. ASSUME UNCHANGED size PROVE m \in 1..Len(size') /\ size'[m] = size[m]
      BY <3>2
    <3>3. m \in 1..Len(size') /\ size'[m] = size[m]
      BY <3>1, <3>2 DEF Next, Decode, WriteData, ReadFull, ReadFails, DecodeLength, DecodeData,
                         DecodeAgain, CloseStream
    <3> QED
      BY <2>3, <3>3
  <2> QED
    BY <2>1, <2>2, <2>3 DEF FailsForCause
<1>2. CASE phase # "failed" /\ retries = 0 /\ ~mixed
  <2>0. InStep /\ (retries' # retries => DecodeAgain) /\ ~DecodeAgain
    BY <1>2 DEF InStep, Next, Decode, WriteLength, WriteData, ReadFull, ReadFails, DecodeLength,
                DecodeData, DecodeAgain, CloseStream
  <2>1. ASSUME ReadFails PROVE FailsForCause'
    BY <2>1 DEF ReadFails, FailsForCause
  <2>2. ASSUME DecodeLength, phase' = "failed" PROVE FailsForCause'
    <3>1. TypeOK'
      BY TypeNext DEF FramesInv
    <3>2. PICK n \in 1..Len(size) : LengthsOf(acc) = {size[n]}
      BY <2>0, <2>2, <3>1, LengthRead
    <3>3. size[n] > MaxMsgSize /\ size' = size
      BY <2>2, <3>2 DEF DecodeLength
    <3> QED
      BY <3>3 DEF FailsForCause
  <2>3. ASSUME DecodeData PROVE FailsForCause'
    <3>1. TypeOK'
      BY TypeNext DEF FramesInv
    <3> QED
      BY <1>2, <2>0, <2>3, <3>1, MessageRead DEF FailsForCause
  <2>4. ASSUME phase' = phase PROVE FailsForCause'
    BY <1>2, <2>0, <2>4 DEF FailsForCause
  <2>5. ASSUME phase' # "failed" PROVE FailsForCause'
    BY <1>2, <2>0, <2>5 DEF FailsForCause
  <2> QED
    BY <2>0, <2>1, <2>2, <2>3, <2>4, <2>5 DEF Next, Decode, WriteLength, WriteData, ReadFull, CloseStream
<1>3. CASE mixed
  BY <1>3, HistoryStays DEF FramesInv, FailsForCause
<1> QED
  BY <1>1, <1>2, <1>3

\* codec.go, Decode: it fails on a stream that is not closed only for a message
\* over MaxMsgSize, or after two senders have mixed their frames; whatever
\* Read returns, it never takes bytes of one field for those of another.
THEOREM FailsOnlyForCause == Spec => []FailsForCause
<1>1. Init => FailsForCause
  BY FramesInit
<1>2. FramesInv /\ FailsForCause /\ [Next]_vars => FailsForCause'
  BY CauseNext
<1> QED
  BY <1>1, <1>2, FramesSafety, PTL DEF Spec
=============================================================================
