---------------------------- MODULE RelayProofs -----------------------------
(***************************************************************************)
(* Proofs about a relayed user connection, for any amount of data, any     *)
(* sizes of pipes and buffers, and any failures: what arrives is a prefix  *)
(* of what was sent, and a one-way transfer is complete.                   *)
(***************************************************************************)
EXTENDS Relay, TLAPS

USE DEF linkVars, copyVars, endVars, vars

-----------------------------------------------------------------------------
(* Sequences of consecutive chunks *)

\* The smaller of two numbers, as CopyRead and CopyWrite use it.
LEMMA MinPair ==
  ASSUME NEW a \in Int, NEW b \in Int
  PROVE  Min({a, b}) = IF a <= b THEN a ELSE b
<1>1. \E x \in {a, b} : \A y \in {a, b} : x =< y
  OBVIOUS
<1>2. Min({a, b}) \in {a, b} /\ \A y \in {a, b} : Min({a, b}) =< y
  BY <1>1 DEF Min
<1> QED
  BY <1>2

\* The first n chunks of s.
LEMMA Front ==
  ASSUME NEW s \in Seq(Chunk), NEW n \in 1..Len(s)
  PROVE  /\ SubSeq(s, 1, n) \in Seq(Chunk) /\ Len(SubSeq(s, 1, n)) = n
         /\ \A b \in Nat : Consecutive(s, b) => Consecutive(SubSeq(s, 1, n), b)
         /\ \A b \in Nat : Within(s, b) => Within(SubSeq(s, 1, n), b)
<1>1. /\ SubSeq(s, 1, n) \in Seq(Chunk) /\ Len(SubSeq(s, 1, n)) = n
      /\ \A j \in 1..n : SubSeq(s, 1, n)[j] = s[j]
  OBVIOUS
<1> QED
  BY <1>1 DEF Consecutive, Within

\* The rest of s after its first n chunks.
LEMMA Rest ==
  ASSUME NEW s \in Seq(Chunk), NEW n \in 1..Len(s)
  PROVE  /\ SubSeq(s, n + 1, Len(s)) \in Seq(Chunk)
         /\ Len(SubSeq(s, n + 1, Len(s))) = Len(s) - n
         /\ \A b \in Nat : Consecutive(s, b) => Consecutive(SubSeq(s, n + 1, Len(s)), b + n)
         /\ \A b \in Nat : Within(s, b) => Within(SubSeq(s, n + 1, Len(s)), b)
<1>1. /\ SubSeq(s, n + 1, Len(s)) \in Seq(Chunk)
      /\ Len(SubSeq(s, n + 1, Len(s))) = Len(s) - n
      /\ \A j \in 1..(Len(s) - n) : SubSeq(s, n + 1, Len(s))[j] = s[j + n]
  OBVIOUS
<1>2. \A j \in 1..(Len(s) - n) : j + n \in 1..Len(s)
  OBVIOUS
<1>3. ASSUME NEW b \in Nat, Consecutive(s, b)
      PROVE  Consecutive(SubSeq(s, n + 1, Len(s)), b + n)
  BY <1>1, <1>2, <1>3 DEF Consecutive
<1>4. ASSUME NEW b \in Nat, Within(s, b)
      PROVE  Within(SubSeq(s, n + 1, Len(s)), b)
  BY <1>1, <1>2, <1>4 DEF Within
<1> QED
  BY <1>1, <1>3, <1>4

\* t is appended to s.
LEMMA Joined ==
  ASSUME NEW s \in Seq(Chunk), NEW t \in Seq(Chunk)
  PROVE  /\ s \o t \in Seq(Chunk) /\ Len(s \o t) = Len(s) + Len(t)
         /\ \A b \in Nat : Consecutive(s, b) /\ Consecutive(t, b + Len(s))
                             => Consecutive(s \o t, b)
         /\ \A b \in Nat : Within(s, b) /\ Within(t, b) => Within(s \o t, b)
<1>1. /\ s \o t \in Seq(Chunk) /\ Len(s \o t) = Len(s) + Len(t)
      /\ \A j \in 1..Len(s) : (s \o t)[j] = s[j]
      /\ \A j \in (Len(s) + 1)..(Len(s) + Len(t)) : (s \o t)[j] = t[j - Len(s)]
  OBVIOUS
<1>2. \A j \in 1..(Len(s) + Len(t)) :
        \/ j \in 1..Len(s)
        \/ j \in (Len(s) + 1)..(Len(s) + Len(t)) /\ j - Len(s) \in 1..Len(t)
  OBVIOUS
<1>3. ASSUME NEW b \in Nat, Consecutive(s, b), Consecutive(t, b + Len(s))
      PROVE  Consecutive(s \o t, b)
  BY <1>1, <1>2, <1>3 DEF Consecutive
<1>4. ASSUME NEW b \in Nat, Within(s, b), Within(t, b)
      PROVE  Within(s \o t, b)
  BY <1>1, <1>2, <1>4 DEF Within
<1> QED
  BY <1>1, <1>3, <1>4

\* One chunk is appended.
LEMMA Grown ==
  ASSUME NEW s \in Seq(Chunk), NEW c \in Chunk
  PROVE  /\ Append(s, c) \in Seq(Chunk) /\ Len(Append(s, c)) = Len(s) + 1
         /\ \A b \in Nat : Consecutive(s, b) /\ c = b + Len(s) + 1
                             => Consecutive(Append(s, c), b)
         /\ \A b \in Nat : Within(s, b) /\ c <= b => Within(Append(s, c), b)
<1>1. /\ Append(s, c) \in Seq(Chunk) /\ Len(Append(s, c)) = Len(s) + 1
      /\ \A j \in 1..Len(s) : Append(s, c)[j] = s[j]
      /\ Append(s, c)[Len(s) + 1] = c
  OBVIOUS
<1>2. \A j \in 1..(Len(s) + 1) : j \in 1..Len(s) \/ j = Len(s) + 1
  OBVIOUS
<1> QED
  BY <1>1, <1>2, SMTT(30) DEF Consecutive, Within, Chunk

\* The first chunk is taken.
LEMMA Shrunk ==
  ASSUME NEW s \in Seq(Chunk), s # <<>>
  PROVE  /\ Head(s) \in Chunk /\ Tail(s) \in Seq(Chunk)
         /\ Len(s) >= 1 /\ Len(Tail(s)) = Len(s) - 1
         /\ \A b \in Nat : Consecutive(s, b) => /\ Head(s) = b + 1
                                                /\ Consecutive(Tail(s), b + 1)
         /\ \A b \in Nat : Within(s, b) => Head(s) <= b /\ Within(Tail(s), b)
<1>1. /\ Head(s) \in Chunk /\ Tail(s) \in Seq(Chunk) /\ Head(s) = s[1]
      /\ Len(s) >= 1 /\ Len(Tail(s)) = Len(s) - 1
      /\ \A j \in 1..(Len(s) - 1) : Tail(s)[j] = s[j + 1]
  OBVIOUS
<1>2. \A j \in 1..(Len(s) - 1) : j + 1 \in 1..Len(s)
  BY <1>1
<1>3. 1 \in 1..Len(s)
  BY <1>1
<1>4. ASSUME NEW b \in Nat, Consecutive(s, b)
      PROVE  Head(s) = b + 1 /\ Consecutive(Tail(s), b + 1)
  BY <1>1, <1>2, <1>3, <1>4 DEF Consecutive
<1>5. ASSUME NEW b \in Nat, Within(s, b)
      PROVE  Head(s) <= b /\ Within(Tail(s), b)
  BY <1>1, <1>2, <1>3, <1>5 DEF Within
<1> QED
  BY <1>1, <1>4, <1>5

\* Nothing is in order everywhere; a sequence of none of the chunks is empty.
LEMMA Emptied ==
  /\ <<>> \in Seq(Chunk) /\ Len(<<>>) = 0
  /\ \A b \in Nat : Consecutive(<<>>, b) /\ Within(<<>>, b)
  /\ \A s \in Seq(Chunk) : Within(s, 0) => s = <<>>
  /\ \A s \in Seq(Chunk) : Len(s) \in Nat /\ (Len(s) = 0 <=> s = <<>>)
<1>1. /\ <<>> \in Seq(Chunk) /\ Len(<<>>) = 0
      /\ \A s \in Seq(Chunk) : Len(s) \in Nat /\ (Len(s) = 0 <=> s = <<>>)
  OBVIOUS
<1>2. ASSUME NEW s \in Seq(Chunk), Within(s, 0) PROVE s = <<>>
  <2>1. Len(s) \in Nat /\ \A j \in 1..Len(s) : s[j] \in Chunk
    OBVIOUS
  <2>2. ~(1 \in 1..Len(s))
    BY <1>2, <2>1 DEF Within, Chunk
  <2> QED
    BY <1>1, <2>1, <2>2
<1> QED
  BY <1>1, <1>2 DEF Consecutive, Within

-----------------------------------------------------------------------------
(* The chain seen along a direction *)

PartOK(d) ==
  InOrder(d) /\ Bounded(d) /\ ClosedByCopy(d) /\ EndsInOrder(d) /\ Lossless(d)

\* Links, ends and goroutines have one name along each direction.
LEMMA RevNames ==
  ASSUME NEW d \in Dirs
  PROVE  /\ Rev(d) \in Dirs /\ Rev(d) # d /\ Rev(Rev(d)) = d
         /\ \A e \in Dirs : e # d => e = Rev(d)
BY DEF Rev, Dirs

\* The numbers of links and copyBuffers.
LEMMA HopNumbers ==
  /\ 1 \in Hops /\ 2 \in Hops /\ 1 \in Stages /\ 2 \in Stages /\ 3 \in Stages
  /\ \A i \in Hops : i \in Stages /\ i + 1 \in Stages /\ 3 - i \in Hops /\ 3 - i \in Stages
                     /\ 3 - (3 - i) = i /\ 3 - i # i
BY DEF Hops, Stages

\* A pipe is one stage of one direction.
LEMMA StageNames ==
  ASSUME NEW d \in Dirs, NEW i \in Stages
  PROVE  /\ Stage(d, i) \in Links \X Dirs
         /\ \A e \in Dirs, j \in Stages : Stage(e, j) = Stage(d, i) => e = d /\ j = i
BY DEF Stage, Dirs, Links, Stages

\* A copyBuffer is one hop of one direction.
LEMMA HopNames ==
  ASSUME NEW d \in Dirs, NEW i \in Hops
  PROVE  /\ Copier(d, i) \in Copies
         /\ \A e \in Dirs, j \in Hops : Copier(e, j) = Copier(d, i) => e = d /\ j = i
BY DEF Copier, Party, Dirs, Copies, Hops

\* An end of a link is written by one direction at one stage.
LEMMA EndNames ==
  ASSUME NEW d \in Dirs, NEW i \in Stages
  PROVE  \A e \in Dirs, j \in Stages : WriterEnd(e, j) = WriterEnd(d, i) => e = d /\ j = i
BY DEF WriterEnd, Party, Stage, Dirs, Stages

\* The two directions use the same links.
LEMMA Opposites ==
  ASSUME NEW d \in Dirs
  PROVE  /\ ReaderEnd(d, 1) = WriterEnd(Rev(d), 3)
         /\ ReaderEnd(d, 2) = WriterEnd(Rev(d), 2)
         /\ ReaderEnd(d, 3) = WriterEnd(Rev(d), 1)
         /\ ReaderEnd(Rev(d), 1) = WriterEnd(d, 3)
         /\ ReaderEnd(Rev(d), 2) = WriterEnd(d, 2)
         /\ ReaderEnd(Rev(d), 3) = WriterEnd(d, 1)
         /\ Stage(d, 1)[1] = Stage(Rev(d), 3)[1]
         /\ Stage(d, 2)[1] = Stage(Rev(d), 2)[1]
         /\ Stage(d, 3)[1] = Stage(Rev(d), 1)[1]
         /\ Party(d, 3) = Party(Rev(d), 0) /\ Party(d, 0) = Party(Rev(d), 3)
         /\ Party(d, 3) \in Ends /\ Party(d, 0) \in Ends /\ Party(d, 0) # Party(d, 3)
         /\ Peer(Party(d, 3)) = Party(d, 0)
BY DEF Rev, Stage, ReaderEnd, WriterEnd, Party, Dirs, Ends, User, Local, Peer

\* What goroutine g is along its direction.
IsCopier(g, d, i) ==
  /\ g = Copier(d, i) /\ g[1] = Party(d, i) /\ g[2] = d
  /\ SrcPipe(g) = Stage(d, i) /\ DstPipe(g) = Stage(d, i + 1)
  /\ Src(g) = Stage(d, i)[1] /\ Dst(g) = Stage(d, i + 1)[1]
  /\ <<g[1], Src(g)>> = ReaderEnd(d, i) /\ <<g[1], Dst(g)>> = WriterEnd(d, i + 1)
  /\ <<Opposite(g[1], Dst(g)), Dst(g)>> = ReaderEnd(d, i + 1)
  /\ <<Dst(g), OutDir(g[1], Dst(g))>> = Stage(d, i + 1)
  /\ <<Dst(g), InDir(g[1], Dst(g))>> = Stage(Rev(d), 3 - i)

\* Every copyBuffer is a hop of a direction.
LEMMA CopierNames ==
  ASSUME NEW g \in Copies
  PROVE  \E d \in Dirs, i \in Hops : IsCopier(g, d, i)
<1>1. PICK k \in Hops, d \in Dirs : g = <<k, d>>
  BY DEF Copies, Hops
<1>2. CASE d = "down"
  <2>1. IsCopier(g, d, k)
    BY <1>1, <1>2 DEF IsCopier, Copier, Party, Stage, SrcPipe, DstPipe, Src, Dst, ReaderEnd, WriterEnd, Opposite,
       OutDir, InDir, Rev, Hops
  <2> QED
    BY <2>1
<1>3. CASE d = "up"
  <2>1. 3 - k \in Hops /\ IsCopier(g, d, 3 - k)
    BY <1>1, <1>3 DEF IsCopier, Copier, Party, Stage, SrcPipe, DstPipe, Src, Dst, ReaderEnd, WriterEnd, Opposite,
       OutDir, InDir, Rev, Hops
  <2> QED
    BY <2>1
<1> QED
  BY <1>2, <1>3 DEF Dirs

\* What endpoint k is along the direction in which it sends.
IsSender(k, d) ==
  /\ k = Party(d, 0) /\ k = Party(Rev(d), 3)
  /\ OutPipe(k) = Stage(d, 1) /\ InPipe(k) = Stage(Rev(d), 3)
  /\ LinkOf(k) = Stage(d, 1)[1]
  /\ <<LinkOf(k), OutDir(k, LinkOf(k))>> = Stage(d, 1)
  /\ <<LinkOf(k), InDir(k, LinkOf(k))>> = Stage(Rev(d), 3)
  /\ <<k, LinkOf(k)>> = WriterEnd(d, 1)
  /\ <<Opposite(k, LinkOf(k)), LinkOf(k)>> = ReaderEnd(d, 1)

\* Every endpoint is the sender of a direction.
LEMMA SenderNames ==
  ASSUME NEW k \in Ends
  PROVE  \E d \in Dirs : IsSender(k, d)
<1>1. k = User => IsSender(k, "down")
  BY DEF IsSender, Party, Stage, OutPipe, InPipe, LinkOf, OutDir, InDir, WriterEnd, ReaderEnd,
     Opposite, User, Rev
<1>2. k = Local => IsSender(k, "up")
  BY DEF IsSender, Party, Stage, OutPipe, InPipe, LinkOf, OutDir, InDir, WriterEnd, ReaderEnd,
     Opposite, User, Local, Rev
<1> QED
  BY <1>1, <1>2 DEF Ends, Dirs

\* The types of what is seen.
LEMMA ViewTypes ==
  ASSUME TypeOK, NEW d \in Dirs
  PROVE  /\ \A i \in Stages : Pipe(d, i) \in Seq(Chunk) /\ Len(Pipe(d, i)) <= Cap
         /\ \A i \in Hops : Held(d, i) \in Seq(Chunk) /\ Len(Held(d, i)) <= BufSize
         /\ Received(d) \in Seq(Chunk) /\ Produced(d) \in Nat
BY StageNames, HopNames, Opposites DEF TypeOK, Pipe, Held, Received, Produced

\* The amounts of data under way are numbers.
LEMMA ViewNumbers ==
  ASSUME TypeOK, NEW d \in Dirs
  PROVE  /\ Len(Pipe(d, 1)) \in Nat /\ Len(Pipe(d, 2)) \in Nat /\ Len(Pipe(d, 3)) \in Nat
         /\ Len(Held(d, 1)) \in Nat /\ Len(Held(d, 2)) \in Nat
         /\ Len(Received(d)) \in Nat /\ Produced(d) \in Nat
         /\ Passed3(d) \in Nat /\ Passed2(d) \in Nat /\ Passed1(d) \in Nat
<1>1. /\ Len(Pipe(d, 1)) \in Nat /\ Len(Pipe(d, 2)) \in Nat /\ Len(Pipe(d, 3)) \in Nat
      /\ Len(Held(d, 1)) \in Nat /\ Len(Held(d, 2)) \in Nat
      /\ Len(Received(d)) \in Nat /\ Produced(d) \in Nat
  BY ViewTypes, HopNumbers
<1> QED
  BY <1>1 DEF Passed3, Passed2, Passed1

\* The pipe of a stage gets new contents, and what that means for all pipes.
SetPipe(d, i, t) == pipe' = [pipe EXCEPT ![Stage(d, i)] = t]
OnlyPipe(d, i, t) ==
  /\ pipe' \in [Links \X Dirs -> Seq(Chunk)]
  /\ \A p \in Links \X Dirs : Len(pipe'[p]) <= Cap
  /\ Pipe(d, i)' = t
  /\ \A e \in Dirs, j \in Stages : e # d \/ j # i => Pipe(e, j)' = Pipe(e, j)

\* One pipe changes.
LEMMA PipeUpdate ==
  ASSUME TypeOK, NEW d \in Dirs, NEW i \in Stages, NEW t \in Seq(Chunk), Len(t) <= Cap,
         SetPipe(d, i, t)
  PROVE  OnlyPipe(d, i, t)
<1>1. Stage(d, i) \in Links \X Dirs
  BY StageNames
<1>2. ASSUME NEW e \in Dirs, NEW j \in Stages, e # d \/ j # i
      PROVE  Stage(e, j) \in Links \X Dirs /\ Stage(e, j) # Stage(d, i)
  BY <1>2, StageNames
<1>3. \A p \in Links \X Dirs : pipe'[p] = IF p = Stage(d, i) THEN t ELSE pipe[p]
  BY <1>1 DEF TypeOK, SetPipe
<1>4. pipe' \in [Links \X Dirs -> Seq(Chunk)]
  BY <1>1 DEF TypeOK, SetPipe
<1>5. \A p \in Links \X Dirs : Len(pipe'[p]) <= Cap
  BY <1>3 DEF TypeOK
<1> QED
  BY <1>1, <1>2, <1>3, <1>4, <1>5 DEF Pipe, OnlyPipe

\* The same for the buffer of a copyBuffer.
SetHeld(d, i, t) == buf' = [buf EXCEPT ![Copier(d, i)] = t]
OnlyHeld(d, i, t) ==
  /\ buf' \in [Copies -> Seq(Chunk)]
  /\ \A p \in Copies : Len(buf'[p]) <= BufSize
  /\ Held(d, i)' = t
  /\ \A e \in Dirs, j \in Hops : e # d \/ j # i => Held(e, j)' = Held(e, j)

\* One buffer changes.
LEMMA HeldUpdate ==
  ASSUME TypeOK, NEW d \in Dirs, NEW i \in Hops, NEW t \in Seq(Chunk), Len(t) <= BufSize,
         SetHeld(d, i, t)
  PROVE  OnlyHeld(d, i, t)
<1>1. Copier(d, i) \in Copies
  BY HopNames
<1>2. ASSUME NEW e \in Dirs, NEW j \in Hops, e # d \/ j # i
      PROVE  Copier(e, j) \in Copies /\ Copier(e, j) # Copier(d, i)
  BY <1>2, HopNames
<1>3. \A p \in Copies : buf'[p] = IF p = Copier(d, i) THEN t ELSE buf[p]
  BY <1>1 DEF TypeOK, SetHeld
<1>4. buf' \in [Copies -> Seq(Chunk)]
  BY <1>1 DEF TypeOK, SetHeld
<1>5. \A p \in Copies : Len(buf'[p]) <= BufSize
  BY <1>3 DEF TypeOK
<1> QED
  BY <1>1, <1>2, <1>3, <1>4, <1>5 DEF Held, OnlyHeld

\* The same for the place where a copyBuffer is.
Labels == {"read", "write", "return", "done"}
SetCopy(d, i, l) == copy' = [copy EXCEPT ![Copier(d, i)] = l]
OnlyCopy(d, i, l) ==
  /\ copy' \in [Copies -> Labels]
  /\ copy'[Copier(d, i)] = l
  /\ \A e \in Dirs, j \in Hops :
       e # d \/ j # i => copy'[Copier(e, j)] = copy[Copier(e, j)]

\* A step of one copyBuffer leaves the others where they are.
LEMMA CopyUpdate ==
  ASSUME TypeOK, NEW d \in Dirs, NEW i \in Hops, NEW l \in Labels, SetCopy(d, i, l)
  PROVE  OnlyCopy(d, i, l)
<1>1. Copier(d, i) \in Copies
  BY HopNames
<1>2. ASSUME NEW e \in Dirs, NEW j \in Hops, e # d \/ j # i
      PROVE  Copier(e, j) \in Copies /\ Copier(e, j) # Copier(d, i)
  BY <1>2, HopNames
<1> QED
  BY <1>1, <1>2 DEF TypeOK, Labels, SetCopy, OnlyCopy

\* One error is remembered.
LEMMA ErrUpdate ==
  ASSUME TypeOK, NEW d \in Dirs, NEW i \in Hops, NEW r \in BOOLEAN,
         readErr' = [readErr EXCEPT ![Copier(d, i)] = r]
  PROVE  /\ readErr' \in [Copies -> BOOLEAN]
         /\ readErr'[Copier(d, i)] = r
         /\ \A e \in Dirs, j \in Hops :
              e # d \/ j # i => readErr'[Copier(e, j)] = readErr[Copier(e, j)]
<1>1. Copier(d, i) \in Copies
  BY HopNames
<1>2. ASSUME NEW e \in Dirs, NEW j \in Hops, e # d \/ j # i
      PROVE  Copier(e, j) \in Copies /\ Copier(e, j) # Copier(d, i)
  BY <1>2, HopNames
<1> QED
  BY <1>1, <1>2 DEF TypeOK

\* What an action leaves alone when it closes nothing.
LEMMA Frame ==
  ASSUME UNCHANGED <<closed, broken, fin, sent>>, NEW d \in Dirs
  PROVE  /\ \A i \in Stages : Open(d, i)' <=> Open(d, i)
         /\ Quiet(d)' <=> Quiet(d)
         /\ Produced(d)' = Produced(d)
BY DEF Open, Quiet, Produced

\* A step of the other direction that closes nothing.
LEMMA OtherDirection ==
  ASSUME RelayInv, NEW e \in Dirs,
         UNCHANGED <<closed, broken, fin, eof>>,
         Produced(e)' = Produced(e), Received(e)' = Received(e), Quiet(e)' => Quiet(e),
         \A j \in Stages : Pipe(e, j)' = Pipe(e, j),
         \A j \in Hops : /\ Held(e, j)' = Held(e, j)
                         /\ copy'[Copier(e, j)] = copy[Copier(e, j)]
                         /\ readErr'[Copier(e, j)] = readErr[Copier(e, j)],
         Quiet(e) => \A j \in Hops : copy'[Copier(Rev(e), 3 - j)] \in {"return", "done"}
                                       => copy[Copier(e, j)] = "done"
  PROVE  PartOK(e)'
<1>1. PartOK(e) /\ \A j \in Hops : j \in Stages
  BY HopNumbers DEF RelayInv, PartOK
<1>2. \A j \in Stages : Open(e, j)' <=> Open(e, j)
  BY DEF Open
<1>3. /\ Pipe(e, 1)' = Pipe(e, 1) /\ Pipe(e, 2)' = Pipe(e, 2) /\ Pipe(e, 3)' = Pipe(e, 3)
      /\ Held(e, 1)' = Held(e, 1) /\ Held(e, 2)' = Held(e, 2)
      /\ Open(e, 1)' = Open(e, 1) /\ Open(e, 2)' = Open(e, 2) /\ Open(e, 3)' = Open(e, 3)
  BY <1>2, HopNumbers DEF Open
<1>4. Passed3(e)' = Passed3(e) /\ Passed2(e)' = Passed2(e) /\ Passed1(e)' = Passed1(e)
  BY <1>3 DEF Passed3, Passed2, Passed1
<1>5. InOrder(e)'
  BY <1>1, <1>3, <1>4 DEF PartOK, InOrder
<1>6. Lossless(e)'
  BY <1>1, <1>3, <1>4 DEF PartOK, Lossless
<1>7. Bounded(e)'
  BY <1>1 DEF PartOK, Bounded
<1>8. ClosedByCopy(e)'
  BY <1>1 DEF PartOK, ClosedByCopy
<1>9. EndsInOrder(e)'
  BY <1>1, <1>3 DEF PartOK, EndsInOrder
<1> QED
  BY <1>5, <1>6, <1>7, <1>8, <1>9 DEF PartOK

\* The order of the ends is kept when pipes stay empty and goroutines only
\* end in that order.
LEMMA EndsKept ==
  ASSUME NEW d \in Dirs, EndsInOrder(d), Quiet(d)' => Quiet(d),
         UNCHANGED readErr, eof' = eof,
         \A j \in Stages : /\ fin[Stage(d, j)] => fin'[Stage(d, j)]
                           /\ Pipe(d, j) = <<>> /\ fin[Stage(d, j)] => Pipe(d, j)' = <<>>,
         \A j \in Hops :
           /\ copy[Copier(d, j)] = "done" => copy'[Copier(d, j)] = "done"
           /\ copy'[Copier(d, j)] \in {"return", "done"}
                => copy[Copier(d, j)] \in {"return", "done"}
           /\ copy'[Copier(Rev(d), 3 - j)] \in {"return", "done"}
                => copy[Copier(Rev(d), 3 - j)] \in {"return", "done"}
  PROVE  EndsInOrder(d)'
<1>1. SUFFICES ASSUME Quiet(d), Quiet(d)' PROVE EndsInOrder(d)'
  BY DEF EndsInOrder
<1>2. /\ \A j \in Hops :
           /\ copy[Copier(d, j)] \in {"return", "done"} \/ readErr[Copier(d, j)]
                => Pipe(d, j) = <<>> /\ fin[Stage(d, j)]
           /\ copy[Copier(Rev(d), 3 - j)] \in {"return", "done"} => copy[Copier(d, j)] = "done"
      /\ Party(d, 3) \in eof => Pipe(d, 3) = <<>> /\ fin[Stage(d, 3)]
  BY <1>1 DEF EndsInOrder
<1>3. ASSUME NEW j \in Hops
      PROVE  /\ copy'[Copier(d, j)] \in {"return", "done"} \/ readErr'[Copier(d, j)]
                  => Pipe(d, j)' = <<>> /\ fin'[Stage(d, j)]
             /\ copy'[Copier(Rev(d), 3 - j)] \in {"return", "done"}
                  => copy'[Copier(d, j)] = "done"
  <2>1. j \in Stages
    BY HopNumbers
  <2>2. readErr'[Copier(d, j)] = readErr[Copier(d, j)]
    OBVIOUS
  <2>3. copy'[Copier(d, j)] \in {"return", "done"} \/ readErr'[Copier(d, j)]
          => Pipe(d, j)' = <<>> /\ fin'[Stage(d, j)]
    BY <1>2, <2>1, <2>2
  <2> QED
    BY <1>2, <2>3
<1>4. Party(d, 3) \in eof' => Pipe(d, 3)' = <<>> /\ fin'[Stage(d, 3)]
  <2>1. 3 \in Stages
    BY HopNumbers
  <2> QED
    BY <1>2, <2>1
<1> QED
  BY <1>3, <1>4 DEF EndsInOrder

-----------------------------------------------------------------------------
(* copyBuffer *)

\* src.Read moves chunks from a pipe into the empty buffer.
LEMMA CopyReadStep ==
  ASSUME RelayInv, NEW g \in Copies, CopyRead(g)
  PROVE  RelayInv'
<1>1. PICK d \in Dirs, i \in Hops : IsCopier(g, d, i)
  BY CopierNames
<1>2. TypeOK /\ PartOK(d) /\ i \in Stages /\ Rev(d) \in Dirs /\ Rev(d) # d
  BY RevNames, HopNumbers DEF RelayInv, PartOK
<1>3. PICK s \in Seq(Chunk) : s = Pipe(d, i) /\ Len(s) <= Cap
  BY <1>2, ViewTypes
<1>4. PICK n \in 1..Len(s), r \in BOOLEAN :
        /\ n <= BufSize
        /\ buf' = [buf EXCEPT ![Copier(d, i)] = SubSeq(s, 1, n)]
        /\ pipe' = [pipe EXCEPT ![Stage(d, i)] = SubSeq(s, n + 1, Len(s))]
        /\ readErr' = [readErr EXCEPT ![Copier(d, i)] = r]
        /\ r => fin[Stage(d, i)] /\ n = Len(s)
  <2>0. SrcPipe(g) = Stage(d, i) /\ pipe[Stage(d, i)] = s
    BY <1>1, <1>3 DEF IsCopier, Pipe
  <2>1. PICK n \in 1..Min({BufSize, Len(s)}) :
          /\ buf' = [buf EXCEPT ![g] = SubSeq(s, 1, n)]
          /\ pipe' = [pipe EXCEPT ![Stage(d, i)] = SubSeq(s, n + 1, Len(s))]
          /\ \E r \in BOOLEAN :
               /\ r => fin[Stage(d, i)] /\ n = Len(s)
               /\ readErr' = [readErr EXCEPT ![g] = r]
    BY <2>0 DEF CopyRead
  <2>2. BufSize \in Int /\ Len(s) \in Int
    BY RelayAssumption
  <2>3. n \in 1..Len(s) /\ n <= BufSize
    BY <2>2, MinPair
  <2> QED
    BY <1>1, <2>1, <2>3 DEF IsCopier
<1>5. /\ copy[Copier(d, i)] = "read" /\ copy' = [copy EXCEPT ![Copier(d, i)] = "write"]
      /\ UNCHANGED <<fin, closed, broken, endVars>>
  BY <1>1 DEF CopyRead, IsCopier
<1>6. PICK f \in Seq(Chunk) :
        /\ f = SubSeq(s, 1, n) /\ Len(f) = n
        /\ \A b \in Nat : Consecutive(s, b) => Consecutive(f, b)
        /\ \A b \in Nat : Within(s, b) => Within(f, b)
  BY Front
<1>7. PICK h \in Seq(Chunk) :
        /\ h = SubSeq(s, n + 1, Len(s)) /\ Len(h) = Len(s) - n
        /\ \A b \in Nat : Consecutive(s, b) => Consecutive(h, b + n)
        /\ \A b \in Nat : Within(s, b) => Within(h, b)
  BY Rest
<1>8. /\ Len(f) <= BufSize /\ Len(h) <= Cap /\ f # <<>>
      /\ n \in Nat /\ n <= Len(s) /\ Len(s) \in Nat
  <2>1. n \in Nat /\ 1 <= n /\ n <= Len(s) /\ Len(s) \in Nat
    OBVIOUS
  <2>2. Len(h) <= Cap
    BY <1>3, <1>7, <2>1, RelayAssumption
  <2>3. Len(f) <= BufSize
    BY <1>4, <1>6
  <2>4. f # <<>>
    BY <1>6, <2>1
  <2> QED
    BY <2>1, <2>2, <2>3, <2>4
<1>9. /\ pipe' \in [Links \X Dirs -> Seq(Chunk)]
      /\ \A p \in Links \X Dirs : Len(pipe'[p]) <= Cap
      /\ Pipe(d, i)' = h
      /\ \A e \in Dirs, j \in Stages : e # d \/ j # i => Pipe(e, j)' = Pipe(e, j)
  <2>1. TypeOK /\ i \in Stages /\ SetPipe(d, i, h) /\ Len(h) <= Cap
    BY <1>2, <1>4, <1>7, <1>8 DEF SetPipe
  <2>2. OnlyPipe(d, i, h)
    BY <2>1, PipeUpdate
  <2> QED
    BY <2>2 DEF OnlyPipe
<1>10. /\ buf' \in [Copies -> Seq(Chunk)]
       /\ \A p \in Copies : Len(buf'[p]) <= BufSize
       /\ Held(d, i)' = f
       /\ \A e \in Dirs, j \in Hops : e # d \/ j # i => Held(e, j)' = Held(e, j)
  <2>1. TypeOK /\ SetHeld(d, i, f) /\ Len(f) <= BufSize
    BY <1>2, <1>4, <1>6, <1>8 DEF SetHeld
  <2>2. OnlyHeld(d, i, f)
    BY <2>1, HeldUpdate
  <2> QED
    BY <2>2 DEF OnlyHeld
<1>11. /\ copy' \in [Copies -> Labels] /\ copy'[Copier(d, i)] = "write"
       /\ \A e \in Dirs, j \in Hops :
            e # d \/ j # i => copy'[Copier(e, j)] = copy[Copier(e, j)]
  <2>1. PICK l \in Labels : l = "write"
    BY DEF Labels
  <2>2. TypeOK /\ SetCopy(d, i, l)
    BY <1>2, <1>5, <2>1 DEF SetCopy
  <2>3. OnlyCopy(d, i, l)
    BY <2>2, CopyUpdate
  <2> QED
    BY <2>1, <2>3 DEF OnlyCopy
<1>12. /\ readErr' \in [Copies -> BOOLEAN] /\ readErr'[Copier(d, i)] = r
       /\ \A e \in Dirs, j \in Hops :
            e # d \/ j # i => readErr'[Copier(e, j)] = readErr[Copier(e, j)]
  <2>1. TypeOK /\ readErr' = [readErr EXCEPT ![Copier(d, i)] = r]
    BY <1>2, <1>4
  <2> QED
    BY <2>1, ErrUpdate
<1>13. TypeOK'
  BY <1>2, <1>5, <1>9, <1>10, <1>11, <1>12 DEF TypeOK, Labels
<1>14. /\ \A e \in Dirs, j \in Stages : Open(e, j)' <=> Open(e, j)
       /\ \A e \in Dirs : /\ Quiet(e)' <=> Quiet(e)
                          /\ Produced(e)' = Produced(e) /\ Received(e)' = Received(e)
  BY <1>5, Frame DEF Received
<1>15. PartOK(Rev(d))'
  <2>1. \A j \in Hops : /\ 3 - j \in Hops
                        /\ copy'[Copier(d, 3 - j)] \in {"return", "done"}
                             => copy[Copier(d, 3 - j)] \in {"return", "done"}
    BY <1>11, HopNumbers
  <2>2. Quiet(Rev(d)) => \A j \in Hops : copy'[Copier(d, 3 - j)] \in {"return", "done"}
                                           => copy[Copier(Rev(d), j)] = "done"
    BY <1>2, <2>1, RevNames DEF RelayInv, EndsInOrder
  <2>3. Rev(Rev(d)) = d
    BY RevNames
  <2> QED
    BY <1>2, <1>5, <1>9, <1>10, <1>11, <1>12, <1>14, <2>2, <2>3, OtherDirection
<1>16. PartOK(d)'
  <2>1. Held(d, i) = <<>> /\ Len(Held(d, i)) = 0
    BY <1>2, <1>5 DEF PartOK, ClosedByCopy
  <2>2. ClosedByCopy(d)'
    BY <1>2, <1>5, <1>8, <1>10, <1>11 DEF PartOK, ClosedByCopy
  <2>3. EndsInOrder(d)'
    <3>1. /\ \A j \in Hops : j # i => /\ Pipe(d, j)' = Pipe(d, j)
                                      /\ copy'[Copier(d, j)] = copy[Copier(d, j)]
                                      /\ readErr'[Copier(d, j)] = readErr[Copier(d, j)]
          /\ Pipe(d, 3)' = Pipe(d, 3)
      BY <1>9, <1>11, <1>12, HopNumbers DEF Hops, Stages
    <3>2. readErr'[Copier(d, i)] => Pipe(d, i)' = <<>> /\ fin[Stage(d, i)]
      BY <1>3, <1>4, <1>7, <1>9, <1>12
    <3>3. \A j \in Hops : copy'[Copier(Rev(d), 3 - j)] = copy[Copier(Rev(d), 3 - j)]
      BY <1>2, <1>11, HopNumbers
    <3>4. Quiet(d) => copy[Copier(Rev(d), 3 - i)] \notin {"return", "done"}
      BY <1>2, <1>5 DEF PartOK, EndsInOrder
    <3> QED
      BY <1>2, <1>5, <1>11, <1>14, <3>1, <3>2, <3>3, <3>4 DEF PartOK, EndsInOrder
  <2>4. Bounded(d)'
    BY <1>2, <1>3, <1>6, <1>7, <1>9, <1>10, <1>14, ViewNumbers DEF PartOK, Bounded
  <2>5. Len(f) + Len(h) = Len(s) /\ Len(f) \in Nat /\ Len(h) \in Nat
    BY <1>6, <1>7, <1>8
  <2>6. \A b \in Nat : Consecutive(s, b) => Consecutive(f, b) /\ Consecutive(h, b + Len(f))
    BY <1>6, <1>7
  <2>7. Passed3(d) \in Nat /\ Passed2(d) \in Nat
    BY <1>2, ViewNumbers
  <2>8. InOrder(d)' /\ Passed1(d)' = Passed1(d)
    <3>1. CASE i = 1
      <4>1. /\ Held(d, 2)' = Held(d, 2) /\ Pipe(d, 2)' = Pipe(d, 2) /\ Pipe(d, 3)' = Pipe(d, 3)
            /\ Held(d, 1)' = f /\ Pipe(d, 1)' = h /\ Len(Held(d, 1)) = 0 /\ Pipe(d, 1) = s
        BY <1>3, <1>9, <1>10, <2>1, <3>1 DEF Stages, Hops
      <4>2. Passed3(d)' = Passed3(d) /\ Passed2(d)' = Passed2(d)
        BY <1>14, <4>1 DEF Passed3, Passed2
      <4>3. Passed1(d)' = Passed1(d)
        <5>1. Passed1(d)' = Passed2(d) + (Len(f) + Len(h))
          BY <4>1, <4>2 DEF Passed1
        <5>2. Passed1(d) = Passed2(d) + (0 + Len(s))
          BY <4>1 DEF Passed1
        <5> QED
          BY <2>5, <2>7, <5>1, <5>2, SMTT(30)
      <4>4. Open(d, 3) /\ Open(d, 2) =>
              Consecutive(f, Passed2(d)) /\ Consecutive(h, Passed2(d) + Len(f))
        <5>1. Open(d, 3) /\ Open(d, 2) => Consecutive(s, Passed2(d) + 0)
          BY <1>2, <4>1 DEF PartOK, InOrder
        <5> QED
          BY <2>6, <2>7, <5>1
      <4> QED
        BY <1>2, <1>14, <4>1, <4>2, <4>3, <4>4, HopNumbers DEF PartOK, InOrder
    <3>2. CASE i = 2
      <4>1. /\ Held(d, 1)' = Held(d, 1) /\ Pipe(d, 1)' = Pipe(d, 1) /\ Pipe(d, 3)' = Pipe(d, 3)
            /\ Held(d, 2)' = f /\ Pipe(d, 2)' = h /\ Len(Held(d, 2)) = 0 /\ Pipe(d, 2) = s
        BY <1>3, <1>9, <1>10, <2>1, <3>2 DEF Stages, Hops
      <4>2. Passed3(d)' = Passed3(d)
        BY <1>14, <4>1 DEF Passed3
      <4>3. Passed2(d)' = Passed2(d)
        <5>1. Passed2(d)' = Passed3(d) + (Len(f) + Len(h))
          BY <4>1, <4>2 DEF Passed2
        <5>2. Passed2(d) = Passed3(d) + (0 + Len(s))
          BY <4>1 DEF Passed2
        <5> QED
          BY <2>5, <2>7, <5>1, <5>2, SMTT(30)
      <4>4. Passed1(d)' = Passed1(d)
        BY <4>1, <4>3 DEF Passed1
      <4>5. Open(d, 3) => Consecutive(f, Passed3(d)) /\ Consecutive(h, Passed3(d) + Len(f))
        <5>1. Open(d, 3) => Consecutive(s, Passed3(d) + 0)
          BY <1>2, <4>1 DEF PartOK, InOrder
        <5> QED
          BY <2>6, <2>7, <5>1
      <4> QED
        BY <1>2, <1>14, <4>1, <4>2, <4>3, <4>4, <4>5, HopNumbers DEF PartOK, InOrder
    <3> QED
      BY <3>1, <3>2 DEF Hops
  <2>9. Lossless(d)'
    BY <1>2, <1>14, <2>8, HopNumbers DEF PartOK, Lossless
  <2> QED
    BY <2>2, <2>3, <2>4, <2>8, <2>9 DEF PartOK
<1> QED
  BY <1>13, <1>15, <1>16, RevNames DEF RelayInv, PartOK

\* A goroutine has nothing to write in a direction in which nothing was sent.
LEMMA QuietIdle ==
  ASSUME RelayInv, NEW d \in Dirs, NEW i \in Hops, Quiet(Rev(d))
  PROVE  copy[Copier(d, i)] # "write" /\ Pipe(d, i) = <<>>
<1>1. TypeOK /\ Bounded(d) /\ ClosedByCopy(d) /\ i \in Stages
  BY HopNumbers DEF RelayInv
<1>2. Produced(d) = 0
  BY Opposites DEF Quiet, Produced
<1>3. /\ Held(d, i) \in Seq(Chunk) /\ Within(Held(d, i), 0)
      /\ Pipe(d, i) \in Seq(Chunk) /\ Within(Pipe(d, i), 0)
  BY <1>1, <1>2, ViewTypes DEF Bounded
<1>4. Held(d, i) = <<>> /\ Pipe(d, i) = <<>>
  BY <1>3, Emptied
<1> QED
  BY <1>1, <1>4 DEF ClosedByCopy

\* A one-way transfer does not write to a link that is closed or broken.
LEMMA QuietOpen ==
  ASSUME RelayInv, NEW d \in Dirs, NEW i \in Hops, Quiet(d), copy[Copier(d, i)] = "write"
  PROVE  Open(d, i + 1)
<1>1. ClosedByCopy(d) /\ ClosedByCopy(Rev(d)) /\ EndsInOrder(d)
  BY RevNames DEF RelayInv
<1>2. WriterEnd(d, i + 1) \notin closed /\ broken = {}
  BY <1>1 DEF ClosedByCopy, Quiet
<1>3. ReaderEnd(d, i + 1) \notin closed
  <2>1. CASE i = 1
    <3>1. SUFFICES ASSUME WriterEnd(Rev(d), 2) \in closed PROVE FALSE
      BY <2>1, Opposites
    <3>2. copy[Copier(Rev(d), 1)] = "done"
      BY <1>1, <3>1, HopNumbers DEF ClosedByCopy
    <3>3. copy[Copier(d, 2)] = "done"
      BY <1>1, <3>2, HopNumbers DEF EndsInOrder
    <3>4. fin[Stage(d, 2)]
      BY <1>1, <3>3, HopNumbers DEF EndsInOrder
    <3> QED
      BY <1>1, <2>1, <3>4, HopNumbers DEF ClosedByCopy
  <2>2. CASE i = 2
    <3>1. WriterEnd(Rev(d), 1) \notin closed
      BY <1>1 DEF ClosedByCopy, Quiet
    <3> QED
      BY <2>2, <3>1, Opposites
  <2> QED
    BY <2>1, <2>2 DEF Hops
<1> QED
  BY <1>2, <1>3 DEF Open

\* What Continue does besides moving data.
LEMMA Continues ==
  ASSUME RelayInv, NEW d \in Dirs, NEW i \in Hops, NEW h \in Seq(Chunk), NEW l \in Labels,
         copy[Copier(d, i)] = "write", l # "done", l = "write" <=> h # <<>>,
         Len(h) <= BufSize,
         buf' = [buf EXCEPT ![Copier(d, i)] = h],
         copy' = [copy EXCEPT ![Copier(d, i)] = l],
         UNCHANGED <<fin, closed, broken, readErr, endVars>>,
         Quiet(d) /\ l = "return" => readErr[Copier(d, i)],
         \A e \in Dirs, j \in Stages : e # d \/ j # i + 1 => Pipe(e, j)' = Pipe(e, j)
  PROVE  /\ buf' \in [Copies -> Seq(Chunk)] /\ \A p \in Copies : Len(buf'[p]) <= BufSize
         /\ copy' \in [Copies -> Labels]
         /\ Held(d, i)' = h /\ \A j \in Hops : j # i => Held(d, j)' = Held(d, j)
         /\ ClosedByCopy(d)' /\ EndsInOrder(d)' /\ PartOK(Rev(d))'
<1>1. TypeOK /\ PartOK(d) /\ Rev(d) \in Dirs /\ Rev(d) # d /\ Rev(Rev(d)) = d
  BY RevNames DEF RelayInv, PartOK
<1>2. /\ buf' \in [Copies -> Seq(Chunk)] /\ \A p \in Copies : Len(buf'[p]) <= BufSize
      /\ Held(d, i)' = h
      /\ \A e \in Dirs, j \in Hops : e # d \/ j # i => Held(e, j)' = Held(e, j)
  <2>1. SetHeld(d, i, h)
    BY DEF SetHeld
  <2>2. OnlyHeld(d, i, h)
    BY <1>1, <2>1, HeldUpdate
  <2> QED
    BY <2>2 DEF OnlyHeld
<1>3. /\ copy' \in [Copies -> Labels] /\ copy'[Copier(d, i)] = l
      /\ \A e \in Dirs, j \in Hops :
           e # d \/ j # i => copy'[Copier(e, j)] = copy[Copier(e, j)]
  <2>1. SetCopy(d, i, l)
    BY DEF SetCopy
  <2>2. OnlyCopy(d, i, l)
    BY <1>1, <2>1, CopyUpdate
  <2> QED
    BY <2>2 DEF OnlyCopy
<1>4. /\ \A e \in Dirs : /\ Quiet(e)' <=> Quiet(e)
                         /\ Produced(e)' = Produced(e) /\ Received(e)' = Received(e)
  BY Frame DEF Received
<1>5. ClosedByCopy(d)'
  BY <1>1, <1>2, <1>3 DEF PartOK, ClosedByCopy
<1>6. EndsInOrder(d)'
  <2>1. \A j \in Hops : copy'[Copier(Rev(d), 3 - j)] = copy[Copier(Rev(d), 3 - j)]
    BY <1>1, <1>3, HopNumbers
  <2>2. Quiet(d) => copy[Copier(Rev(d), 3 - i)] \notin {"return", "done"}
    BY <1>1 DEF PartOK, EndsInOrder
  <2>3. CASE i = 1
    <3>1. Pipe(d, 1)' = Pipe(d, 1) /\ Pipe(d, 3)' = Pipe(d, 3)
      BY <2>3, HopNumbers
    <3>2. ~fin[Stage(d, 2)]
      BY <1>1, <2>3, HopNumbers DEF PartOK, ClosedByCopy
    <3>3. copy'[Copier(d, 1)] = l /\ copy'[Copier(d, 2)] = copy[Copier(d, 2)]
      BY <1>3, <2>3, HopNumbers
    <3> QED
      BY <1>1, <1>4, <2>1, <2>2, <2>3, <3>1, <3>2, <3>3 DEF PartOK, EndsInOrder, Labels, Hops
  <2>4. CASE i = 2
    <3>1. Pipe(d, 1)' = Pipe(d, 1) /\ Pipe(d, 2)' = Pipe(d, 2)
      BY <2>4, HopNumbers
    <3>2. ~fin[Stage(d, 3)]
      BY <1>1, <2>4, HopNumbers DEF PartOK, ClosedByCopy
    <3>3. copy'[Copier(d, 2)] = l /\ copy'[Copier(d, 1)] = copy[Copier(d, 1)]
      BY <1>3, <2>4, HopNumbers
    <3> QED
      BY <1>1, <1>4, <2>1, <2>2, <2>4, <3>1, <3>2, <3>3 DEF PartOK, EndsInOrder, Labels, Hops
  <2> QED
    BY <2>3, <2>4 DEF Hops
<1>7. PartOK(Rev(d))'
  <2>1. Quiet(Rev(d)) => \A j \in Hops : copy'[Copier(d, 3 - j)] \in {"return", "done"}
                                           => copy[Copier(Rev(d), j)] = "done"
    <3>1. SUFFICES ASSUME Quiet(Rev(d)) PROVE FALSE
      OBVIOUS
    <3> QED
      BY <3>1, QuietIdle
  <2> QED
    BY <1>1, <1>2, <1>3, <1>4, <2>1, OtherDirection
<1> QED
  BY <1>2, <1>3, <1>5, <1>6, <1>7

\* dst.Write moves chunks from the buffer into a pipe.
LEMMA CopyWriteStep ==
  ASSUME RelayInv, NEW g \in Copies, CopyWrite(g)
  PROVE  RelayInv'
<1>1. PICK d \in Dirs, i \in Hops : IsCopier(g, d, i)
  BY CopierNames
<1>2. TypeOK /\ PartOK(d) /\ i \in Stages /\ i + 1 \in Stages /\ Rev(d) \in Dirs
  BY RevNames, HopNumbers DEF RelayInv, PartOK
<1>3. PICK s \in Seq(Chunk), p \in Seq(Chunk) :
        /\ s = Held(d, i) /\ Len(s) <= BufSize
        /\ p = Pipe(d, i + 1) /\ Len(p) <= Cap
  BY <1>2, ViewTypes
<1>4. PICK n \in 1..Min({Len(s), Cap - Len(p)}) :
        /\ pipe' = [pipe EXCEPT ![Stage(d, i + 1)] = p \o SubSeq(s, 1, n)]
        /\ Continue(g, SubSeq(s, n + 1, Len(s)))
  BY <1>1, <1>3 DEF CopyWrite, IsCopier, Pipe, Held
<1>5. n \in 1..Len(s) /\ n \in Nat /\ n + Len(p) <= Cap
  <2>1. Len(s) \in Int /\ Cap - Len(p) \in Int
    BY RelayAssumption
  <2> QED
    BY <2>1, MinPair, RelayAssumption
<1>6. PICK f \in Seq(Chunk) :
        /\ f = SubSeq(s, 1, n) /\ Len(f) = n
        /\ \A b \in Nat : Consecutive(s, b) => Consecutive(f, b)
        /\ \A b \in Nat : Within(s, b) => Within(f, b)
  BY <1>5, Front
<1>7. PICK h \in Seq(Chunk) :
        /\ h = SubSeq(s, n + 1, Len(s)) /\ Len(h) = Len(s) - n
        /\ \A b \in Nat : Consecutive(s, b) => Consecutive(h, b + n)
        /\ \A b \in Nat : Within(s, b) => Within(h, b)
  BY <1>5, Rest
<1>8. PICK t \in Seq(Chunk) :
        /\ t = p \o f /\ Len(t) = Len(p) + n
        /\ \A b \in Nat : Consecutive(p, b) /\ Consecutive(f, b + Len(p)) => Consecutive(t, b)
        /\ \A b \in Nat : Within(p, b) /\ Within(f, b) => Within(t, b)
  <2>1. p \o f \in Seq(Chunk) /\ Len(p \o f) = Len(p) + Len(f)
    BY Joined
  <2>2. \A b \in Nat : Consecutive(p, b) /\ Consecutive(f, b + Len(p)) => Consecutive(p \o f, b)
    BY Joined
  <2>3. \A b \in Nat : Within(p, b) /\ Within(f, b) => Within(p \o f, b)
    BY Joined
  <2> QED
    BY <1>6, <2>1, <2>2, <2>3
<1>9. Len(h) <= BufSize /\ Len(t) <= Cap
  BY <1>3, <1>5, <1>7, <1>8, RelayAssumption
<1>10. PICK l \in Labels :
         /\ buf' = [buf EXCEPT ![Copier(d, i)] = h]
         /\ copy' = [copy EXCEPT ![Copier(d, i)] = l]
         /\ l # "done" /\ (l = "write" <=> h # <<>>)
         /\ l = "return" => readErr[Copier(d, i)]
  <2>1. PICK l \in {"write", "return", "read"} :
          /\ copy' = [copy EXCEPT ![g] = l]
          /\ l = IF h # <<>> THEN "write" ELSE IF readErr[g] THEN "return" ELSE "read"
    BY <1>4, <1>7 DEF Continue
  <2>2. buf' = [buf EXCEPT ![g] = h] /\ g = Copier(d, i)
    BY <1>1, <1>4, <1>7 DEF Continue, IsCopier
  <2>3. l \in Labels
    BY DEF Labels
  <2> QED
    BY <2>1, <2>2, <2>3
<1>11. /\ copy[Copier(d, i)] = "write" /\ Open(d, i + 1)
       /\ UNCHANGED <<fin, closed, broken, readErr, endVars>>
  BY <1>1 DEF CopyWrite, IsCopier, Unusable, Open
<1>12. /\ pipe' \in [Links \X Dirs -> Seq(Chunk)]
       /\ \A q \in Links \X Dirs : Len(pipe'[q]) <= Cap
       /\ Pipe(d, i + 1)' = t
       /\ \A e \in Dirs, j \in Stages : e # d \/ j # i + 1 => Pipe(e, j)' = Pipe(e, j)
  <2>1. TypeOK /\ i + 1 \in Stages /\ SetPipe(d, i + 1, t) /\ Len(t) <= Cap
    BY <1>2, <1>4, <1>6, <1>8, <1>9 DEF SetPipe
  <2>2. OnlyPipe(d, i + 1, t)
    BY <2>1, PipeUpdate
  <2> QED
    BY <2>2 DEF OnlyPipe
<1>13. /\ buf' \in [Copies -> Seq(Chunk)] /\ \A q \in Copies : Len(buf'[q]) <= BufSize
       /\ copy' \in [Copies -> Labels]
       /\ Held(d, i)' = h /\ \A j \in Hops : j # i => Held(d, j)' = Held(d, j)
       /\ ClosedByCopy(d)' /\ EndsInOrder(d)' /\ PartOK(Rev(d))'
  BY <1>9, <1>10, <1>11, <1>12, Continues
<1>14. TypeOK'
  BY <1>2, <1>11, <1>12, <1>13 DEF TypeOK, Labels
<1>15. /\ \A j \in Stages : Open(d, j)' <=> Open(d, j)
       /\ Quiet(d)' <=> Quiet(d)
       /\ Produced(d)' = Produced(d) /\ Received(d)' = Received(d)
  BY <1>11, Frame DEF Received
<1>16. Bounded(d)'
  <2>1. Produced(d) \in Nat
    BY <1>2, ViewNumbers
  <2>2. Within(s, Produced(d)) /\ Within(p, Produced(d))
    BY <1>2, <1>3 DEF PartOK, Bounded
  <2>3. Within(h, Produced(d)) /\ Within(t, Produced(d))
    BY <1>6, <1>7, <1>8, <2>1, <2>2
  <2> QED
    BY <1>2, <1>12, <1>13, <1>15, <2>3 DEF PartOK, Bounded
<1>17. InOrder(d)' /\ Passed1(d)' = Passed1(d)
  <2>1. CASE i = 1
    <3>1. /\ Held(d, 2)' = Held(d, 2) /\ Pipe(d, 1)' = Pipe(d, 1) /\ Pipe(d, 3)' = Pipe(d, 3)
          /\ Held(d, 1)' = h /\ Pipe(d, 2)' = t /\ Held(d, 1) = s /\ Pipe(d, 2) = p
      BY <1>3, <1>12, <1>13, <2>1, HopNumbers
    <3>2. PICK q \in Seq(Chunk), a \in Nat, b \in Nat :
            /\ q = Pipe(d, 1) /\ b = Passed2(d) /\ b = a + Len(p)
            /\ a = Passed3(d) + Len(Held(d, 2))
      <4>1. PICK x \in Nat, y \in Nat : x = Passed3(d) /\ y = Len(Held(d, 2))
        BY <1>2, ViewNumbers
      <4>2. Passed2(d) = x + (y + Len(p))
        BY <3>1, <4>1 DEF Passed2
      <4>3. Pipe(d, 1) \in Seq(Chunk)
        BY <1>2, ViewTypes, HopNumbers
      <4>4. Passed2(d) = (x + y) + Len(p) /\ x + y \in Nat /\ Passed2(d) \in Nat
        BY <4>2
      <4> QED
        BY <4>1, <4>3, <4>4
    <3>3. Passed3(d)' = Passed3(d)
      BY <1>15, <3>1 DEF Passed3
    <3>4. Passed2(d)' = b + n
      <4>1. PICK x \in Nat, y \in Nat : x = Passed3(d) /\ y = Len(Held(d, 2))
        BY <1>2, ViewNumbers
      <4>2. Passed2(d)' = x + (y + (Len(p) + n))
        BY <1>8, <3>1, <3>3, <4>1 DEF Passed2
      <4>3. b = (x + y) + Len(p)
        BY <3>2, <4>1
      <4> QED
        BY <1>5, <4>2, <4>3
    <3>5. Passed1(d)' = Passed1(d)
      <4>1. Passed1(d)' = (b + n) + (Len(h) + Len(q))
        BY <3>1, <3>2, <3>4 DEF Passed1
      <4>2. Passed1(d) = b + (Len(s) + Len(q))
        BY <3>1, <3>2 DEF Passed1
      <4> QED
        BY <1>5, <1>7, <4>1, <4>2
    <3>6. ASSUME Open(d, 3)
          PROVE  /\ Consecutive(t, a) /\ Consecutive(h, b + n)
                 /\ Consecutive(q, (b + n) + Len(h))
      <4>1. Open(d, 2)
        BY <1>11, <2>1
      <4>2. Consecutive(p, a) /\ Consecutive(s, b) /\ Consecutive(q, b + Len(s))
        BY <1>2, <3>1, <3>2, <3>6, <4>1 DEF PartOK, InOrder
      <4>3. Consecutive(f, a + Len(p)) /\ Consecutive(h, b + n)
        BY <1>6, <1>7, <3>2, <4>2
      <4>4. Consecutive(t, a)
        BY <1>8, <4>2, <4>3
      <4>5. (b + n) + Len(h) = b + Len(s)
        <5>1. Len(h) = Len(s) - n /\ Len(s) \in Nat
          BY <1>7
        <5> QED
          BY <1>5, <5>1
      <4> QED
        BY <4>2, <4>3, <4>4, <4>5
    <3>7. Open(d, 3) => /\ Consecutive(Held(d, 2)', Passed3(d)')
                        /\ Consecutive(Pipe(d, 2)', Passed3(d)' + Len(Held(d, 2)'))
                        /\ Consecutive(Held(d, 1)', Passed2(d)')
                        /\ Consecutive(Pipe(d, 1)', Passed2(d)' + Len(Held(d, 1)'))
      BY <1>2, <3>1, <3>2, <3>3, <3>4, <3>6 DEF PartOK, InOrder
    <3>8. Consecutive(Received(d)', 0) /\ Consecutive(Pipe(d, 3)', Len(Received(d)'))
      BY <1>2, <1>15, <3>1 DEF PartOK, InOrder
    <3>9. Open(d, 3)' => Open(d, 3)
      BY <1>15, HopNumbers
    <3> QED
      BY <3>5, <3>7, <3>8, <3>9 DEF InOrder
  <2>2. CASE i = 2
    <3>1. /\ Held(d, 1)' = Held(d, 1) /\ Pipe(d, 1)' = Pipe(d, 1) /\ Pipe(d, 2)' = Pipe(d, 2)
          /\ Held(d, 2)' = h /\ Pipe(d, 3)' = t /\ Held(d, 2) = s /\ Pipe(d, 3) = p
      BY <1>3, <1>12, <1>13, <2>2, HopNumbers
    <3>2. PICK q \in Seq(Chunk), a \in Nat, b \in Nat :
            /\ q = Pipe(d, 2) /\ b = Passed3(d) /\ b = a + Len(p)
            /\ a = Len(Received(d))
      BY <1>2, <3>1, ViewTypes, ViewNumbers, HopNumbers DEF Passed3
    <3>3. Passed3(d)' = b + n
      <4>1. Passed3(d)' = a + (Len(p) + n)
        BY <1>8, <1>15, <3>1, <3>2 DEF Passed3
      <4> QED
        BY <1>5, <3>2, <4>1
    <3>4. Passed2(d)' = Passed2(d)
      <4>1. Passed2(d)' = (b + n) + (Len(h) + Len(q))
        BY <3>1, <3>2, <3>3 DEF Passed2
      <4>2. Passed2(d) = b + (Len(s) + Len(q))
        BY <3>1, <3>2 DEF Passed2
      <4> QED
        BY <1>5, <1>7, <4>1, <4>2
    <3>5. Passed1(d)' = Passed1(d)
      BY <3>1, <3>4 DEF Passed1
    <3>6. /\ Consecutive(t, a) /\ Consecutive(h, b + n)
          /\ Consecutive(q, (b + n) + Len(h))
      <4>1. Open(d, 3)
        BY <1>11, <2>2
      <4>2. Consecutive(p, a) /\ Consecutive(s, b) /\ Consecutive(q, b + Len(s))
        BY <1>2, <3>1, <3>2, <4>1 DEF PartOK, InOrder
      <4>3. Consecutive(f, a + Len(p)) /\ Consecutive(h, b + n)
        BY <1>6, <1>7, <3>2, <4>2
      <4>4. Consecutive(t, a)
        BY <1>8, <4>2, <4>3
      <4>5. (b + n) + Len(h) = b + Len(s)
        <5>1. Len(h) = Len(s) - n /\ Len(s) \in Nat
          BY <1>7
        <5> QED
          BY <1>5, <5>1
      <4> QED
        BY <4>2, <4>3, <4>4, <4>5
    <3>7. /\ Consecutive(Received(d)', 0) /\ Consecutive(Pipe(d, 3)', Len(Received(d)'))
          /\ Consecutive(Held(d, 2)', Passed3(d)')
          /\ Consecutive(Pipe(d, 2)', Passed3(d)' + Len(Held(d, 2)'))
      BY <1>2, <1>15, <3>1, <3>2, <3>3, <3>6 DEF PartOK, InOrder
    <3>8. Open(d, 3) /\ Open(d, 2) =>
            /\ Consecutive(Held(d, 1)', Passed2(d)')
            /\ Consecutive(Pipe(d, 1)', Passed2(d)' + Len(Held(d, 1)'))
      BY <1>2, <3>1, <3>4 DEF PartOK, InOrder
    <3>9. (Open(d, 3)' => Open(d, 3)) /\ (Open(d, 2)' => Open(d, 2))
      BY <1>15, HopNumbers
    <3> QED
      BY <3>5, <3>7, <3>8, <3>9 DEF InOrder
  <2> QED
    BY <2>1, <2>2 DEF Hops
<1>18. Lossless(d)'
  BY <1>2, <1>15, <1>17, HopNumbers DEF PartOK, Lossless
<1>19. PartOK(d)'
  BY <1>13, <1>16, <1>17, <1>18 DEF PartOK
<1> QED
  BY <1>13, <1>14, <1>19, RevNames DEF RelayInv, PartOK

\* What was read is dropped: the link it would go to passes nothing any more.
LEMMA DropStep ==
  ASSUME RelayInv, NEW d \in Dirs, NEW i \in Hops, NEW l \in {"read", "return"},
         copy[Copier(d, i)] = "write", ~Open(d, i + 1),
         buf' = [buf EXCEPT ![Copier(d, i)] = <<>>],
         copy' = [copy EXCEPT ![Copier(d, i)] = l],
         UNCHANGED <<linkVars, readErr, endVars>>
  PROVE  RelayInv'
<1>1. TypeOK /\ PartOK(d) /\ ~Quiet(d) /\ i \in Stages /\ i + 1 \in Stages
  BY QuietOpen, HopNumbers DEF RelayInv, PartOK
<1>2. PICK h \in Seq(Chunk) : h = <<>> /\ Len(h) = 0
  BY Emptied
<1>3. /\ buf' \in [Copies -> Seq(Chunk)] /\ \A q \in Copies : Len(buf'[q]) <= BufSize
      /\ copy' \in [Copies -> Labels]
      /\ Held(d, i)' = h /\ \A j \in Hops : j # i => Held(d, j)' = Held(d, j)
      /\ ClosedByCopy(d)' /\ EndsInOrder(d)' /\ PartOK(Rev(d))'
  <2>1. l \in Labels /\ l # "done" /\ (l = "write" <=> h # <<>>)
    BY <1>2 DEF Labels
  <2>2. Len(h) <= BufSize
    BY <1>2, RelayAssumption
  <2>3. \A e \in Dirs, j \in Stages : Pipe(e, j)' = Pipe(e, j)
    BY DEF Pipe
  <2>4. buf' = [buf EXCEPT ![Copier(d, i)] = h]
    BY <1>2
  <2> QED
    BY <1>1, <2>1, <2>2, <2>3, <2>4, Continues
<1>4. TypeOK'
  BY <1>1, <1>3 DEF TypeOK, Labels
<1>5. /\ \A j \in Stages : Pipe(d, j)' = Pipe(d, j)
      /\ \A j \in Stages : Open(d, j)' <=> Open(d, j)
      /\ Quiet(d)' <=> Quiet(d)
      /\ Produced(d)' = Produced(d) /\ Received(d)' = Received(d)
  BY Frame DEF Received, Pipe
<1>6. Bounded(d)'
  <2>1. Produced(d) \in Nat /\ Within(<<>>, Produced(d))
    BY <1>1, ViewNumbers, Emptied
  <2> QED
    BY <1>1, <1>2, <1>3, <1>5, <2>1 DEF PartOK, Bounded
<1>7. Lossless(d)'
  <2>1. ~(Open(d, 1) /\ Open(d, 2) /\ Open(d, 3))
    BY <1>1 DEF Hops
  <2> QED
    BY <1>1, <1>5, <2>1, HopNumbers DEF Lossless
<1>8. InOrder(d)'
  <2>1. /\ Pipe(d, 1)' = Pipe(d, 1) /\ Pipe(d, 2)' = Pipe(d, 2) /\ Pipe(d, 3)' = Pipe(d, 3)
        /\ Passed3(d)' = Passed3(d)
        /\ Open(d, 2)' <=> Open(d, 2)
        /\ Open(d, 3)' <=> Open(d, 3)
    BY <1>5, HopNumbers DEF Passed3
  <2>2. CASE i = 1
    <3>1. Held(d, 2)' = Held(d, 2) /\ ~Open(d, 2)
      BY <1>3, <2>2, HopNumbers
    <3> QED
      BY <1>1, <1>5, <2>1, <3>1 DEF PartOK, InOrder
  <2>3. CASE i = 2
    <3>1. ~Open(d, 3)
      BY <2>3
    <3> QED
      BY <1>1, <1>5, <2>1, <3>1 DEF PartOK, InOrder
  <2> QED
    BY <2>2, <2>3 DEF Hops
<1>9. PartOK(d)'
  BY <1>3, <1>6, <1>7, <1>8 DEF PartOK
<1> QED
  BY <1>3, <1>4, <1>9, RevNames DEF RelayInv, PartOK

\* dst.Write fails, or succeeds although the other side has closed.
LEMMA CopyLosesStep ==
  ASSUME RelayInv, NEW g \in Copies, CopyWriteLost(g) \/ CopyWriteFails(g)
  PROVE  RelayInv'
<1>1. PICK d \in Dirs, i \in Hops : IsCopier(g, d, i)
  BY CopierNames
<1>2. copy[Copier(d, i)] = "write" /\ ~Open(d, i + 1) /\ UNCHANGED <<linkVars, readErr, endVars>>
  BY <1>1 DEF CopyWriteLost, CopyWriteFails, IsCopier, Unusable, Open
<1>3. PICK l \in {"read", "return"} :
        /\ buf' = [buf EXCEPT ![Copier(d, i)] = <<>>]
        /\ copy' = [copy EXCEPT ![Copier(d, i)] = l]
  <2>1. g = Copier(d, i)
    BY <1>1 DEF IsCopier
  <2>2. CASE readErr[g]
    BY <2>1, <2>2 DEF CopyWriteLost, CopyWriteFails, Continue
  <2>3. CASE ~readErr[g]
    BY <2>1, <2>3 DEF CopyWriteLost, CopyWriteFails, Continue
  <2> QED
    BY <2>2, <2>3
<1> QED
  BY <1>2, <1>3, DropStep

\* A goroutine that stops reading.
LEMMA CopyReadEndsStep ==
  ASSUME RelayInv, NEW g \in Copies, CopyReadEnds(g)
  PROVE  RelayInv'
<1>1. PICK d \in Dirs, i \in Hops : IsCopier(g, d, i)
  BY CopierNames
<1>2. /\ TypeOK /\ PartOK(d) /\ PartOK(Rev(d)) /\ i \in Stages
      /\ Rev(d) \in Dirs /\ Rev(d) # d /\ Rev(Rev(d)) = d
  BY RevNames, HopNumbers DEF RelayInv, PartOK
<1>3. /\ copy[Copier(d, i)] = "read" /\ copy' = [copy EXCEPT ![Copier(d, i)] = "return"]
      /\ UNCHANGED <<linkVars, buf, readErr, endVars>>
  BY <1>1 DEF CopyReadEnds, IsCopier
<1>4. \/ ReaderEnd(d, i) \in closed
      \/ broken # {}
      \/ Pipe(d, i) = <<>> /\ fin[Stage(d, i)]
  BY <1>1 DEF CopyReadEnds, IsCopier, Unusable, Pipe
<1>5. /\ copy' \in [Copies -> Labels] /\ copy'[Copier(d, i)] = "return"
      /\ \A e \in Dirs, j \in Hops :
           e # d \/ j # i => copy'[Copier(e, j)] = copy[Copier(e, j)]
  <2>1. PICK l \in Labels : l = "return"
    BY DEF Labels
  <2>2. TypeOK /\ SetCopy(d, i, l)
    BY <1>2, <1>3, <2>1 DEF SetCopy
  <2>3. OnlyCopy(d, i, l)
    BY <2>2, CopyUpdate
  <2> QED
    BY <2>1, <2>3 DEF OnlyCopy
<1>6. TypeOK'
  BY <1>2, <1>3, <1>5 DEF TypeOK, Labels
<1>7. /\ \A e \in Dirs, j \in Stages : (Open(e, j)' <=> Open(e, j)) /\ Pipe(e, j)' = Pipe(e, j)
      /\ \A e \in Dirs, j \in Hops : Held(e, j)' = Held(e, j)
      /\ \A e \in Dirs : /\ Quiet(e)' <=> Quiet(e)
                         /\ Produced(e)' = Produced(e) /\ Received(e)' = Received(e)
  BY <1>3, Frame DEF Received, Pipe, Held
<1>8. PartOK(Rev(d))'
  <2>1. ASSUME Quiet(Rev(d)), NEW j \in Hops, copy'[Copier(d, 3 - j)] \in {"return", "done"}
        PROVE  copy[Copier(Rev(d), j)] = "done"
    <3>1. CASE 3 - j # i
      BY <1>2, <1>5, <2>1, <3>1, HopNumbers DEF PartOK, EndsInOrder
    <3>2. CASE i = 1 /\ j = 2
      \* The endpoint that sends nothing has not closed, so this machine has.
      <4>1. ~fin[Stage(d, 1)] /\ broken = {}
        BY <1>2, <2>1 DEF Quiet
      <4>2. WriterEnd(Rev(d), 3) \in closed
        BY <1>4, <3>2, <4>1, Opposites
      <4> QED
        BY <1>2, <3>2, <4>2, HopNumbers DEF PartOK, ClosedByCopy
    <3>3. CASE i = 2 /\ j = 1
      <4>1. CASE ReaderEnd(d, 2) \in closed
        <5>1. WriterEnd(Rev(d), 2) \in closed
          BY <4>1, Opposites
        <5> QED
          BY <1>2, <3>3, <5>1, HopNumbers DEF PartOK, ClosedByCopy
      <4>2. CASE fin[Stage(d, 2)]
        <5>1. copy[Copier(d, 1)] = "done"
          BY <1>2, <4>2, HopNumbers DEF PartOK, ClosedByCopy
        <5>2. copy[Copier(Rev(d), 2)] = "done"
          BY <1>2, <2>1, <5>1, HopNumbers DEF PartOK, EndsInOrder
        <5>3. fin[Stage(Rev(d), 2)]
          BY <1>2, <2>1, <5>2, HopNumbers DEF PartOK, EndsInOrder
        <5> QED
          BY <1>2, <3>3, <5>3, HopNumbers DEF PartOK, ClosedByCopy
      <4>3. broken = {}
        BY <2>1 DEF Quiet
      <4> QED
        BY <1>4, <3>3, <4>1, <4>2, <4>3
    <3> QED
      BY <3>1, <3>2, <3>3 DEF Hops
  <2>2. Quiet(Rev(d)) => \A j \in Hops : copy'[Copier(d, 3 - j)] \in {"return", "done"}
                                           => copy[Copier(Rev(d), j)] = "done"
    BY <2>1
  <2> QED
    BY <1>2, <1>3, <1>5, <1>7, <2>2, OtherDirection
<1>9. PartOK(d)'
  <2>1. /\ Pipe(d, 1)' = Pipe(d, 1) /\ Pipe(d, 2)' = Pipe(d, 2) /\ Pipe(d, 3)' = Pipe(d, 3)
        /\ Held(d, 1)' = Held(d, 1) /\ Held(d, 2)' = Held(d, 2)
        /\ Open(d, 1)' <=> Open(d, 1)
        /\ Open(d, 2)' <=> Open(d, 2)
        /\ Open(d, 3)' <=> Open(d, 3)
    BY <1>7, HopNumbers
  <2>2. Passed3(d)' = Passed3(d) /\ Passed2(d)' = Passed2(d) /\ Passed1(d)' = Passed1(d)
    BY <1>7, <2>1 DEF Passed3, Passed2, Passed1
  <2>3. InOrder(d)' /\ Lossless(d)'
    BY <1>2, <1>7, <2>1, <2>2 DEF PartOK, InOrder, Lossless
  <2>4. Bounded(d)'
    BY <1>2, <1>7 DEF PartOK, Bounded
  <2>5. ClosedByCopy(d)'
    BY <1>2, <1>3, <1>5, <1>7 DEF PartOK, ClosedByCopy
  <2>6. EndsInOrder(d)'
    <3>1. \A j \in Hops : copy'[Copier(Rev(d), 3 - j)] = copy[Copier(Rev(d), 3 - j)]
      BY <1>2, <1>5, HopNumbers
    <3>2. Quiet(d) => copy[Copier(Rev(d), 3 - i)] \notin {"return", "done"}
      BY <1>2, <1>3 DEF PartOK, EndsInOrder
    <3>3. Quiet(d) => ReaderEnd(d, i) \notin closed
      <4>1. CASE i = 1
        BY <1>2, <3>2, <4>1, Opposites, HopNumbers DEF PartOK, ClosedByCopy
      <4>2. CASE i = 2
        BY <1>2, <3>2, <4>2, Opposites, HopNumbers DEF PartOK, ClosedByCopy
      <4> QED
        BY <4>1, <4>2 DEF Hops
    <3>4. Quiet(d) => Pipe(d, i) = <<>> /\ fin[Stage(d, i)]
      BY <1>4, <3>3 DEF Quiet
    <3>5. \A j \in Hops : Pipe(d, j)' = Pipe(d, j)
      BY <1>7, HopNumbers
    <3> QED
      BY <1>2, <1>3, <1>5, <1>7, <2>1, <3>1, <3>2, <3>4, <3>5 DEF PartOK, EndsInOrder
  <2> QED
    BY <2>3, <2>4, <2>5, <2>6 DEF PartOK
<1> QED
  BY <1>6, <1>8, <1>9, RevNames DEF RelayInv, PartOK

-----------------------------------------------------------------------------
(* Closing an end *)

\* The m-th link of d was closed by its writer; r is the other direction.
EndClosed(d, r, m) ==
  /\ copy' \in [Copies -> Labels] => TypeOK'
  /\ InOrder(d)' /\ InOrder(r)' /\ Bounded(d)' /\ Bounded(r)'
  /\ ~Open(d, m)' /\ ~Open(r, 4 - m)'
  /\ \A e \in Dirs : Quiet(e)' => Quiet(e)
  /\ \A e \in Dirs, j \in Stages :
       /\ fin'[Stage(e, j)] <=> fin[Stage(e, j)] \/ (e = d /\ j = m)
       /\ WriterEnd(e, j) \in closed' <=> WriterEnd(e, j) \in closed \/ (e = d /\ j = m)
       /\ e # r \/ j # 4 - m => Pipe(e, j)' = Pipe(e, j)
  /\ Pipe(r, 4 - m)' = <<>>
  /\ \A e \in Dirs :
       /\ Received(e)' = Received(e) /\ Produced(e)' = Produced(e)
       /\ \A j \in Hops : Held(e, j)' = Held(e, j)

\* An end of a link is closed: nothing passes the link any more, in either
\* direction, and what this side has not read is lost.
LEMMA ClosesEnd ==
  ASSUME RelayInv, NEW d \in Dirs, NEW m \in Stages,
         closed' = closed \cup {WriterEnd(d, m)},
         fin' = [fin EXCEPT ![Stage(d, m)] = TRUE],
         pipe' = [pipe EXCEPT ![Stage(Rev(d), 4 - m)] = <<>>],
         broken \subseteq broken', broken' \subseteq Links,
         UNCHANGED <<buf, readErr, endVars>>
  PROVE  EndClosed(d, Rev(d), m)
<1>1. /\ TypeOK /\ PartOK(d) /\ PartOK(Rev(d)) /\ 4 - m \in Stages
      /\ Rev(d) \in Dirs /\ Rev(d) # d /\ Rev(Rev(d)) = d
  BY RevNames DEF RelayInv, PartOK, Stages
<1>2. /\ pipe' \in [Links \X Dirs -> Seq(Chunk)]
      /\ \A p \in Links \X Dirs : Len(pipe'[p]) <= Cap
      /\ Pipe(Rev(d), 4 - m)' = <<>>
      /\ \A e \in Dirs, j \in Stages : e # Rev(d) \/ j # 4 - m => Pipe(e, j)' = Pipe(e, j)
  <2>1. PICK t \in Seq(Chunk), q \in Dirs, c \in Stages :
          t = <<>> /\ Len(t) = 0 /\ q = Rev(d) /\ c = 4 - m
    BY <1>1, Emptied
  <2>2. TypeOK /\ Len(t) <= Cap /\ SetPipe(q, c, t)
    BY <1>1, <2>1, RelayAssumption DEF SetPipe
  <2>3. OnlyPipe(q, c, t)
    BY <2>2, PipeUpdate
  <2> QED
    BY <2>1, <2>3 DEF OnlyPipe
<1>3. /\ fin' \in [Links \X Dirs -> BOOLEAN]
      /\ \A p \in Links \X Dirs : fin'[p] <=> fin[p] \/ p = Stage(d, m)
  <2>1. Stage(d, m) \in Links \X Dirs /\ fin \in [Links \X Dirs -> BOOLEAN]
    BY <1>1, StageNames DEF TypeOK
  <2> QED
    BY <2>1
<1>4. closed' \subseteq {e \in (User..Local) \X Links : e[1] \in {e[2] - 1, e[2]}}
  <2>1. WriterEnd(d, m) \in {e \in (User..Local) \X Links : e[1] \in {e[2] - 1, e[2]}}
    BY DEF WriterEnd, Party, Stage, Dirs, Stages, User, Local, Links
  <2> QED
    BY <1>1, <2>1 DEF TypeOK
<1>5. copy' \in [Copies -> Labels] => TypeOK'
  BY <1>1, <1>2, <1>3, <1>4 DEF TypeOK, Labels
<1>6. ASSUME NEW e \in Dirs, NEW j \in Stages
      PROVE  /\ fin'[Stage(e, j)] <=> fin[Stage(e, j)] \/ (e = d /\ j = m)
             /\ WriterEnd(e, j) \in closed'
                  <=> WriterEnd(e, j) \in closed \/ (e = d /\ j = m)
             /\ Open(e, j)' => Open(e, j)
  <2>1. fin'[Stage(e, j)] <=> fin[Stage(e, j)] \/ (e = d /\ j = m)
    BY <1>3, StageNames, SMTT(30)
  <2>2. WriterEnd(e, j) \in closed' <=> WriterEnd(e, j) \in closed \/ (e = d /\ j = m)
    BY EndNames
  <2>3. Open(e, j)' => Open(e, j)
    BY DEF Open
  <2> QED
    BY <2>1, <2>2, <2>3
<1>7. ~Open(d, m)' /\ ~Open(Rev(d), 4 - m)'
  <2>1. ReaderEnd(Rev(d), 4 - m) = WriterEnd(d, m)
    BY Opposites DEF Stages
  <2> QED
    BY <2>1 DEF Open
<1>8. \A e \in Dirs : Quiet(e)' => Quiet(e)
  <2>1. ASSUME NEW e \in Dirs, Quiet(e)' PROVE Quiet(e)
    <3>1. Rev(e) \in Dirs /\ 1 \in Stages
      BY RevNames, HopNumbers
    <3>2. ~fin[Stage(Rev(e), 1)]
      BY <1>6, <2>1, <3>1 DEF Quiet
    <3> QED
      BY <2>1, <3>2 DEF Quiet
  <2> QED
    BY <2>1
<1>9. \A e \in Dirs : /\ Received(e)' = Received(e) /\ Produced(e)' = Produced(e)
                      /\ \A j \in Hops : Held(e, j)' = Held(e, j)
  BY DEF Received, Produced, Held
<1>10. Bounded(d)' /\ Bounded(Rev(d))'
  <2>1. Produced(Rev(d)) \in Nat /\ Within(<<>>, Produced(Rev(d)))
    BY <1>1, ViewNumbers, Emptied
  <2>2. Bounded(d)'
    BY <1>1, <1>2, <1>9 DEF PartOK, Bounded
  <2>3. Bounded(Rev(d))'
    BY <1>1, <1>2, <1>9, <2>1 DEF PartOK, Bounded
  <2> QED
    BY <2>2, <2>3
<1>11. InOrder(d)'
  <2>1. /\ Pipe(d, 1)' = Pipe(d, 1) /\ Pipe(d, 2)' = Pipe(d, 2) /\ Pipe(d, 3)' = Pipe(d, 3)
        /\ Held(d, 1)' = Held(d, 1) /\ Held(d, 2)' = Held(d, 2) /\ Received(d)' = Received(d)
        /\ Open(d, 2)' => Open(d, 2)
        /\ Open(d, 3)' => Open(d, 3)
    BY <1>1, <1>2, <1>6, <1>9, HopNumbers
  <2>2. Passed3(d)' = Passed3(d) /\ Passed2(d)' = Passed2(d)
    BY <2>1 DEF Passed3, Passed2
  <2> QED
    BY <1>1, <2>1, <2>2 DEF PartOK, InOrder
<1>12. InOrder(Rev(d))'
  <2>1. PICK r \in Dirs, c \in Stages : r = Rev(d) /\ c = 4 - m
    BY <1>1
  <2> SUFFICES InOrder(r)'
    BY <2>1
  <2>2. /\ Held(r, 1)' = Held(r, 1) /\ Held(r, 2)' = Held(r, 2) /\ Received(r)' = Received(r)
        /\ Open(r, 2)' => Open(r, 2)
        /\ Open(r, 3)' => Open(r, 3)
        /\ ~Open(r, c)' /\ Pipe(r, c)' = <<>> /\ PartOK(r)
    BY <1>1, <1>2, <1>6, <1>7, <1>9, <2>1, HopNumbers
  <2>3. /\ Consecutive(<<>>, Len(Received(r)))
        /\ Consecutive(<<>>, Passed3(r) + Len(Held(r, 2)))
        /\ Consecutive(<<>>, Passed2(r) + Len(Held(r, 1)))
    BY DEF Consecutive
  <2>4. CASE c = 3
    <3>1. Pipe(r, 3)' = <<>> /\ ~Open(r, 3)'
      BY <2>2, <2>4
    <3>2. Consecutive(Received(r), 0)
      BY <2>2 DEF PartOK, InOrder
    <3>3. Consecutive(Received(r)', 0) /\ Consecutive(Pipe(r, 3)', Len(Received(r)'))
      BY <2>2, <2>3, <3>1, <3>2
    <3> QED
      BY <3>1, <3>3 DEF InOrder
  <2>5. CASE c = 2
    <3>1. Pipe(r, 3)' = Pipe(r, 3) /\ Passed3(r)' = Passed3(r)
      BY <1>2, <2>1, <2>2, <2>5, HopNumbers DEF Passed3
    <3>2. Pipe(r, 2)' = <<>> /\ ~Open(r, 2)'
      BY <2>2, <2>5
    <3>3. InOrder(r)
      BY <2>2 DEF PartOK
    <3>4. /\ Consecutive(Received(r)', 0) /\ Consecutive(Pipe(r, 3)', Len(Received(r)'))
          /\ Open(r, 3)' => Consecutive(Held(r, 2)', Passed3(r)')
      BY <2>2, <3>1, <3>3 DEF InOrder
    <3>5. Consecutive(Pipe(r, 2)', Passed3(r)' + Len(Held(r, 2)'))
      BY <2>2, <2>3, <3>1, <3>2
    <3> QED
      BY <3>2, <3>4, <3>5 DEF InOrder
  <2>6. CASE c = 1
    <3>1. Pipe(r, 3)' = Pipe(r, 3) /\ Pipe(r, 2)' = Pipe(r, 2)
      BY <1>2, <2>1, <2>6, HopNumbers
    <3>2. Passed3(r)' = Passed3(r) /\ Passed2(r)' = Passed2(r)
      BY <2>2, <3>1 DEF Passed3, Passed2
    <3>3. Pipe(r, 1)' = <<>>
      BY <2>2, <2>6
    <3>4. InOrder(r)
      BY <2>2 DEF PartOK
    <3>5. /\ Consecutive(Received(r)', 0) /\ Consecutive(Pipe(r, 3)', Len(Received(r)'))
          /\ Open(r, 3)' => /\ Consecutive(Held(r, 2)', Passed3(r)')
                            /\ Consecutive(Pipe(r, 2)', Passed3(r)' + Len(Held(r, 2)'))
      BY <2>2, <3>1, <3>2, <3>4 DEF InOrder
    <3>6. Open(r, 3)' /\ Open(r, 2)' => Consecutive(Held(r, 1)', Passed2(r)')
      BY <2>2, <3>2, <3>4 DEF InOrder
    <3>7. Consecutive(Pipe(r, 1)', Passed2(r)' + Len(Held(r, 1)'))
      BY <2>2, <2>3, <3>2, <3>3
    <3> QED
      BY <3>5, <3>6, <3>7 DEF InOrder
  <2> QED
    BY <2>4, <2>5, <2>6 DEF Stages
<1> QED
  BY <1>2, <1>5, <1>6, <1>7, <1>8, <1>9, <1>10, <1>11, <1>12 DEF EndClosed

\* A goroutine ends and closes the connection it wrote to.
LEMMA CopyReturnStep ==
  ASSUME RelayInv, NEW g \in Copies, CopyReturn(g)
  PROVE  RelayInv'
<1>1. PICK d \in Dirs, i \in Hops : IsCopier(g, d, i)
  BY CopierNames
<1>2. /\ copy' \in [Copies -> Labels] /\ copy'[Copier(d, i)] = "done"
      /\ \A e \in Dirs, j \in Hops :
           e # d \/ j # i => copy'[Copier(e, j)] = copy[Copier(e, j)]
  <2>1. PICK l \in Labels : l = "done"
    BY DEF Labels
  <2>2. TypeOK /\ SetCopy(d, i, l)
    BY <1>1, <2>1 DEF RelayInv, CopyReturn, IsCopier, SetCopy
  <2>3. OnlyCopy(d, i, l)
    BY <2>2, CopyUpdate
  <2> QED
    BY <2>1, <2>3 DEF OnlyCopy
<1>3. PICK m \in Stages, r \in Dirs : m = i + 1 /\ 4 - m = 3 - i /\ r = Rev(d)
  BY RevNames, HopNumbers DEF Hops, Stages
<1>4. /\ TypeOK /\ PartOK(d) /\ PartOK(r) /\ r # d /\ Rev(r) = d
      /\ 3 - i \in Hops /\ 3 - i \in Stages
  BY <1>3, RevNames, HopNumbers DEF RelayInv, PartOK
<1>5. /\ closed' = closed \cup {WriterEnd(d, m)}
      /\ fin' = [fin EXCEPT ![Stage(d, m)] = TRUE]
      /\ pipe' = [pipe EXCEPT ![Stage(r, 4 - m)] = <<>>]
      /\ UNCHANGED <<buf, readErr, endVars>>
      /\ copy[Copier(d, i)] = "return" /\ copy' = [copy EXCEPT ![Copier(d, i)] = "done"]
  BY <1>1, <1>3 DEF CopyReturn, CloseEnd, IsCopier
<1>6. broken \subseteq broken' /\ broken' \subseteq Links
  <2>1. Dst(g) \in Links
    BY <1>1, <1>3 DEF IsCopier, Stage, Dirs, Stages, Links
  <2> QED
    BY <1>4, <2>1 DEF CopyReturn, CloseEnd, TypeOK
<1>7. EndClosed(d, r, m)
  <2>1. pipe' = [pipe EXCEPT ![Stage(Rev(d), 4 - m)] = <<>>]
    BY <1>3, <1>5
  <2>2. EndClosed(d, Rev(d), m)
    BY <1>5, <1>6, <2>1, ClosesEnd
  <2> QED
    BY <1>3, <2>2
<1>8. \A e \in Dirs : /\ Received(e)' = Received(e) /\ Produced(e)' = Produced(e)
                      /\ \A j \in Hops : Held(e, j)' = Held(e, j)
  BY <1>7 DEF EndClosed
<1>9. Quiet(r) => Pipe(r, 3 - i) = <<>>
  <2>1. SUFFICES ASSUME Quiet(r) PROVE Pipe(r, 3 - i) = <<>>
    OBVIOUS
  <2>2. copy[Copier(Rev(r), 3 - (3 - i))] = "return" /\ EndsInOrder(r)
    BY <1>4, <1>5, HopNumbers DEF PartOK
  <2>3. copy[Copier(r, 3 - i)] = "done"
    BY <1>4, <2>1, <2>2 DEF EndsInOrder
  <2> QED
    BY <1>4, <2>1, <2>2, <2>3 DEF EndsInOrder
<1>10. ClosedByCopy(d)'
  <2>1. \A j \in Hops : j + 1 \in Stages /\ (j + 1 = m <=> j = i)
    BY <1>3, HopNumbers DEF Hops
  <2>2. 1 \in Stages /\ 1 # m
    BY <1>3 DEF Hops, Stages
  <2> QED
    BY <1>4, <1>5, <1>7, <1>2, <1>8, <2>1, <2>2 DEF PartOK, ClosedByCopy, EndClosed
<1>11. ClosedByCopy(r)'
  BY <1>4, <1>7, <1>2, <1>8, HopNumbers DEF PartOK, ClosedByCopy, EndClosed
<1>12. EndsInOrder(d)'
  <2>1. \A j \in Hops : copy'[Copier(r, 3 - j)] = copy[Copier(r, 3 - j)]
    BY <1>4, <1>2, HopNumbers
  <2>2. \A j \in Hops : j \in Stages /\ 3 \in Stages
    BY HopNumbers
  <2> QED
    BY <1>3, <1>4, <1>5, <1>7, <1>2, <2>1, <2>2, EndsKept DEF PartOK, EndClosed
<1>13. EndsInOrder(r)'
  <2>1. \A j \in Hops : /\ 3 - j \in Hops
                        /\ copy'[Copier(d, 3 - j)] \in {"return", "done"}
                             => copy[Copier(d, 3 - j)] \in {"return", "done"}
    BY <1>5, <1>2, HopNumbers
  <2>2. \A j \in Stages : Pipe(r, j) = <<>> => Pipe(r, j)' = <<>>
    BY <1>3, <1>7 DEF EndClosed
  <2>3. \A j \in Hops : j \in Stages /\ 3 \in Stages /\ copy'[Copier(r, j)] = copy[Copier(r, j)]
    BY <1>4, <1>2, HopNumbers
  <2> QED
    BY <1>4, <1>5, <1>7, <2>1, <2>2, <2>3 DEF PartOK, EndsInOrder, EndClosed
<1>14. Lossless(d)'
  <2>1. /\ Pipe(d, 1)' = Pipe(d, 1) /\ Pipe(d, 2)' = Pipe(d, 2) /\ Pipe(d, 3)' = Pipe(d, 3)
        /\ Held(d, 1)' = Held(d, 1) /\ Held(d, 2)' = Held(d, 2) /\ Received(d)' = Received(d)
    BY <1>4, <1>7, <1>8, HopNumbers DEF EndClosed
  <2>2. Passed1(d)' = Passed1(d)
    BY <2>1 DEF Passed1, Passed2, Passed3
  <2>3. ~(Open(d, 1) /\ Open(d, 2) /\ Open(d, 3))'
    BY <1>7 DEF Stages, EndClosed
  <2> QED
    BY <1>4, <1>7, <1>8, <2>2, <2>3 DEF PartOK, Lossless, EndClosed
<1>15. Lossless(r)'
  <2>1. ~(Open(r, 1) /\ Open(r, 2) /\ Open(r, 3))'
    BY <1>3, <1>4, <1>7 DEF Stages, EndClosed
  <2>2. ASSUME Quiet(r)' PROVE Passed1(r)' = Produced(r)'
    <3>1. \A j \in Stages : Pipe(r, j)' = Pipe(r, j)
      BY <1>3, <1>7, <1>9, <2>2 DEF EndClosed
    <3>2. /\ Pipe(r, 1)' = Pipe(r, 1) /\ Pipe(r, 2)' = Pipe(r, 2) /\ Pipe(r, 3)' = Pipe(r, 3)
          /\ Held(r, 1)' = Held(r, 1) /\ Held(r, 2)' = Held(r, 2) /\ Received(r)' = Received(r)
      BY <1>8, <3>1, HopNumbers
    <3>3. Passed1(r)' = Passed1(r)
      BY <3>2 DEF Passed1, Passed2, Passed3
    <3> QED
      BY <1>4, <1>7, <1>8, <2>2, <3>3 DEF PartOK, Lossless, EndClosed
  <2> QED
    BY <2>1, <2>2 DEF Lossless
<1>16. TypeOK' /\ PartOK(d)' /\ PartOK(r)'
  BY <1>7, <1>2, <1>10, <1>11, <1>12, <1>13, <1>14, <1>15 DEF PartOK, EndClosed
<1> QED
  BY <1>3, <1>16, RevNames DEF RelayInv, PartOK

\* An endpoint closes its connection.
LEMMA QuitStep ==
  ASSUME RelayInv, NEW k \in Ends, Quit(k)
  PROVE  RelayInv'
<1>1. PICK d \in Dirs : IsSender(k, d)
  BY SenderNames
<1>2. PICK m \in Stages, r \in Dirs : m = 1 /\ 4 - m = 3 /\ r = Rev(d)
  BY RevNames DEF Stages
<1>3. TypeOK /\ PartOK(d) /\ PartOK(r) /\ r # d /\ Rev(r) = d
  BY <1>2, RevNames DEF RelayInv, PartOK
<1>4. /\ closed' = closed \cup {WriterEnd(d, m)}
      /\ fin' = [fin EXCEPT ![Stage(d, m)] = TRUE]
      /\ pipe' = [pipe EXCEPT ![Stage(r, 4 - m)] = <<>>]
      /\ UNCHANGED <<copy, buf, readErr, endVars>>
  BY <1>1, <1>2 DEF Quit, CloseEnd, IsSender
<1>5. broken \subseteq broken' /\ broken' \subseteq Links
  <2>1. LinkOf(k) \in Links
    BY DEF LinkOf, Links
  <2> QED
    BY <1>3, <2>1 DEF Quit, CloseEnd, TypeOK
<1>6. EndClosed(d, r, m)
  <2>1. pipe' = [pipe EXCEPT ![Stage(Rev(d), 4 - m)] = <<>>]
    BY <1>2, <1>4
  <2>2. EndClosed(d, Rev(d), m)
    BY <1>4, <1>5, <2>1, ClosesEnd
  <2> QED
    BY <1>2, <2>2
<1>7. copy' \in [Copies -> Labels]
  BY <1>3, <1>4 DEF TypeOK, Labels
<1>8. \A e \in Dirs : /\ Received(e)' = Received(e) /\ Produced(e)' = Produced(e)
                      /\ \A j \in Hops : Held(e, j)' = Held(e, j)
  BY <1>6 DEF EndClosed
<1>9. ClosedByCopy(d)' /\ ClosedByCopy(r)'
  <2>1. \A j \in Hops : j + 1 \in Stages /\ j + 1 # m
    BY <1>2 DEF Hops, Stages
  <2>2. m = 1 /\ 1 \in Stages
    BY <1>2
  <2>3. ClosedByCopy(d)'
    BY <1>3, <1>4, <1>6, <1>8, <2>1, <2>2 DEF PartOK, ClosedByCopy, EndClosed
  <2>4. ClosedByCopy(r)'
    BY <1>3, <1>4, <1>6, <1>8, <2>1, <2>2, ZenonT(30) DEF PartOK, ClosedByCopy, EndClosed
  <2> QED
    BY <2>3, <2>4
<1>10. ~Quiet(r)'
  BY <1>2, <1>3, <1>6 DEF Quiet, EndClosed
<1>11. EndsInOrder(r)'
  BY <1>10 DEF EndsInOrder
<1>12. EndsInOrder(d)'
  <2>1. \A j \in Hops : j \in Stages /\ 3 \in Stages
    BY HopNumbers
  <2> QED
    BY <1>2, <1>3, <1>4, <1>6, <2>1, EndsKept DEF PartOK, EndClosed
<1>13. Lossless(d)'
  <2>1. /\ Pipe(d, 1)' = Pipe(d, 1) /\ Pipe(d, 2)' = Pipe(d, 2) /\ Pipe(d, 3)' = Pipe(d, 3)
        /\ Held(d, 1)' = Held(d, 1) /\ Held(d, 2)' = Held(d, 2) /\ Received(d)' = Received(d)
    BY <1>3, <1>6, <1>8, HopNumbers DEF EndClosed
  <2>2. Passed1(d)' = Passed1(d)
    BY <2>1 DEF Passed1, Passed2, Passed3
  <2>3. ~Open(d, 1)'
    BY <1>2, <1>6 DEF EndClosed
  <2> QED
    BY <1>3, <1>6, <1>8, <2>2, <2>3 DEF PartOK, Lossless, EndClosed
<1>14. Lossless(r)'
  <2>1. ~Open(r, 3)'
    BY <1>2, <1>6 DEF EndClosed
  <2> QED
    BY <1>10, <2>1 DEF Lossless
<1>15. TypeOK' /\ PartOK(d)' /\ PartOK(r)'
  BY <1>6, <1>7, <1>9, <1>11, <1>12, <1>13, <1>14 DEF PartOK, EndClosed
<1> QED
  BY <1>2, <1>15, RevNames DEF RelayInv, PartOK

-----------------------------------------------------------------------------
(* The endpoints and the network *)

\* No data move: links may break, a sender may finish, an endpoint may see
\* the end of the data.
LEMMA IdleStep ==
  ASSUME RelayInv, TypeOK', UNCHANGED <<pipe, closed, copyVars, sent, got>>,
         broken \subseteq broken',
         \A e \in Dirs, j \in Stages : /\ fin[Stage(e, j)] => fin'[Stage(e, j)]
                                       /\ j # 1 => fin'[Stage(e, j)] = fin[Stage(e, j)],
         \A e \in Dirs : Party(e, 3) \in eof' \ eof
                           => Pipe(e, 3) = <<>> /\ fin[Stage(e, 3)]
  PROVE  RelayInv'
<1>1. SUFFICES ASSUME NEW d \in Dirs PROVE PartOK(d)'
  BY DEF RelayInv, PartOK
<1>2. PartOK(d)
  BY DEF RelayInv, PartOK
<1>3. /\ \A j \in Stages : Pipe(d, j)' = Pipe(d, j)
      /\ \A j \in Hops : Held(d, j)' = Held(d, j)
      /\ Received(d)' = Received(d) /\ Produced(d)' = Produced(d)
  BY DEF Pipe, Held, Received, Produced
<1>4. \A j \in Stages : Open(d, j)' => Open(d, j)
  BY DEF Open
<1>5. Quiet(d)' => Quiet(d)
  <2>1. Rev(d) \in Dirs /\ 1 \in Stages
    BY RevNames, HopNumbers
  <2>2. fin[Stage(Rev(d), 1)] => fin'[Stage(Rev(d), 1)]
    BY <2>1
  <2>3. broken' = {} => broken = {}
    OBVIOUS
  <2> QED
    BY <2>2, <2>3 DEF Quiet
<1>6. /\ Pipe(d, 1)' = Pipe(d, 1) /\ Pipe(d, 2)' = Pipe(d, 2) /\ Pipe(d, 3)' = Pipe(d, 3)
      /\ Held(d, 1)' = Held(d, 1) /\ Held(d, 2)' = Held(d, 2)
      /\ Open(d, 1)' => Open(d, 1)
      /\ Open(d, 2)' => Open(d, 2)
      /\ Open(d, 3)' => Open(d, 3)
  BY <1>3, <1>4, HopNumbers
<1>7. Passed3(d)' = Passed3(d) /\ Passed2(d)' = Passed2(d) /\ Passed1(d)' = Passed1(d)
  BY <1>3, <1>6 DEF Passed3, Passed2, Passed1
<1>8. InOrder(d)' /\ Lossless(d)'
  BY <1>2, <1>3, <1>5, <1>6, <1>7 DEF PartOK, InOrder, Lossless
<1>9. Bounded(d)'
  BY <1>2, <1>3 DEF PartOK, Bounded
<1>10. ClosedByCopy(d)'
  <2>1. \A j \in Hops : fin'[Stage(d, j + 1)] = fin[Stage(d, j + 1)]
    BY HopNumbers DEF Hops
  <2>2. fin[Stage(d, 1)] => fin'[Stage(d, 1)]
    BY HopNumbers
  <2> QED
    BY <1>2, <1>3, <2>1, <2>2 DEF PartOK, ClosedByCopy
<1>11. EndsInOrder(d)'
  <2>1. SUFFICES ASSUME Quiet(d), Quiet(d)' PROVE EndsInOrder(d)'
    BY <1>5 DEF EndsInOrder
  <2>2. ASSUME NEW j \in Hops
        PROVE  /\ copy[Copier(d, j)] \in {"return", "done"} \/ readErr[Copier(d, j)]
                    => Pipe(d, j)' = <<>> /\ fin'[Stage(d, j)]
               /\ copy[Copier(Rev(d), 3 - j)] \in {"return", "done"}
                    => copy[Copier(d, j)] = "done"
    <3>1. j \in Stages
      BY HopNumbers
    <3>2. /\ copy[Copier(d, j)] \in {"return", "done"} \/ readErr[Copier(d, j)]
               => Pipe(d, j) = <<>> /\ fin[Stage(d, j)]
          /\ copy[Copier(Rev(d), 3 - j)] \in {"return", "done"}
               => copy[Copier(d, j)] = "done"
      BY <1>2, <2>1 DEF PartOK, EndsInOrder
    <3> QED
      BY <1>3, <3>1, <3>2
  <2>3. Party(d, 3) \in eof' => Pipe(d, 3)' = <<>> /\ fin'[Stage(d, 3)]
    <3>1. Party(d, 3) \in eof => Pipe(d, 3) = <<>> /\ fin[Stage(d, 3)]
      BY <1>2, <2>1 DEF PartOK, EndsInOrder
    <3> QED
      BY <1>6, <3>1, HopNumbers
  <2> QED
    BY <2>2, <2>3 DEF EndsInOrder
<1> QED
  BY <1>8, <1>9, <1>10, <1>11 DEF PartOK

\* A sender ends its direction.
LEMMA ShutdownStep ==
  ASSUME RelayInv, NEW k \in Ends, Shutdown(k)
  PROVE  RelayInv'
<1>1. PICK d \in Dirs : IsSender(k, d)
  BY SenderNames
<1>2. /\ fin' = [fin EXCEPT ![Stage(d, 1)] = TRUE]
      /\ UNCHANGED <<pipe, closed, broken, copyVars, endVars>>
  BY <1>1 DEF Shutdown, IsSender
<1>3. TypeOK /\ Stage(d, 1) \in Links \X Dirs /\ fin \in [Links \X Dirs -> BOOLEAN]
  BY StageNames, HopNumbers DEF RelayInv, TypeOK
<1>4. /\ fin' \in [Links \X Dirs -> BOOLEAN]
      /\ \A p \in Links \X Dirs : fin'[p] = IF p = Stage(d, 1) THEN TRUE ELSE fin[p]
  BY <1>2, <1>3
<1>5. TypeOK'
  BY <1>2, <1>3, <1>4 DEF TypeOK
<1>6. ASSUME NEW e \in Dirs, NEW j \in Stages
      PROVE  /\ fin[Stage(e, j)] => fin'[Stage(e, j)]
             /\ j # 1 => fin'[Stage(e, j)] = fin[Stage(e, j)]
  <2>1. Stage(e, j) \in Links \X Dirs /\ (j # 1 => Stage(e, j) # Stage(d, 1))
    BY StageNames, HopNumbers
  <2>2. fin'[Stage(e, j)] = IF Stage(e, j) = Stage(d, 1) THEN TRUE ELSE fin[Stage(e, j)]
    BY <1>4, <2>1
  <2> QED
    BY <2>1, <2>2
<1> QED
  BY <1>2, <1>5, <1>6, IdleStep

\* An endpoint sees the end of the data.
LEMMA SeeEofStep ==
  ASSUME RelayInv, NEW k \in Ends, SeeEof(k)
  PROVE  RelayInv'
<1>1. PICK d \in Dirs : IsSender(k, d)
  BY SenderNames
<1>2. /\ eof' = eof \cup {k} /\ UNCHANGED <<linkVars, copyVars, sent, got, stalled>>
      /\ pipe[Stage(Rev(d), 3)] = <<>> /\ fin[Stage(Rev(d), 3)]
  BY <1>1 DEF SeeEof, IsSender
<1>3. TypeOK'
  BY <1>2 DEF RelayInv, TypeOK
<1>4. ASSUME NEW e \in Dirs, Party(e, 3) \in eof' \ eof
      PROVE  Pipe(e, 3) = <<>> /\ fin[Stage(e, 3)]
  <2>1. Party(e, 3) = Party(d, 0)
    BY <1>1, <1>2, <1>4 DEF IsSender
  <2>2. e = Rev(d)
    BY <2>1 DEF Party, Rev, Dirs
  <2> QED
    BY <1>2, <2>2 DEF Pipe
<1> QED
  BY <1>2, <1>3, <1>4, IdleStep

\* An endpoint stops reading, or a link breaks.
LEMMA FaultStep ==
  ASSUME RelayInv, (\E k \in Ends : Stall(k)) \/ (\E l \in Links : Reset(l))
  PROVE  RelayInv'
<1>1. /\ UNCHANGED <<pipe, fin, closed, copyVars, sent, got, eof>>
      /\ broken \subseteq broken'
  BY DEF Stall, Reset
<1>2. TypeOK'
  <2>1. broken' \subseteq Links /\ stalled' \subseteq Ends
    BY DEF Stall, Reset, RelayInv, TypeOK
  <2> QED
    BY <1>1, <2>1 DEF RelayInv, TypeOK
<1> QED
  BY <1>1, <1>2, IdleStep

\* An endpoint takes a chunk from its link.
LEMMA ReceiveStep ==
  ASSUME RelayInv, NEW k \in Ends, Receive(k)
  PROVE  RelayInv'
<1>1. PICK e \in Dirs : IsSender(k, e)
  BY SenderNames
<1>2. PICK d \in Dirs : d = Rev(e) /\ e = Rev(d) /\ d # e
  BY RevNames
<1>3. TypeOK /\ PartOK(d) /\ PartOK(e)
  BY DEF RelayInv, PartOK
<1>4. PICK s \in Seq(Chunk), w \in Seq(Chunk) :
        s = Pipe(d, 3) /\ Len(s) <= Cap /\ w = Received(d)
  BY <1>3, ViewTypes, HopNumbers
<1>5. /\ k = Party(d, 3) /\ s # <<>>
      /\ pipe' = [pipe EXCEPT ![Stage(d, 3)] = Tail(s)]
      /\ got' = [got EXCEPT ![k] = Append(w, Head(s))]
      /\ UNCHANGED <<fin, closed, broken, copyVars, sent, eof, stalled>>
  BY <1>1, <1>2, <1>4 DEF Receive, IsSender, Pipe, Received
<1>6. PICK c \in Chunk, t \in Seq(Chunk) :
        /\ c = Head(s) /\ t = Tail(s) /\ Len(t) = Len(s) - 1 /\ Len(s) >= 1
        /\ \A b \in Nat : Consecutive(s, b) => c = b + 1 /\ Consecutive(t, b + 1)
        /\ \A b \in Nat : Within(s, b) => c <= b /\ Within(t, b)
  BY <1>5, Shrunk
<1>7. PICK v \in Seq(Chunk) :
        /\ v = Append(w, c) /\ Len(v) = Len(w) + 1
        /\ \A b \in Nat : Consecutive(w, b) /\ c = b + Len(w) + 1 => Consecutive(v, b)
        /\ \A b \in Nat : Within(w, b) /\ c <= b => Within(v, b)
  BY Grown
<1>8. Len(s) \in Nat /\ Len(w) \in Nat /\ Len(t) <= Cap
  <2>1. Len(s) \in Nat /\ Len(w) \in Nat
    OBVIOUS
  <2> QED
    BY <1>4, <1>6, <2>1, RelayAssumption
<1>9. /\ pipe' \in [Links \X Dirs -> Seq(Chunk)]
      /\ \A p \in Links \X Dirs : Len(pipe'[p]) <= Cap
      /\ Pipe(d, 3)' = t
      /\ \A x \in Dirs, j \in Stages : x # d \/ j # 3 => Pipe(x, j)' = Pipe(x, j)
  <2>1. TypeOK /\ 3 \in Stages /\ SetPipe(d, 3, t) /\ Len(t) <= Cap
    BY <1>3, <1>5, <1>6, <1>8, HopNumbers DEF SetPipe
  <2>2. OnlyPipe(d, 3, t)
    BY <2>1, PipeUpdate
  <2> QED
    BY <2>2 DEF OnlyPipe
<1>10. /\ got' \in [Ends -> Seq(Chunk)] /\ Received(d)' = v /\ Received(e)' = Received(e)
  <2>1. got \in [Ends -> Seq(Chunk)] /\ got' = [got EXCEPT ![k] = v]
    BY <1>3, <1>5, <1>6, <1>7 DEF TypeOK
  <2>2. Party(e, 3) # k /\ Party(e, 3) \in Ends
    BY <1>1, Opposites DEF IsSender
  <2> QED
    BY <1>5, <2>1, <2>2 DEF Received
<1>11. TypeOK'
  BY <1>3, <1>5, <1>9, <1>10 DEF TypeOK
<1>12. /\ \A x \in Dirs, j \in Hops : Held(x, j)' = Held(x, j)
       /\ \A x \in Dirs, j \in Stages : Open(x, j)' <=> Open(x, j)
       /\ \A x \in Dirs : (Quiet(x)' <=> Quiet(x)) /\ Produced(x)' = Produced(x)
  BY <1>5, Frame DEF Held
<1>13. PartOK(e)'
  <2>1. Quiet(e) => \A j \in Hops : copy'[Copier(Rev(e), 3 - j)] \in {"return", "done"}
                                      => copy[Copier(e, j)] = "done"
    BY <1>3, <1>5 DEF PartOK, EndsInOrder
  <2> QED
    BY <1>2, <1>5, <1>9, <1>10, <1>12, <2>1, OtherDirection
<1>14. /\ Pipe(d, 1)' = Pipe(d, 1) /\ Pipe(d, 2)' = Pipe(d, 2) /\ Pipe(d, 3)' = t
       /\ Held(d, 1)' = Held(d, 1) /\ Held(d, 2)' = Held(d, 2)
       /\ Open(d, 1)' <=> Open(d, 1)
       /\ Open(d, 2)' <=> Open(d, 2)
       /\ Open(d, 3)' <=> Open(d, 3)
  BY <1>9, <1>12, HopNumbers
<1>15. Passed3(d)' = Passed3(d)
  <2>1. Passed3(d)' = (Len(w) + 1) + (Len(s) - 1)
    BY <1>6, <1>7, <1>10, <1>14 DEF Passed3
  <2>2. Passed3(d) = Len(w) + Len(s)
    BY <1>4 DEF Passed3
  <2> QED
    BY <1>8, <2>1, <2>2
<1>16. Passed2(d)' = Passed2(d) /\ Passed1(d)' = Passed1(d)
  BY <1>14, <1>15 DEF Passed2, Passed1
<1>17. InOrder(d)' /\ Lossless(d)'
  <2>1. Consecutive(w, 0) /\ Consecutive(s, Len(w))
    BY <1>3, <1>4 DEF PartOK, InOrder
  <2>2. c = Len(w) + 1 /\ Consecutive(t, Len(w) + 1)
    BY <1>6, <1>8, <2>1
  <2>3. Consecutive(v, 0)
    <3>1. c = 0 + Len(w) + 1
      BY <1>8, <2>2
    <3> QED
      BY <1>7, <2>1, <3>1
  <2>4. Consecutive(Received(d)', 0) /\ Consecutive(Pipe(d, 3)', Len(Received(d)'))
    BY <1>7, <1>10, <1>14, <2>2, <2>3
  <2>5. InOrder(d)'
    BY <1>3, <1>14, <1>15, <1>16, <2>4 DEF PartOK, InOrder
  <2>6. Lossless(d)'
    BY <1>3, <1>12, <1>14, <1>16 DEF PartOK, Lossless
  <2> QED
    BY <2>5, <2>6
<1>18. Bounded(d)'
  <2>1. Produced(d) \in Nat /\ Within(w, Produced(d)) /\ Within(s, Produced(d))
    BY <1>3, <1>4, ViewNumbers, HopNumbers DEF PartOK, Bounded
  <2>2. Within(v, Produced(d)) /\ Within(t, Produced(d))
    BY <1>6, <1>7, <2>1
  <2> QED
    BY <1>3, <1>9, <1>10, <1>12, <2>2 DEF PartOK, Bounded
<1>19. ClosedByCopy(d)'
  BY <1>3, <1>5, <1>12 DEF PartOK, ClosedByCopy
<1>20. EndsInOrder(d)'
  \* After the end was seen there is nothing to receive.
  <2>1. Quiet(d) => Party(d, 3) \notin eof
    BY <1>3, <1>4, <1>5 DEF PartOK, EndsInOrder
  <2>2. \A j \in Hops : Pipe(d, j)' = Pipe(d, j)
    BY <1>14 DEF Hops
  <2> QED
    BY <1>3, <1>5, <1>12, <2>1, <2>2 DEF PartOK, EndsInOrder
<1> QED
  <2>1. PartOK(d)'
    BY <1>17, <1>18, <1>19, <1>20 DEF PartOK
  <2> QED
    BY <1>2, <1>11, <1>13, <2>1, RevNames DEF RelayInv, PartOK

\* More may be sent.
LEMMA WithinMore ==
  ASSUME NEW s \in Seq(Chunk), NEW n \in Nat, Within(s, n)
  PROVE  Within(s, n + 1)
<1>1. \A j \in 1..Len(s) : s[j] \in Nat
  BY DEF Chunk
<1> QED
  BY <1>1 DEF Within

\* An endpoint sends a chunk: it joins the ones under way, or is lost behind
\* an end that is closed.
LEMMA SendStep ==
  ASSUME RelayInv, NEW k \in Ends, Send(k)
  PROVE  RelayInv'
<1>1. PICK d \in Dirs : IsSender(k, d)
  BY SenderNames
<1>2. PICK r \in Dirs : r = Rev(d) /\ d = Rev(r) /\ r # d
  BY RevNames
<1>3. TypeOK /\ PartOK(d) /\ PartOK(r)
  BY DEF RelayInv, PartOK
<1>4. PICK s \in Seq(Chunk), n \in Nat : s = Pipe(d, 1) /\ Len(s) <= Cap /\ n = Produced(d)
  BY <1>3, ViewTypes, HopNumbers
<1>5. /\ k = Party(d, 0) /\ ~fin[Stage(d, 1)] /\ WriterEnd(d, 1) \notin closed
      /\ Stage(d, 1)[1] \notin broken
      /\ sent' = [sent EXCEPT ![k] = n + 1]
      /\ UNCHANGED <<fin, closed, broken, copyVars, got, eof, stalled>>
  BY <1>1, <1>4 DEF Send, IsSender, Unusable, Produced
<1>6. /\ sent' \in [Ends -> Nat] /\ Produced(d)' = n + 1 /\ Produced(r)' = Produced(r)
      /\ sent'[Party(r, 3)] = n + 1 /\ sent'[Party(d, 3)] = sent[Party(d, 3)]
  <2>1. sent \in [Ends -> Nat] /\ n + 1 \in Nat
    BY <1>3 DEF TypeOK
  <2>2. /\ Party(r, 0) # k /\ Party(r, 0) \in Ends
        /\ Party(r, 3) = k /\ Party(d, 3) # k /\ Party(d, 3) \in Ends
    BY <1>2, <1>5, Opposites
  <2> QED
    BY <1>5, <2>1, <2>2 DEF Produced
<1>7. /\ ~Quiet(r)'
      /\ Quiet(d)' => Quiet(d)
  BY <1>4, <1>5, <1>6 DEF Quiet
<1>8. /\ \A x \in Dirs, j \in Hops : Held(x, j)' = Held(x, j)
      /\ \A x \in Dirs, j \in Stages : Open(x, j)' <=> Open(x, j)
      /\ \A x \in Dirs : Received(x)' = Received(x)
  BY <1>5 DEF Held, Open, Received
<1>9. PICK t \in Seq(Chunk) :
        /\ Len(t) <= Cap /\ Within(t, n + 1)
        /\ pipe' = [pipe EXCEPT ![Stage(d, 1)] = t]
        /\ \/ ReaderEnd(d, 1) \in closed /\ t = s
           \/ /\ ReaderEnd(d, 1) \notin closed /\ Len(t) = Len(s) + 1
              /\ \A b \in Nat : Consecutive(s, b) /\ n + 1 = b + Len(s) + 1
                                  => Consecutive(t, b)
  <2>1. Within(s, n + 1)
    <3>1. Within(s, n)
      BY <1>3, <1>4, HopNumbers DEF PartOK, Bounded
    <3> QED
      BY <3>1, WithinMore
  <2>2. CASE ReaderEnd(d, 1) \in closed /\ UNCHANGED pipe
    <3>1. pipe' = [pipe EXCEPT ![Stage(d, 1)] = s]
      BY <1>3, <1>4, <2>2, StageNames, HopNumbers DEF TypeOK, Pipe
    <3> QED
      BY <1>4, <2>1, <2>2, <3>1
  <2>3. CASE /\ ReaderEnd(d, 1) \notin closed /\ Len(s) < Cap
             /\ pipe' = [pipe EXCEPT ![Stage(d, 1)] = Append(s, n + 1)]
    <3>1. PICK c \in Chunk : c = n + 1
      BY DEF Chunk
    <3>2. PICK t \in Seq(Chunk) : t = Append(s, c)
      BY Grown
    <3>3. /\ Len(t) = Len(s) + 1
          /\ \A b \in Nat : Consecutive(s, b) /\ c = b + Len(s) + 1 => Consecutive(t, b)
          /\ \A b \in Nat : Within(s, b) /\ c <= b => Within(t, b)
      BY <3>2, Grown
    <3>4. Within(t, n + 1)
      BY <2>1, <3>1, <3>3
    <3>5. Len(t) <= Cap
      BY <2>3, <3>3, RelayAssumption
    <3> QED
      BY <2>3, <3>1, <3>2, <3>3, <3>4, <3>5
  <2> QED
    BY <1>1, <1>4, <2>2, <2>3 DEF Send, IsSender, Pipe, Produced
<1>10. /\ pipe' \in [Links \X Dirs -> Seq(Chunk)]
       /\ \A p \in Links \X Dirs : Len(pipe'[p]) <= Cap
       /\ Pipe(d, 1)' = t
       /\ \A x \in Dirs, j \in Stages : x # d \/ j # 1 => Pipe(x, j)' = Pipe(x, j)
  <2>1. TypeOK /\ 1 \in Stages /\ SetPipe(d, 1, t) /\ Len(t) <= Cap
    BY <1>3, <1>9, HopNumbers DEF SetPipe
  <2>2. OnlyPipe(d, 1, t)
    BY <2>1, PipeUpdate
  <2> QED
    BY <2>2 DEF OnlyPipe
<1>11. TypeOK'
  BY <1>3, <1>5, <1>6, <1>10 DEF TypeOK
<1>12. PartOK(r)'
  <2>1. Quiet(r) => \A j \in Hops : copy'[Copier(Rev(r), 3 - j)] \in {"return", "done"}
                                      => copy[Copier(r, j)] = "done"
    BY <1>3, <1>5 DEF PartOK, EndsInOrder
  <2> QED
    BY <1>2, <1>5, <1>6, <1>7, <1>8, <1>10, <2>1, OtherDirection
<1>13. /\ Pipe(d, 1)' = t /\ Pipe(d, 2)' = Pipe(d, 2) /\ Pipe(d, 3)' = Pipe(d, 3)
       /\ Held(d, 1)' = Held(d, 1) /\ Held(d, 2)' = Held(d, 2)
       /\ Open(d, 1)' <=> Open(d, 1)
       /\ Open(d, 2)' <=> Open(d, 2)
       /\ Open(d, 3)' <=> Open(d, 3)
  BY <1>8, <1>10, HopNumbers
<1>14. ClosedByCopy(d)'
  BY <1>3, <1>5, <1>8 DEF PartOK, ClosedByCopy
<1>15. EndsInOrder(d)'
  <2>1. ASSUME NEW j \in Stages
        PROVE  /\ fin[Stage(d, j)] => fin'[Stage(d, j)]
               /\ Pipe(d, j) = <<>> /\ fin[Stage(d, j)] => Pipe(d, j)' = <<>>
    BY <1>5, <1>10
  <2> QED
    BY <1>3, <1>5, <1>7, <2>1, EndsKept DEF PartOK
<1>16. Bounded(d)'
  <2>1. \A x \in Seq(Chunk) : Within(x, n) => Within(x, n + 1)
    BY WithinMore
  <2>2. /\ Received(d) \in Seq(Chunk) /\ Within(Received(d), n)
        /\ \A j \in Hops : Held(d, j) \in Seq(Chunk) /\ Within(Held(d, j), n)
        /\ \A j \in Stages : Pipe(d, j) \in Seq(Chunk) /\ Within(Pipe(d, j), n)
    BY <1>3, <1>4, ViewTypes DEF PartOK, Bounded
  <2>3. /\ Within(Received(d)', n + 1)
        /\ \A j \in Hops : Within(Held(d, j)', n + 1)
    BY <1>8, <2>1, <2>2
  <2>4. \A j \in Stages : Within(Pipe(d, j)', n + 1)
    BY <1>9, <1>10, <2>1, <2>2
  <2> QED
    BY <1>6, <2>3, <2>4 DEF Bounded
<1>17. Passed3(d)' = Passed3(d) /\ Passed2(d)' = Passed2(d)
  BY <1>8, <1>13 DEF Passed3, Passed2
<1>18. PICK a \in Nat, h \in Nat : a = Passed2(d) /\ h = Len(Held(d, 1))
  BY <1>3, ViewNumbers
<1>19. Passed1(d) = a + (h + Len(s)) /\ Passed1(d)' = a + (h + Len(t))
  BY <1>4, <1>13, <1>17, <1>18 DEF Passed1
<1>20. InOrder(d)'
  <2>1. ASSUME Open(d, 3), Open(d, 2) PROVE Consecutive(t, a + h)
    <3>1. Consecutive(s, a + h)
      BY <1>3, <1>4, <1>18, <2>1 DEF PartOK, InOrder
    <3>2. CASE t = s
      BY <3>1, <3>2
    <3>3. CASE /\ ReaderEnd(d, 1) \notin closed
               /\ \A b \in Nat : Consecutive(s, b) /\ n + 1 = b + Len(s) + 1
                                   => Consecutive(t, b)
      <4>1. Open(d, 1)
        BY <1>5, <3>3 DEF Open
      <4>2. Passed1(d) = n
        BY <1>3, <1>4, <2>1, <4>1 DEF PartOK, Lossless
      <4>3. n + 1 = (a + h) + Len(s) + 1 /\ a + h \in Nat
        BY <1>19, <4>2
      <4> QED
        BY <3>1, <3>3, <4>3
    <3> QED
      BY <1>9, <3>2, <3>3
  <2> QED
    BY <1>3, <1>8, <1>13, <1>17, <1>18, <2>1 DEF PartOK, InOrder
<1>21. Lossless(d)'
  <2>1. CASE ReaderEnd(d, 1) \in closed
    <3>1. ~Open(d, 1)
      BY <2>1 DEF Open
    <3>2. ~Quiet(d)
      \* The first machine closes towards the sender only after the sender
      \* has finished.
      <4>1. SUFFICES ASSUME Quiet(d) PROVE FALSE
        OBVIOUS
      <4>2. WriterEnd(Rev(d), 3) \in closed
        BY <2>1, Opposites
      <4>3. copy[Copier(Rev(d), 2)] = "done"
        BY <1>2, <1>3, <4>2, HopNumbers DEF PartOK, ClosedByCopy
      <4>4. copy[Copier(d, 1)] = "done"
        BY <1>3, <4>1, <4>3, HopNumbers DEF PartOK, EndsInOrder
      <4>5. fin[Stage(d, 1)]
        BY <1>3, <4>1, <4>4, HopNumbers DEF PartOK, EndsInOrder
      <4> QED
        BY <1>5, <4>5
    <3> QED
      BY <1>7, <1>13, <3>1, <3>2 DEF Lossless
  <2>2. CASE Len(t) = Len(s) + 1
    <3>1. Passed1(d) = n => Passed1(d)' = n + 1
      BY <1>19, <2>2
    <3> QED
      BY <1>3, <1>4, <1>6, <1>7, <1>13, <3>1 DEF PartOK, Lossless
  <2> QED
    BY <1>9, <2>1, <2>2
<1> QED
  <2>1. PartOK(d)'
    BY <1>14, <1>15, <1>16, <1>20, <1>21 DEF PartOK
  <2> QED
    BY <1>2, <1>11, <1>12, <2>1, RevNames DEF RelayInv, PartOK

-----------------------------------------------------------------------------
(* The theorems *)

\* The initial state satisfies the invariant.
LEMMA InvariantInit ==
  ASSUME Init PROVE RelayInv
<1>1. TypeOK
  BY RelayAssumption, Emptied DEF Init, TypeOK
<1>2. SUFFICES ASSUME NEW d \in Dirs PROVE PartOK(d)
  BY <1>1 DEF RelayInv, PartOK
<1>3. /\ \A j \in Stages : Pipe(d, j) = <<>> /\ fin[Stage(d, j)] = FALSE
      /\ \A j \in Hops : Held(d, j) = <<>>
  BY StageNames, HopNames DEF Init, Pipe, Held
<1>4. \A e \in Dirs, j \in Hops : copy[Copier(e, j)] = "read" /\ readErr[Copier(e, j)] = FALSE
  BY HopNames DEF Init
<1>5. Received(d) = <<>> /\ Produced(d) = 0 /\ closed = {} /\ eof = {}
  BY Opposites DEF Init, Received, Produced
<1>6. /\ Pipe(d, 1) = <<>> /\ Pipe(d, 2) = <<>> /\ Pipe(d, 3) = <<>>
      /\ Held(d, 1) = <<>> /\ Held(d, 2) = <<>>
  BY <1>3, HopNumbers
<1>7. Len(<<>>) = 0 /\ \A b \in Nat : Consecutive(<<>>, b) /\ Within(<<>>, b)
  BY Emptied
<1>8. Passed3(d) = 0 /\ Passed2(d) = 0 /\ Passed1(d) = 0
  <2>1. Passed3(d) = 0 + 0
    BY <1>5, <1>6, <1>7 DEF Passed3
  <2>2. Passed2(d) = Passed3(d) + (0 + 0)
    BY <1>6, <1>7 DEF Passed2
  <2>3. Passed1(d) = Passed2(d) + (0 + 0)
    BY <1>6, <1>7 DEF Passed1
  <2> QED
    BY <2>1, <2>2, <2>3
<1>9. InOrder(d)
  BY <1>5, <1>6, <1>7, <1>8 DEF InOrder
<1>10. Bounded(d) /\ Lossless(d)
  BY <1>3, <1>5, <1>7, <1>8 DEF Bounded, Lossless
<1>11. ClosedByCopy(d)
  BY <1>3, <1>4, <1>5, HopNumbers DEF ClosedByCopy
<1>12. EndsInOrder(d)
  BY <1>4, <1>5, RevNames, HopNumbers DEF EndsInOrder
<1> QED
  BY <1>9, <1>10, <1>11, <1>12 DEF PartOK

\* Every step preserves the invariant.
LEMMA InvariantStep ==
  ASSUME RelayInv, [Next]_vars PROVE RelayInv'
<1>1. ASSUME NEW g \in Copies, CopyStep(g) PROVE RelayInv'
  BY <1>1, CopyReadStep, CopyReadEndsStep, CopyWriteStep, CopyLosesStep, CopyReturnStep
     DEF CopyStep
<1>2. ASSUME NEW k \in Ends,
             Send(k) \/ Shutdown(k) \/ Quit(k) \/ Receive(k) \/ SeeEof(k) \/ Stall(k)
      PROVE  RelayInv'
  BY <1>2, SendStep, ShutdownStep, QuitStep, ReceiveStep, SeeEofStep, FaultStep
<1>3. ASSUME NEW l \in Links, Reset(l) PROVE RelayInv'
  BY <1>3, FaultStep
<1>4. CASE UNCHANGED vars
  <2>1. TypeOK'
    BY <1>4 DEF RelayInv, TypeOK
  <2> QED
    BY <1>4, <2>1, IdleStep
<1> QED
  BY <1>1, <1>2, <1>3, <1>4 DEF Next

\* The invariant of the chain holds throughout a relayed connection, whatever
\* the endpoints and the links do (Join, copyBuffer).
THEOREM RelaySafety == Spec => []RelayInv
<1>1. Init => RelayInv
  BY InvariantInit
<1>2. RelayInv /\ [Next]_vars => RelayInv'
  BY InvariantStep
<1> QED
  BY <1>1, <1>2, PTL DEF Spec

\* An endpoint is the receiver of a direction.
LEMMA ReceiverOf ==
  ASSUME NEW k \in Ends
  PROVE  \E d \in Dirs : /\ k = Party(d, 3) /\ Peer(k) = Party(d, 0)
                         /\ OutPipe(k) = Stage(Rev(d), 1)
<1>1. PICK e \in Dirs : IsSender(k, e)
  BY SenderNames
<1>2. /\ Rev(e) \in Dirs /\ Rev(Rev(e)) = e
      /\ k = Party(Rev(e), 3) /\ OutPipe(k) = Stage(e, 1)
  BY <1>1, RevNames DEF IsSender
<1>3. Peer(k) = Party(Rev(e), 0)
  BY <1>2, Opposites
<1> QED
  BY <1>2, <1>3

\* What an endpoint has received is a prefix of what the other one sent, for
\* any amount of data and whatever fails (copyBuffer).
THEOREM RelayPrefix == Spec => []PrefixDelivered
<1>1. ASSUME RelayInv PROVE PrefixDelivered
  <2>1. SUFFICES ASSUME NEW k \in Ends
                 PROVE  /\ Len(got[k]) <= sent[Peer(k)]
                        /\ \A i \in 1..Len(got[k]) : got[k][i] = i
    BY DEF PrefixDelivered
  <2>2. PICK d \in Dirs : k = Party(d, 3) /\ Peer(k) = Party(d, 0)
    BY ReceiverOf
  <2>3. PICK w \in Seq(Chunk), n \in Nat : w = got[k] /\ n = sent[Peer(k)]
    BY <1>1, <2>2, ViewTypes DEF RelayInv, Received, Produced
  <2>4. Consecutive(w, 0) /\ Within(w, n)
    BY <1>1, <2>2, <2>3 DEF RelayInv, InOrder, Bounded, Received, Produced
  <2>5. \A i \in 1..Len(w) : w[i] = i /\ i <= n
    BY <2>4 DEF Consecutive, Within
  <2>6. Len(w) <= n
    <3>1. Len(w) \in Nat
      OBVIOUS
    <3>2. CASE Len(w) = 0
      BY <3>2
    <3>3. CASE Len(w) \in 1..Len(w)
      BY <2>5, <3>3
    <3> QED
      BY <3>1, <3>2, <3>3
  <2> QED
    BY <2>3, <2>5, <2>6
<1> QED
  BY <1>1, RelaySafety, PTL

\* A one-way transfer over unbroken links is complete when its receiver sees
\* the end of the data (copyBuffer hands over what came with io.EOF, and
\* closes in the order of the data).
THEOREM RelayComplete == Spec => []OneWayComplete
<1>1. ASSUME RelayInv PROVE OneWayComplete
  <2>1. SUFFICES ASSUME NEW k \in Ends, k \in eof, sent[k] = 0, ~fin[OutPipe(k)], broken = {}
                 PROVE  Len(got[k]) = sent[Peer(k)]
    BY DEF OneWayComplete
  <2>2. PICK d \in Dirs : /\ k = Party(d, 3) /\ Peer(k) = Party(d, 0)
                          /\ OutPipe(k) = Stage(Rev(d), 1)
    BY ReceiverOf
  <2>3. TypeOK /\ PartOK(d) /\ Quiet(d)
    BY <1>1, <2>1, <2>2 DEF RelayInv, PartOK, Quiet
  <2>4. Pipe(d, 3) = <<>> /\ fin[Stage(d, 3)]
    BY <2>1, <2>2, <2>3 DEF PartOK, EndsInOrder
  <2>5. copy[Copier(d, 2)] = "done"
    BY <2>3, <2>4, HopNumbers DEF PartOK, ClosedByCopy
  <2>6. Pipe(d, 2) = <<>> /\ fin[Stage(d, 2)] /\ Held(d, 2) = <<>>
    BY <2>3, <2>5, HopNumbers DEF PartOK, EndsInOrder, ClosedByCopy
  <2>7. copy[Copier(d, 1)] = "done"
    BY <2>3, <2>6, HopNumbers DEF PartOK, ClosedByCopy
  <2>8. Pipe(d, 1) = <<>> /\ Held(d, 1) = <<>>
    BY <2>3, <2>7, HopNumbers DEF PartOK, EndsInOrder, ClosedByCopy
  <2>9. PICK n \in Nat : n = Len(Received(d))
    BY <2>3, ViewNumbers
  <2>10. Passed1(d) = n
    <3>1. Len(<<>>) = 0
      BY Emptied
    <3>2. Passed3(d) = n + 0
      BY <2>4, <2>9, <3>1 DEF Passed3
    <3>3. Passed2(d) = (n + 0) + (0 + 0)
      BY <2>6, <3>1, <3>2 DEF Passed2
    <3>4. Passed1(d) = ((n + 0) + (0 + 0)) + (0 + 0)
      BY <2>8, <3>1, <3>3 DEF Passed1
    <3> QED
      BY <3>4
  <2>11. n = Produced(d)
    BY <2>3, <2>10 DEF PartOK, Lossless
  <2> QED
    BY <2>2, <2>9, <2>11 DEF Received, Produced
<1> QED
  BY <1>1, RelaySafety, PTL
=============================================================================
