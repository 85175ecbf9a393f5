---------------------------- MODULE StorageProofs ----------------------------
(***************************************************************************)
(* Proofs about Storage, for any torrents, block size and readings of the  *)
(* torrent file.                                                           *)
(***************************************************************************)
EXTENDS Storage, SequenceTheorems, WellFoundedInduction, TLAPS

-----------------------------------------------------------------------------
(* The invariant *)

\* The blocks of a piece with this length: how many, and the bytes of one.
Count(length) == length \div BlockSize + (IF length % BlockSize # 0 THEN 1 ELSE 0)
Bytes(length, i) ==
  IF length % BlockSize # 0 /\ i = Count(length) - 1 THEN length % BlockSize ELSE BlockSize

\* The torrent in its own words, whatever the copy of MetaInfo says.
PieceCount == Len(SumsOf(torrent))
PieceFrom(p) == (p - 1) * torrent.pieceLength
LengthOf(p) ==
  IF p = PieceCount THEN SumOf(torrent.files) % torrent.pieceLength ELSE torrent.pieceLength
BlockFrom(p, i) == PieceFrom(p) + i * BlockSize

\* Where byte k of file i is in the torrent.
Place(i, k) == Ends(torrent.files)[i - 1] + k

\* The bytes of the torrent after `from', `length' of them, are in the files.
InPlace(from, length) ==
  \A i \in DOMAIN files : \A k \in DOMAIN files[i] :
    Place(i, k) \in from + 1 .. from + length => files[i][k] = Place(i, k)

\* The torrent file gives the sums of the pieces, and in the form for several files.
Given == Reading(content).ok /\ Reading(content).meta.sums # <<>>
Readable == torrent.multi /\ Given

Lengths(bytes) == [i \in DOMAIN bytes |-> Len(bytes[i])]

TypeInv ==
  /\ torrent \in Torrents
  /\ content \in Contents(torrent)
  /\ status \in {"new", "parsed", "rejected", "starting", "generated", "running", "failed"}
  /\ newFile \in BOOLEAN

\* What the client and its copy know of the torrent is what was read.
ReadInv ==
  /\ status \notin {"new", "rejected"} => Reading(content).ok
  /\ status = "parsed" => meta = Reading(content).meta
  /\ status = "starting" => \E form \in Forms : copy = Copied(Reading(content).meta, form)
  /\ status \in {"generated", "running"} => copy = Copied(Reading(content).meta, "multi")

Sized == Lengths(files) = torrent.files

\* generateFiles gives the files their lengths, and nothing is written or verified before.
FilesInv ==
  /\ Given => files \in Seq(Seq(Int))
  /\ Readable => Len(files) = Len(torrent.files)
  /\ Readable /\ status \in {"generated", "running"} => Sized
  /\ verified # {} \/ DOMAIN blocks # {} => Readable /\ Sized

PiecesInv ==
  /\ verified \subseteq 1 .. PieceCount
  /\ DOMAIN blocks \subseteq 1 .. PieceCount
  /\ verified \cap DOMAIN blocks = {}
  /\ \A p \in DOMAIN blocks :
       blocks[p] \in [0 .. Count(LengthOf(p)) - 1 -> {"none", "right", "wrong"}]

\* What counts as right is on the disk.
RightInv ==
  /\ \A p \in verified : InPlace(PieceFrom(p), torrent.pieceLength)
  /\ \A p \in DOMAIN blocks : \A i \in DOMAIN blocks[p] :
       blocks[p][i] = "right" => InPlace(BlockFrom(p, i), Bytes(LengthOf(p), i))

StorageInv == TypeInv /\ ReadInv /\ FilesInv /\ PiecesInv /\ RightInv
-----------------------------------------------------------------------------
(* Induction over the files *)

\* A set of natural numbers that is not empty has a least element.
LEMMA LeastNat ==
  ASSUME NEW T, T \subseteq Nat, T # {}
  PROVE  \E n \in T : \A m \in T : n <= m
<1> DEFINE Less == {ss \in Nat \X Nat : ss[1] < ss[2]}
<1>1. IsWellFoundedOn(Less, Nat)
  BY NatLessThanWellFounded DEF OpToRel
<1>2. PICK n \in T : \A m \in T : <<m, n>> \notin Less
  <2> HIDE DEF Less
  <2> QED BY <1>1, WFMin
<1>3. ASSUME NEW m \in T PROVE n <= m
  <2>1. n \in Nat /\ m \in Nat /\ <<m, n>> \notin Less
    BY <1>2
  <2>2. m < n => <<m, n>> \in Less
    BY <2>1
  <2> QED BY <2>1, <2>2
<1> QED BY <1>3

\* What holds before the first file and is kept by each file holds after all of them.
LEMMA FileInduction ==
  ASSUME NEW N \in Nat, NEW T, 0 \in T,
         \A i \in 1 .. N : i - 1 \in T => i \in T
  PROVE  \A i \in 0 .. N : i \in T
<1> DEFINE Bad == {i \in 0 .. N : i \notin T}
<1>1. SUFFICES ASSUME Bad # {} PROVE FALSE
  OBVIOUS
<1>2. PICK i \in Bad : \A m \in Bad : i <= m
  <2> HIDE DEF Bad
  <2>1. Bad \subseteq Nat
    BY DEF Bad
  <2> QED BY <1>1, <2>1, LeastNat
<1>3. i # 0 /\ i \in 0 .. N /\ i \notin T
  OBVIOUS
<1>4. i \in 1 .. N /\ i - 1 \in 0 .. N /\ ~(i <= i - 1)
  BY <1>3
<1>5. i - 1 \notin Bad
  <2> HIDE DEF Bad
  <2> QED BY <1>2, <1>4
<1>6. i - 1 \in T
  BY <1>4, <1>5
<1> QED BY <1>3, <1>4, <1>6

-----------------------------------------------------------------------------
(* Where the files end *)

LEMMA EndsFacts ==
  ASSUME NEW lengths \in Seq(Nat)
  PROVE  /\ Ends(lengths)[0] = 0
         /\ \A i \in 1 .. Len(lengths) : Ends(lengths)[i] = Ends(lengths)[i - 1] + lengths[i]
<1> DEFINE N == Len(lengths)
           Rec(f, n) == f = [i \in 0 .. n |-> IF i = 0 THEN 0 ELSE f[i - 1] + lengths[i]]
           Defined == {n \in Nat : \E f : Rec(f, n)}
<1>1. N \in Nat
  OBVIOUS
<1>2. 0 \in Defined
  <2>1. Rec([i \in 0 .. 0 |-> 0], 0)
    OBVIOUS
  <2> QED BY <2>1
<1>3. ASSUME NEW n \in 1 .. N, n - 1 \in Defined PROVE n \in Defined
  <2>1. PICK f : Rec(f, n - 1)
    BY <1>3
  <2> DEFINE g == [i \in 0 .. n |-> IF i = n THEN f[n - 1] + lengths[n] ELSE f[i]]
  <2>2. \A i \in 0 .. n : g[i] = IF i = 0 THEN 0 ELSE g[i - 1] + lengths[i]
    BY <2>1, <1>1
  <2>3. Rec(g, n) /\ n \in Nat
    BY <2>2, <1>1
  <2> HIDE DEF Rec, g
  <2> QED BY <2>3
<1>4. N \in Defined
  <2> HIDE DEF Defined, N
  <2>1. N \in 0 .. N
    BY <1>1
  <2> QED BY <1>1, <1>2, <1>3, <2>1, FileInduction
<1> DEFINE end == CHOOSE f : Rec(f, N)
<1>5. Rec(end, N)
  <2> HIDE DEF Rec
  <2> QED BY <1>4
<1>6. Ends(lengths) = end
  BY DEF Ends
<1> HIDE DEF end
<1>7. /\ end[0] = 0
      /\ \A i \in 1 .. N : end[i] = end[i - 1] + lengths[i]
  BY <1>1, <1>5
<1> QED BY <1>6, <1>7

\* The files lie one after the other.
LEMMA EndsInOrder ==
  ASSUME NEW lengths \in Seq(Nat)
  PROVE  /\ \A i \in 0 .. Len(lengths) : Ends(lengths)[i] \in Nat
         /\ \A j, i \in 0 .. Len(lengths) : j <= i => Ends(lengths)[j] <= Ends(lengths)[i]
<1> DEFINE N == Len(lengths)
           e == Ends(lengths)
           Placed == {i \in 0 .. N : /\ e[i] \in Nat
                                     /\ \A j \in 0 .. i : e[j] \in Nat /\ e[j] <= e[i]}
<1>1. N \in Nat /\ e[0] = 0 /\ \A i \in 1 .. N : e[i] = e[i - 1] + lengths[i] /\ lengths[i] \in Nat
  BY EndsFacts
<1> HIDE DEF N, e
<1>2. 0 \in Placed
  BY <1>1
<1>3. ASSUME NEW i \in 1 .. N, i - 1 \in Placed PROVE i \in Placed
  <2>1. /\ i \in 0 .. N /\ e[i] = e[i - 1] + lengths[i] /\ lengths[i] \in Nat
        /\ e[i - 1] \in Nat
        /\ \A j \in 0 .. i - 1 : e[j] \in Nat /\ e[j] <= e[i - 1]
    BY <1>1, <1>3
  <2>2. ASSUME NEW j \in 0 .. i PROVE e[j] \in Nat /\ e[j] <= e[i]
    <3>1. CASE j = i
      BY <2>1, <3>1
    <3>2. CASE j # i
      <4>1. j \in 0 .. i - 1
        BY <3>2, <1>1
      <4> QED BY <2>1, <4>1
    <3> QED BY <3>1, <3>2
  <2> QED BY <2>1, <2>2
<1>4. \A i \in 0 .. N : i \in Placed
  <2> HIDE DEF Placed
  <2> QED BY <1>1, <1>2, <1>3, FileInduction
<1>5. ASSUME NEW i \in 0 .. N, NEW j \in 0 .. N, j <= i PROVE e[j] <= e[i]
  <2>1. j \in 0 .. i
    BY <1>1, <1>5
  <2> QED BY <2>1, <1>4
<1> QED BY <1>4, <1>5 DEF N, e

\* Every byte of the torrent is in one of the files.
LEMMA EveryByteHasAPlace ==
  ASSUME NEW lengths \in Seq(Nat), NEW x \in 1 .. SumOf(lengths)
  PROVE  \E i \in 1 .. Len(lengths) : \E k \in 1 .. lengths[i] : x = Ends(lengths)[i - 1] + k
<1> DEFINE N == Len(lengths)
           e == Ends(lengths)
           Beyond == {i \in 0 .. N : x <= e[i]}
<1>1. /\ N \in Nat /\ e[0] = 0 /\ SumOf(lengths) = e[N]
      /\ \A i \in 1 .. N : e[i] = e[i - 1] + lengths[i] /\ lengths[i] \in Nat
      /\ \A i \in 0 .. N : e[i] \in Nat
  BY EndsFacts, EndsInOrder DEF SumOf
<1> HIDE DEF N, e
<1>2. N \in Beyond
  BY <1>1
<1>3. PICK i \in Beyond : \A m \in Beyond : i <= m
  <2>1. Beyond \subseteq Nat
    OBVIOUS
  <2> HIDE DEF Beyond
  <2> QED BY <1>2, <2>1, LeastNat
<1>4. x \in Nat /\ x >= 1
  BY <1>1
<1>5. i # 0
  BY <1>1, <1>4
<1>6. i \in 1 .. N /\ i - 1 \in 0 .. N /\ ~(i <= i - 1)
  BY <1>1, <1>5
<1>7. i - 1 \notin Beyond
  <2> HIDE DEF Beyond
  <2> QED BY <1>3, <1>6
<1>8. e[i - 1] < x /\ x <= e[i]
  BY <1>1, <1>4, <1>6, <1>7
<1>9. x - e[i - 1] \in 1 .. lengths[i] /\ x = e[i - 1] + (x - e[i - 1])
  BY <1>1, <1>4, <1>6, <1>8
<1> QED BY <1>6, <1>9 DEF N, e

-----------------------------------------------------------------------------
(* Reading and writing over the bounds of the files *)

\* How many of `length' bytes from `start' are in the files that end before `end'.
Taken(start, length, end) == IF end <= start THEN 0 ELSE Least(length, end - start)

LEMMA LengthsFacts ==
  ASSUME NEW bytes \in Seq(Seq(Int))
  PROVE  /\ Lengths(bytes) \in Seq(Nat)
         /\ Len(Lengths(bytes)) = Len(bytes)
         /\ DOMAIN bytes = 1 .. Len(bytes)
         /\ \A i \in 1 .. Len(bytes) : /\ bytes[i] \in Seq(Int)
                                       /\ DOMAIN bytes[i] = 1 .. Len(bytes[i])
                                       /\ Lengths(bytes)[i] = Len(bytes[i])
                                       /\ Len(bytes[i]) \in Nat
<1>1. /\ DOMAIN bytes = 1 .. Len(bytes) /\ Len(bytes) \in Nat
      /\ \A i \in 1 .. Len(bytes) : /\ bytes[i] \in Seq(Int) /\ Len(bytes[i]) \in Nat
                                    /\ DOMAIN bytes[i] = 1 .. Len(bytes[i])
  OBVIOUS
<1>2. Lengths(bytes) = [i \in 1 .. Len(bytes) |-> Len(bytes[i])]
  BY <1>1 DEF Lengths
<1>3. Lengths(bytes) \in Seq(Nat) /\ Len(Lengths(bytes)) = Len(bytes)
  BY <1>1, <1>2
<1> QED BY <1>1, <1>2, <1>3

\* Where the files with these bytes end.
LEMMA EndsOfFiles ==
  ASSUME NEW bytes \in Seq(Seq(Int))
  PROVE  LET end == Ends(Lengths(bytes))
         IN /\ end[0] = 0
            /\ \A i \in 1 .. Len(bytes) : /\ bytes[i] \in Seq(Int) /\ Len(bytes[i]) \in Nat
                                          /\ end[i] = end[i - 1] + Len(bytes[i])
                                          /\ end[i - 1] \in Nat
            /\ \A i \in 0 .. Len(bytes) : end[i] \in Nat
            /\ \A j, i \in 0 .. Len(bytes) : j <= i => end[j] <= end[i]
<1> DEFINE e == Ends(Lengths(bytes))
           N == Len(bytes)
<1>1. /\ Lengths(bytes) \in Seq(Nat) /\ Len(Lengths(bytes)) = N /\ N \in Nat
      /\ \A j \in 1 .. N : /\ bytes[j] \in Seq(Int) /\ Len(bytes[j]) \in Nat
                           /\ Lengths(bytes)[j] = Len(bytes[j])
  BY LengthsFacts
<1> HIDE DEF N, e
<1>2. /\ e[0] = 0
      /\ \A j \in 1 .. N : e[j] = e[j - 1] + Len(bytes[j])
      /\ \A j \in 0 .. N : e[j] \in Nat
      /\ \A j, k \in 0 .. N : j <= k => e[j] <= e[k]
  BY <1>1, EndsFacts, EndsInOrder DEF e
<1>3. \A j \in 1 .. N : j - 1 \in 0 .. N
  BY <1>1
<1> QED BY <1>1, <1>2, <1>3 DEF e, N

\* The loop of readBlock goes through the files one after the other.
LEMMA ReadRounds ==
  ASSUME NEW bytes \in Seq(Seq(Int)), NEW start, NEW length
  PROVE  \E after :
           /\ after[0] = [start |-> start, current |-> 0, length |-> length, block |-> <<>>]
           /\ \A i \in 1 .. Len(bytes) : after[i] = ReadRound(bytes, after[i - 1], i)
           /\ BytesRead(bytes, start, length) = after[Len(bytes)].block
<1> DEFINE N == Len(bytes)
           first == [start |-> start, current |-> 0, length |-> length, block |-> <<>>]
           Rec(f, n) == f = [i \in 0 .. n |-> IF i = 0 THEN first
                                              ELSE ReadRound(bytes, f[i - 1], i)]
           Defined == {n \in Nat : \E f : Rec(f, n)}
<1>1. N \in Nat
  OBVIOUS
<1>2. 0 \in Defined
  <2> HIDE DEF first
  <2>1. Rec([i \in 0 .. 0 |-> first], 0)
    OBVIOUS
  <2> QED BY <2>1
<1>3. ASSUME NEW n \in 1 .. N, n - 1 \in Defined PROVE n \in Defined
  <2> HIDE DEF first
  <2>1. PICK f : Rec(f, n - 1)
    BY <1>3
  <2> DEFINE g == [i \in 0 .. n |-> IF i = n THEN ReadRound(bytes, f[n - 1], n) ELSE f[i]]
  <2>2. \A i \in 0 .. n : g[i] = IF i = 0 THEN first ELSE ReadRound(bytes, g[i - 1], i)
    BY <2>1, <1>1
  <2>3. g = [i \in 0 .. n |-> g[i]]
    OBVIOUS
  <2> HIDE DEF g
  <2>4. Rec(g, n)
    BY <2>2, <2>3
  <2>5. n \in Nat
    BY <1>1
  <2> HIDE DEF Rec
  <2> QED BY <2>4, <2>5
<1>4. N \in Defined
  <2> HIDE DEF Defined, N
  <2>1. N \in 0 .. N
    BY <1>1
  <2> QED BY <1>1, <1>2, <1>3, <2>1, FileInduction
<1> DEFINE after == CHOOSE f : Rec(f, N)
<1>5. Rec(after, N)
  <2> HIDE DEF Rec
  <2> QED BY <1>4
<1>6. BytesRead(bytes, start, length) = after[N].block
  BY DEF BytesRead
<1> HIDE DEF after, first
<1>7. \A i \in 0 .. N : after[i] = IF i = 0 THEN first ELSE ReadRound(bytes, after[i - 1], i)
  BY <1>5
<1>8. 0 \in 0 .. N /\ \A i \in 1 .. N : i \in 0 .. N /\ i # 0
  BY <1>1
<1> HIDE DEF N
<1>9. after[0] = first /\ \A i \in 1 .. N : after[i] = ReadRound(bytes, after[i - 1], i)
  BY <1>7, <1>8
<1> QED BY <1>6, <1>9 DEF first, N

\* What a state of the loop of readBlock holds after the first i files.
ReadTo(bytes, start, length, acc, i) ==
  LET end == Ends(Lengths(bytes))
  IN /\ acc \in [start : Nat, current : Nat, length : Nat, block : Seq(Int)]
     /\ acc.current = end[i]
     /\ Len(acc.block) = Taken(start, length, end[i])
     /\ acc.start = start + Len(acc.block)
     /\ acc.length = length - Len(acc.block)
     /\ \A j \in 1 .. i : \A k \in 1 .. Len(bytes[j]) :
          start < end[j - 1] + k /\ end[j - 1] + k <= start + Len(acc.block)
            => acc.block[end[j - 1] + k - start] = bytes[j][k]

\* `longer' is `block' and the bytes of the file from the first to the last.
Extends(longer, block, file, first, last) ==
  /\ longer \in Seq(Int)
  /\ Len(longer) = Len(block) + (last + 1 - first)
  /\ \A x \in 1 .. Len(block) : longer[x] = block[x]
  /\ \A k \in first .. last : longer[Len(block) + (k + 1 - first)] = file[k]

LEMMA ReadPart ==
  ASSUME NEW block \in Seq(Int), NEW file \in Seq(Int), NEW first \in Nat, 1 <= first,
         NEW last \in Nat, first <= last + 1, last <= Len(file)
  PROVE  Extends(block \o SubSeq(file, first, last), block, file, first, last)
<1> DEFINE part == SubSeq(file, first, last)
           n == last + 1 - first
<1>1. Len(file) \in Nat /\ Len(block) \in Nat /\ n \in Nat
  OBVIOUS
<1>2. \A k \in first .. last : file[k] \in Int
  BY <1>1
<1>3. part \in Seq(Int) /\ Len(part) = n /\ \A x \in 1 .. n : part[x] = file[first + x - 1]
  BY <1>1, <1>2, SubSeqProperties
<1> HIDE DEF part, n
<1>4. /\ block \o part \in Seq(Int)
      /\ Len(block \o part) = Len(block) + n
      /\ \A x \in 1 .. Len(block) + n :
           (block \o part)[x] = IF x <= Len(block) THEN block[x] ELSE part[x - Len(block)]
  BY <1>3, ConcatProperties
<1>5. ASSUME NEW x \in 1 .. Len(block) PROVE (block \o part)[x] = block[x]
  BY <1>1, <1>4
<1>6. ASSUME NEW k \in first .. last
      PROVE  (block \o part)[Len(block) + (k + 1 - first)] = file[k]
  <2> DEFINE x == Len(block) + (k + 1 - first)
  <2>1. /\ k + 1 - first \in 1 .. n /\ first + (k + 1 - first) - 1 = k
        /\ x \in 1 .. Len(block) + n /\ ~(x <= Len(block)) /\ x - Len(block) = k + 1 - first
    BY <1>1 DEF n
  <2> HIDE DEF x
  <2>2. (block \o part)[x] = part[k + 1 - first]
    BY <1>4, <2>1
  <2>3. part[k + 1 - first] = file[k]
    BY <1>3, <2>1
  <2> QED BY <2>2, <2>3 DEF x
<1> QED BY <1>4, <1>5, <1>6 DEF part, n, Extends

LEMMA ReadRoundFacts ==
  ASSUME NEW bytes \in Seq(Seq(Int)), NEW start \in Nat, NEW length \in Nat,
         NEW i \in 1 .. Len(bytes), NEW acc, ReadTo(bytes, start, length, acc, i - 1)
  PROVE  ReadTo(bytes, start, length, ReadRound(bytes, acc, i), i)
<1>1. SUFFICES ASSUME NEW e, e = Ends(Lengths(bytes))
               PROVE  ReadTo(bytes, start, length, ReadRound(bytes, acc, i), i)
  OBVIOUS
<1> DEFINE next == ReadRound(bytes, acc, i)
           Before(j, block) ==
             \A k \in 1 .. Len(bytes[j]) :
               start < e[j - 1] + k /\ e[j - 1] + k <= start + Len(block)
                 => block[e[j - 1] + k - start] = bytes[j][k]
           ReadThen(end) ==
             /\ next \in [start : Nat, current : Nat, length : Nat, block : Seq(Int)]
             /\ next.current = end
             /\ Len(next.block) = Taken(start, length, end)
             /\ next.start = start + Len(next.block)
             /\ next.length = length - Len(next.block)
             /\ \A j \in 1 .. i : Before(j, next.block)
<1>2. e[i - 1] \in Nat /\ Len(bytes[i]) \in Nat /\ e[i] = e[i - 1] + Len(bytes[i])
  BY EndsOfFiles, <1>1
<1>3. bytes[i] \in Seq(Int)
  BY EndsOfFiles, <1>1
<1>4. ASSUME NEW j \in 1 .. i - 1
      PROVE  /\ e[j] <= e[i - 1] /\ e[j - 1] \in Nat /\ e[j] \in Nat
             /\ e[j] = e[j - 1] + Len(bytes[j]) /\ Len(bytes[j]) \in Nat
  <2>1. Len(bytes) \in Nat
    OBVIOUS
  <2>2. j \in 1 .. Len(bytes) /\ j \in 0 .. Len(bytes) /\ i - 1 \in 0 .. Len(bytes) /\ j <= i - 1
    BY <2>1
  <2> QED BY <2>2, EndsOfFiles, <1>1
<1>5. acc \in [start : Nat, current : Nat, length : Nat, block : Seq(Int)]
  BY <1>1 DEF ReadTo
<1>6. /\ acc.current = e[i - 1] /\ Len(acc.block) = Taken(start, length, e[i - 1])
      /\ acc.start = start + Len(acc.block) /\ acc.length = length - Len(acc.block)
      /\ Len(acc.block) \in Nat
  BY <1>1 DEF ReadTo
<1>7. \A j \in 1 .. i - 1 : Before(j, acc.block)
  BY <1>1 DEF ReadTo
<1>8. SUFFICES ReadThen(e[i])
  BY <1>1 DEF ReadTo
<1>9. SUFFICES ASSUME NEW end \in Nat, end = e[i - 1],
                      NEW size \in Nat, size = Len(bytes[i]),
                      NEW done \in Nat, done = Len(acc.block),
                      NEW at \in Int, at = start + done - end,
                      NEW n \in Int, n = Least(length - done, size - at)
               PROVE  ReadThen(end + size)
  <2> HIDE DEF ReadThen
  <2> DEFINE at == start + Len(acc.block) - e[i - 1]
             n == Least(length - Len(acc.block), Len(bytes[i]) - at)
  <2>1. at \in Int /\ n \in Int
    <3>1. e[i - 1] \in Nat /\ Len(bytes[i]) \in Nat
      BY <1>2
    <3>2. Len(acc.block) \in Nat
      BY <1>6
    <3>3. at \in Int
      BY <3>1, <3>2
    <3> HIDE DEF at
    <3>4. length - Len(acc.block) \in Int /\ Len(bytes[i]) - at \in Int
      BY <3>1, <3>2, <3>3
    <3> QED BY <3>3, <3>4 DEF Least
  <2>2. ReadThen(e[i - 1] + Len(bytes[i]))
    <3> HIDE DEF at, n
    <3>1. /\ at = start + Len(acc.block) - e[i - 1]
          /\ n = Least(length - Len(acc.block), Len(bytes[i]) - at)
      BY DEF at, n
    <3> QED BY <1>2, <1>6, <1>9, <2>1, <3>1
  <2> QED BY <1>2, <2>2
<1>10. next = IF length - done > 0 /\ end + size > start + done
                THEN [start |-> start + done + n, current |-> end + size,
                      length |-> length - done - n,
                      block |-> acc.block \o SubSeq(bytes[i], at + 1, at + n)]
                ELSE [acc EXCEPT !.current = end + size]
  <2>1. /\ start + done - end = acc.start - acc.current
        /\ acc.length = length - done /\ acc.start = start + done /\ acc.current = end
    BY <1>6, <1>9
  <2> QED BY <1>9, <2>1 DEF ReadRound
<1>11. done = Taken(start, length, end)
  BY <1>6, <1>9
<1>12. at = start + done - end /\ n = Least(length - done, size - at)
  BY <1>9
<1> HIDE DEF next
<1>13. CASE length - done > 0 /\ end + size > start + done
  <2>1. /\ at \in Nat /\ n \in Nat /\ at + n <= size
        /\ done + n = Taken(start, length, end + size)
        /\ end <= start \/ end = start + done
        /\ \A k \in 1 .. size : start < end + k /\ end + k <= start + (done + n)
                                  <=> k \in at + 1 .. at + n
    BY <1>11, <1>13, <1>12 DEF Taken, Least
  <2>2. at \in Nat /\ n \in Nat /\ at + n <= size /\ (end <= start \/ end = start + done)
    BY <2>1
  <2>3. SUFFICES ASSUME NEW longer \in Seq(Int),
                        longer = acc.block \o SubSeq(bytes[i], at + 1, at + n),
                        Len(longer) = done + n,
                        \A x \in 1 .. done : longer[x] = acc.block[x],
                        \A k \in at + 1 .. at + n : longer[done + (k - at)] = bytes[i][k]
                 PROVE  ReadThen(end + size)
    <3>1. acc.block \in Seq(Int) /\ bytes[i] \in Seq(Int) /\ at + n <= Len(bytes[i])
      BY <1>3, <1>5, <1>9, <2>2
    <3> HIDE DEF ReadThen
    <3> SUFFICES ASSUME NEW l, l = acc.block \o SubSeq(bytes[i], at + 1, at + n)
                 PROVE  /\ l \in Seq(Int) /\ Len(l) = Len(acc.block) + n
                        /\ \A x \in 1 .. Len(acc.block) : l[x] = acc.block[x]
                        /\ \A k \in at + 1 .. at + n :
                             l[Len(acc.block) + (k - at)] = bytes[i][k]
      BY <1>9
    <3>2. PICK first \in Nat, last \in Nat : first = at + 1 /\ last = at + n
      BY <2>2
    <3>3. 1 <= first /\ first <= last + 1 /\ last <= Len(bytes[i]) /\ last + 1 - first = n
      BY <2>2, <3>1, <3>2
    <3>4. l = acc.block \o SubSeq(bytes[i], first, last)
      BY <3>2
    <3>5. /\ l \in Seq(Int) /\ Len(l) = Len(acc.block) + (last + 1 - first)
          /\ \A x \in 1 .. Len(acc.block) : l[x] = acc.block[x]
          /\ \A k \in first .. last : l[Len(acc.block) + (k + 1 - first)] = bytes[i][k]
      <4>1. acc.block \in Seq(Int) /\ bytes[i] \in Seq(Int) /\ last <= Len(bytes[i])
        BY <3>1, <3>3
      <4>2. Extends(l, acc.block, bytes[i], first, last)
        BY <3>3, <3>4, <4>1, ReadPart
      <4> QED BY <4>2 DEF Extends
    <3>6. ASSUME NEW k \in at + 1 .. at + n
          PROVE  l[Len(acc.block) + (k - at)] = bytes[i][k]
      <4>1. k \in first .. last /\ k + 1 - first = k - at
        BY <2>2, <3>2
      <4> QED BY <3>5, <4>1
    <3> QED BY <3>3, <3>5, <3>6
  <2>4. next = [start |-> start + done + n, current |-> end + size,
                length |-> length - done - n, block |-> longer]
    BY <1>10, <1>13, <2>3
  <2>5. ASSUME NEW j \in 1 .. i, NEW k \in 1 .. Len(bytes[j]),
               start < e[j - 1] + k, e[j - 1] + k <= start + (done + n)
        PROVE  longer[e[j - 1] + k - start] = bytes[j][k]
    <3>1. CASE j = i
      <4>1. k \in 1 .. size /\ start < end + k /\ end + k <= start + (done + n)
        BY <1>9, <2>5, <3>1
      <4>2. k \in at + 1 .. at + n
        BY <2>1, <4>1
      <4>3. end + k - start = done + (k - at)
        BY <1>12, <4>1
      <4>4. longer[end + k - start] = bytes[i][k]
        BY <2>3, <4>2, <4>3
      <4> QED BY <1>9, <3>1, <4>4
    <3>2. CASE j # i
      <4>1. j \in 1 .. i - 1
        BY <3>2
      <4>2. e[j - 1] \in Nat /\ Len(bytes[j]) \in Nat /\ e[j - 1] + Len(bytes[j]) <= end
        BY <1>4, <1>9, <4>1
      <4>3. /\ e[j - 1] + k <= start + done
            /\ e[j - 1] + k - start \in 1 .. done
        <5>1. PICK from \in Nat, length_j \in Nat : from = e[j - 1] /\ length_j = Len(bytes[j])
          BY <4>2
        <5>2. from + length_j <= end /\ k <= length_j /\ start < from + k /\ k \in Nat
          BY <2>5, <4>2, <5>1
        <5>3. from + k <= start + done /\ from + k - start \in 1 .. done
          BY <2>2, <5>2
        <5> QED BY <5>1, <5>3
      <4>4. /\ e[j - 1] + k <= start + Len(acc.block)
            /\ e[j - 1] + k - start \in 1 .. done
        BY <1>9, <4>3
      <4>5. acc.block[e[j - 1] + k - start] = bytes[j][k]
        BY <1>7, <2>5, <4>1, <4>4
      <4> QED BY <2>3, <4>4, <4>5
    <3> QED BY <3>1, <3>2
  <2>6. /\ start + done + n \in Nat /\ end + size \in Nat /\ length - done - n \in Nat
        /\ start + done + n = start + (done + n) /\ length - done - n = length - (done + n)
    <3>1. n <= length - done
      BY <1>9, <2>2 DEF Least
    <3> QED BY <1>13, <2>2, <3>1
  <2>7. next \in [start : Nat, current : Nat, length : Nat, block : Seq(Int)]
    BY <2>4, <2>6
  <2>8. /\ next.current = end + size /\ next.block = longer /\ next.start = start + (done + n)
        /\ next.length = length - (done + n)
    BY <2>4, <2>6
  <2> QED BY <2>1, <2>3, <2>5, <2>7, <2>8
<1>14. CASE ~(length - done > 0 /\ end + size > start + done)
  <2>1. /\ done = Taken(start, length, end + size)
        /\ \A k \in 1 .. size : ~(start < end + k /\ end + k <= start + done)
    BY <1>11, <1>14 DEF Taken, Least
  <2>2. next = [acc EXCEPT !.current = end + size]
    BY <1>10, <1>14, Zenon
  <2>3. end + size \in Nat
    OBVIOUS
  <2>4. /\ next \in [start : Nat, current : Nat, length : Nat, block : Seq(Int)]
        /\ next.current = end + size /\ next.block = acc.block
        /\ next.start = acc.start /\ next.length = acc.length
    BY <1>5, <2>2, <2>3
  <2>5. ASSUME NEW j \in 1 .. i PROVE Before(j, acc.block)
    <3>1. CASE j = i
      BY <1>9, <2>1, <3>1
    <3>2. CASE j # i
      <4>1. j \in 1 .. i - 1
        BY <3>2
      <4> HIDE DEF Before
      <4> QED BY <1>7, <4>1
    <3> QED BY <3>1, <3>2
  <2>6. \A j \in 1 .. i : Before(j, next.block)
    BY <2>4, <2>5
  <2> HIDE DEF Before
  <2> QED BY <1>6, <1>9, <2>1, <2>4, <2>6
<1> QED BY <1>13, <1>14

\* What readBlock returns: the bytes from start that the files have, at most length.
IsRead(bytes, start, length, block) ==
  LET end == Ends(Lengths(bytes))
  IN /\ block \in Seq(Int)
     /\ Len(block) = Taken(start, length, SumOf(Lengths(bytes)))
     /\ \A j \in 1 .. Len(bytes) : \A k \in 1 .. Len(bytes[j]) :
          start < end[j - 1] + k /\ end[j - 1] + k <= start + Len(block)
            => block[end[j - 1] + k - start] = bytes[j][k]

\* readBlock returns the bytes at its place, whatever the bounds of the files.
THEOREM ReadIsExact ==
  ASSUME NEW bytes \in Seq(Seq(Int)), NEW start \in Nat, NEW length \in Nat
  PROVE  IsRead(bytes, start, length, BytesRead(bytes, start, length))
<1> DEFINE N == Len(bytes)
<1>1. N \in Nat /\ Len(Lengths(bytes)) = N
  BY LengthsFacts
<1>2. PICK after :
        /\ after[0] = [start |-> start, current |-> 0, length |-> length, block |-> <<>>]
        /\ \A i \in 1 .. N : after[i] = ReadRound(bytes, after[i - 1], i)
        /\ BytesRead(bytes, start, length) = after[N].block
  BY ReadRounds
<1> DEFINE Read == {i \in 0 .. N : ReadTo(bytes, start, length, after[i], i)}
<1>3. 0 \in Read
  <2>1. Ends(Lengths(bytes))[0] = 0
    BY EndsOfFiles
  <2>2. Taken(start, length, 0) = 0
    BY DEF Taken
  <2>3. /\ after[0] \in [start : Nat, current : Nat, length : Nat, block : Seq(Int)]
        /\ after[0].current = 0 /\ after[0].start = start /\ after[0].length = length
        /\ after[0].block = <<>>
    BY <1>2
  <2>4. Len(after[0].block) = 0
    BY <2>3
  <2>5. start = start + 0 /\ length = length - 0
    OBVIOUS
  <2>6. ReadTo(bytes, start, length, after[0], 0)
    BY <2>1, <2>2, <2>3, <2>4, <2>5 DEF ReadTo
  <2> QED BY <1>1, <2>6
<1>4. ASSUME NEW i \in 1 .. N, i - 1 \in Read PROVE i \in Read
  <2>1. ReadTo(bytes, start, length, after[i - 1], i - 1)
    BY <1>4
  <2>2. ReadTo(bytes, start, length, ReadRound(bytes, after[i - 1], i), i)
    BY <2>1, ReadRoundFacts
  <2>3. i \in 0 .. N
    BY <1>1
  <2> QED BY <1>2, <2>2, <2>3
<1>5. N \in Read
  <2> HIDE DEF Read, N
  <2>1. N \in 0 .. N
    BY <1>1
  <2> QED BY <1>1, <1>3, <1>4, <2>1, FileInduction
<1>6. ReadTo(bytes, start, length, after[N], N)
  BY <1>5
<1> QED BY <1>1, <1>2, <1>6 DEF ReadTo, IsRead, SumOf

-----------------------------------------------------------------------------
(* Writing *)

LEMMA WriteRounds ==
  ASSUME NEW bytes \in Seq(Seq(Int)), NEW start, NEW data
  PROVE  \E after :
           /\ after[0] = [start |-> start, current |-> 0, rest |-> Len(data), data |-> data,
                          files |-> bytes]
           /\ \A i \in 1 .. Len(bytes) : after[i] = WriteRound(after[i - 1], i)
           /\ BytesWritten(bytes, start, data) = after[Len(bytes)].files
<1> DEFINE N == Len(bytes)
           first == [start |-> start, current |-> 0, rest |-> Len(data), data |-> data,
                     files |-> bytes]
           Rec(f, n) == f = [i \in 0 .. n |-> IF i = 0 THEN first ELSE WriteRound(f[i - 1], i)]
           Defined == {n \in Nat : \E f : Rec(f, n)}
<1>1. N \in Nat
  OBVIOUS
<1>2. 0 \in Defined
  <2> HIDE DEF first
  <2>1. Rec([i \in 0 .. 0 |-> first], 0)
    OBVIOUS
  <2> QED BY <2>1
<1>3. ASSUME NEW n \in 1 .. N, n - 1 \in Defined PROVE n \in Defined
  <2> HIDE DEF first
  <2>1. PICK f : Rec(f, n - 1)
    BY <1>3
  <2> DEFINE g == [i \in 0 .. n |-> IF i = n THEN WriteRound(f[n - 1], n) ELSE f[i]]
  <2>2. \A i \in 0 .. n : g[i] = IF i = 0 THEN first ELSE WriteRound(g[i - 1], i)
    BY <2>1, <1>1
  <2>3. g = [i \in 0 .. n |-> g[i]]
    OBVIOUS
  <2> HIDE DEF g
  <2>4. Rec(g, n)
    BY <2>2, <2>3
  <2>5. n \in Nat
    BY <1>1
  <2> HIDE DEF Rec
  <2> QED BY <2>4, <2>5
<1>4. N \in Defined
  <2> HIDE DEF Defined, N
  <2>1. N \in 0 .. N
    BY <1>1
  <2> QED BY <1>1, <1>2, <1>3, <2>1, FileInduction
<1> DEFINE after == CHOOSE f : Rec(f, N)
<1>5. Rec(after, N)
  <2> HIDE DEF Rec
  <2> QED BY <1>4
<1>6. BytesWritten(bytes, start, data) = after[N].files
  BY DEF BytesWritten
<1> HIDE DEF after, first
<1>7. \A i \in 0 .. N : after[i] = IF i = 0 THEN first ELSE WriteRound(after[i - 1], i)
  BY <1>5
<1>8. 0 \in 0 .. N /\ \A i \in 1 .. N : i \in 0 .. N /\ i # 0
  BY <1>1
<1> HIDE DEF N
<1>9. after[0] = first /\ \A i \in 1 .. N : after[i] = WriteRound(after[i - 1], i)
  BY <1>7, <1>8
<1> QED BY <1>6, <1>9 DEF first, N

\* Byte k of file j after data was written at start.
ByteWritten(bytes, start, data, j, k) ==
  LET place == Ends(Lengths(bytes))[j - 1] + k
  IN IF start < place /\ place <= start + Len(data) THEN data[place - start] ELSE bytes[j][k]

\* The files after the data of the first i of them was written.
WrittenTo(bytes, start, data, i) ==
  [j \in 1 .. Len(bytes) |->
     IF j <= i THEN [k \in 1 .. Len(bytes[j]) |-> ByteWritten(bytes, start, data, j, k)]
               ELSE bytes[j]]

\* What a state of the loop of writeBlock holds after the first i files.
WriteTo(bytes, start, data, acc, i) ==
  LET end == Ends(Lengths(bytes))
      done == Taken(start, Len(data), end[i])
  IN acc = [start |-> start + done, current |-> end[i], rest |-> Len(data) - done,
            data |-> data, files |-> WrittenTo(bytes, start, data, i)]

LEMMA WriteRoundFacts ==
  ASSUME NEW bytes \in Seq(Seq(Int)), NEW start \in Nat, NEW data \in Seq(Int),
         NEW i \in 1 .. Len(bytes), NEW acc, WriteTo(bytes, start, data, acc, i - 1)
  PROVE  WriteTo(bytes, start, data, WriteRound(acc, i), i)
<1>1. SUFFICES ASSUME NEW e, e = Ends(Lengths(bytes))
               PROVE  WriteTo(bytes, start, data, WriteRound(acc, i), i)
  OBVIOUS
<1>2. e[i - 1] \in Nat /\ Len(bytes[i]) \in Nat /\ e[i] = e[i - 1] + Len(bytes[i])
  BY <1>1, EndsOfFiles
<1>3. SUFFICES ASSUME NEW end \in Nat, end = e[i - 1],
                      NEW size \in Nat, size = Len(bytes[i]),
                      NEW length \in Nat, length = Len(data),
                      NEW done \in Nat, done = Taken(start, length, end),
                      NEW at \in Int, at = start + done - end,
                      NEW n \in Int, n = Least(length - done, size - at)
               PROVE  WriteTo(bytes, start, data, WriteRound(acc, i), i)
  <2>1. PICK end \in Nat, size \in Nat, length \in Nat :
          end = e[i - 1] /\ size = Len(bytes[i]) /\ length = Len(data)
    BY <1>2
  <2>2. PICK done \in Nat : done = Taken(start, length, end)
    <3>1. Taken(start, length, end) \in Nat
      BY DEF Taken, Least
    <3> QED BY <3>1
  <2>3. PICK at \in Int : at = start + done - end
    OBVIOUS
  <2>4. PICK n \in Int : n = Least(length - done, size - at)
    <3>1. Least(length - done, size - at) \in Int
      BY DEF Least
    <3> QED BY <3>1
  <2> QED BY <1>3, <2>1, <2>2, <2>3, <2>4
<1>4. done = Taken(start, length, end)
  BY <1>3
<1>5. at = start + done - end /\ n = Least(length - done, size - at)
  BY <1>3
<1>6. e[i] = end + size
  BY <1>2, <1>3
<1> DEFINE before == WrittenTo(bytes, start, data, i - 1)
           after == WrittenTo(bytes, start, data, i)
           then == Taken(start, length, end + size)
<1>7. acc = [start |-> start + done, current |-> end, rest |-> length - done,
             data |-> data, files |-> before]
  BY <1>1, <1>3 DEF WriteTo
<1>8. SUFFICES WriteRound(acc, i) = [start |-> start + then, current |-> end + size,
                                     rest |-> length - then, data |-> data, files |-> after]
  BY <1>1, <1>3, <1>6 DEF WriteTo
<1>9. before[i] = bytes[i] /\ DOMAIN bytes[i] = 1 .. size
  <2>1. ~(i <= i - 1)
    OBVIOUS
  <2>2. DOMAIN bytes[i] = 1 .. Len(bytes[i])
    BY LengthsFacts
  <2> QED BY <1>3, <2>1, <2>2 DEF WrittenTo
<1>10. ASSUME NEW file, file = [k \in 1 .. size |-> ByteWritten(bytes, start, data, i, k)]
       PROVE  after = [before EXCEPT ![i] = file]
  <2>1. Len(bytes) \in Nat
    OBVIOUS
  <2>2. ASSUME NEW j \in 1 .. Len(bytes) PROVE after[j] = IF j = i THEN file ELSE before[j]
    <3>1. CASE j = i
      <4>1. j <= i
        BY <3>1
      <4> QED BY <1>3, <1>10, <3>1, <4>1 DEF WrittenTo
    <3>2. CASE j # i
      <4>1. j <= i <=> j <= i - 1
        BY <2>1, <3>2
      <4> QED BY <3>2, <4>1 DEF WrittenTo
    <3> QED BY <3>1, <3>2
  <2>3. after = [j \in 1 .. Len(bytes) |-> after[j]]
    BY DEF WrittenTo
  <2>4. DOMAIN before = 1 .. Len(bytes) /\ before = [j \in 1 .. Len(bytes) |-> before[j]]
    BY DEF WrittenTo
  <2> HIDE DEF after, before
  <2> QED BY <2>2, <2>3, <2>4
<1>11. \A k \in 1 .. size :
         ByteWritten(bytes, start, data, i, k)
           = IF start < end + k /\ end + k <= start + length THEN data[end + k - start]
                                                              ELSE bytes[i][k]
  <2>1. end = Ends(Lengths(bytes))[i - 1] /\ length = Len(data)
    BY <1>1, <1>3
  <2>2. TAKE k \in 1 .. size
  <2>3. PICK place : place = end + k
    OBVIOUS
  <2>4. place = Ends(Lengths(bytes))[i - 1] + k
    BY <2>1, <2>3
  <2>5. ByteWritten(bytes, start, data, i, k)
          = IF start < place /\ place <= start + length THEN data[place - start]
                                                        ELSE bytes[i][k]
    BY <2>1, <2>4, Zenon DEF ByteWritten
  <2> QED BY <2>3, <2>5
<1> HIDE DEF before, after, then
<1>12. /\ acc.start = start + done /\ acc.current = end /\ acc.rest = length - done
       /\ acc.data = data /\ acc.files = before
  BY <1>7
<1>13. WriteRound(acc, i)
         = IF length - done > 0 /\ end + size > start + done
             THEN [acc EXCEPT !.start = @ + n, !.current = @ + size, !.rest = @ - n,
                              !.files[i] = [k \in 1 .. size |->
                                              IF k \in at + 1 .. at + n
                                                THEN data[done + k - at] ELSE bytes[i][k]]]
             ELSE [acc EXCEPT !.current = @ + size]
  <2>1. size = Len(bytes[i]) /\ length = Len(data)
    BY <1>3
  <2>2. Len(acc.files[i]) = size /\ DOMAIN acc.files[i] = 1 .. size /\ acc.files[i] = bytes[i]
    BY <1>9, <1>12, <2>1
  <2>3. acc.start - acc.current = at
    BY <1>5, <1>12
  <2>4. Len(acc.data) - acc.rest = done
    <3>1. length - (length - done) = done
      OBVIOUS
    <3> QED BY <1>12, <2>1, <3>1
  <2>5. n = Least(length - done, size - at)
    BY <1>5
  <2> QED BY <1>12, <2>2, <2>3, <2>4, <2>5 DEF WriteRound
<1>14. CASE length - done > 0 /\ end + size > start + done
  <2>1. /\ at \in Nat /\ n \in Nat /\ at + n <= size
        /\ done + n = Taken(start, length, end + size)
        /\ \A k \in 1 .. size : start < end + k /\ end + k <= start + length
                                  <=> k \in at + 1 .. at + n
    BY <1>4, <1>5, <1>14 DEF Taken, Least
  <2> DEFINE file == [k \in 1 .. size |-> IF k \in at + 1 .. at + n
                                           THEN data[done + k - at] ELSE bytes[i][k]]
  <2>2. file = [k \in 1 .. size |-> ByteWritten(bytes, start, data, i, k)]
    <3>1. ASSUME NEW k \in 1 .. size PROVE file[k] = ByteWritten(bytes, start, data, i, k)
      <4>1. end + k - start = done + k - at
        BY <1>5
      <4> QED BY <1>11, <2>1, <4>1
    <3>2. file = [k \in 1 .. size |-> file[k]]
      OBVIOUS
    <3> HIDE DEF file
    <3> QED BY <3>1, <3>2
  <2>3. after = [before EXCEPT ![i] = file]
    <3> HIDE DEF file
    <3> QED BY <1>10, <2>2
  <2>4. WriteRound(acc, i) = [start |-> start + done + n, current |-> end + size,
                              rest |-> length - done - n, data |-> data,
                              files |-> [before EXCEPT ![i] = file]]
    <3>1. WriteRound(acc, i) = [acc EXCEPT !.start = @ + n, !.current = @ + size,
                                           !.rest = @ - n, !.files[i] = file]
      BY <1>14, <1>13
    <3> HIDE DEF file
    <3> QED BY <1>7, <3>1
  <2>5. start + done + n = start + then /\ length - done - n = length - then
    BY <2>1 DEF then
  <2> HIDE DEF file
  <2> QED BY <2>3, <2>4, <2>5
<1>15. CASE ~(length - done > 0 /\ end + size > start + done)
  <2>1. /\ done = Taken(start, length, end + size)
        /\ \A k \in 1 .. size : ~(start < end + k /\ end + k <= start + length)
    BY <1>4, <1>15 DEF Taken, Least
  <2>2. bytes[i] = [k \in 1 .. size |-> ByteWritten(bytes, start, data, i, k)]
    <3>1. ASSUME NEW k \in 1 .. size PROVE bytes[i][k] = ByteWritten(bytes, start, data, i, k)
      BY <1>11, <2>1
    <3>2. bytes[i] = [k \in 1 .. size |-> bytes[i][k]]
      <4>1. bytes[i] \in Seq(Int)
        BY LengthsFacts
      <4> QED BY <1>9, <4>1
    <3> QED BY <3>1, <3>2
  <2>3. after = [before EXCEPT ![i] = bytes[i]]
    BY <1>10, <2>2
  <2>4. after = before
    <3>1. before = [j \in 1 .. Len(bytes) |-> before[j]]
      BY DEF before, WrittenTo
    <3> QED BY <1>9, <2>3, <3>1
  <2>5. WriteRound(acc, i) = [start |-> start + done, current |-> end + size,
                              rest |-> length - done, data |-> data, files |-> before]
    <3>1. WriteRound(acc, i) = [acc EXCEPT !.current = @ + size]
      BY <1>15, <1>13
    <3> QED BY <1>7, <3>1
  <2> QED BY <2>1, <2>4, <2>5 DEF then
<1> QED BY <1>14, <1>15

\* writeBlock puts the data at its place, whatever the bounds of the files, and leaves the
\* other bytes and the lengths of the files alone.
THEOREM WriteIsExact ==
  ASSUME NEW bytes \in Seq(Seq(Int)), NEW start \in Nat, NEW data \in Seq(Int)
  PROVE  BytesWritten(bytes, start, data)
           = [j \in 1 .. Len(bytes) |->
                [k \in 1 .. Len(bytes[j]) |-> ByteWritten(bytes, start, data, j, k)]]
<1> DEFINE N == Len(bytes)
<1>1. N \in Nat
  OBVIOUS
<1>2. PICK after :
        /\ after[0] = [start |-> start, current |-> 0, rest |-> Len(data), data |-> data,
                       files |-> bytes]
        /\ \A i \in 1 .. N : after[i] = WriteRound(after[i - 1], i)
        /\ BytesWritten(bytes, start, data) = after[N].files
  BY WriteRounds
<1> DEFINE Written == {i \in 0 .. N : WriteTo(bytes, start, data, after[i], i)}
<1>3. 0 \in Written
  <2>1. Ends(Lengths(bytes))[0] = 0
    BY EndsOfFiles
  <2>2. Taken(start, Len(data), 0) = 0
    BY DEF Taken
  <2>3. WrittenTo(bytes, start, data, 0) = bytes
    <3>1. \A j \in 1 .. Len(bytes) : ~(j <= 0)
      OBVIOUS
    <3>2. bytes = [j \in 1 .. Len(bytes) |-> bytes[j]]
      OBVIOUS
    <3> QED BY <3>1, <3>2 DEF WrittenTo
  <2>4. start + 0 = start /\ Len(data) - 0 = Len(data)
    OBVIOUS
  <2>5. WriteTo(bytes, start, data, after[0], 0)
    BY <1>2, <2>1, <2>2, <2>3, <2>4 DEF WriteTo
  <2> QED BY <1>1, <2>5
<1>4. ASSUME NEW i \in 1 .. N, i - 1 \in Written PROVE i \in Written
  <2>1. WriteTo(bytes, start, data, after[i - 1], i - 1)
    BY <1>4
  <2>2. WriteTo(bytes, start, data, WriteRound(after[i - 1], i), i)
    BY <2>1, WriteRoundFacts
  <2>3. i \in 0 .. N
    BY <1>1
  <2> QED BY <1>2, <2>2, <2>3
<1>5. N \in Written
  <2> HIDE DEF Written, N
  <2>1. N \in 0 .. N
    BY <1>1
  <2> QED BY <1>1, <1>3, <1>4, <2>1, FileInduction
<1>6. WriteTo(bytes, start, data, after[N], N)
  BY <1>5
<1>7. BytesWritten(bytes, start, data) = WrittenTo(bytes, start, data, N)
  BY <1>2, <1>6 DEF WriteTo
<1>8. \A j \in 1 .. N : j <= N
  BY <1>1
<1> QED BY <1>7, <1>8 DEF WrittenTo

LEMMA WrittenFacts ==
  ASSUME NEW bytes \in Seq(Seq(Int)), NEW start \in Nat, NEW data \in Seq(Int),
         NEW written, written = BytesWritten(bytes, start, data)
  PROVE  /\ written \in Seq(Seq(Int))
         /\ Len(written) = Len(bytes)
         /\ Lengths(written) = Lengths(bytes)
         /\ \A j \in 1 .. Len(bytes) : \A k \in 1 .. Len(bytes[j]) :
              written[j][k] = ByteWritten(bytes, start, data, j, k)
<1>1. /\ DOMAIN bytes = 1 .. Len(bytes) /\ Len(bytes) \in Nat
      /\ \A j \in 1 .. Len(bytes) : /\ bytes[j] \in Seq(Int) /\ Len(bytes[j]) \in Nat
                                    /\ DOMAIN bytes[j] = 1 .. Len(bytes[j])
  BY LengthsFacts
<1>2. written = [j \in 1 .. Len(bytes) |->
                   [k \in 1 .. Len(bytes[j]) |-> ByteWritten(bytes, start, data, j, k)]]
  BY WriteIsExact
<1>3. ASSUME NEW j \in 1 .. Len(bytes), NEW k \in 1 .. Len(bytes[j])
      PROVE  ByteWritten(bytes, start, data, j, k) \in Int
  <2>1. PICK place \in Int : place = Ends(Lengths(bytes))[j - 1] + k
    <3>1. Ends(Lengths(bytes))[j - 1] \in Nat /\ k \in Nat
      BY EndsOfFiles
    <3> QED BY <3>1
  <2>2. ByteWritten(bytes, start, data, j, k)
          = IF start < place /\ place <= start + Len(data) THEN data[place - start] ELSE bytes[j][k]
    BY <2>1, Zenon DEF ByteWritten
  <2>3. bytes[j][k] \in Int
    BY <1>1
  <2>4. start < place /\ place <= start + Len(data) => data[place - start] \in Int
    <3>1. start < place /\ place <= start + Len(data) => place - start \in 1 .. Len(data)
      OBVIOUS
    <3> QED BY <3>1
  <2> QED BY <2>2, <2>3, <2>4
<1>4. ASSUME NEW j \in 1 .. Len(bytes)
      PROVE  /\ written[j] \in Seq(Int)
             /\ Len(written[j]) = Len(bytes[j])
             /\ \A k \in 1 .. Len(bytes[j]) :
                  written[j][k] = ByteWritten(bytes, start, data, j, k)
  <2>1. PICK size \in Nat : size = Len(bytes[j])
    BY <1>1
  <2>2. written[j] = [k \in 1 .. size |-> ByteWritten(bytes, start, data, j, k)]
    BY <1>2, <2>1
  <2>3. \A k \in 1 .. size : ByteWritten(bytes, start, data, j, k) \in Int
    BY <1>3, <2>1
  <2>4. written[j] \in Seq(Int) /\ Len(written[j]) = size
    BY <2>2, <2>3
  <2> QED BY <2>1, <2>2, <2>4
<1>5. written \in Seq(Seq(Int)) /\ Len(written) = Len(bytes)
  <2>1. written = [j \in 1 .. Len(bytes) |-> written[j]]
    BY <1>2
  <2> QED BY <1>1, <1>4, <2>1
<1>6. Lengths(written) = Lengths(bytes)
  <2>1. DOMAIN written = DOMAIN bytes
    BY <1>1, <1>2
  <2>2. \A j \in DOMAIN bytes : Len(written[j]) = Len(bytes[j])
    BY <1>1, <1>4
  <2> QED BY <2>1, <2>2 DEF Lengths
<1> QED BY <1>4, <1>5, <1>6

\* What writeBlock wrote inside the torrent, readBlock gives back, over the bounds of as many
\* files as there are.
THEOREM ReadAfterWrite ==
  ASSUME NEW bytes \in Seq(Seq(Int)), NEW start \in Nat, NEW data \in Seq(Int),
         start + Len(data) <= SumOf(Lengths(bytes))
  PROVE  BytesRead(BytesWritten(bytes, start, data), start, Len(data)) = data
<1>1. PICK written \in Seq(Seq(Int)) :
        /\ written = BytesWritten(bytes, start, data)
        /\ Len(written) = Len(bytes) /\ Lengths(written) = Lengths(bytes)
        /\ \A j \in 1 .. Len(bytes) : \A k \in 1 .. Len(bytes[j]) :
             written[j][k] = ByteWritten(bytes, start, data, j, k)
  <2>1. PICK w : w = BytesWritten(bytes, start, data)
    OBVIOUS
  <2>2. /\ w \in Seq(Seq(Int)) /\ Len(w) = Len(bytes) /\ Lengths(w) = Lengths(bytes)
        /\ \A j \in 1 .. Len(bytes) : \A k \in 1 .. Len(bytes[j]) :
             w[j][k] = ByteWritten(bytes, start, data, j, k)
    BY <2>1, WrittenFacts
  <2> QED BY <2>1, <2>2, Zenon
<1>2. PICK n \in Nat, total \in Nat :
        n = Len(data) /\ total = SumOf(Lengths(bytes)) /\ start + n <= total
  <2>1. PICK lengths \in Seq(Nat) : lengths = Lengths(bytes)
    BY LengthsFacts
  <2>2. Len(lengths) \in 0 .. Len(lengths)
    OBVIOUS
  <2>3. SumOf(Lengths(bytes)) \in Nat
    BY <2>1, <2>2, EndsInOrder DEF SumOf
  <2> QED BY <2>3
<1>3. PICK block : block = BytesRead(written, start, n)
  OBVIOUS
<1>4. IsRead(written, start, n, block)
  BY <1>3, ReadIsExact
<1>5. block \in Seq(Int) /\ Len(block) = n
  <2>1. Taken(start, n, total) = n
    BY <1>2 DEF Taken, Least
  <2> QED BY <1>1, <1>2, <1>4, <2>1 DEF IsRead
<1>6. ASSUME NEW x \in 1 .. n PROVE block[x] = data[x]
  <2>1. PICK place \in 1 .. SumOf(Lengths(bytes)) : place = start + x
    <3>1. start + x \in 1 .. total
      BY <1>2
    <3> QED BY <1>2, <3>1
  <2>2. Lengths(bytes) \in Seq(Nat)
    BY LengthsFacts
  <2>3. PICK j \in 1 .. Len(Lengths(bytes)) : \E k \in 1 .. Lengths(bytes)[j] :
          place = Ends(Lengths(bytes))[j - 1] + k
    BY <2>2, EveryByteHasAPlace
  <2>4. PICK k \in 1 .. Lengths(bytes)[j] : place = Ends(Lengths(bytes))[j - 1] + k
    BY <2>3
  <2>5. j \in 1 .. Len(bytes) /\ k \in 1 .. Len(bytes[j]) /\ k \in 1 .. Len(written[j])
    <3>1. j \in 1 .. Len(bytes)
      BY LengthsFacts
    <3>2. Lengths(bytes)[j] = Len(bytes[j]) /\ Lengths(written)[j] = Len(written[j])
      BY <1>1, LengthsFacts
    <3> QED BY <1>1, <3>1, <3>2
  <2>6. PICK e \in Nat : e = Ends(Lengths(bytes))[j - 1] /\ e + k = start + x
    BY <2>1, <2>4, <2>5, EndsOfFiles
  <2>7. start < e + k /\ e + k <= start + n /\ e + k - start = x
    <3>1. e + k = start + x
      BY <2>6
    <3>2. k \in Nat /\ x \in Nat /\ 1 <= x /\ x <= n
      BY <2>5
    <3> QED BY <3>1, <3>2
  <2>8. written[j][k] = data[x]
    <3>1. written[j][k] = ByteWritten(bytes, start, data, j, k)
      BY <1>1, <2>5
    <3>2. place = e + k /\ n = Len(data)
      BY <1>2, <2>1, <2>6
    <3>3. ByteWritten(bytes, start, data, j, k)
            = IF start < place /\ place <= start + Len(data) THEN data[place - start]
                                                            ELSE bytes[j][k]
      BY <2>4, Zenon DEF ByteWritten
    <3>4. start < place /\ place <= start + Len(data) /\ place - start = x
      BY <2>7, <3>2
    <3> QED BY <3>1, <3>3, <3>4
  <2>9. block[x] = written[j][k]
    <3>1. \A f \in 1 .. Len(written) : \A l \in 1 .. Len(written[f]) :
            start < Ends(Lengths(written))[f - 1] + l
              /\ Ends(Lengths(written))[f - 1] + l <= start + Len(block)
              => block[Ends(Lengths(written))[f - 1] + l - start] = written[f][l]
      BY <1>4, Zenon DEF IsRead
    <3>2. start < e + k /\ e + k <= start + n => block[e + k - start] = written[j][k]
      BY <1>1, <1>5, <2>5, <2>6, <3>1, Zenon
    <3> QED BY <2>7, <3>2
  <2> QED BY <2>8, <2>9
<1>7. block = data
  BY <1>2, <1>5, <1>6, SeqEqual
<1> QED BY <1>1, <1>2, <1>3, <1>7

-----------------------------------------------------------------------------
(* Pieces and blocks *)

LEMMA Product ==
  ASSUME NEW a \in Nat, NEW b \in Nat, NEW c \in Nat
  PROVE  /\ a * c \in Nat
         /\ a < b => a * c + c <= b * c
         /\ a <= b => a * c <= b * c
<1>1. ASSUME NEW x \in Nat, NEW y \in Nat PROVE x * y \in Nat
  OBVIOUS
<1>2. ASSUME a < b PROVE a * c + c <= b * c
  <2>1. PICK d \in Nat : b = a + 1 + d
    <3>1. b - a - 1 \in Nat /\ b = a + 1 + (b - a - 1)
      BY <1>2
    <3> QED BY <3>1
  <2>2. b * c = a * c + c + d * c
    BY <2>1
  <2>3. d * c \in Nat /\ a * c \in Nat
    BY <1>1
  <2> QED BY <2>2, <2>3
<1>3. ASSUME a <= b PROVE a * c <= b * c
  BY <1>1, <1>2, <1>3
<1> QED BY <1>1, <1>2, <1>3

LEMMA Division ==
  ASSUME NEW a \in Nat, NEW b \in Nat \ {0}
  PROVE  /\ a \div b \in Nat
         /\ a % b \in 0 .. b - 1
         /\ a = (a \div b) * b + (a % b)
<1>1. a \div b \in Nat
  OBVIOUS
<1>2. a % b \in 0 .. b - 1
  OBVIOUS
<1>3. a = (a \div b) * b + (a % b)
  OBVIOUS
<1> QED BY <1>1, <1>2, <1>3

\* A number has one quotient and one remainder.
LEMMA OneRemainder ==
  ASSUME NEW b \in Nat \ {0}, NEW m \in Nat, NEW n \in Nat, NEW r \in 0 .. b - 1,
         NEW s \in 0 .. b - 1, m * b + r = n * b + s
  PROVE  m = n /\ r = s
<1>1. m * b \in Nat /\ n * b \in Nat
  BY Product
<1>2. ~(m < n)
  <2>1. m < n => m * b + b <= n * b
    BY Product
  <2> QED BY <1>1, <2>1
<1>3. ~(n < m)
  <2>1. n < m => n * b + b <= m * b
    BY Product
  <2> QED BY <1>1, <2>1
<1>4. m = n
  BY <1>2, <1>3
<1> QED BY <1>1, <1>4

\* A length cut into blocks, the last of them shorter when they do not divide it: the blocks
\* lie in the length, one after the other, and cover it.
LEMMA BlocksOfLength ==
  ASSUME NEW length \in Nat
  PROVE  /\ Count(length) \in Nat
         /\ length = 0 => Count(length) = 0
         /\ \A i \in 0 .. Count(length) - 1 :
              Bytes(length, i) \in 1 .. BlockSize /\ i * BlockSize + Bytes(length, i) <= length
         /\ \A o \in 1 .. length : \E i \in 0 .. Count(length) - 1 :
              i * BlockSize < o /\ o <= i * BlockSize + Bytes(length, i)
<1>1. SUFFICES ASSUME NEW size \in Nat \ {0}, size = BlockSize,
                      NEW q \in Nat, q = length \div size,
                      NEW r \in 0 .. size - 1, r = length % size
               PROVE  /\ Count(length) \in Nat
                      /\ length = 0 => Count(length) = 0
                      /\ \A i \in 0 .. Count(length) - 1 : /\ Bytes(length, i) \in 1 .. size
                                                           /\ i * size + Bytes(length, i) <= length
                      /\ \A o \in 1 .. length : \E i \in 0 .. Count(length) - 1 :
                           i * size < o /\ o <= i * size + Bytes(length, i)
  BY BlockAssumption, Division
<1>2. length = q * size + r /\ q * size \in Nat
  BY <1>1, Division, Product
<1>3. SUFFICES ASSUME NEW count \in Nat, count = Count(length),
                      count = q + (IF r # 0 THEN 1 ELSE 0),
                      \A i : Bytes(length, i) = IF r # 0 /\ i = count - 1 THEN r ELSE size
               PROVE  /\ length = 0 => count = 0
                      /\ \A i \in 0 .. count - 1 : /\ Bytes(length, i) \in 1 .. size
                                                   /\ i * size + Bytes(length, i) <= length
                      /\ \A o \in 1 .. length : \E i \in 0 .. count - 1 :
                           i * size < o /\ o <= i * size + Bytes(length, i)
  <2>1. Count(length) = q + (IF r # 0 THEN 1 ELSE 0)
    BY <1>1 DEF Count
  <2>2. Count(length) \in Nat
    BY <2>1
  <2>3. \A i : Bytes(length, i) = IF r # 0 /\ i = Count(length) - 1 THEN r ELSE size
    BY <1>1, Zenon DEF Bytes
  <2> QED BY <1>3, <2>1, <2>2, <2>3
<1>4. length = 0 => count = 0
  <2>1. ASSUME length = 0 PROVE r = 0 /\ q * size = 0
    BY <1>2, <2>1
  <2>2. q > 0 => 0 * size + size <= q * size
    BY Product
  <2>3. length = 0 => q = 0 /\ r = 0
    BY <2>1, <2>2
  <2> QED BY <1>3, <2>3
<1>5. ASSUME NEW i \in 0 .. count - 1
      PROVE  Bytes(length, i) \in 1 .. size /\ i * size + Bytes(length, i) <= length
  <2>1. CASE i < q
    <3>1. ~(r # 0 /\ i = count - 1)
      BY <1>3, <2>1
    <3>2. Bytes(length, i) = size
      BY <1>3, <3>1
    <3>3. i * size + size <= q * size
      BY <2>1, Product
    <3>4. i * size + size <= length
      BY <1>2, <3>3, Product
    <3> QED BY <3>2, <3>4
  <2>2. CASE ~(i < q)
    <3>1. i = q /\ r # 0 /\ i = count - 1
      BY <1>3, <2>2
    <3>2. Bytes(length, i) = r
      BY <1>3, <3>1
    <3> QED BY <1>2, <3>1, <3>2
  <2> QED BY <2>1, <2>2
<1>6. ASSUME NEW o \in 1 .. length
      PROVE  \E i \in 0 .. count - 1 : i * size < o /\ o <= i * size + Bytes(length, i)
  <2>1. PICK i \in Nat, s \in 0 .. size - 1 : o - 1 = i * size + s
    <3>1. o - 1 \in Nat
      OBVIOUS
    <3> QED BY <3>1, Division
  <2>2. i * size \in Nat
    BY Product
  <2>3. i * size < o /\ o <= i * size + size
    BY <2>1, <2>2
  <2>4. CASE i < q
    <3>1. i \in 0 .. count - 1 /\ ~(r # 0 /\ i = count - 1)
      BY <1>3, <2>4
    <3>2. Bytes(length, i) = size
      BY <1>3, <3>1
    <3> QED BY <2>3, <3>1, <3>2
  <2>5. CASE ~(i < q)
    <3>1. q * size <= i * size
      BY <2>5, Product
    <3>2. ~(q < i)
      <4>1. q < i => q * size + size <= i * size
        BY Product
      <4> QED BY <1>2, <2>2, <2>3, <4>1
    <3>3. i = q
      BY <2>5, <3>2
    <3>4. r # 0 /\ o <= i * size + r
      BY <1>2, <2>2, <2>3, <3>3
    <3>5. i \in 0 .. count - 1 /\ Bytes(length, i) = r
      BY <1>3, <3>3, <3>4
    <3> QED BY <2>3, <3>4, <3>5
  <2> QED BY <2>4, <2>5
<1> QED BY <1>4, <1>5, <1>6

\* A torrent cut into pieces of a length, the last of them shorter when it does not divide it.
LEMMA PiecesOfLength ==
  ASSUME NEW total \in Nat, NEW L \in Nat \ {0}
  PROVE  LET N == (total + L - 1) \div L
         IN /\ N \in Nat
            /\ \A p \in 1 .. N : /\ (p - 1) * L \in Nat
                                 /\ (p - 1) * L < total
                                 /\ p # N => (p - 1) * L + L <= total
                                 /\ p = N /\ total % L # 0 => total = (p - 1) * L + (total % L)
<1>1. PICK N \in Nat, s \in 0 .. L - 1 :
        N = (total + L - 1) \div L /\ total + L - 1 = N * L + s
  <2>1. total + L - 1 \in Nat
    OBVIOUS
  <2> QED BY <2>1, Division
<1>2. ASSUME NEW p \in 1 .. N PROVE /\ (p - 1) * L \in Nat
                                    /\ (p - 1) * L < total
                                    /\ p # N => (p - 1) * L + L <= total
                                    /\ p = N /\ total % L # 0 => total = (p - 1) * L + (total % L)
  <2>1. PICK a \in Nat, m \in Nat : a = p - 1 /\ m = N - 1 /\ a <= m /\ (p # N => a < m)
    OBVIOUS
  <2>2. a * L \in Nat /\ m * L \in Nat /\ a * L <= m * L /\ (a < m => a * L + L <= m * L)
    BY <2>1, Product
  <2>3. N * L = m * L + L
    BY <2>1
  <2>4. total = m * L + s + 1
    BY <1>1, <2>2, <2>3
  <2>5. ASSUME total % L # 0, p = N PROVE total = a * L + (total % L)
    <3>1. a = m
      BY <2>1, <2>5
    <3>2. PICK d \in Nat, r \in 0 .. L - 1 : r = total % L /\ total = d * L + r
      BY Division
    <3>3. s # L - 1
      <4>1. ASSUME s = L - 1 PROVE FALSE
        <5>1. total = N * L + 0
          BY <2>2, <2>3, <2>4, <4>1
        <5>2. d * L + r = N * L + 0
          BY <3>2, <5>1, Zenon
        <5>3. 0 \in 0 .. L - 1
          OBVIOUS
        <5>4. r = 0
          BY <5>2, <5>3, OneRemainder
        <5> QED BY <2>5, <3>2, <5>4
      <4> QED BY <4>1
    <3>4. s + 1 \in 0 .. L - 1 /\ d * L + r = m * L + (s + 1)
      BY <2>4, <2>2, <3>2, <3>3
    <3>5. r = s + 1
      BY <3>4, OneRemainder
    <3> QED BY <2>2, <2>4, <3>1, <3>2, <3>5
  <2> QED BY <2>1, <2>2, <2>4, <2>5
<1> QED BY <1>1, <1>2

\* The pieces of the torrent, and where they are.
LEMMA Pieces ==
  ASSUME TypeInv
  PROVE  LET total == SumOf(torrent.files)
             L == torrent.pieceLength
         IN /\ torrent.files \in Seq(Nat) /\ total \in Nat /\ L \in Nat \ {0} /\ PieceCount \in Nat
            /\ \A p \in 1 .. PieceCount :
                 /\ SumsOf(torrent)[p] = PieceBytes(p, L, total)
                 /\ PieceFrom(p) \in Nat
                 /\ PieceFrom(p) < total
                 /\ LengthOf(p) \in Nat /\ LengthOf(p) <= L
                 /\ p # PieceCount => LengthOf(p) = L /\ PieceFrom(p) + L <= total
                 /\ p = PieceCount /\ LengthOf(p) # 0 => total = PieceFrom(p) + LengthOf(p)
<1>1. PICK lengths \in Seq(Nat), L \in Nat \ {0} :
        lengths = torrent.files /\ L = torrent.pieceLength
  BY TorrentsAssumption DEF TypeInv
<1>2. PICK total \in Nat : total = SumOf(lengths)
  <2>1. Len(lengths) \in 0 .. Len(lengths)
    OBVIOUS
  <2> QED BY <2>1, EndsInOrder DEF SumOf
<1>3. PICK N \in Nat : N = (total + L - 1) \div L
  BY PiecesOfLength
<1>4. SumsOf(torrent) = [p \in 1 .. N |-> PieceBytes(p, L, total)]
  BY <1>1, <1>2, <1>3 DEF SumsOf
<1>5. PieceCount = N
  BY <1>4 DEF PieceCount
<1>6. ASSUME NEW p \in 1 .. N
      PROVE  /\ SumsOf(torrent)[p] = PieceBytes(p, L, total)
             /\ PieceFrom(p) \in Nat
             /\ PieceFrom(p) < total
             /\ LengthOf(p) \in Nat /\ LengthOf(p) <= L
             /\ p # N => LengthOf(p) = L /\ PieceFrom(p) + L <= total
             /\ p = N /\ LengthOf(p) # 0 => total = PieceFrom(p) + LengthOf(p)
  <2>1. PieceFrom(p) = (p - 1) * L
    BY <1>1 DEF PieceFrom
  <2>2. LengthOf(p) = IF p = N THEN total % L ELSE L
    BY <1>1, <1>2, <1>5 DEF LengthOf
  <2>3. /\ PieceFrom(p) \in Nat /\ PieceFrom(p) < total
        /\ p # N => PieceFrom(p) + L <= total
        /\ p = N /\ total % L # 0 => total = PieceFrom(p) + (total % L)
    BY <1>3, <2>1, PiecesOfLength
  <2>4. total % L \in Nat /\ total % L <= L
    BY Division
  <2>5. SumsOf(torrent)[p] = PieceBytes(p, L, total)
    BY <1>4
  <2> QED BY <2>2, <2>3, <2>4, <2>5
<1> QED BY <1>1, <1>2, <1>5, <1>6

\* The bytes of the files are bytes of the torrent.
LEMMA Places ==
  ASSUME TypeInv, Sized, files \in Seq(Seq(Int))
  PROVE  \A i \in DOMAIN files : \A k \in DOMAIN files[i] :
           Place(i, k) \in 1 .. SumOf(torrent.files)
<1>1. /\ Lengths(files) = torrent.files /\ Lengths(files) \in Seq(Nat)
      /\ Len(Lengths(files)) = Len(files)
      /\ DOMAIN files = 1 .. Len(files)
      /\ \A i \in 1 .. Len(files) : DOMAIN files[i] = 1 .. Len(files[i])
  BY LengthsFacts DEF Sized
<1>2. ASSUME NEW i \in 1 .. Len(files), NEW k \in 1 .. Len(files[i])
      PROVE  Place(i, k) \in 1 .. SumOf(torrent.files)
  <2>1. PICK e : e = Ends(Lengths(files))
    OBVIOUS
  <2>2. e[i - 1] \in Nat /\ Len(files[i]) \in Nat /\ e[i] = e[i - 1] + Len(files[i])
    BY <2>1, EndsOfFiles
  <2>3. PICK total \in Nat : total = SumOf(torrent.files) /\ e[i] <= total
    <3>1. Len(files) \in 0 .. Len(files) /\ i \in 0 .. Len(files) /\ i <= Len(files)
      OBVIOUS
    <3> QED BY <1>1, <2>1, <3>1, EndsOfFiles DEF SumOf
  <2>4. Place(i, k) = e[i - 1] + k
    BY <1>1, <2>1 DEF Place
  <2> QED BY <2>2, <2>3, <2>4
<1> QED BY <1>1, <1>2

\* What is read from the files is the torrent's exactly when the torrent is in place there.
LEMMA ReadInPlace ==
  ASSUME TypeInv, Sized, files \in Seq(Seq(Int)), NEW from \in Nat, NEW length \in Nat
  PROVE  BytesRead(files, from, length)
             = [x \in 1 .. Taken(from, length, SumOf(torrent.files)) |-> from + x]
           <=> InPlace(from, length)
<1>1. /\ Lengths(files) = torrent.files /\ Lengths(files) \in Seq(Nat)
      /\ Len(Lengths(files)) = Len(files)
      /\ DOMAIN files = 1 .. Len(files)
      /\ \A i \in 1 .. Len(files) : /\ DOMAIN files[i] = 1 .. Len(files[i])
                                    /\ Lengths(files)[i] = Len(files[i])
  BY LengthsFacts DEF Sized
<1>2. PICK block : block = BytesRead(files, from, length)
  OBVIOUS
<1>3. PICK total \in Nat : total = SumOf(Lengths(files))
  BY <1>1, Pieces
<1>4. PICK n \in Nat : n = Taken(from, length, total)
  <2>1. Taken(from, length, total) \in Nat
    BY DEF Taken, Least
  <2> QED BY <2>1
<1>5. IsRead(files, from, length, block)
  BY <1>2, ReadIsExact
<1>6. block \in Seq(Int) /\ Len(block) = n
  BY <1>3, <1>4, <1>5 DEF IsRead
<1>7. \A i \in 1 .. Len(files) : \A k \in 1 .. Len(files[i]) :
        from < Place(i, k) /\ Place(i, k) <= from + n => block[Place(i, k) - from] = files[i][k]
  <2> SUFFICES ASSUME NEW i \in 1 .. Len(files), NEW k \in 1 .. Len(files[i]),
                      from < Place(i, k) /\ Place(i, k) <= from + n
               PROVE  block[Place(i, k) - from] = files[i][k]
    OBVIOUS
  <2>1. PICK e \in Nat : e = Ends(Lengths(files))[i - 1]
    BY EndsOfFiles
  <2>2. PICK place : place = e + k
    OBVIOUS
  <2>3. from < place /\ place <= from + Len(block) => block[place - from] = files[i][k]
    <3>1. \A j \in 1 .. Len(files) : \A l \in 1 .. Len(files[j]) :
            from < Ends(Lengths(files))[j - 1] + l
              /\ Ends(Lengths(files))[j - 1] + l <= from + Len(block)
              => block[Ends(Lengths(files))[j - 1] + l - from] = files[j][l]
      BY <1>5, Zenon DEF IsRead
    <3>2. from < e + k /\ e + k <= from + Len(block) => block[e + k - from] = files[i][k]
      BY <2>1, <3>1, Zenon
    <3> QED BY <2>2, <3>2
  <2>4. place = Place(i, k)
    BY <1>1, <2>1, <2>2 DEF Place
  <2> QED BY <1>6, <2>3, <2>4
<1>8. ASSUME NEW i \in 1 .. Len(files), NEW k \in 1 .. Len(files[i])
      PROVE  Place(i, k) \in Nat /\ 1 <= Place(i, k) /\ Place(i, k) <= total
  <2>1. Place(i, k) \in 1 .. total
    BY <1>1, <1>3, Places
  <2> QED BY <2>1
<1>9. n <= length
  BY <1>4 DEF Taken, Least
<1>10. ASSUME NEW x \in 1 .. n
       PROVE  \E i \in 1 .. Len(files) : \E k \in 1 .. Len(files[i]) : from + x = Place(i, k)
  <2>1. from + x \in 1 .. total
    BY <1>4 DEF Taken, Least
  <2>2. PICK place \in 1 .. SumOf(Lengths(files)) : place = from + x
    BY <1>3, <2>1
  <2>3. PICK i \in 1 .. Len(Lengths(files)) : \E k \in 1 .. Lengths(files)[i] :
          place = Ends(Lengths(files))[i - 1] + k
    BY <1>1, EveryByteHasAPlace
  <2>4. PICK k \in 1 .. Lengths(files)[i] : place = Ends(Lengths(files))[i - 1] + k
    BY <2>3
  <2>5. i \in 1 .. Len(files) /\ k \in 1 .. Len(files[i]) /\ place = Place(i, k)
    BY <1>1, <2>4 DEF Place
  <2> QED BY <2>2, <2>5
<1>11. ASSUME InPlace(from, length)
       PROVE  block = [x \in 1 .. n |-> from + x]
  <2>1. ASSUME NEW x \in 1 .. n PROVE block[x] = from + x
    <3>1. PICK i \in 1 .. Len(files) : \E k \in 1 .. Len(files[i]) : from + x = Place(i, k)
      BY <1>10
    <3>2. PICK k \in 1 .. Len(files[i]) : from + x = Place(i, k)
      BY <3>1
    <3>3. PICK place \in Nat : place = Place(i, k) /\ place = from + x
      BY <3>2
    <3>4. from < place /\ place <= from + n /\ place - from = x
      BY <3>3
    <3>5. block[x] = files[i][k]
      BY <1>7, <3>3, <3>4
    <3>6. place \in from + 1 .. from + length
      BY <1>9, <3>4
    <3>7. files[i][k] = place
      BY <1>1, <1>11, <3>3, <3>6 DEF InPlace
    <3> QED BY <3>3, <3>5, <3>7
  <2>2. block = [x \in 1 .. n |-> block[x]]
    BY <1>6
  <2> QED BY <2>1, <2>2
<1>12. ASSUME block = [x \in 1 .. n |-> from + x]
       PROVE  InPlace(from, length)
  <2>1. SUFFICES ASSUME NEW i \in 1 .. Len(files), NEW k \in 1 .. Len(files[i]),
                        Place(i, k) \in from + 1 .. from + length
                 PROVE  files[i][k] = Place(i, k)
    BY <1>1 DEF InPlace
  <2>2. PICK place \in Nat : place = Place(i, k) /\ place <= total
    BY <1>8
  <2>3. from < place /\ place <= from + n
    <3>1. place \in from + 1 .. from + length
      BY <2>1, <2>2
    <3> QED BY <1>4, <2>2, <3>1 DEF Taken, Least
  <2>4. place - from \in 1 .. n /\ from + (place - from) = place
    BY <2>3
  <2>5. block[place - from] = place
    BY <1>12, <2>4
  <2> QED BY <1>7, <2>2, <2>3, <2>5
<1> QED BY <1>1, <1>2, <1>3, <1>4, <1>11, <1>12

\* What the copy says of the torrent, when it says all.
LEMMA CopyFacts ==
  ASSUME TypeInv, ReadInv, Readable, status \in {"generated", "running"}
  PROVE  /\ copy.multi = torrent.files
         /\ copy.pieceLength = torrent.pieceLength
         /\ copy.sums = SumsOf(torrent)
         /\ NumPieces = PieceCount
         /\ \A p : /\ NumBlocks(p) = Count(LengthOf(p))
                   /\ \A i : SizeOf(p, i) = Bytes(LengthOf(p), i)
                   /\ \A offset : StartOf(p, offset) = PieceFrom(p) + offset
<1>1. PICK info \in MetaInfos : /\ copy = Copied(info, "multi")
                                /\ info.sums = SumsOf(torrent)
                                /\ info.multi = torrent.files
                                /\ info.pieceLength = torrent.pieceLength
  BY ReadingAssumption DEF TypeInv, ReadInv, Readable, Given
<1>2. /\ copy.form = "multi" /\ copy.sums = SumsOf(torrent) /\ copy.multi = torrent.files
      /\ copy.pieceLength = torrent.pieceLength
  BY <1>1 DEF Copied, MetaInfos
<1>3. NumPieces = PieceCount
  BY <1>2 DEF NumPieces, PieceCount
<1>4. TotalLength = SumOf(torrent.files)
  BY <1>2 DEF TotalLength, TotalSize
<1>5. ASSUME NEW p PROVE PieceLengthAt(p) = LengthOf(p)
  BY <1>2, <1>3, <1>4 DEF PieceLengthAt, LengthOf
<1>6. ASSUME NEW p PROVE NumBlocks(p) = Count(LengthOf(p))
  BY <1>5 DEF NumBlocks, Count
<1>7. ASSUME NEW p, NEW i PROVE SizeOf(p, i) = Bytes(LengthOf(p), i)
  BY <1>5, <1>6 DEF SizeOf, Bytes
<1>8. ASSUME NEW p, NEW offset PROVE StartOf(p, offset) = PieceFrom(p) + offset
  BY <1>2 DEF StartOf, PieceFrom
<1> QED BY <1>2, <1>3, <1>6, <1>7, <1>8

\* The verification of a piece tells whether its bytes are in place.
LEMMA VerificationIsExact ==
  ASSUME TypeInv, ReadInv, Readable, Sized, files \in Seq(Seq(Int)),
         status \in {"generated", "running"}, NEW p \in 1 .. PieceCount
  PROVE  VerifySinglePiece(p) <=> InPlace(PieceFrom(p), torrent.pieceLength)
<1>1. PICK L \in Nat \ {0}, total \in Nat, from \in Nat :
        /\ L = torrent.pieceLength /\ total = SumOf(torrent.files) /\ from = PieceFrom(p)
        /\ from < total /\ SumsOf(torrent)[p] = PieceBytes(p, L, total)
  BY Pieces
<1>2. /\ copy.pieceLength = L /\ copy.sums[p] = PieceBytes(p, L, total)
      /\ StartOf(p, 0) = from
  <2>1. StartOf(p, 0) = from + 0
    BY <1>1, CopyFacts
  <2>2. StartOf(p, 0) = from
    BY <2>1
  <2> QED BY <1>1, <2>2, CopyFacts
<1>3. Least(L, total - from) = Taken(from, L, total)
  BY <1>1 DEF Taken
<1>4. from = (p - 1) * L
  BY <1>1 DEF PieceFrom
<1>5. PieceBytes(p, L, total) = [x \in 1 .. Taken(from, L, total) |-> from + x]
  BY <1>3, <1>4 DEF PieceBytes
<1>6. VerifySinglePiece(p)
        <=> BytesRead(files, from, L) = [x \in 1 .. Taken(from, L, total) |-> from + x]
  BY <1>2, <1>5 DEF VerifySinglePiece, ReadBlock
<1> QED BY <1>1, <1>6, ReadInPlace

\* Nothing of a torrent with a single file is ever verified: the copy of its MetaInfo has no
\* piece length.
LEMMA SingleFileFails ==
  ASSUME TypeInv, ReadInv, Given, ~torrent.multi, files \in Seq(Seq(Int)),
         status \in {"generated", "running"}
  PROVE  copy.pieceLength = 0 /\ \A p \in 1 .. NumPieces : ~VerifySinglePiece(p)
<1>1. PICK info \in MetaInfos : /\ copy = Copied(info, "multi")
                                /\ info.sums = SumsOf(torrent)
                                /\ info.pieceLength = 0
  BY ReadingAssumption DEF TypeInv, ReadInv, Given
<1>2. copy.sums = SumsOf(torrent) /\ copy.pieceLength = 0
  BY <1>1 DEF Copied, MetaInfos
<1>3. ASSUME NEW p \in 1 .. NumPieces PROVE ~VerifySinglePiece(p)
  <2>1. p \in 1 .. PieceCount
    BY <1>2 DEF NumPieces, PieceCount
  <2>2. PICK L \in Nat \ {0}, total \in Nat, from \in Nat :
          /\ from = PieceFrom(p) /\ from < total /\ L = torrent.pieceLength
          /\ SumsOf(torrent)[p] = PieceBytes(p, L, total)
    BY <2>1, Pieces
  <2>3. PICK n \in Nat : n = Least(L, total - from) /\ n > 0
    BY <2>2 DEF Least
  <2>4. from = (p - 1) * L
    BY <2>2 DEF PieceFrom
  <2>5. copy.sums[p] = [x \in 1 .. n |-> from + x]
    BY <1>2, <2>2, <2>3, <2>4 DEF PieceBytes
  <2>6. Len(copy.sums[p]) = n
    BY <2>5
  <2>7. PICK start \in Nat : start = StartOf(p, 0)
    <3>1. p - 1 \in Nat
      BY <2>1, Pieces
    <3>2. (p - 1) * 0 + 0 = 0
      BY <3>1
    <3> QED BY <1>2, <3>2 DEF StartOf
  <2>8. Len(BytesRead(files, start, 0)) = 0
    <3>1. PICK end \in Nat : end = SumOf(Lengths(files))
      <4>1. Lengths(files) \in Seq(Nat) /\ Len(Lengths(files)) \in 0 .. Len(Lengths(files))
        BY LengthsFacts
      <4> QED BY <4>1, EndsInOrder DEF SumOf
    <3>2. Taken(start, 0, end) = 0
      BY DEF Taken, Least
    <3> QED BY <3>1, <3>2, ReadIsExact DEF IsRead
  <2>9. ReadBlock(p, 0, copy.pieceLength) = BytesRead(files, start, 0)
    BY <1>2, <2>7 DEF ReadBlock
  <2> QED BY <2>3, <2>6, <2>8, <2>9 DEF VerifySinglePiece
<1> QED BY <1>2, <1>3

\* A piece with all its blocks in place is in place.
LEMMA BlocksCoverThePiece ==
  ASSUME TypeInv, Sized, files \in Seq(Seq(Int)), NEW p \in 1 .. PieceCount,
         Count(LengthOf(p)) # 0,
         \A i \in 0 .. Count(LengthOf(p)) - 1 : InPlace(BlockFrom(p, i), Bytes(LengthOf(p), i))
  PROVE  InPlace(PieceFrom(p), torrent.pieceLength)
<1>1. PICK L \in Nat \ {0}, total \in Nat, from \in Nat, length \in Nat :
        /\ L = torrent.pieceLength /\ total = SumOf(torrent.files)
        /\ from = PieceFrom(p) /\ length = LengthOf(p)
        /\ p # PieceCount => length = L
        /\ p = PieceCount /\ length # 0 => total = from + length
  BY Pieces
<1>2. length # 0
  BY <1>1, BlocksOfLength
<1>3. SUFFICES ASSUME NEW i \in DOMAIN files, NEW k \in DOMAIN files[i],
                      NEW place \in Nat, place = Place(i, k), place <= total,
                      place \in from + 1 .. from + L
               PROVE  files[i][k] = place
  <2>1. \A i \in DOMAIN files : \A k \in DOMAIN files[i] :
          Place(i, k) \in Nat /\ Place(i, k) <= total
    BY <1>1, Places
  <2> QED BY <1>1, <2>1 DEF InPlace
<1>4. place - from \in 1 .. length
  <2>1. CASE p # PieceCount
    BY <1>1, <1>3, <2>1
  <2>2. CASE p = PieceCount
    <3>1. total = from + length
      BY <1>1, <1>2, <2>2
    <3>2. place <= total /\ place \in from + 1 .. from + L
      BY <1>3
    <3> QED BY <3>1, <3>2
  <2> QED BY <2>1, <2>2
<1>5. PICK o \in 1 .. length : place = from + o
  <2>1. place = from + (place - from)
    OBVIOUS
  <2> QED BY <1>4, <2>1
<1>6. PICK b \in 0 .. Count(length) - 1 :
        b * BlockSize < o /\ o <= b * BlockSize + Bytes(length, b)
  BY BlocksOfLength
<1>7. PICK n \in Nat : n = Bytes(length, b)
  BY BlocksOfLength, BlockAssumption
<1>8. PICK s \in Nat : s = b * BlockSize
  <2>1. Count(length) \in Nat
    BY BlocksOfLength
  <2>2. b \in Nat
    BY <2>1
  <2> QED BY <2>2, BlockAssumption, Product
<1>9. BlockFrom(p, b) = from + s
  BY <1>1, <1>8 DEF BlockFrom
<1>10. place \in from + s + 1 .. from + s + n
  <2>1. s < o /\ o <= s + n
    BY <1>6, <1>7, <1>8
  <2> QED BY <1>5, <2>1
<1>11. InPlace(from + s, n)
  BY <1>1, <1>7, <1>9
<1> QED BY <1>3, <1>10, <1>11 DEF InPlace

-----------------------------------------------------------------------------
(* What a step leaves *)

LEMMA SameTorrent ==
  ASSUME UNCHANGED torrent
  PROVE  /\ PieceCount' = PieceCount
         /\ \A p : PieceFrom(p)' = PieceFrom(p) /\ LengthOf(p)' = LengthOf(p)
         /\ \A p, i : BlockFrom(p, i)' = BlockFrom(p, i)
         /\ \A i, k : Place(i, k)' = Place(i, k)
<1>1. PieceCount' = PieceCount
  BY DEF PieceCount
<1>2. \A p : PieceFrom(p)' = PieceFrom(p)
  BY DEF PieceFrom
<1>3. \A p : LengthOf(p)' = LengthOf(p)
  BY <1>1 DEF LengthOf
<1>4. \A p, i : BlockFrom(p, i)' = BlockFrom(p, i)
  BY <1>2 DEF BlockFrom
<1>5. \A i, k : Place(i, k)' = Place(i, k)
  BY DEF Place
<1> QED BY <1>1, <1>2, <1>3, <1>4, <1>5

\* A step that leaves the files of the torrent alone keeps in place what was there.
LEMMA PlacesKept ==
  ASSUME UNCHANGED torrent,
         verified' # {} \/ DOMAIN blocks' # {} => UNCHANGED files,
         verified' \cap DOMAIN blocks' = {},
         \A p \in verified' : p \in 1 .. PieceCount /\ InPlace(PieceFrom(p), torrent.pieceLength),
         \A p \in DOMAIN blocks' :
           /\ p \in 1 .. PieceCount
           /\ blocks'[p] \in [0 .. Count(LengthOf(p)) - 1 -> {"none", "right", "wrong"}]
           /\ \A i \in DOMAIN blocks'[p] :
                blocks'[p][i] = "right" => InPlace(BlockFrom(p, i), Bytes(LengthOf(p), i))
  PROVE  PiecesInv' /\ RightInv'
<1>1. PiecesInv'
  <2>1. verified' \subseteq 1 .. PieceCount' /\ DOMAIN blocks' \subseteq 1 .. PieceCount'
    BY SameTorrent
  <2>2. \A p \in DOMAIN blocks' :
          blocks'[p] \in [0 .. Count(LengthOf(p)') - 1 -> {"none", "right", "wrong"}]
    BY SameTorrent
  <2> QED BY <2>1, <2>2 DEF PiecesInv, Count
<1>2. RightInv'
  <2>1. ASSUME NEW p \in verified' PROVE InPlace(PieceFrom(p), torrent.pieceLength)'
    <3>1. UNCHANGED files /\ InPlace(PieceFrom(p), torrent.pieceLength)
      OBVIOUS
    <3> QED BY <3>1, SameTorrent DEF InPlace
  <2>2. ASSUME NEW p \in DOMAIN blocks', NEW i \in DOMAIN blocks'[p], blocks'[p][i] = "right"
        PROVE  InPlace(BlockFrom(p, i), Bytes(LengthOf(p), i))'
    <3>1. UNCHANGED files /\ InPlace(BlockFrom(p, i), Bytes(LengthOf(p), i))
      BY <2>2
    <3>2. Bytes(LengthOf(p), i)' = Bytes(LengthOf(p), i)
      BY SameTorrent DEF Bytes, Count
    <3> QED BY <3>1, <3>2, SameTorrent DEF InPlace
  <2> QED BY <2>1, <2>2 DEF RightInv
<1> QED BY <1>1, <1>2

\* The same when pieces and blocks are only taken away.
LEMMA FewerPieces ==
  ASSUME PiecesInv, RightInv, UNCHANGED torrent,
         verified # {} \/ DOMAIN blocks # {} => UNCHANGED files,
         verified' \subseteq verified,
         NEW S \in SUBSET DOMAIN blocks, blocks' = [p \in S |-> blocks[p]] \/ UNCHANGED blocks
  PROVE  PiecesInv' /\ RightInv'
<1>1. DOMAIN blocks' \subseteq DOMAIN blocks /\ \A p \in DOMAIN blocks' : blocks'[p] = blocks[p]
  OBVIOUS
<1>2. verified' \cap DOMAIN blocks' = {}
  BY <1>1 DEF PiecesInv
<1>3. \A p \in verified' : p \in 1 .. PieceCount /\ InPlace(PieceFrom(p), torrent.pieceLength)
  BY DEF PiecesInv, RightInv
<1>4. \A p \in DOMAIN blocks' :
        /\ p \in 1 .. PieceCount
        /\ blocks'[p] \in [0 .. Count(LengthOf(p)) - 1 -> {"none", "right", "wrong"}]
        /\ \A i \in DOMAIN blocks'[p] :
             blocks'[p][i] = "right" => InPlace(BlockFrom(p, i), Bytes(LengthOf(p), i))
  BY <1>1 DEF PiecesInv, RightInv
<1>5. verified' # {} \/ DOMAIN blocks' # {} => UNCHANGED files
  BY <1>1
<1> QED BY <1>2, <1>3, <1>4, <1>5, PlacesKept

\* What writeBlock leaves of the files of the torrent.
LEMMA WrittenBytes ==
  ASSUME Sized, files \in Seq(Seq(Int)), UNCHANGED torrent,
         NEW start \in Nat, NEW data \in Seq(Int), files' = BytesWritten(files, start, data)
  PROVE  /\ files' \in Seq(Seq(Int))
         /\ Len(files') = Len(files)
         /\ Sized'
         /\ DOMAIN files' = DOMAIN files
         /\ \A i \in DOMAIN files :
              /\ DOMAIN files'[i] = DOMAIN files[i]
              /\ \A k \in DOMAIN files[i] :
                   files'[i][k] = IF start < Place(i, k) /\ Place(i, k) <= start + Len(data)
                                    THEN data[Place(i, k) - start] ELSE files[i][k]
<1>1. /\ files' \in Seq(Seq(Int)) /\ Len(files') = Len(files)
      /\ Lengths(files') = Lengths(files)
      /\ \A i \in 1 .. Len(files) : \A k \in 1 .. Len(files[i]) :
           files'[i][k] = ByteWritten(files, start, data, i, k)
  BY WrittenFacts
<1>2. Sized'
  BY <1>1 DEF Sized
<1>3. /\ DOMAIN files = 1 .. Len(files) /\ DOMAIN files' = 1 .. Len(files)
      /\ \A i \in 1 .. Len(files) : /\ DOMAIN files[i] = 1 .. Len(files[i])
                                    /\ DOMAIN files'[i] = 1 .. Len(files'[i])
                                    /\ Len(files'[i]) = Len(files[i])
  <2>1. \A i \in 1 .. Len(files) : /\ Lengths(files')[i] = Len(files'[i])
                                   /\ Lengths(files)[i] = Len(files[i])
    BY <1>1, LengthsFacts
  <2> QED BY <1>1, <2>1, LengthsFacts
<1>4. ASSUME NEW i \in 1 .. Len(files), NEW k \in 1 .. Len(files[i])
      PROVE  ByteWritten(files, start, data, i, k)
               = IF start < Place(i, k) /\ Place(i, k) <= start + Len(data)
                   THEN data[Place(i, k) - start] ELSE files[i][k]
  <2>1. Place(i, k) = Ends(Lengths(files))[i - 1] + k
    BY DEF Sized, Place
  <2> QED BY <2>1, Zenon DEF ByteWritten
<1> QED BY <1>1, <1>2, <1>3, <1>4

\* Data that is the torrent's is in place once it is written.
LEMMA RightDataWritten ==
  ASSUME TypeInv, Sized, files \in Seq(Seq(Int)), UNCHANGED torrent,
         NEW start \in Nat, NEW n \in Nat,
         files' = BytesWritten(files, start, [k \in 1 .. n |-> start + k])
  PROVE  \A i \in DOMAIN files' : \A k \in DOMAIN files'[i] :
           Place(i, k) \in start + 1 .. start + n => files'[i][k] = Place(i, k)
<1>1. PICK data \in Seq(Int) : data = [k \in 1 .. n |-> start + k] /\ Len(data) = n
  OBVIOUS
<1>2. SUFFICES ASSUME NEW i \in DOMAIN files, NEW k \in DOMAIN files[i],
                      NEW place \in Nat, place = Place(i, k), place \in start + 1 .. start + n
               PROVE  files'[i][k] = place
  <2>1. \A i \in DOMAIN files : \A k \in DOMAIN files[i] : Place(i, k) \in Nat
    BY Places
  <2>2. DOMAIN files' = DOMAIN files /\ \A i \in DOMAIN files : DOMAIN files'[i] = DOMAIN files[i]
    BY <1>1, WrittenBytes
  <2> QED BY <2>1, <2>2
<1>3. files'[i][k] = IF start < place /\ place <= start + n THEN data[place - start]
                                                         ELSE files[i][k]
  BY <1>1, <1>2, WrittenBytes
<1>4. /\ start < place /\ place <= start + n /\ place - start \in 1 .. n
      /\ start + (place - start) = place
  <2>1. place \in start + 1 .. start + n
    BY <1>2
  <2> QED BY <2>1
<1>5. data[place - start] = place
  BY <1>1, <1>4
<1> QED BY <1>3, <1>4, <1>5

\* Data written somewhere else keeps what is in place.
LEMMA OtherDataWritten ==
  ASSUME TypeInv, Sized, files \in Seq(Seq(Int)), UNCHANGED torrent,
         NEW start \in Nat, NEW data \in Seq(Int), files' = BytesWritten(files, start, data),
         NEW from \in Nat, NEW length \in Nat, InPlace(from, length),
         from + length <= start \/ start + Len(data) <= from
  PROVE  \A i \in DOMAIN files' : \A k \in DOMAIN files'[i] :
           Place(i, k) \in from + 1 .. from + length => files'[i][k] = Place(i, k)
<1>1. PICK n \in Nat : n = Len(data) /\ (from + length <= start \/ start + n <= from)
  OBVIOUS
<1>2. SUFFICES ASSUME NEW i \in DOMAIN files, NEW k \in DOMAIN files[i],
                      NEW place \in Nat, place = Place(i, k), place \in from + 1 .. from + length
               PROVE  files'[i][k] = place
  <2>1. \A i \in DOMAIN files : \A k \in DOMAIN files[i] : Place(i, k) \in Nat
    BY Places
  <2>2. DOMAIN files' = DOMAIN files /\ \A i \in DOMAIN files : DOMAIN files'[i] = DOMAIN files[i]
    BY WrittenBytes
  <2> QED BY <2>1, <2>2
<1>3. files'[i][k] = IF start < place /\ place <= start + n THEN data[place - start]
                                                         ELSE files[i][k]
  BY <1>1, <1>2, WrittenBytes
<1>4. ~(start < place /\ place <= start + n)
  BY <1>1, <1>2
<1>5. files[i][k] = place
  BY <1>2 DEF InPlace
<1> QED BY <1>3, <1>4, <1>5

-----------------------------------------------------------------------------
(* The invariant holds *)

LEMMA StorageInit == Init => StorageInv
<1> SUFFICES ASSUME Init PROVE StorageInv
  OBVIOUS
<1>1. TypeInv
  BY DEF Init, TypeInv
<1>2. ReadInv
  BY DEF Init, ReadInv
<1>3. verified = {} /\ DOMAIN blocks = {}
  BY DEF Init
<1>4. PICK lengths \in Seq(Nat) : lengths = torrent.files
  BY <1>1, TorrentsAssumption DEF TypeInv
<1>5. files \in Seq(Seq(Int)) /\ Len(files) = Len(lengths)
  <2>1. PICK present \in SUBSET DOMAIN lengths :
          files = [i \in DOMAIN lengths |-> IF i \in present THEN Whole(torrent)[i] ELSE <<>>]
    BY <1>4 DEF Init
  <2>2. ASSUME NEW i \in DOMAIN lengths PROVE Whole(torrent)[i] \in Seq(Int)
    <3>1. PICK e \in Nat, n \in Nat : e = Ends(lengths)[i - 1] /\ n = lengths[i]
      <4>1. i - 1 \in 0 .. Len(lengths)
        OBVIOUS
      <4> QED BY <4>1, EndsInOrder
    <3>2. Whole(torrent)[i] = [k \in 1 .. n |-> e + k]
      BY <1>4, <3>1 DEF Whole
    <3> QED BY <3>2
  <2>3. DOMAIN lengths = 1 .. Len(lengths) /\ Len(lengths) \in Nat
    OBVIOUS
  <2>4. \A i \in 1 .. Len(lengths) : files[i] \in Seq(Int)
    BY <2>1, <2>2, <2>3
  <2>5. files = [i \in 1 .. Len(lengths) |-> files[i]]
    BY <2>1, <2>3
  <2> QED BY <2>3, <2>4, <2>5
<1>6. FilesInv
  BY <1>3, <1>4, <1>5 DEF Init, FilesInv
<1>7. PiecesInv
  BY <1>3 DEF PiecesInv
<1>8. RightInv
  BY <1>3 DEF RightInv
<1> QED BY <1>1, <1>2, <1>6, <1>7, <1>8 DEF StorageInv

\* generateFiles gives the files of the torrent their lengths, and leaves them alone when
\* they have them.
LEMMA GeneratedFiles ==
  ASSUME StorageInv, Given, status = "starting", copy.form = "multi", UNCHANGED torrent,
         files' = [i \in DOMAIN copy.multi |-> Resized(files[i], copy.multi[i])]
  PROVE  /\ files' \in Seq(Seq(Int))
         /\ torrent.multi => Len(files') = Len(torrent.files) /\ Sized'
         /\ torrent.multi /\ Sized => UNCHANGED files
<1>1. PICK lengths \in Seq(Nat) : lengths = torrent.files
  BY TorrentsAssumption DEF StorageInv, TypeInv
<1>2. copy.multi = IF torrent.multi THEN lengths ELSE <<>>
  <2>1. PICK info \in MetaInfos, form \in Forms :
          /\ copy = Copied(info, form)
          /\ info.multi = IF torrent.multi THEN torrent.files ELSE <<>>
    BY ReadingAssumption DEF StorageInv, TypeInv, ReadInv, Given
  <2> QED BY <1>1, <2>1 DEF Copied, MetaInfos
<1>3. files \in Seq(Seq(Int)) /\ (torrent.multi => Len(files) = Len(lengths))
  BY <1>1 DEF StorageInv, FilesInv, Readable
<1>4. CASE ~torrent.multi
  <2>1. files' = <<>>
    BY <1>2, <1>4
  <2> QED BY <1>4, <2>1
<1>5. CASE torrent.multi
  <2>1. /\ DOMAIN lengths = 1 .. Len(lengths) /\ Len(lengths) \in Nat /\ Len(files) = Len(lengths)
        /\ files' = [i \in 1 .. Len(lengths) |-> Resized(files[i], lengths[i])]
    BY <1>2, <1>3, <1>5
  <2>2. ASSUME NEW i \in 1 .. Len(lengths)
        PROVE  /\ files'[i] \in Seq(Int) /\ Len(files'[i]) = lengths[i]
               /\ Len(files[i]) = lengths[i] => files'[i] = files[i]
    <3>1. PICK n \in Nat, bytes \in Seq(Int) : n = lengths[i] /\ bytes = files[i]
      <4>1. lengths[i] \in Nat
        OBVIOUS
      <4>2. i \in 1 .. Len(files)
        BY <2>1
      <4>3. files[i] \in Seq(Int)
        BY <1>3, <4>2
      <4> QED BY <4>1, <4>3
    <3>2. files'[i] = [k \in 1 .. n |-> IF k <= Len(bytes) THEN bytes[k] ELSE 0]
      BY <2>1, <3>1 DEF Resized, Zero
    <3>3. \A k \in 1 .. n : (IF k <= Len(bytes) THEN bytes[k] ELSE 0) \in Int
      OBVIOUS
    <3>4. files'[i] \in Seq(Int) /\ Len(files'[i]) = n
      BY <3>2, <3>3
    <3>5. ASSUME Len(bytes) = n PROVE files'[i] = bytes
      <4>1. bytes = [k \in 1 .. n |-> bytes[k]]
        BY <3>5
      <4>2. \A k \in 1 .. n : k <= Len(bytes)
        BY <3>5
      <4> QED BY <3>2, <4>1, <4>2, Zenon
    <3> QED BY <3>1, <3>4, <3>5
  <2>3. files' = [i \in 1 .. Len(lengths) |-> files'[i]]
    BY <2>1
  <2>4. files' \in Seq(Seq(Int)) /\ Len(files') = Len(lengths)
    <3>1. PICK n \in Nat : n = Len(lengths)
      OBVIOUS
    <3>2. PICK bytes : bytes = files'
      OBVIOUS
    <3>3. \A i \in 1 .. n : bytes[i] \in Seq(Int)
      BY <2>2, <3>1, <3>2
    <3>4. bytes = [i \in 1 .. n |-> bytes[i]]
      BY <2>3, <3>1, <3>2
    <3>5. bytes \in Seq(Seq(Int)) /\ Len(bytes) = n
      BY <3>3, <3>4
    <3> QED BY <3>1, <3>2, <3>5
  <2>5. Lengths(files') = lengths
    <3>1. \A i \in 1 .. Len(lengths) : Lengths(files')[i] = lengths[i]
      BY <2>2, <2>4, LengthsFacts
    <3>2. Lengths(files') \in Seq(Nat) /\ Len(Lengths(files')) = Len(lengths)
      BY <2>4, LengthsFacts
    <3> QED BY <3>1, <3>2, SeqEqual
  <2>6. ASSUME Sized PROVE UNCHANGED files
    <3>1. \A i \in 1 .. Len(lengths) : Len(files[i]) = lengths[i]
      <4>1. \A i \in 1 .. Len(files) : Lengths(files)[i] = Len(files[i])
        BY <1>3, LengthsFacts
      <4> QED BY <1>1, <2>1, <2>6, <4>1 DEF Sized
    <3>2. \A i \in 1 .. Len(lengths) : files'[i] = files[i]
      BY <2>2, <3>1
    <3>3. Len(files') = Len(files)
      BY <2>1, <2>4
    <3>4. \A i \in 1 .. Len(files) : files'[i] = files[i]
      BY <2>1, <3>2
    <3> QED BY <1>3, <2>4, <3>3, <3>4, SeqEqual
  <2> QED BY <1>1, <2>4, <2>5, <2>6 DEF Sized
<1> QED BY <1>4, <1>5

\* What a step that writes nothing and verifies nothing has to show.
LEMMA QuietStep ==
  ASSUME StorageInv, UNCHANGED <<torrent, content, files, verified, blocks>>, TypeInv', ReadInv',
         status' \in {"generated", "running"} => status \in {"generated", "running"}
  PROVE  StorageInv'
<1>1. FilesInv'
  BY DEF StorageInv, FilesInv, Given, Readable, Sized
<1>2. PiecesInv' /\ RightInv'
  <2>1. DOMAIN blocks \in SUBSET DOMAIN blocks
    OBVIOUS
  <2> QED BY <2>1, FewerPieces DEF StorageInv
<1> QED BY <1>1, <1>2 DEF StorageInv

LEMMA SetTorrentStep == StorageInv /\ SetTorrent => StorageInv'
<1> SUFFICES ASSUME StorageInv, SetTorrent PROVE StorageInv'
  OBVIOUS
<1>1. TypeInv'
  BY DEF StorageInv, TypeInv, SetTorrent
<1>2. ReadInv'
  BY DEF ReadInv, SetTorrent
<1> QED BY <1>1, <1>2, QuietStep DEF SetTorrent

LEMMA StartStep == StorageInv /\ Start => StorageInv'
<1> SUFFICES ASSUME StorageInv, Start PROVE StorageInv'
  OBVIOUS
<1>1. TypeInv'
  BY DEF StorageInv, TypeInv, Start
<1>2. ReadInv'
  BY DEF StorageInv, ReadInv, Start
<1> QED BY <1>1, <1>2, QuietStep DEF Start

LEMMA GenerateSingleFileStep == StorageInv /\ GenerateSingleFile => StorageInv'
<1> SUFFICES ASSUME StorageInv, GenerateSingleFile PROVE StorageInv'
  OBVIOUS
<1>1. TypeInv'
  BY DEF StorageInv, TypeInv, GenerateSingleFile
<1>2. ReadInv'
  BY DEF StorageInv, ReadInv, GenerateSingleFile
<1> QED BY <1>1, <1>2, QuietStep DEF GenerateSingleFile

LEMMA GenerateMultiFilesStep == StorageInv /\ GenerateMultiFiles => StorageInv'
<1> SUFFICES ASSUME StorageInv, GenerateMultiFiles PROVE StorageInv'
  OBVIOUS
<1>1. /\ status = "starting" /\ copy.form = "multi"
      /\ UNCHANGED <<torrent, content, meta, copy, verified, blocks>>
  BY DEF GenerateMultiFiles
<1>2. TypeInv'
  BY DEF StorageInv, TypeInv, GenerateMultiFiles
<1>3. copy = Copied(Reading(content).meta, "multi") /\ Reading(content).ok
  <2>1. PICK form \in Forms : copy = Copied(Reading(content).meta, form)
    BY <1>1 DEF StorageInv, ReadInv
  <2>2. Reading(content).meta \in MetaInfos
    BY ReadingAssumption DEF StorageInv, TypeInv
  <2>3. copy.form = form
    BY <2>1, <2>2 DEF Copied, MetaInfos
  <2> QED BY <1>1, <2>1, <2>3 DEF StorageInv, ReadInv
<1>4. ReadInv'
  BY <1>1, <1>3 DEF GenerateMultiFiles, ReadInv
<1>5. CASE status' = "failed" /\ UNCHANGED files
  BY <1>1, <1>2, <1>4, <1>5, QuietStep
<1>6. CASE /\ status' = "generated"
           /\ files' = [i \in DOMAIN copy.multi |-> Resized(files[i], copy.multi[i])]
  <2>1. Given => /\ files' \in Seq(Seq(Int))
                 /\ torrent.multi => Len(files') = Len(torrent.files) /\ Sized'
                 /\ torrent.multi /\ Sized => UNCHANGED files
    BY <1>1, <1>6, GeneratedFiles
  <2>2. verified # {} \/ DOMAIN blocks # {} => Readable /\ Sized /\ UNCHANGED files
    BY <2>1 DEF StorageInv, FilesInv, Readable
  <2>3. FilesInv'
    <3>1. Given' <=> Given
      BY <1>1 DEF Given
    <3>2. Readable' <=> torrent.multi /\ Given
      BY <1>1, <3>1 DEF Readable
    <3> QED BY <1>1, <2>1, <2>2, <3>1, <3>2 DEF FilesInv, Readable
  <2>4. PiecesInv' /\ RightInv'
    <3>1. DOMAIN blocks \in SUBSET DOMAIN blocks
      OBVIOUS
    <3> QED BY <1>1, <2>2, <3>1, FewerPieces DEF StorageInv
  <2> QED BY <1>2, <1>4, <2>3, <2>4 DEF StorageInv
<1> QED BY <1>5, <1>6 DEF GenerateMultiFiles

\* Whatever is verified while the files are open is in place.
LEMMA VerifiedNow ==
  ASSUME StorageInv, status \in {"generated", "running"},
         NEW p \in 1 .. NumPieces, VerifySinglePiece(p)
  PROVE  Readable /\ Sized /\ p \in 1 .. PieceCount /\ InPlace(PieceFrom(p), torrent.pieceLength)
<1>1. Reading(content).ok /\ copy = Copied(Reading(content).meta, "multi")
  BY DEF StorageInv, ReadInv
<1>2. Given
  <2>1. copy.sums = Reading(content).meta.sums
    BY <1>1, ReadingAssumption DEF StorageInv, TypeInv, Copied, MetaInfos
  <2>2. Len(copy.sums) # 0
    BY DEF NumPieces
  <2> QED BY <1>1, <2>1, <2>2 DEF Given
<1>3. files \in Seq(Seq(Int))
  BY <1>2 DEF StorageInv, FilesInv
<1>4. torrent.multi
  BY <1>2, <1>3, SingleFileFails DEF StorageInv
<1>5. Readable /\ Sized
  BY <1>2, <1>4 DEF Readable, StorageInv, FilesInv
<1>6. p \in 1 .. PieceCount
  BY <1>5, CopyFacts DEF StorageInv
<1> QED BY <1>3, <1>5, <1>6, VerificationIsExact DEF StorageInv

LEMMA FullVerificationStep == StorageInv /\ FullVerification => StorageInv'
<1> SUFFICES ASSUME StorageInv, FullVerification PROVE StorageInv'
  OBVIOUS
<1>1. /\ status = "generated" /\ status' = "running"
      /\ UNCHANGED <<torrent, content, meta, copy, files, newFile>>
      /\ blocks' = [p \in DOMAIN blocks \ verified' |-> blocks[p]]
  BY DEF FullVerification
<1>2. ASSUME NEW p \in verified'
      PROVE  /\ Readable /\ Sized /\ p \in 1 .. PieceCount
             /\ InPlace(PieceFrom(p), torrent.pieceLength)
  <2>1. CASE p \in verified
    BY <2>1 DEF StorageInv, FilesInv, PiecesInv, RightInv
  <2>2. CASE p \notin verified
    <3>1. p \in 1 .. NumPieces /\ VerifySinglePiece(p)
      BY <1>2, <2>2 DEF FullVerification
    <3> QED BY <1>1, <3>1, VerifiedNow
  <2> QED BY <2>1, <2>2
<1>3. DOMAIN blocks' = DOMAIN blocks \ verified' /\ \A p \in DOMAIN blocks' : blocks'[p] = blocks[p]
  BY <1>1
<1>4. TypeInv' /\ ReadInv'
  BY <1>1 DEF StorageInv, TypeInv, ReadInv
<1>5. FilesInv'
  <2>1. verified' # {} \/ DOMAIN blocks' # {} => Readable /\ Sized
    BY <1>2, <1>3 DEF StorageInv, FilesInv
  <2> QED BY <1>1, <2>1 DEF StorageInv, FilesInv, Given, Readable, Sized
<1>6. PiecesInv' /\ RightInv'
  <2>1. \A p \in DOMAIN blocks' :
          /\ p \in 1 .. PieceCount
          /\ blocks'[p] \in [0 .. Count(LengthOf(p)) - 1 -> {"none", "right", "wrong"}]
          /\ \A i \in DOMAIN blocks'[p] :
               blocks'[p][i] = "right" => InPlace(BlockFrom(p, i), Bytes(LengthOf(p), i))
    BY <1>3 DEF StorageInv, PiecesInv, RightInv
  <2> QED BY <1>1, <1>2, <1>3, <2>1, PlacesKept
<1> QED BY <1>4, <1>5, <1>6 DEF StorageInv

LEMMA RestartStep == StorageInv /\ Restart => StorageInv'
<1> SUFFICES ASSUME StorageInv, Restart PROVE StorageInv'
  OBVIOUS
<1>1. status' = "new" /\ newFile' = FALSE /\ UNCHANGED <<torrent, content, files>>
  BY DEF Restart
<1>2. PICK S \in SUBSET DOMAIN blocks :
        blocks' = [p \in S |-> blocks[p]] /\ verified' \subseteq verified
  <2>1. Dumped \in SUBSET DOMAIN blocks
    BY DEF Dumped
  <2>2. <<>> = [p \in {} |-> blocks[p]]
    OBVIOUS
  <2> QED BY <2>1, <2>2 DEF Restart
<1>3. TypeInv' /\ ReadInv'
  BY <1>1 DEF StorageInv, TypeInv, ReadInv
<1>4. FilesInv'
  <2>1. verified' # {} \/ DOMAIN blocks' # {} => verified # {} \/ DOMAIN blocks # {}
    BY <1>2
  <2> QED BY <1>1, <2>1 DEF StorageInv, FilesInv, Given, Readable, Sized
<1>5. PiecesInv' /\ RightInv'
  BY <1>1, <1>2, FewerPieces DEF StorageInv
<1> QED BY <1>3, <1>4, <1>5 DEF StorageInv

LEMMA NewPieceStep ==
  ASSUME StorageInv, NEW p \in 1 .. NumPieces, NewPiece(p)
  PROVE  StorageInv'
<1>1. /\ status = "running" /\ copy.pieceLength > 0
      /\ p \notin verified \cup DOMAIN blocks
      /\ blocks' = [q \in DOMAIN blocks \cup {p} |->
                      IF q = p THEN [i \in 0 .. NumBlocks(p) - 1 |-> "none"] ELSE blocks[q]]
      /\ UNCHANGED <<torrent, content, status, meta, copy, files, newFile, verified>>
  BY DEF NewPiece
<1>2. Given
  <2>1. Reading(content).ok /\ copy = Copied(Reading(content).meta, "multi")
    BY <1>1 DEF StorageInv, ReadInv
  <2>2. copy.sums = Reading(content).meta.sums
    BY <2>1, ReadingAssumption DEF StorageInv, TypeInv, Copied, MetaInfos
  <2>3. Len(copy.sums) # 0
    BY DEF NumPieces
  <2> QED BY <2>1, <2>2, <2>3 DEF Given
<1>3. Readable /\ Sized
  <2>1. files \in Seq(Seq(Int))
    BY <1>2 DEF StorageInv, FilesInv
  <2>2. torrent.multi
    BY <1>1, <1>2, <2>1, SingleFileFails DEF StorageInv
  <2> QED BY <1>1, <1>2, <2>2 DEF Readable, StorageInv, FilesInv
<1>4. p \in 1 .. PieceCount /\ NumBlocks(p) = Count(LengthOf(p))
  BY <1>1, <1>3, CopyFacts DEF StorageInv
<1>5. TypeInv' /\ ReadInv'
  BY <1>1 DEF StorageInv, TypeInv, ReadInv
<1>6. FilesInv'
  BY <1>1, <1>3 DEF StorageInv, FilesInv, Given, Readable, Sized
<1>7. PiecesInv' /\ RightInv'
  <2>1. DOMAIN blocks' = DOMAIN blocks \cup {p}
    BY <1>1
  <2>2. ASSUME NEW q \in DOMAIN blocks'
        PROVE  /\ q \in 1 .. PieceCount
               /\ blocks'[q] \in [0 .. Count(LengthOf(q)) - 1 -> {"none", "right", "wrong"}]
               /\ \A i \in DOMAIN blocks'[q] :
                    blocks'[q][i] = "right" => InPlace(BlockFrom(q, i), Bytes(LengthOf(q), i))
    <3>1. CASE q = p
      <4>1. blocks'[q] = [i \in 0 .. Count(LengthOf(q)) - 1 |-> "none"]
        BY <1>1, <1>4, <3>1
      <4> QED BY <1>4, <3>1, <4>1
    <3>2. CASE q # p
      <4>1. q \in DOMAIN blocks /\ blocks'[q] = blocks[q]
        BY <1>1, <2>1, <3>2
      <4> QED BY <4>1 DEF StorageInv, PiecesInv, RightInv
    <3> QED BY <3>1, <3>2
  <2>3. verified' \cap DOMAIN blocks' = {}
    BY <1>1, <2>1 DEF StorageInv, PiecesInv
  <2>4. \A q \in verified' : q \in 1 .. PieceCount /\ InPlace(PieceFrom(q), torrent.pieceLength)
    BY <1>1 DEF StorageInv, PiecesInv, RightInv
  <2> QED BY <1>1, <2>2, <2>3, <2>4, PlacesKept
<1> QED BY <1>5, <1>6, <1>7 DEF StorageInv

LEMMA VerifyPieceStep ==
  ASSUME StorageInv, NEW p \in DOMAIN blocks, VerifyPiece(p)
  PROVE  StorageInv'
<1>1. /\ status = "running"
      /\ UNCHANGED <<torrent, content, status, meta, copy, files, newFile>>
  BY DEF VerifyPiece
<1>2. Readable /\ Sized /\ files \in Seq(Seq(Int))
  BY DEF StorageInv, FilesInv, Readable
<1>3. p \in 1 .. PieceCount
  BY DEF StorageInv, PiecesInv
<1>4. TypeInv' /\ ReadInv'
  BY <1>1 DEF StorageInv, TypeInv, ReadInv
<1>5. FilesInv'
  BY <1>1, <1>2 DEF StorageInv, FilesInv, Given, Readable, Sized
<1>6. CASE /\ VerifySinglePiece(p)
           /\ verified' = verified \cup {p}
           /\ blocks' = [q \in DOMAIN blocks \ {p} |-> blocks[q]]
  <2>1. InPlace(PieceFrom(p), torrent.pieceLength)
    BY <1>1, <1>2, <1>3, <1>6, VerificationIsExact DEF StorageInv
  <2>2. \A q \in verified' : q \in 1 .. PieceCount /\ InPlace(PieceFrom(q), torrent.pieceLength)
    BY <1>3, <1>6, <2>1 DEF StorageInv, PiecesInv, RightInv
  <2>3. DOMAIN blocks' = DOMAIN blocks \ {p} /\ \A q \in DOMAIN blocks' : blocks'[q] = blocks[q]
    BY <1>6
  <2>4. verified' \cap DOMAIN blocks' = {}
    BY <1>6, <2>3 DEF StorageInv, PiecesInv
  <2>5. \A q \in DOMAIN blocks' :
          /\ q \in 1 .. PieceCount
          /\ blocks'[q] \in [0 .. Count(LengthOf(q)) - 1 -> {"none", "right", "wrong"}]
          /\ \A i \in DOMAIN blocks'[q] :
               blocks'[q][i] = "right" => InPlace(BlockFrom(q, i), Bytes(LengthOf(q), i))
    BY <2>3 DEF StorageInv, PiecesInv, RightInv
  <2>6. PiecesInv' /\ RightInv'
    BY <1>1, <2>2, <2>4, <2>5, PlacesKept
  <2> QED BY <1>4, <1>5, <2>6 DEF StorageInv
<1>7. CASE /\ verified' = verified
           /\ blocks' = [blocks EXCEPT ![p] = [i \in DOMAIN @ |-> "none"]]
  <2>1. DOMAIN blocks' = DOMAIN blocks
    BY <1>7
  <2>2. ASSUME NEW q \in DOMAIN blocks'
        PROVE  /\ q \in 1 .. PieceCount
               /\ blocks'[q] \in [0 .. Count(LengthOf(q)) - 1 -> {"none", "right", "wrong"}]
               /\ \A i \in DOMAIN blocks'[q] :
                    blocks'[q][i] = "right" => InPlace(BlockFrom(q, i), Bytes(LengthOf(q), i))
    <3>1. CASE q = p
      <4>1. blocks'[p] = [i \in DOMAIN blocks[p] |-> "none"]
        BY <1>7
      <4>2. DOMAIN blocks[p] = 0 .. Count(LengthOf(p)) - 1
        BY DEF StorageInv, PiecesInv
      <4> QED BY <1>3, <3>1, <4>1, <4>2
    <3>2. CASE q # p
      <4>1. q \in DOMAIN blocks /\ blocks'[q] = blocks[q]
        BY <1>7, <3>2
      <4> QED BY <4>1 DEF StorageInv, PiecesInv, RightInv
    <3> QED BY <3>1, <3>2
  <2>3. verified' \cap DOMAIN blocks' = {}
    BY <1>7, <2>1 DEF StorageInv, PiecesInv
  <2>4. \A q \in verified' : q \in 1 .. PieceCount /\ InPlace(PieceFrom(q), torrent.pieceLength)
    BY <1>7 DEF StorageInv, PiecesInv, RightInv
  <2>5. PiecesInv' /\ RightInv'
    BY <1>1, <2>2, <2>3, <2>4, PlacesKept
  <2> QED BY <1>4, <1>5, <2>5 DEF StorageInv
<1> QED BY <1>6, <1>7 DEF VerifyPiece

\* A block is in its piece.
LEMMA BlockInPiece ==
  ASSUME TypeInv, NEW p \in 1 .. PieceCount, NEW i \in 0 .. Count(LengthOf(p)) - 1
  PROVE  /\ i \in Nat
         /\ BlockFrom(p, i) \in Nat
         /\ Bytes(LengthOf(p), i) \in 1 .. BlockSize
         /\ PieceFrom(p) <= BlockFrom(p, i)
         /\ BlockFrom(p, i) + Bytes(LengthOf(p), i) <= PieceFrom(p) + torrent.pieceLength
<1>1. PICK from \in Nat, length \in Nat, L \in Nat :
        from = PieceFrom(p) /\ length = LengthOf(p) /\ L = torrent.pieceLength /\ length <= L
  BY Pieces
<1>2. Bytes(length, i) \in 1 .. BlockSize /\ i * BlockSize + Bytes(length, i) <= length
  BY <1>1, BlocksOfLength
<1>3. i \in Nat
  <2>1. Count(length) \in Nat
    BY BlocksOfLength
  <2> QED BY <1>1, <2>1
<1>4. PICK s \in Nat, n \in Nat : s = i * BlockSize /\ n = Bytes(length, i)
  BY <1>2, <1>3, Product, BlockAssumption
<1>5. BlockFrom(p, i) = from + s
  BY <1>1, <1>4 DEF BlockFrom
<1>6. s + n <= length
  BY <1>2, <1>4
<1>7. from + s \in Nat /\ from <= from + s /\ from + s + n <= from + L
  <2>1. length <= L
    BY <1>1
  <2> QED BY <1>6, <2>1
<1> QED BY <1>1, <1>2, <1>3, <1>4, <1>5, <1>7

\* Pieces do not overlap, nor do the blocks of a piece.
LEMMA PiecesApart ==
  ASSUME TypeInv, NEW p \in 1 .. PieceCount, NEW q \in 1 .. PieceCount, p # q
  PROVE  \/ PieceFrom(p) + torrent.pieceLength <= PieceFrom(q)
         \/ PieceFrom(q) + torrent.pieceLength <= PieceFrom(p)
<1>1. PICK L \in Nat : L = torrent.pieceLength
  BY Pieces
<1>2. PICK a \in Nat, b \in Nat : a = p - 1 /\ b = q - 1 /\ a # b
  BY Pieces
<1>3. a < b => a * L + L <= b * L
  BY Product
<1>4. b < a => b * L + L <= a * L
  BY Product
<1>5. PieceFrom(p) = a * L /\ PieceFrom(q) = b * L
  BY <1>1, <1>2 DEF PieceFrom
<1>6. a < b \/ b < a
  BY <1>2
<1> QED BY <1>1, <1>3, <1>4, <1>5, <1>6

LEMMA BlocksApart ==
  ASSUME TypeInv, NEW p \in 1 .. PieceCount, NEW i \in 0 .. Count(LengthOf(p)) - 1,
         NEW j \in 0 .. Count(LengthOf(p)) - 1, i # j
  PROVE  \/ BlockFrom(p, i) + Bytes(LengthOf(p), i) <= BlockFrom(p, j)
         \/ BlockFrom(p, j) + Bytes(LengthOf(p), j) <= BlockFrom(p, i)
<1>1. PICK from \in Nat : from = PieceFrom(p)
  BY Pieces
<1>2. i \in Nat /\ j \in Nat
  BY BlockInPiece
<1>3. PICK m \in Nat, n \in Nat : /\ m = Bytes(LengthOf(p), i) /\ m <= BlockSize
                                  /\ n = Bytes(LengthOf(p), j) /\ n <= BlockSize
  BY BlockInPiece, BlockAssumption
<1>4. PICK s \in Nat, t \in Nat : /\ s = i * BlockSize /\ t = j * BlockSize
                                  /\ i < j => s + BlockSize <= t
                                  /\ j < i => t + BlockSize <= s
  BY <1>2, Product, BlockAssumption
<1>5. BlockFrom(p, i) = from + s /\ BlockFrom(p, j) = from + t
  BY <1>1, <1>4 DEF BlockFrom
<1>6. i < j \/ j < i
  BY <1>2
<1>7. from + s + m <= from + t \/ from + t + n <= from + s
  BY <1>3, <1>4, <1>6, BlockAssumption
<1> QED BY <1>3, <1>5, <1>7

LEMMA BlockReceivedStep ==
  ASSUME StorageInv, NEW p \in DOMAIN blocks, NEW i \in DOMAIN blocks[p],
         NEW data \in {"right", "wrong"}, BlockReceived(p, i, data)
  PROVE  StorageInv'
<1>1. /\ status = "running" /\ blocks[p][i] = "none"
      /\ blocks' = [blocks EXCEPT ![p][i] = data]
      /\ UNCHANGED <<torrent, content, status, meta, copy, newFile, verified>>
  BY DEF BlockReceived
<1>2. TypeInv /\ ReadInv /\ Readable /\ Sized /\ files \in Seq(Seq(Int))
  BY DEF StorageInv, FilesInv, Readable
<1>3. /\ p \in 1 .. PieceCount /\ p \notin verified
      /\ DOMAIN blocks[p] = 0 .. Count(LengthOf(p)) - 1
      /\ blocks[p] \in [0 .. Count(LengthOf(p)) - 1 -> {"none", "right", "wrong"}]
  BY DEF StorageInv, PiecesInv
<1>4. PICK start \in Nat, n \in Nat :
        /\ start = BlockFrom(p, i) /\ n = Bytes(LengthOf(p), i)
        /\ PieceFrom(p) <= start
        /\ start + n <= PieceFrom(p) + torrent.pieceLength
  BY <1>2, <1>3, BlockInPiece, BlockAssumption
<1>5. PICK written \in Seq(Int) :
        /\ Len(written) = n
        /\ data = "right" => written = [k \in 1 .. n |-> start + k]
        /\ files' = BytesWritten(files, start, written)
  <2>1. StartOf(p, i * BlockSize) = start /\ SizeOf(p, i) = n
    BY <1>1, <1>2, <1>4, CopyFacts DEF BlockFrom
  <2> DEFINE right == [k \in 1 .. n |-> start + k]
             other == [k \in DOMAIN right |-> Wrong]
  <2>2. files' = BytesWritten(files, start, IF data = "right" THEN right ELSE other)
    BY <2>1 DEF BlockReceived, WriteBlock
  <2>3. right \in Seq(Int) /\ Len(right) = n
    OBVIOUS
  <2>4. other \in Seq(Int) /\ Len(other) = n
    BY DEF Wrong
  <2> HIDE DEF right, other
  <2>5. PICK written : written = IF data = "right" THEN right ELSE other
    OBVIOUS
  <2>6. written \in Seq(Int) /\ Len(written) = n /\ (data = "right" => written = right)
    BY <2>3, <2>4, <2>5
  <2>7. files' = BytesWritten(files, start, written)
    BY <2>2, <2>5
  <2> QED BY <2>6, <2>7 DEF right
<1>6. TypeInv' /\ ReadInv'
  BY <1>1 DEF StorageInv, TypeInv, ReadInv
<1>7. FilesInv'
  <2>1. files' \in Seq(Seq(Int)) /\ Len(files') = Len(files) /\ Sized'
    BY <1>1, <1>2, <1>5, WrittenBytes
  <2>2. Readable'
    BY <1>1, <1>2 DEF Readable, Given
  <2>3. Len(files) = Len(torrent.files)
    BY <1>2 DEF StorageInv, FilesInv
  <2> QED BY <1>1, <2>1, <2>2, <2>3 DEF FilesInv
<1>8. DOMAIN blocks' = DOMAIN blocks /\ \A q \in DOMAIN blocks :
        blocks'[q] = IF q = p THEN [blocks[p] EXCEPT ![i] = data] ELSE blocks[q]
  BY <1>1
<1>9. PiecesInv'
  <2>1. \A q \in DOMAIN blocks :
          blocks'[q] \in [0 .. Count(LengthOf(q)) - 1 -> {"none", "right", "wrong"}]
    BY <1>3, <1>8 DEF StorageInv, PiecesInv
  <2>2. \A q \in DOMAIN blocks' :
          blocks'[q] \in [0 .. Count(LengthOf(q)') - 1 -> {"none", "right", "wrong"}]
    BY <1>1, <1>8, <2>1, SameTorrent
  <2> QED BY <1>1, <1>8, <2>2, SameTorrent DEF StorageInv, PiecesInv, Count
\* What was in place and does not overlap the block is still there.
<1>10. ASSUME NEW from \in Nat, NEW length \in Nat, InPlace(from, length),
              from + length <= start \/ start + n <= from
       PROVE  InPlace(from, length)'
  <2>1. \A f \in DOMAIN files' : \A k \in DOMAIN files'[f] :
          Place(f, k) \in from + 1 .. from + length => files'[f][k] = Place(f, k)
    BY <1>1, <1>2, <1>5, <1>10, OtherDataWritten
  <2> QED BY <1>1, <2>1, SameTorrent DEF InPlace
<1>11. RightInv'
  <2>1. ASSUME NEW q \in verified' PROVE InPlace(PieceFrom(q), torrent.pieceLength)'
    <3>1. q \in 1 .. PieceCount /\ q # p /\ InPlace(PieceFrom(q), torrent.pieceLength)
      BY <1>1, <1>3 DEF StorageInv, PiecesInv, RightInv
    <3>2. PICK from \in Nat, L \in Nat, base \in Nat :
            from = PieceFrom(q) /\ L = torrent.pieceLength /\ base = PieceFrom(p)
      BY <1>2, <1>3, <3>1, Pieces
    <3>3. from + L <= base \/ base + L <= from
      BY <1>2, <1>3, <3>1, <3>2, PiecesApart
    <3>4. base <= start /\ start + n <= base + L
      BY <1>4, <3>2
    <3>5. from + L <= start \/ start + n <= from
      BY <3>3, <3>4
    <3>6. InPlace(from, L)'
      BY <1>10, <3>1, <3>2, <3>5
    <3> QED BY <1>1, <3>2, <3>6, SameTorrent DEF InPlace
  <2>2. ASSUME NEW q \in DOMAIN blocks', NEW j \in DOMAIN blocks'[q], blocks'[q][j] = "right"
        PROVE  InPlace(BlockFrom(q, j), Bytes(LengthOf(q), j))'
    <3>1. /\ q \in DOMAIN blocks /\ q \in 1 .. PieceCount
          /\ DOMAIN blocks'[q] = 0 .. Count(LengthOf(q)) - 1
          /\ DOMAIN blocks[q] = 0 .. Count(LengthOf(q)) - 1
      BY <1>3, <1>8 DEF StorageInv, PiecesInv
    <3>2. PICK from \in Nat, length \in Nat :
            from = BlockFrom(q, j) /\ length = Bytes(LengthOf(q), j)
      BY <1>2, <3>1, BlockInPiece, BlockAssumption
    <3>3. InPlace(from, length)'
      <4>1. CASE q = p /\ j = i
        <5>1. data = "right" /\ from = start /\ length = n
          BY <1>4, <1>8, <2>2, <3>1, <3>2, <4>1
        <5>2. \A f \in DOMAIN files' : \A k \in DOMAIN files'[f] :
                Place(f, k) \in start + 1 .. start + n => files'[f][k] = Place(f, k)
          BY <1>1, <1>2, <1>5, <5>1, RightDataWritten
        <5> QED BY <1>1, <5>1, <5>2, SameTorrent DEF InPlace
      <4>2. CASE ~(q = p /\ j = i)
        <5>1. blocks[q][j] = "right"
          BY <1>8, <2>2, <3>1, <4>2
        <5>2. InPlace(from, length)
          BY <3>1, <3>2, <5>1 DEF StorageInv, RightInv
        <5>3. CASE q = p
          <6>1. from + length <= start \/ start + n <= from
            BY <1>2, <1>3, <1>4, <3>1, <3>2, <4>2, <5>3, BlocksApart
          <6> QED BY <1>10, <5>2, <6>1
        <5>4. CASE q # p
          <6>1. PICK other \in Nat, L \in Nat, base \in Nat :
                  other = PieceFrom(q) /\ L = torrent.pieceLength /\ base = PieceFrom(p)
            BY <1>2, <1>3, <3>1, Pieces
          <6>2. other + L <= base \/ base + L <= other
            BY <1>2, <1>3, <3>1, <5>4, <6>1, PiecesApart
          <6>3. base <= start /\ start + n <= base + L
            BY <1>4, <6>1
          <6>4. other <= from /\ from + length <= other + L
            BY <1>2, <3>1, <3>2, <6>1, BlockInPiece
          <6>5. from + length <= start \/ start + n <= from
            BY <6>2, <6>3, <6>4
          <6> QED BY <1>10, <5>2, <6>5
        <5> QED BY <5>3, <5>4
      <4> QED BY <4>1, <4>2
    <3>4. Bytes(LengthOf(q), j)' = length /\ BlockFrom(q, j)' = from
      BY <1>1, <3>2, SameTorrent DEF Bytes, Count
    <3> QED BY <3>3, <3>4 DEF InPlace
  <2> QED BY <2>1, <2>2 DEF RightInv
<1> QED BY <1>6, <1>7, <1>9, <1>11 DEF StorageInv

LEMMA StorageStep == StorageInv /\ [Next]_vars => StorageInv'
<1> SUFFICES ASSUME StorageInv, [Next]_vars PROVE StorageInv'
  OBVIOUS
<1>1. CASE SetTorrent
  BY <1>1, SetTorrentStep
<1>2. CASE Start
  BY <1>2, StartStep
<1>3. CASE GenerateSingleFile
  BY <1>3, GenerateSingleFileStep
<1>4. CASE GenerateMultiFiles
  BY <1>4, GenerateMultiFilesStep
<1>5. CASE FullVerification
  BY <1>5, FullVerificationStep
<1>6. CASE Restart
  BY <1>6, RestartStep
<1>7. CASE \E p \in 1 .. NumPieces : NewPiece(p)
  BY <1>7, NewPieceStep
<1>8. CASE \E p \in DOMAIN blocks :
             \/ VerifyPiece(p)
             \/ \E i \in DOMAIN blocks[p], data \in {"right", "wrong"} : BlockReceived(p, i, data)
  BY <1>8, VerifyPieceStep, BlockReceivedStep
<1>9. CASE UNCHANGED vars
  <2>1. UNCHANGED <<torrent, content, status, meta, copy, files, newFile, verified, blocks>>
    BY <1>9 DEF vars
  <2>2. TypeInv' /\ ReadInv'
    BY <2>1 DEF StorageInv, TypeInv, ReadInv
  <2> QED BY <2>1, <2>2, QuietStep
<1> QED BY <1>1, <1>2, <1>3, <1>4, <1>5, <1>6, <1>7, <1>8, <1>9 DEF Next

\* What the client knows of the torrent, the lengths of the files, the blocks of the pieces
\* and what of them is on the disk are consistent in every state.
THEOREM StorageCorrect == Spec => []StorageInv
<1>1. Init => StorageInv
  BY StorageInit
<1>2. StorageInv /\ [Next]_vars => StorageInv'
  BY StorageStep
<1> QED BY <1>1, <1>2, PTL DEF Spec

\* A piece whose blocks were all written with the torrent's data passes its verification,
\* whatever the lengths of the files, of the pieces and of the blocks are, in whatever
\* order the blocks came and through any number of restarts.
THEOREM RightBlocksVerify == Spec => []BlocksMakeThePiece
<1>1. StorageInv => BlocksMakeThePiece
  <2> SUFFICES ASSUME StorageInv, status = "running", NEW p \in DOMAIN blocks,
                      DOMAIN blocks[p] # {}, \A i \in DOMAIN blocks[p] : blocks[p][i] = "right"
               PROVE  VerifySinglePiece(p)
    BY DEF BlocksMakeThePiece
  <2>1. TypeInv /\ ReadInv /\ Readable /\ Sized /\ files \in Seq(Seq(Int))
    BY DEF StorageInv, FilesInv, Readable
  <2>2. p \in 1 .. PieceCount /\ DOMAIN blocks[p] = 0 .. Count(LengthOf(p)) - 1
    BY DEF StorageInv, PiecesInv
  <2>3. Count(LengthOf(p)) # 0
    BY <2>2
  <2>4. \A i \in 0 .. Count(LengthOf(p)) - 1 : InPlace(BlockFrom(p, i), Bytes(LengthOf(p), i))
    BY <2>2 DEF StorageInv, RightInv
  <2>5. InPlace(PieceFrom(p), torrent.pieceLength)
    BY <2>1, <2>2, <2>3, <2>4, BlocksCoverThePiece
  <2> QED BY <2>1, <2>2, <2>5, VerificationIsExact
<1> QED BY <1>1, StorageCorrect, PTL

\* The bytes of a verified piece are in the files at their places, whatever the lengths are,
\* and stay there while other pieces are written, with right data or wrong, and through
\* restarts.
THEOREM VerifiedStaysInPlace == Spec => []VerifiedIsInPlace
<1>1. StorageInv => VerifiedIsInPlace
  <2> SUFFICES ASSUME StorageInv, status = "running", NEW p \in verified,
                      NEW i \in DOMAIN files, NEW k \in DOMAIN files[i],
                      Whole(torrent)[i][k] \in ToSet(copy.sums[p])
               PROVE  files[i][k] = Whole(torrent)[i][k]
    BY DEF VerifiedIsInPlace
  <2>1. TypeInv /\ ReadInv /\ Readable /\ Sized /\ files \in Seq(Seq(Int))
    BY DEF StorageInv, FilesInv, Readable
  <2>2. p \in 1 .. PieceCount /\ InPlace(PieceFrom(p), torrent.pieceLength)
    BY DEF StorageInv, PiecesInv, RightInv
  <2>3. PICK L \in Nat \ {0}, total \in Nat, from \in Nat :
          /\ L = torrent.pieceLength /\ from = PieceFrom(p)
          /\ from < total /\ SumsOf(torrent)[p] = PieceBytes(p, L, total)
    BY <2>1, <2>2, Pieces
  <2>4. from = (p - 1) * L
    BY <2>3 DEF PieceFrom
  <2>5. PICK n \in Nat : n = Least(L, total - from) /\ n <= L
    BY <2>3 DEF Least
  <2>6. copy.sums[p] = [x \in 1 .. n |-> from + x]
    BY <2>1, <2>3, <2>4, <2>5, CopyFacts DEF PieceBytes
  <2>7. Whole(torrent)[i][k] = Place(i, k)
    <3>1. /\ Lengths(files)[i] = Len(files[i]) /\ DOMAIN files[i] = 1 .. Len(files[i])
          /\ DOMAIN files = DOMAIN Lengths(files)
      BY <2>1, LengthsFacts DEF Lengths
    <3>2. i \in DOMAIN torrent.files /\ k \in 1 .. torrent.files[i]
      BY <2>1, <3>1 DEF Sized
    <3> QED BY <3>2 DEF Whole, Place
  <2>8. PICK x \in 1 .. n : Place(i, k) = from + x
    BY <2>6, <2>7 DEF ToSet
  <2>9. from + x \in from + 1 .. from + L
    BY <2>5
  <2>10. files[i][k] = Place(i, k)
    BY <2>2, <2>3, <2>8, <2>9 DEF InPlace
  <2> QED BY <2>7, <2>10
<1> QED BY <1>1, StorageCorrect, PTL

\* A torrent with a single file never gets a piece or a block: the copy of its MetaInfo has
\* neither its form nor its lengths.
SingleFileGetsNothing == ~torrent.multi => verified = {} /\ DOMAIN blocks = {}

\* It is so in every state, for any torrents.
THEOREM SingleFileNeverStored == Spec => []SingleFileGetsNothing
<1>1. StorageInv => SingleFileGetsNothing
  BY DEF StorageInv, FilesInv, Readable, SingleFileGetsNothing
<1> QED BY <1>1, StorageCorrect, PTL

\* The last piece of a torrent that the piece length divides is never downloaded: it has a
\* length of 0 and no blocks, and only files that were complete before give it.
LastPieceIsNotDownloaded ==
  \A p \in verified' \ verified : LengthOf(p) = 0 => FullVerification

\* No step downloads it, for any torrents and any block size.
THEOREM LastPieceNeverDownloaded == Spec => [][LastPieceIsNotDownloaded]_vars
<1>1. StorageInv /\ [Next]_vars => [LastPieceIsNotDownloaded]_vars
  <2> SUFFICES ASSUME StorageInv, Next, NEW p \in verified' \ verified, LengthOf(p) = 0
               PROVE  FullVerification
    BY DEF LastPieceIsNotDownloaded
  <2>1. ASSUME NEW q \in DOMAIN blocks, VerifyPiece(q) PROVE FALSE
    <3>1. q = p /\ DOMAIN blocks[p] # {}
      BY <2>1 DEF VerifyPiece
    <3>2. DOMAIN blocks[p] = 0 .. Count(LengthOf(p)) - 1
      BY <3>1 DEF StorageInv, PiecesInv
    <3>3. Count(0) = 0
      BY BlocksOfLength
    <3> QED BY <3>1, <3>2, <3>3
  <2>2. ~SetTorrent /\ ~Start /\ ~GenerateSingleFile /\ ~GenerateMultiFiles /\ ~Restart
    BY DEF SetTorrent, Start, GenerateSingleFile, GenerateMultiFiles, Restart
  <2>3. ASSUME NEW q, NewPiece(q) PROVE FALSE
    BY <2>3 DEF NewPiece
  <2>4. ASSUME NEW q, NEW i, NEW data, BlockReceived(q, i, data) PROVE FALSE
    BY <2>4 DEF BlockReceived
  <2> QED BY <2>1, <2>2, <2>3, <2>4 DEF Next
<1> QED BY <1>1, StorageCorrect, PTL DEF Spec
=============================================================================
