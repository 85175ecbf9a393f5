------------------------- MODULE PieceDownloadProofs -------------------------
(***************************************************************************)
(* Proofs about PieceDownload, for any number of peers, pieces and blocks: *)
(* the pending pieces are incomplete, so that the endgame never starts,    *)
(* verdicts are awaited for exactly the full pending pieces that have      *)
(* blocks, a piece without any is never completed, no stored block is      *)
(* marked as requested, the payloads hold only pending pieces and          *)
(* connections, a block marked as requested is awaited from a connection   *)
(* that works on its piece, and the quota is kept.  Last, the client asks  *)
(* for verdicts and takes them as VerdictProtocol has it.                  *)
(***************************************************************************)
EXTENDS PieceDownload, FiniteSetTheorems, SequenceTheorems, WellFoundedInduction,
        TLAPS

\* The types of the variables that the proofs speak of.
SetsOK ==
  /\ completed \subseteq Piece
  /\ live \subseteq Piece
  /\ done \subseteq Slot
  /\ verifying \in [Piece -> Nat]

\* Blocks are only recorded for pending pieces.
DoneIsPending == \A s \in done : s[1] \in live

PieceInv == /\ SetsOK
            /\ PendingIsIncomplete
            /\ DoneIsPending
            /\ VerdictFindsFullPiece
            /\ FullPieceIsVerified

bookVars == <<completed, live, done, verifying>>

\* The piece of a block has blocks.
LEMMA PieceOfSlot == \A s \in Slot : s[1] \in WithBlocks /\ s \in SlotsOf(s[1])
BY SlotAssumption DEF WithBlocks, SlotsOf

LEMMA SlotPiece == \A s \in Slot : s[1] \in Piece
BY SlotAssumption

\* While pending pieces are incomplete there are no more of them than missing
\* pieces, and the endgame cannot start.
LEMMA NotNearlyDone ==
  ASSUME live \subseteq Incomplete PROVE ~NearlyDone
<1>1. IsFiniteSet(Piece)
  <2>1. PieceCount - 1 \in Int /\ 0 \in Int
    BY PieceCountAssumption
  <2> QED BY <2>1, FS_Interval DEF Piece
<1>2. IsFiniteSet(Incomplete)
  BY <1>1, FS_Subset DEF Incomplete
<1>3. Cardinality(live) <= Cardinality(Incomplete)
  BY <1>2, FS_Subset
<1>4. Cardinality(live) \in Nat /\ Cardinality(Incomplete) \in Nat
  BY <1>2, FS_Subset, FS_CardinalityType
<1> QED BY <1>3, <1>4 DEF NearlyDone

\* The scheduler hands out pieces that are incomplete.
LEMMA CandidatesIncomplete ==
  ASSUME NEW c \in Peer PROVE Candidates(c) \subseteq Incomplete
BY DEF Candidates, Assignable

LEMMA InitInv == Init => PieceInv
<1> SUFFICES ASSUME Init PROVE PieceInv
  OBVIOUS
<1>1. SetsOK
  BY SlotPiece DEF Init, SetsOK
<1>2. PendingIsIncomplete
  BY SlotPiece DEF Init, PendingIsIncomplete, Incomplete
<1>3. DoneIsPending
  BY DEF Init, DoneIsPending
<1>4. VerdictFindsFullPiece
  BY DEF Init, VerdictFindsFullPiece
<1>5. FullPieceIsVerified
  BY SlotPiece DEF Init, FullPieceIsVerified, WithBlocks
<1> QED BY <1>1, <1>2, <1>3, <1>4, <1>5 DEF PieceInv

\* Most steps leave the records of the pieces alone.
LEMMA SameBook == PieceInv /\ UNCHANGED bookVars => PieceInv'
BY DEF PieceInv, SetsOK, PendingIsIncomplete, Incomplete, DoneIsPending,
       VerdictFindsFullPiece, FullPieceIsVerified, bookVars

LEMMA StoreInv ==
  ASSUME PieceInv, NEW c \in Peer, NEW s \in Slot, StoreBlock(c, s)
  PROVE  PieceInv'
<1> DEFINE p == s[1]
<1> USE DEF PieceInv
<1>1. p \in live /\ p \in Piece /\ p \in WithBlocks /\ s \notin done
  BY SlotPiece, PieceOfSlot DEF StoreBlock
<1>2. done' = done \cup {s} /\ UNCHANGED <<completed, live>>
  BY DEF StoreBlock
<1>3. verifying[p] = 0 /\ s \in SlotsOf(p)
  BY <1>1 DEF VerdictFindsFullPiece, SetsOK, SlotsOf
<1>4. CASE SlotsOf(p) \subseteq done'
  <2>1. verifying' = [verifying EXCEPT ![p] = @ + 1]
    BY <1>4 DEF StoreBlock
  <2>2. SetsOK'
    BY <1>1, <1>2, <2>1 DEF SetsOK
  <2>3. VerdictFindsFullPiece'
    BY <1>1, <1>2, <1>3, <1>4, <2>1
       DEF VerdictFindsFullPiece, SetsOK, SlotsOf, PendingIsIncomplete, Incomplete
  <2>4. FullPieceIsVerified'
    BY <1>1, <1>2, <1>3, <1>4, <2>1 DEF FullPieceIsVerified, SetsOK, SlotsOf
  <2> QED BY <1>1, <1>2, <2>2, <2>3, <2>4
          DEF PendingIsIncomplete, Incomplete, DoneIsPending
<1>5. CASE ~(SlotsOf(p) \subseteq done')
  <2>1. verifying' = verifying
    BY <1>5 DEF StoreBlock
  <2>2. VerdictFindsFullPiece'
    BY <1>2, <2>1 DEF VerdictFindsFullPiece, SlotsOf
  <2>3. FullPieceIsVerified'
    BY <1>1, <1>2, <1>5, <2>1 DEF FullPieceIsVerified, SlotsOf
  <2> QED BY <1>1, <1>2, <2>1, <2>2, <2>3
          DEF SetsOK, PendingIsIncomplete, Incomplete, DoneIsPending
<1> QED BY <1>4, <1>5

LEMMA FailedInv ==
  ASSUME PieceInv, NEW p \in Piece, PieceFailed(p)
  PROVE  PieceInv'
<1> USE DEF PieceInv
<1>1. verifying[p] > 0 /\ verifying' = [verifying EXCEPT ![p] = @ - 1]
  BY DEF PieceFailed, TakeVerdict
<1>2. done' = done \ SlotsOf(p) /\ UNCHANGED <<completed, live>>
  BY DEF PieceFailed
<1>3. verifying'[p] = 0
  BY <1>1 DEF VerdictFindsFullPiece, SetsOK
<1>4. SetsOK'
  BY <1>1, <1>2, <1>3 DEF SetsOK
<1>5. VerdictFindsFullPiece'
  BY <1>1, <1>2, <1>3 DEF VerdictFindsFullPiece, SetsOK, SlotsOf
<1>6. FullPieceIsVerified'
  <2>1. SlotsOf(p) # {}
    BY <1>1 DEF VerdictFindsFullPiece, WithBlocks
  <2>2. ~(SlotsOf(p) \subseteq done')
    BY <1>2, <2>1
  <2> QED BY <1>1, <1>2, <2>2 DEF FullPieceIsVerified, SetsOK, SlotsOf
<1> QED BY <1>2, <1>4, <1>5, <1>6 DEF PendingIsIncomplete, Incomplete, DoneIsPending

LEMMA VerifiedInv ==
  ASSUME PieceInv, NEW p \in Piece, PieceVerified(p)
  PROVE  PieceInv'
<1> USE DEF PieceInv
<1>1. verifying[p] > 0 /\ verifying' = [verifying EXCEPT ![p] = @ - 1]
  BY DEF PieceVerified, TakeVerdict
<1>2. /\ done' = done \ SlotsOf(p)
      /\ live' = live \ {p}
      /\ completed' = completed \cup {p}
  BY DEF PieceVerified
<1>3. verifying'[p] = 0
  BY <1>1 DEF VerdictFindsFullPiece, SetsOK
<1>4. SetsOK'
  BY <1>1, <1>2, <1>3 DEF SetsOK
<1>5. VerdictFindsFullPiece'
  BY <1>1, <1>2, <1>3 DEF VerdictFindsFullPiece, SetsOK, SlotsOf
<1>6. FullPieceIsVerified'
  BY <1>1, <1>2 DEF FullPieceIsVerified, SetsOK, SlotsOf
<1>7. DoneIsPending' /\ PendingIsIncomplete'
  BY <1>2 DEF DoneIsPending, PendingIsIncomplete, Incomplete, SetsOK, SlotsOf
<1> QED BY <1>4, <1>5, <1>6, <1>7

\* A piece that becomes pending is missing, and nothing of it is recorded yet.
LEMMA AssignInv ==
  ASSUME PieceInv, NEW p \in Incomplete, live' = live \cup {p},
         UNCHANGED <<completed, done, verifying>>
  PROVE  PieceInv'
<1> USE DEF PieceInv
<1>1. SetsOK' /\ PendingIsIncomplete' /\ DoneIsPending' /\ VerdictFindsFullPiece'
  BY DEF SetsOK, PendingIsIncomplete, DoneIsPending, Incomplete,
         VerdictFindsFullPiece, SlotsOf
<1>2. CASE p \in live
  BY <1>1, <1>2 DEF FullPieceIsVerified
<1>3. CASE p \notin live
  <2>1. ASSUME p \in WithBlocks PROVE ~(SlotsOf(p) \subseteq done)
    BY <1>3, <2>1 DEF WithBlocks, SlotsOf, DoneIsPending
  <2> QED BY <1>1, <2>1 DEF FullPieceIsVerified
<1> QED BY <1>2, <1>3

LEMMA ScheduleInv ==
  ASSUME PieceInv, NEW c \in Peer, SchedulePieceForClient(c)
  PROVE  PieceInv'
<1>1. UNCHANGED <<completed, done, verifying>>
  BY DEF SchedulePieceForClient
<1>2. CASE LeaveClient(c) \/ ResumePiece(c)
  BY <1>1, <1>2, SameBook DEF LeaveClient, ResumePiece, bookVars
<1>3. CASE SpreadPiece(c)
  <2>1. PICK p \in live : live' = live \cup {p} \/ UNCHANGED live
    BY <1>3 DEF SpreadPiece, Assign
  <2>2. p \in Incomplete
    BY DEF PieceInv, PendingIsIncomplete
  <2> QED BY <1>1, <2>1, <2>2, AssignInv, SameBook DEF bookVars
<1>4. CASE AssignPiece(c)
  <2>1. PICK p \in Candidates(c) : live' = live \cup {p}
    BY <1>4 DEF AssignPiece, Assign
  <2> QED BY <1>1, <2>1, CandidatesIncomplete, AssignInv
<1> QED BY <1>2, <1>3, <1>4 DEF SchedulePieceForClient

LEMMA StepInv == PieceInv /\ [Next]_vars => PieceInv'
<1> SUFFICES ASSUME PieceInv, [Next]_vars PROVE PieceInv'
  OBVIOUS
<1>1. ASSUME NEW c \in Peer, Connect(c) \/ Disconnect(c) \/ Choke(c) \/ Unchoke(c)
      PROVE  PieceInv'
  BY <1>1, SameBook DEF Connect, Disconnect, Choke, Unchoke, RemoveClient,
                        ForgetPieces, pieceVars, bookVars
<1>2. ASSUME NEW c \in Peer, NEW pieces \in SUBSET Piece, PiecesAvailable(c, pieces)
      PROVE  PieceInv'
  BY <1>2, SameBook DEF PiecesAvailable, bookVars
<1>3. ASSUME NEW c \in Peer, NEW s \in Slot, BlockReceived(c, s)
      PROVE  PieceInv'
  <2>1. CASE DiscardBlock(c, s)
    BY <2>1, SameBook DEF DiscardBlock, pieceVars, bookVars
  <2> QED BY <1>3, <2>1, StoreInv DEF BlockReceived
<1>4. CASE ScheduleDownloads \/ AskBlocks \/ AskDone
  BY <1>4, SameBook DEF ScheduleDownloads, AskBlocks, AskDone, pieceVars, bookVars
<1>5. CASE UNCHANGED vars
  BY <1>5, SameBook DEF vars, pieceVars, bookVars
<1> QED BY <1>1, <1>2, <1>3, <1>4, <1>5, FailedInv, VerifiedInv, ScheduleInv
        DEF Next, Scheduler

THEOREM PieceInvariant == Spec => []PieceInv
<1> QED BY InitInv, StepInv, PTL DEF Spec

\* Pending pieces are never completed ones (pieceVerified deletes them).
THEOREM PendingPiecesAreIncomplete == Spec => []PendingIsIncomplete
<1>1. PieceInv => PendingIsIncomplete
  BY DEF PieceInv
<1> QED BY <1>1, PieceInvariant, PTL

\* A verdict of the file manager finds a full pending piece with blocks, whatever
\* connections did since it was asked for, and no full piece that has blocks waits
\* in vain.  A last piece without blocks, which the scheduler makes pending like any
\* other, never gets a verdict.
THEOREM VerdictsMatchFullPieces ==
  Spec => [](VerdictFindsFullPiece /\ FullPieceIsVerified)
<1>1. PieceInv => VerdictFindsFullPiece /\ FullPieceIsVerified
  BY DEF PieceInv
<1> QED BY <1>1, PieceInvariant, PTL

\* pieceLengthAt: a last piece without blocks that was missing after the first
\* verification is never completed, whatever peers and scheduler do.
THEOREM BlocklessNeverCompleted == Spec => [][CompletesWithBlocks]_vars
<1>1. ASSUME PieceInv, [Next]_vars PROVE [CompletesWithBlocks]_vars
  <2>1. ASSUME NEW p \in Piece, PieceVerified(p) PROVE CompletesWithBlocks
    <3>1. p \in WithBlocks
      BY <1>1, <2>1 DEF PieceInv, VerdictFindsFullPiece, PieceVerified, TakeVerdict
    <3> QED BY <2>1, <3>1 DEF CompletesWithBlocks, PieceVerified
  <2>2. CASE UNCHANGED completed
    BY <2>2 DEF CompletesWithBlocks
  <2>3. ASSUME NEW c \in Peer,
               \/ Connect(c) \/ Disconnect(c) \/ Choke(c) \/ Unchoke(c)
               \/ (\E pieces \in SUBSET Piece : PiecesAvailable(c, pieces))
               \/ (\E s \in Slot : BlockReceived(c, s))
        PROVE  UNCHANGED completed
    BY <2>3 DEF Connect, Disconnect, Choke, Unchoke, PiecesAvailable, BlockReceived,
                DiscardBlock, StoreBlock, pieceVars
  <2>4. ASSUME NEW p \in Piece, PieceFailed(p) PROVE UNCHANGED completed
    BY <2>4 DEF PieceFailed
  <2>5. CASE Scheduler
    BY <2>2, <2>5 DEF Scheduler, ScheduleDownloads, SchedulePieceForClient, AskBlocks,
                      AskDone, pieceVars
  <2>6. CASE UNCHANGED vars
    BY <2>6
  <2> QED BY <1>1, <2>1, <2>2, <2>3, <2>4, <2>5, <2>6 DEF Next
<1> QED BY <1>1, PieceInvariant, PTL DEF Spec

\* requestBlocks asks for missing blocks only, in every mode.
LEMMA SelectionsMissing ==
  ASSUME NEW p, NEW room, NEW blocks \in Selections(p, room)
  PROVE  blocks \cap done = {}
<1>1. blocks \subseteq Wanted(p)
  BY DEF Selections, kSubset
<1> QED BY <1>1 DEF Wanted, MissingBlocks

\* A stored block is never marked as requested: blockReceived clears the mark, and
\* a piece that failed its verification starts from nothing.
THEOREM StoredBlocksAreNotAsked == Spec => []StoredIsNotAsked
<1>1. Init => StoredIsNotAsked
  BY DEF Init, StoredIsNotAsked
<1>2. StoredIsNotAsked /\ [Next]_vars => StoredIsNotAsked'
  <2> SUFFICES ASSUME StoredIsNotAsked, [Next]_vars PROVE StoredIsNotAsked'
    OBVIOUS
  <2> USE DEF StoredIsNotAsked
  <2>1. ASSUME NEW c \in Peer, Connect(c) \/ Disconnect(c) \/ Choke(c) \/ Unchoke(c)
        PROVE  StoredIsNotAsked'
    BY <2>1 DEF Connect, Disconnect, Choke, Unchoke, RemoveClient, ForgetPieces,
                pieceVars
  <2>2. ASSUME NEW c \in Peer, NEW pieces \in SUBSET Piece, PiecesAvailable(c, pieces)
        PROVE  StoredIsNotAsked'
    BY <2>2 DEF PiecesAvailable, RemoveClient, ForgetPieces
  <2>3. ASSUME NEW c \in Peer, NEW s \in Slot, BlockReceived(c, s)
        PROVE  StoredIsNotAsked'
    <3>1. CASE DiscardBlock(c, s)
      BY <3>1 DEF DiscardBlock, pieceVars
    <3>2. CASE StoreBlock(c, s)
      BY <3>2 DEF StoreBlock
    <3> QED BY <2>3, <3>1, <3>2 DEF BlockReceived
  <2>4. ASSUME NEW p \in Piece, PieceFailed(p) \/ PieceVerified(p)
        PROVE  StoredIsNotAsked'
    <3>1. done' = done \ SlotsOf(p) /\ asked' = asked \ SlotsOf(p)
      BY <2>4 DEF PieceFailed, PieceVerified
    <3> QED BY <3>1
  <2>5. ASSUME NEW c \in Peer, SchedulePieceForClient(c) PROVE StoredIsNotAsked'
    BY <2>5 DEF SchedulePieceForClient
  <2>6. CASE AskBlocks
    <3>1. PICK blocks \in Selections(Head(asking.pieces), asking.room) :
            asked' = asked \cup blocks
      BY <2>6 DEF AskBlocks
    <3>2. done' = done
      BY <2>6 DEF AskBlocks
    <3> QED BY <3>1, <3>2, SelectionsMissing
  <2>7. CASE ScheduleDownloads \/ AskDone
    BY <2>7 DEF ScheduleDownloads, AskDone, pieceVars
  <2>8. CASE UNCHANGED vars
    BY <2>8 DEF vars, pieceVars
  <2> QED BY <2>1, <2>2, <2>3, <2>4, <2>5, <2>6, <2>7, <2>8 DEF Next, Scheduler
<1> QED BY <1>1, <1>2, PTL DEF Spec

\* The endgame is never entered: the condition that leads to it asks for more
\* pending pieces than there are missing ones.
THEOREM EndgameNeverStarts == Spec => []NoEndgame
<1>1. Init => NoEndgame
  BY DEF Init, NoEndgame
<1>2. PieceInv /\ PieceInv' /\ NoEndgame /\ [Next]_vars => NoEndgame'
  <2> SUFFICES ASSUME PieceInv, PieceInv', NoEndgame, [Next]_vars PROVE NoEndgame'
    OBVIOUS
  <2>1. ~NearlyDone
    BY NotNearlyDone DEF PieceInv, PendingIsIncomplete
  <2>2. ~NearlyDone'
    <3>1. (live \subseteq Incomplete => ~NearlyDone)'
      BY NotNearlyDone, PTL
    <3> QED BY <3>1 DEF PieceInv, PendingIsIncomplete
  <2>3. ASSUME NEW c \in Peer, Connect(c) PROVE NoEndgame'
    BY <2>1, <2>3 DEF Connect, NoEndgame
  <2>4. ASSUME NEW c \in Peer, Disconnect(c) \/ Choke(c) \/ Unchoke(c)
        PROVE  NoEndgame'
    BY <2>4 DEF Disconnect, Choke, Unchoke, NoEndgame
  <2>5. ASSUME NEW c \in Peer, NEW pieces \in SUBSET Piece, PiecesAvailable(c, pieces)
        PROVE  NoEndgame'
    BY <2>5 DEF PiecesAvailable, NoEndgame
  <2>6. ASSUME NEW c \in Peer, NEW s \in Slot, BlockReceived(c, s)
        PROVE  NoEndgame'
    BY <2>6 DEF BlockReceived, DiscardBlock, StoreBlock, NoEndgame
  <2>7. ASSUME NEW p \in Piece, PieceFailed(p) PROVE NoEndgame'
    BY <2>7 DEF PieceFailed, NoEndgame
  <2>8. ASSUME NEW p \in Piece, PieceVerified(p) PROVE NoEndgame'
    BY <2>2, <2>8 DEF PieceVerified, NoEndgame
  <2>9. ASSUME NEW c \in Peer, SchedulePieceForClient(c) PROVE NoEndgame'
    BY <2>9 DEF SchedulePieceForClient, NoEndgame
  <2>10. CASE ScheduleDownloads \/ AskBlocks \/ AskDone
    BY <2>10 DEF ScheduleDownloads, AskBlocks, AskDone, NoEndgame
  <2>11. CASE UNCHANGED vars
    BY <2>11 DEF vars, NoEndgame
  <2> QED BY <2>3, <2>4, <2>5, <2>6, <2>7, <2>8, <2>9, <2>10, <2>11
          DEF Next, Scheduler
<1> QED BY <1>1, <1>2, PieceInvariant, PTL DEF Spec

-----------------------------------------------------------------------------
(* Lists of pieces *)

\* A set of natural numbers that is not empty has a least element.
LEMMA LeastNat ==
  ASSUME NEW T, T \subseteq Nat, T # {}
  PROVE  \E n \in T : \A m \in T : n <= m
<1> DEFINE Less == {ss \in Nat \X Nat : ss[1] < ss[2]}
<1>1. IsWellFoundedOn(Less, Nat)
  BY NatLessThanWellFounded DEF OpToRel
<1>2. PICK n \in T : \A m \in T : <<m, n>> \notin Less
  <2> HIDE DEF Less
  <2> QED BY <1>1, WFMin
<1>3. ASSUME NEW m \in T PROVE n <= m
  <2>1. n \in Nat /\ m \in Nat /\ <<m, n>> \notin Less
    BY <1>2
  <2>2. m < n => <<m, n>> \in Less
    BY <2>1
  <2> QED BY <2>1, <2>2
<1> QED BY <1>3

LEMMA AppendedPieces ==
  ASSUME NEW S, NEW l \in Seq(S), NEW x \in S
  PROVE  l \o <<x>> \in Seq(S) /\ PiecesOf(l \o <<x>>) = PiecesOf(l) \cup {x}
<1> DEFINE t == l \o <<x>>
           N == Len(l)
<1>1. <<x>> \in Seq(S) /\ Len(<<x>>) = 1 /\ <<x>>[1] = x
  OBVIOUS
<1>2. /\ t \in Seq(S) /\ Len(t) = N + 1 /\ N \in Nat
      /\ \A i \in 1 .. N + 1 : t[i] = IF i <= N THEN l[i] ELSE <<x>>[i - N]
  <2>1. t \in Seq(S) /\ Len(t) = N + 1 /\ N \in Nat
    BY <1>1, ConcatProperties
  <2>2. \A i \in 1 .. N + 1 : t[i] = IF i <= N THEN l[i] ELSE <<x>>[i - N]
    BY <1>1, ConcatProperties
  <2> QED BY <2>1, <2>2
<1>3. DOMAIN t = 1 .. N + 1 /\ DOMAIN l = 1 .. N
  BY <1>2
<1> HIDE DEF t, N
<1>4. (\A i \in 1 .. N : t[i] = l[i]) /\ t[N + 1] = x
  BY <1>1, <1>2
<1>5. PiecesOf(t) = PiecesOf(l) \cup {x}
  BY <1>2, <1>3, <1>4 DEF PiecesOf
<1> QED BY <1>2, <1>5 DEF t

\* Among keeps the entries that are in the set, and no others.
LEMMA AmongFacts ==
  ASSUME NEW S, NEW list \in Seq(S), NEW set
  PROVE  /\ Among(list, set) \in Seq(S)
         /\ PiecesOf(Among(list, set)) = PiecesOf(list) \cap set
<1> DEFINE N == Len(list)
           Next1(l, i) == l \o IF list[i] \in set THEN <<list[i]>> ELSE <<>>
           Rec(f, n) == f = [i \in 0 .. n |-> IF i = 0 THEN <<>> ELSE Next1(f[i - 1], i)]
<1>1. N \in Nat /\ DOMAIN list = 1 .. N
  OBVIOUS
<1>2. ASSUME NEW n \in Nat, NEW f, Rec(f, n) PROVE \E g : Rec(g, n + 1)
  <2> DEFINE g == [i \in 0 .. n + 1 |-> IF i = n + 1 THEN Next1(f[n], n + 1) ELSE f[i]]
  <2> HIDE DEF Next1
  <2>1. \A i \in 0 .. n + 1 : g[i] = IF i = 0 THEN <<>> ELSE Next1(g[i - 1], i)
    BY <1>2
  <2>2. Rec(g, n + 1)
    BY <2>1
  <2> QED BY <2>2
<1>3. \A n \in Nat : \E f : Rec(f, n)
  <2> DEFINE Bad == {n \in Nat : ~\E f : Rec(f, n)}
  <2>1. SUFFICES ASSUME Bad # {} PROVE FALSE
    OBVIOUS
  <2>2. PICK n \in Bad : \A m \in Bad : n <= m
    <3> HIDE DEF Bad
    <3>1. Bad \subseteq Nat
      BY DEF Bad
    <3> QED BY <2>1, <3>1, LeastNat
  <2>3. CASE n = 0
    <3>1. Rec([i \in 0 .. 0 |-> <<>>], 0)
      BY DEF Next1
    <3> QED BY <2>2, <2>3, <3>1
  <2>4. CASE n # 0
    <3> HIDE DEF Rec
    <3>1. n - 1 \in Nat /\ n - 1 \notin Bad /\ n - 1 + 1 = n
      <4>1. n \in Nat
        OBVIOUS
      <4>2. n - 1 \in Nat /\ ~(n <= n - 1) /\ n - 1 + 1 = n
        BY <2>4, <4>1
      <4> HIDE DEF Bad
      <4> QED BY <2>2, <4>2
    <3>2. \E f : Rec(f, n - 1)
      BY <3>1
    <3>3. \E g : Rec(g, n)
      BY <1>2, <3>1, <3>2
    <3> QED BY <2>2, <3>3
  <2> QED BY <2>3, <2>4
<1> DEFINE among == CHOOSE f : Rec(f, N)
<1>4. Rec(among, N)
  <2> HIDE DEF Rec
  <2> QED BY <1>1, <1>3
<1>5. Among(list, set) = among[N]
  BY DEF Among
<1> HIDE DEF among
<1> DEFINE Good(i) == /\ among[i] \in Seq(S)
                      /\ PiecesOf(among[i]) = {list[j] : j \in 1 .. i} \cap set
<1>6. \A i \in 0 .. N : Good(i)
  <2> DEFINE Bad == {i \in 0 .. N : ~Good(i)}
  <2>1. SUFFICES ASSUME Bad # {} PROVE FALSE
    OBVIOUS
  <2>2. PICK i \in Bad : \A m \in Bad : i <= m
    <3> HIDE DEF Bad
    <3>1. Bad \subseteq Nat
      BY DEF Bad
    <3> QED BY <2>1, <3>1, LeastNat
  <2>3. CASE i = 0
    <3>1. among[0] = <<>>
      BY <1>1, <1>4
    <3>2. Good(0)
      BY <3>1 DEF PiecesOf
    <3> QED BY <2>2, <2>3, <3>2
  <2>4. CASE i # 0
    <3>1. i - 1 \in 0 .. N /\ i \in 1 .. N /\ Good(i - 1)
      <4>1. i \in 0 .. N
        OBVIOUS
      <4>2. i - 1 \in 0 .. N /\ i \in 1 .. N /\ ~(i <= i - 1)
        BY <1>1, <2>4, <4>1
      <4>3. i - 1 \notin Bad
        <5> HIDE DEF Bad
        <5> QED BY <2>2, <4>2
      <4> QED BY <4>2, <4>3
    <3>2. among[i] = Next1(among[i - 1], i)
      <4> HIDE DEF Next1
      <4> QED BY <1>4, <2>4, <3>1
    <3>3. {list[j] : j \in 1 .. i} = {list[j] : j \in 1 .. i - 1} \cup {list[i]}
      BY <3>1
    <3>4. CASE list[i] \in set
      <4>1. among[i] = among[i - 1] \o <<list[i]>> /\ list[i] \in S
        BY <1>1, <3>1, <3>2, <3>4
      <4>2. among[i] \in Seq(S) /\ PiecesOf(among[i]) = PiecesOf(among[i - 1]) \cup {list[i]}
        BY <3>1, <4>1, AppendedPieces
      <4>3. Good(i)
        BY <3>1, <3>3, <3>4, <4>2
      <4> QED BY <2>2, <4>3
    <3>5. CASE list[i] \notin set
      <4>1. among[i] = among[i - 1]
        BY <3>1, <3>2, <3>5
      <4>2. Good(i)
        BY <3>1, <3>3, <3>5, <4>1
      <4> QED BY <2>2, <4>2
    <3> QED BY <3>4, <3>5
  <2> QED BY <2>3, <2>4
<1>7. Good(N)
  <2> HIDE DEF Good
  <2> QED BY <1>1, <1>6
<1>8. PiecesOf(list) = {list[j] : j \in 1 .. N}
  BY <1>1 DEF PiecesOf
<1> QED BY <1>5, <1>7, <1>8

LEMMA AmongNothing ==
  ASSUME NEW set PROVE Among(<<>>, set) = <<>>
<1> DEFINE l == Among(<<>>, set)
<1>1. <<>> \in Seq(Piece)
  OBVIOUS
<1>2. PiecesOf(<<>>) = {}
  BY DEF PiecesOf
<1>3. l \in Seq(Piece) /\ PiecesOf(l) = PiecesOf(<<>>) \cap set
  BY <1>1, AmongFacts
<1> HIDE DEF l
<1>4. DOMAIN l = 1 .. Len(l) /\ Len(l) \in Nat
  BY <1>3
<1>5. ~(1 \in DOMAIN l)
  BY <1>2, <1>3 DEF PiecesOf
<1>6. Len(l) = 0
  BY <1>4, <1>5
<1>7. l = <<>>
  BY <1>3, <1>6
<1> QED BY <1>7 DEF l

LEMMA NoPieces == PiecesOf(<<>>) = {}
BY DEF PiecesOf

LEMMA PrependedPieces ==
  ASSUME NEW l \in Seq(Piece), NEW p \in Piece
  PROVE  <<p>> \o l \in Seq(Piece) /\ PiecesOf(<<p>> \o l) = PiecesOf(l) \cup {p}
<1> DEFINE t == <<p>> \o l
           N == Len(l)
<1>1. <<p>> \in Seq(Piece) /\ Len(<<p>>) = 1 /\ <<p>>[1] = p
  OBVIOUS
<1>2. t \in Seq(Piece) /\ Len(t) = 1 + N /\ N \in Nat
  BY <1>1, ConcatProperties
<1>3. \A i \in 1 .. 1 + N : t[i] = IF i <= 1 THEN <<p>>[i] ELSE l[i - 1]
  BY <1>1, ConcatProperties
<1>4. DOMAIN t = 1 .. 1 + N /\ DOMAIN l = 1 .. N
  BY <1>2
<1> HIDE DEF t, N
<1>5. t[1] = p /\ \A i \in 1 .. N : t[i + 1] = l[i]
  <2>1. t[1] = p
    BY <1>1, <1>2, <1>3
  <2>2. ASSUME NEW i \in 1 .. N PROVE t[i + 1] = l[i]
    <3>1. i + 1 \in 1 .. 1 + N /\ ~(i + 1 <= 1) /\ i + 1 - 1 = i
      BY <1>2
    <3> QED BY <1>3, <3>1
  <2> QED BY <2>1, <2>2
<1>6. PiecesOf(t) \subseteq PiecesOf(l) \cup {p}
  <2> SUFFICES ASSUME NEW i \in 1 .. 1 + N, i # 1 PROVE t[i] \in PiecesOf(l)
    BY <1>4, <1>5 DEF PiecesOf
  <2>1. i - 1 \in 1 .. N /\ i - 1 + 1 = i
    BY <1>2
  <2>2. t[i] = l[i - 1]
    BY <1>5, <2>1
  <2> QED BY <1>4, <2>1, <2>2 DEF PiecesOf
<1>7. PiecesOf(l) \cup {p} \subseteq PiecesOf(t)
  <2>1. 1 \in 1 .. 1 + N /\ \A i \in 1 .. N : i + 1 \in 1 .. 1 + N
    BY <1>2
  <2> QED BY <1>4, <1>5, <2>1 DEF PiecesOf
<1>8. PiecesOf(t) = PiecesOf(l) \cup {p}
  BY <1>6, <1>7
<1> QED BY <1>2, <1>8 DEF t

LEMMA TailPieces ==
  ASSUME NEW l \in Seq(Piece), l # <<>>
  PROVE  /\ Head(l) \in PiecesOf(l)
         /\ Tail(l) \in Seq(Piece) /\ PiecesOf(Tail(l)) \subseteq PiecesOf(l)
<1>1. DOMAIN l = 1 .. Len(l) /\ Len(l) \in Nat /\ Len(l) # 0 /\ Head(l) = l[1]
  OBVIOUS
<1>2. Head(l) \in PiecesOf(l)
  BY <1>1 DEF PiecesOf
<1>3. /\ Tail(l) \in Seq(Piece) /\ DOMAIN Tail(l) = 1 .. Len(l) - 1
      /\ \A i \in 1 .. Len(l) - 1 : Tail(l)[i] = l[i + 1]
  BY <1>1
<1>4. \A i \in 1 .. Len(l) - 1 : i + 1 \in 1 .. Len(l)
  BY <1>1
<1>5. PiecesOf(Tail(l)) \subseteq PiecesOf(l)
  BY <1>1, <1>3, <1>4 DEF PiecesOf
<1> QED BY <1>2, <1>3, <1>5

-----------------------------------------------------------------------------
(* The blocks that are awaited *)

Items(f) == UNION {{s} \X (1 .. f[s]) : s \in Slot}

LEMMA ItemsFacts ==
  ASSUME NEW f \in [Slot -> Nat]
  PROVE  /\ \A s, i : <<s, i>> \in Items(f) <=> s \in Slot /\ i \in 1 .. f[s]
         /\ \A x \in Items(f) : x = <<x[1], x[2]>> /\ x[1] \in Slot /\ x[2] \in 1 .. f[x[1]]
BY DEF Items

LEMMA ItemsFinite ==
  ASSUME NEW f \in [Slot -> Nat]
  PROVE  IsFiniteSet(Items(f)) /\ Awaited(f) = Cardinality(Items(f)) /\ Awaited(f) \in Nat
<1> DEFINE Of == [s \in Slot |-> {s} \X (1 .. f[s])]
           All == {{s} \X (1 .. f[s]) : s \in Slot}
<1>1. Of \in Surjection(Slot, All)
  BY DEF Surjection
<1>2. IsFiniteSet(All)
  <2> HIDE DEF Of, All
  <2> QED BY <1>1, SlotAssumption, FS_Surjection
<1>3. \A T \in All : IsFiniteSet(T)
  <2> SUFFICES ASSUME NEW s \in Slot PROVE IsFiniteSet({s} \X (1 .. f[s]))
    OBVIOUS
  <2>1. f[s] \in Int /\ 1 \in Int
    OBVIOUS
  <2>2. IsFiniteSet(1 .. f[s])
    BY <2>1, FS_Interval
  <2>3. IsFiniteSet({s})
    BY FS_Singleton
  <2> QED BY <2>2, <2>3, FS_Product
<1>4. IsFiniteSet(UNION All)
  <2> HIDE DEF All
  <2> QED BY <1>2, <1>3, FS_UNION
<1>5. Items(f) = UNION All /\ Awaited(f) = Cardinality(UNION All)
  BY DEF Items, Awaited
<1> QED BY <1>4, <1>5, FS_CardinalityType

\* Dropping blocks does not add any.
LEMMA AwaitedLess ==
  ASSUME NEW f \in [Slot -> Nat], NEW g \in [Slot -> Nat], \A s \in Slot : g[s] <= f[s]
  PROVE  Awaited(g) <= Awaited(f)
<1>1. Items(g) \subseteq Items(f)
  <2> SUFFICES ASSUME NEW x \in Items(g) PROVE x \in Items(f)
    OBVIOUS
  <2>1. x = <<x[1], x[2]>> /\ x[1] \in Slot /\ x[2] \in 1 .. g[x[1]]
    BY ItemsFacts
  <2>2. x[2] \in 1 .. f[x[1]]
    BY <2>1
  <2>3. <<x[1], x[2]>> \in Items(f)
    BY <2>1, <2>2, ItemsFacts
  <2> QED BY <2>1, <2>3
<1> QED BY <1>1, ItemsFinite, FS_Subset

\* Asking for a set of blocks adds their number at most.
LEMMA AwaitedMore ==
  ASSUME NEW f \in [Slot -> Nat], NEW g \in [Slot -> Nat], NEW blocks \in SUBSET Slot,
         \A s \in Slot : g[s] = f[s] + IF s \in blocks THEN 1 ELSE 0
  PROVE  Cardinality(blocks) \in Nat /\ Awaited(g) <= Awaited(f) + Cardinality(blocks)
<1> DEFINE Last == [s \in blocks |-> <<s, f[s] + 1>>]
           fresh == {<<s, f[s] + 1>> : s \in blocks}
<1>1. IsFiniteSet(blocks) /\ Cardinality(blocks) \in Nat
  BY SlotAssumption, FS_Subset, FS_CardinalityType
<1>2. Last \in Surjection(blocks, fresh)
  BY DEF Surjection
<1>3. IsFiniteSet(fresh) /\ Cardinality(fresh) <= Cardinality(blocks) /\ Cardinality(fresh) \in Nat
  <2> HIDE DEF Last, fresh
  <2> QED BY <1>1, <1>2, FS_Surjection, FS_CardinalityType
<1>4. Items(g) \subseteq Items(f) \cup fresh
  <2> SUFFICES ASSUME NEW x \in Items(g), x \notin Items(f) PROVE x \in fresh
    OBVIOUS
  <2>1. x = <<x[1], x[2]>> /\ x[1] \in Slot /\ x[2] \in 1 .. g[x[1]]
    BY ItemsFacts
  <2>2. x[2] \notin 1 .. f[x[1]]
    BY <2>1, ItemsFacts
  <2>3. x[1] \in blocks /\ x[2] = f[x[1]] + 1
    BY <2>1, <2>2
  <2>4. <<x[1], f[x[1]] + 1>> \in fresh
    BY <2>3
  <2>5. x = <<x[1], f[x[1]] + 1>>
    BY <2>1, <2>3
  <2> QED BY <2>4, <2>5
<1> HIDE DEF fresh
<1>5. IsFiniteSet(Items(f)) /\ Awaited(f) = Cardinality(Items(f)) /\ Awaited(f) \in Nat
  BY ItemsFinite
<1>6. /\ IsFiniteSet(Items(f) \cup fresh)
      /\ Cardinality(Items(f) \cup fresh) <= Awaited(f) + Cardinality(fresh)
  <2>1. Cardinality(Items(f) \cap fresh) \in Nat
    BY <1>3, FS_Intersection, FS_CardinalityType
  <2>2. /\ IsFiniteSet(Items(f) \cup fresh)
        /\ Cardinality(Items(f) \cup fresh) = Awaited(f) + Cardinality(fresh)
                                                - Cardinality(Items(f) \cap fresh)
    BY <1>3, <1>5, FS_Union
  <2> QED BY <1>3, <1>5, <2>1, <2>2
<1>7. Awaited(g) <= Cardinality(Items(f) \cup fresh) /\ Awaited(g) \in Nat
  BY <1>4, <1>6, ItemsFinite, FS_Subset
<1>8. Cardinality(Items(f) \cup fresh) \in Nat
  BY <1>6, FS_CardinalityType
<1> QED BY <1>1, <1>3, <1>5, <1>6, <1>7, <1>8

LEMMA NothingAwaited == NoRequests \in [Slot -> Nat] /\ Awaited(NoRequests) = 0
<1>1. NoRequests \in [Slot -> Nat]
  BY DEF NoRequests
<1>2. Items(NoRequests) = {}
  BY DEF Items, NoRequests
<1> QED BY <1>1, <1>2, ItemsFinite, FS_EmptySet

LEMMA QuotaBound == \A st : Quota(st) \in Nat /\ Quota(st) <= MaxBlocksInProgress
BY QuotaAssumption DEF Quota

-----------------------------------------------------------------------------
(* What the connections work on *)

WorkType == /\ payloads \in [Peer -> Seq(Piece)]
            /\ incoming \in [Peer -> [Slot -> Nat]]
            /\ connections \subseteq Peer
            /\ asked \subseteq Slot
            /\ toSchedule \subseteq connections

\* A connection that chokes us has been told to forget its pieces.
ChokedIsIdle == \A c \in Peer : c \in choked => payloads[c] = <<>>

\* requestMore() asks for pieces that the connection works on.
AskingOwnPieces ==
  asking # None => /\ asking \in [peer : Peer, pieces : Seq(Piece), room : Int]
                   /\ PiecesOf(asking.pieces) \subseteq PiecesOf(payloads[asking.peer])

WorkInv == WorkType /\ PayloadsPointToPendingPieces /\ ChokedIsIdle /\ AskingOwnPieces

LEMMA WithoutPieceFacts ==
  ASSUME WorkType, NEW p, payloads' = [c \in Peer |-> WithoutPiece(payloads[c], p)]
  PROVE  /\ payloads' \in [Peer -> Seq(Piece)]
         /\ \A c \in Peer : /\ PiecesOf(payloads'[c]) = PiecesOf(payloads[c]) \ {p}
                            /\ payloads[c] = <<>> => payloads'[c] = <<>>
<1> SUFFICES ASSUME NEW c \in Peer
             PROVE  /\ payloads'[c] \in Seq(Piece)
                    /\ PiecesOf(payloads'[c]) = PiecesOf(payloads[c]) \ {p}
                    /\ payloads[c] = <<>> => payloads'[c] = <<>>
  OBVIOUS
<1>1. payloads'[c] = Among(payloads[c], Piece \ {p}) /\ payloads[c] \in Seq(Piece)
  BY DEF WithoutPiece, WorkType
<1>2. PiecesOf(payloads[c]) \subseteq Piece
  BY <1>1 DEF PiecesOf
<1>3. /\ payloads'[c] \in Seq(Piece)
      /\ PiecesOf(payloads'[c]) = PiecesOf(payloads[c]) \cap (Piece \ {p})
  BY <1>1, AmongFacts
<1> QED BY <1>1, <1>2, <1>3, AmongNothing

LEMMA RequestMoreOwnPieces ==
  ASSUME NEW c \in Peer, payloads' \in [Peer -> Seq(Piece)],
         incoming' \in [Peer -> [Slot -> Nat]], RequestMore(c)
  PROVE  AskingOwnPieces'
<1> DEFINE set == IF MultiMode(state') THEN Piece ELSE inProgress'
           pieces == Among(payloads'[c], set)
<1>1. pieces \in Seq(Piece) /\ PiecesOf(pieces) \subseteq PiecesOf(payloads'[c])
  BY AmongFacts
<1> DEFINE room == Quota(state') - Awaited(incoming'[c])
<1>2. asking' = None \/ asking' = [peer |-> c, pieces |-> pieces, room |-> room]
  BY Zenon DEF RequestMore
<1>3. room \in Int
  BY ItemsFinite, QuotaBound
<1> HIDE DEF room
<1> HIDE DEF pieces
<1> QED BY <1>1, <1>2, <1>3 DEF AskingOwnPieces

LEMMA ForgetFacts ==
  ASSUME WorkInv, NEW c \in Peer, ForgetPieces(c)
  PROVE  /\ payloads' \in [Peer -> Seq(Piece)]
         /\ payloads'[c] = <<>> /\ \A k \in Peer \ {c} : payloads'[k] = payloads[k]
         /\ incoming' \in [Peer -> [Slot -> Nat]]
         /\ \A k \in Peer \ {c} : incoming'[k] = incoming[k]
         /\ asked' = {s \in asked : s[1] \notin PiecesOf(payloads[c])}
<1>1. NoRequests \in [Slot -> Nat]
  BY DEF NoRequests
<1> QED BY <1>1 DEF WorkInv, WorkType, ForgetPieces

\* A connection that goes away, or chokes us, has no piece any more.
LEMMA ForgetKeepsWork ==
  ASSUME WorkInv, NEW c \in Peer, ForgetPieces(c), Idle, UNCHANGED <<live, toSchedule, asking>>,
         connections' = connections \/ connections' = connections \ {c},
         choked' = choked \/ choked' = choked \cup {c}
  PROVE  WorkInv'
<1>1. toSchedule' = {} /\ asking' = None
  BY DEF Idle
<1>2. WorkType'
  BY <1>1, ForgetFacts DEF WorkInv, WorkType
<1>3. PayloadsPointToPendingPieces' /\ ChokedIsIdle'
  BY ForgetFacts, NoPieces DEF WorkInv, PayloadsPointToPendingPieces, ChokedIsIdle
<1> QED BY <1>1, <1>2, <1>3 DEF WorkInv, AskingOwnPieces

LEMMA BlockKeepsWork ==
  ASSUME WorkInv, NEW c \in Peer, NEW s \in Slot, BlockReceived(c, s)
  PROVE  WorkInv'
<1>1. /\ UNCHANGED <<connections, choked, toSchedule>>
      /\ live' = live /\ (asked' = asked \/ asked' = asked \ {s})
      /\ \/ payloads' = payloads
         \/ payloads' = [k \in Peer |-> WithoutPiece(payloads[k], s[1])]
  BY DEF BlockReceived, peerVars, DiscardBlock, StoreBlock, pieceVars
<1>2. incoming' \in [Peer -> [Slot -> Nat]]
  <2>1. \E cancel : Received(c, s, cancel)
    BY Zenon DEF BlockReceived, DiscardBlock, StoreBlock
  <2> QED BY <2>1 DEF Received, WorkInv, WorkType
<1>3. /\ payloads' \in [Peer -> Seq(Piece)]
      /\ \A k \in Peer : /\ PiecesOf(payloads'[k]) \subseteq PiecesOf(payloads[k])
                         /\ payloads[k] = <<>> => payloads'[k] = <<>>
  <2>1. CASE payloads' = payloads
    BY <2>1 DEF WorkInv, WorkType
  <2>2. CASE payloads' = [k \in Peer |-> WithoutPiece(payloads[k], s[1])]
    <3>1. /\ payloads' \in [Peer -> Seq(Piece)]
          /\ \A k \in Peer : /\ PiecesOf(payloads'[k]) = PiecesOf(payloads[k]) \ {s[1]}
                             /\ payloads[k] = <<>> => payloads'[k] = <<>>
      BY <2>2, WithoutPieceFacts DEF WorkInv
    <3> QED BY <3>1
  <2> QED BY <1>1, <2>1, <2>2
<1>4. AskingOwnPieces'
  BY <1>2, <1>3, RequestMoreOwnPieces DEF BlockReceived
<1>5. WorkType'
  BY <1>1, <1>2, <1>3 DEF WorkInv, WorkType
<1>6. PayloadsPointToPendingPieces' /\ ChokedIsIdle'
  BY <1>1, <1>3, Zenon DEF WorkInv, PayloadsPointToPendingPieces, ChokedIsIdle
<1> QED BY <1>4, <1>5, <1>6 DEF WorkInv

LEMMA VerdictKeepsWork ==
  ASSUME WorkInv, NEW p \in Piece, PieceFailed(p) \/ PieceVerified(p)
  PROVE  WorkInv'
<1>1. /\ UNCHANGED <<connections, choked, toSchedule, incoming, asking>>
      /\ asking = None /\ asked' = asked \ SlotsOf(p)
      /\ live' = live \/ live' = live \ {p}
      /\ payloads' = [c \in Peer |-> WithoutPiece(payloads[c], p)]
  BY DEF PieceFailed, PieceVerified, TakeVerdict, peerVars, Idle
<1>2. /\ payloads' \in [Peer -> Seq(Piece)]
      /\ \A c \in Peer : /\ PiecesOf(payloads'[c]) = PiecesOf(payloads[c]) \ {p}
                         /\ payloads[c] = <<>> => payloads'[c] = <<>>
  BY <1>1, WithoutPieceFacts DEF WorkInv
<1>3. WorkType' /\ AskingOwnPieces'
  BY <1>1, <1>2 DEF WorkInv, WorkType, AskingOwnPieces
<1>4. ASSUME NEW c \in Peer
      PROVE  /\ PiecesOf(payloads'[c]) \subseteq live'
             /\ c \notin connections' => payloads'[c] = <<>>
             /\ c \in choked' => payloads'[c] = <<>>
  <2>1. PiecesOf(payloads[c]) \subseteq live
    BY DEF WorkInv, PayloadsPointToPendingPieces
  <2>2. c \notin connections \/ c \in choked => payloads[c] = <<>>
    BY DEF WorkInv, PayloadsPointToPendingPieces, ChokedIsIdle
  <2> QED BY <1>1, <1>2, <2>1, <2>2
<1>5. PayloadsPointToPendingPieces' /\ ChokedIsIdle'
  BY <1>4, Zenon DEF PayloadsPointToPendingPieces, ChokedIsIdle
<1> QED BY <1>3, <1>5 DEF WorkInv

\* The scheduler gives pieces to connections that are there and do not choke us.
LEMMA AssignKeepsWork ==
  ASSUME WorkInv, NEW c \in connections, c \notin choked, NEW p \in Piece, Assign(c, p)
  PROVE  /\ payloads' \in [Peer -> Seq(Piece)]
         /\ \A k \in Peer : PiecesOf(payloads'[k]) \subseteq live'
         /\ \A k \in Peer : PiecesOf(payloads[k]) \subseteq PiecesOf(payloads'[k])
         /\ \A k \in Peer : k \notin connections \/ k \in choked => payloads'[k] = <<>>
<1>1. c \in Peer /\ payloads[c] \in Seq(Piece)
  BY DEF WorkInv, WorkType
<1>2. payloads' = [payloads EXCEPT ![c] = <<p>> \o payloads[c]] /\ live' = live \cup {p}
  BY DEF Assign
<1> DEFINE mine == <<p>> \o payloads[c]
<1>3. mine \in Seq(Piece) /\ PiecesOf(mine) = PiecesOf(payloads[c]) \cup {p}
  BY <1>1, PrependedPieces
<1>4. payloads' = [payloads EXCEPT ![c] = mine]
  BY <1>2
<1> HIDE DEF mine
<1>5. payloads' \in [Peer -> Seq(Piece)]
  BY <1>1, <1>3, <1>4 DEF WorkInv, WorkType
<1>6. payloads'[c] = mine /\ \A k \in Peer \ {c} : payloads'[k] = payloads[k]
  BY <1>1, <1>4 DEF WorkInv, WorkType
<1>7. ASSUME NEW k \in Peer
      PROVE  /\ PiecesOf(payloads'[k]) \subseteq live'
             /\ PiecesOf(payloads[k]) \subseteq PiecesOf(payloads'[k])
             /\ k \notin connections \/ k \in choked => payloads'[k] = <<>>
  <2>1. /\ PiecesOf(payloads[k]) \subseteq live
        /\ k \notin connections \/ k \in choked => payloads[k] = <<>>
    BY DEF WorkInv, PayloadsPointToPendingPieces, ChokedIsIdle
  <2>2. CASE k = c
    BY <1>2, <1>3, <1>6, <2>1, <2>2
  <2>3. CASE k # c
    BY <1>2, <1>6, <2>1, <2>3
  <2> QED BY <2>2, <2>3
<1> QED BY <1>5, <1>7

LEMMA ScheduleKeepsWork ==
  ASSUME PieceInv, WorkInv, NEW c \in Peer, SchedulePieceForClient(c)
  PROVE  WorkInv'
<1>1. /\ UNCHANGED <<connections, choked, asked, incoming, completed>>
      /\ toSchedule' \subseteq toSchedule /\ c \in connections /\ asking = None
  BY DEF SchedulePieceForClient, peerVars, WorkInv, WorkType
<1>2. c \notin choked \/ LeaveClient(c)
  BY DEF SchedulePieceForClient, SpreadPiece, ResumePiece, AssignPiece, Skipped
<1>3. CASE UNCHANGED <<live, payloads, asking>>
  BY <1>1, <1>3 DEF WorkInv, WorkType, PayloadsPointToPendingPieces, ChokedIsIdle,
                    AskingOwnPieces
<1>4. ASSUME UNCHANGED <<live, payloads>>, RequestMore(c) PROVE WorkInv'
  <2>1. AskingOwnPieces'
    BY <1>1, <1>4, RequestMoreOwnPieces DEF WorkInv, WorkType
  <2> QED BY <1>1, <1>4, <2>1
          DEF WorkInv, WorkType, PayloadsPointToPendingPieces, ChokedIsIdle
<1>5. ASSUME c \notin choked, NEW p \in Piece, Assign(c, p),
             asking' = asking \/ RequestMore(c)
      PROVE  WorkInv'
  <2>1. /\ payloads' \in [Peer -> Seq(Piece)]
        /\ \A k \in Peer : PiecesOf(payloads'[k]) \subseteq live'
        /\ \A k \in Peer : k \notin connections \/ k \in choked => payloads'[k] = <<>>
    BY <1>1, <1>5, AssignKeepsWork
  <2>2. AskingOwnPieces'
    <3>1. incoming' \in [Peer -> [Slot -> Nat]]
      BY <1>1 DEF WorkInv, WorkType
    <3>2. CASE asking' = asking
      BY <1>1, <3>2 DEF AskingOwnPieces
    <3>3. CASE RequestMore(c)
      BY <1>1, <2>1, <3>1, <3>3, RequestMoreOwnPieces DEF WorkInv, WorkType
    <3> QED BY <1>5, <3>2, <3>3
  <2> QED BY <1>1, <2>1, <2>2
          DEF WorkInv, WorkType, PayloadsPointToPendingPieces, ChokedIsIdle
<1>6. CASE LeaveClient(c)
  BY <1>3, <1>6 DEF LeaveClient
<1>7. CASE ResumePiece(c)
  BY <1>4, <1>7 DEF ResumePiece
<1>8. CASE AssignPiece(c)
  <2>1. PICK p \in Candidates(c) : Assign(c, p)
    BY <1>8 DEF AssignPiece
  <2>2. p \in Piece
    BY CandidatesIncomplete DEF Incomplete
  <2>3. c \notin choked /\ RequestMore(c)
    BY <1>8 DEF AssignPiece, Skipped
  <2> QED BY <1>5, <2>1, <2>2, <2>3
<1>9. CASE SpreadPiece(c)
  <2>1. PICK p \in live :
          /\ Assign(c, p) \/ UNCHANGED <<live, payloads>>
          /\ asking' = asking \/ RequestMore(c)
    BY <1>9 DEF SpreadPiece
  <2>2. p \in Piece /\ c \notin choked
    BY <1>9 DEF PieceInv, SetsOK, SpreadPiece, Skipped
  <2> QED BY <1>3, <1>4, <1>5, <2>1, <2>2
<1> QED BY <1>6, <1>7, <1>8, <1>9 DEF SchedulePieceForClient

LEMMA AskBlocksFacts ==
  ASSUME WorkInv, AskBlocks
  PROVE  \E blocks \in Selections(Head(asking.pieces), asking.room) :
           /\ blocks \subseteq Slot /\ \A s \in blocks : s[1] = Head(asking.pieces)
           /\ asked' = asked \cup blocks
           /\ asking.peer \in Peer
           /\ Head(asking.pieces) \in PiecesOf(payloads[asking.peer])
           /\ incoming' = [incoming EXCEPT ![asking.peer] =
                             [s \in Slot |-> incoming[asking.peer][s]
                                               + IF s \in blocks THEN 1 ELSE 0]]
           /\ incoming' \in [Peer -> [Slot -> Nat]]
           /\ asking' = [asking EXCEPT !.pieces = Tail(asking.pieces),
                                       !.room = asking.room - Cardinality(blocks)]
           /\ AskingOwnPieces'
           /\ UNCHANGED <<live, connections, choked, payloads, toSchedule>>
<1>1. PICK blocks \in Selections(Head(asking.pieces), asking.room) :
           /\ asked' = asked \cup blocks
           /\ incoming' = [incoming EXCEPT ![asking.peer] =
                             [s \in Slot |-> incoming[asking.peer][s]
                                               + IF s \in blocks THEN 1 ELSE 0]]
           /\ asking' = [asking EXCEPT !.pieces = Tail(asking.pieces),
                                       !.room = asking.room - Cardinality(blocks)]
  BY DEF AskBlocks
<1>2. blocks \subseteq SlotsOf(Head(asking.pieces))
  BY DEF Selections, kSubset, Wanted, MissingBlocks
<1>3. /\ asking # None /\ asking.pieces # <<>>
      /\ UNCHANGED <<live, connections, choked, payloads, toSchedule>>
  BY DEF AskBlocks, peerVars
<1>4. /\ asking \in [peer : Peer, pieces : Seq(Piece), room : Int]
      /\ PiecesOf(asking.pieces) \subseteq PiecesOf(payloads[asking.peer])
  BY <1>3 DEF WorkInv, AskingOwnPieces
<1>5. /\ Head(asking.pieces) \in PiecesOf(payloads[asking.peer])
      /\ Tail(asking.pieces) \in Seq(Piece)
      /\ PiecesOf(Tail(asking.pieces)) \subseteq PiecesOf(payloads[asking.peer])
  BY <1>3, <1>4, TailPieces
<1>6. incoming' \in [Peer -> [Slot -> Nat]]
  BY <1>1, <1>4 DEF WorkInv, WorkType
<1>7. Cardinality(blocks) \in Nat
  <2>1. blocks \subseteq Slot
    BY <1>2 DEF SlotsOf
  <2> QED BY <2>1, SlotAssumption, FS_Subset, FS_CardinalityType
<1> DEFINE rest == Tail(asking.pieces)
           room == asking.room - Cardinality(blocks)
<1>8. rest \in Seq(Piece) /\ room \in Int /\ asking.room \in Int
  BY <1>4, <1>5, <1>7
<1>9. asking' = [asking EXCEPT !.pieces = rest, !.room = room]
  BY <1>1
<1>10. AskingOwnPieces'
  <2> HIDE DEF rest, room
  <2>1. /\ asking' \in [peer : Peer, pieces : Seq(Piece), room : Int]
        /\ asking'.peer = asking.peer /\ asking'.pieces = rest
    BY <1>4, <1>8, <1>9
  <2> QED BY <1>3, <1>5, <2>1 DEF AskingOwnPieces, rest
<1> QED BY <1>1, <1>2, <1>3, <1>4, <1>5, <1>6, <1>10 DEF SlotsOf

LEMMA WorkInit == Init => WorkInv
<1> SUFFICES ASSUME Init PROVE WorkInv
  OBVIOUS
<1>1. <<>> \in Seq(Piece)
  OBVIOUS
<1> QED BY <1>1, NoPieces, NothingAwaited
        DEF Init, WorkInv, WorkType, PayloadsPointToPendingPieces, ChokedIsIdle,
            AskingOwnPieces

LEMMA WorkStep == PieceInv /\ WorkInv /\ [Next]_vars => WorkInv'
<1> SUFFICES ASSUME PieceInv, WorkInv, [Next]_vars PROVE WorkInv'
  OBVIOUS
<1> DEFINE works == <<live, connections, choked, asked, payloads, incoming, toSchedule,
                      asking>>
<1>1. CASE UNCHANGED works
  BY <1>1 DEF WorkInv, WorkType, PayloadsPointToPendingPieces, ChokedIsIdle,
              AskingOwnPieces
<1>2. ASSUME NEW c \in Peer, Connect(c) \/ Unchoke(c) PROVE WorkInv'
  <2>1. /\ UNCHANGED <<live, asked, payloads, incoming, toSchedule, asking>>
        /\ connections' \in {connections, connections \cup {c}}
        /\ choked' \in {choked, choked \ {c}}
    BY <1>2 DEF Connect, Unchoke, pieceVars
  <2> QED BY <2>1 DEF WorkInv, WorkType, PayloadsPointToPendingPieces, ChokedIsIdle,
                      AskingOwnPieces
<1>3. ASSUME NEW c \in Peer, Disconnect(c) \/ Choke(c) PROVE WorkInv'
  BY <1>3, ForgetKeepsWork DEF Disconnect, Choke, RemoveClient
<1>4. ASSUME NEW c \in Peer, NEW pieces \in SUBSET Piece, PiecesAvailable(c, pieces)
      PROVE  WorkInv'
  <2>1. CASE RemoveClient(c)
    BY <1>4, <2>1, ForgetKeepsWork DEF PiecesAvailable, RemoveClient
  <2>2. CASE UNCHANGED <<connections, payloads, incoming, inProgress, asked>>
    BY <1>1, <1>4, <2>2 DEF PiecesAvailable
  <2> QED BY <1>4, <2>1, <2>2 DEF PiecesAvailable
<1>5. CASE ScheduleDownloads \/ AskDone
  <2>1. /\ UNCHANGED <<live, connections, choked, asked, payloads, incoming>>
        /\ toSchedule' \subseteq connections
        /\ asking' = asking \/ asking' = None
    BY <1>5 DEF ScheduleDownloads, AskDone, pieceVars, peerVars, WorkInv, WorkType
  <2> QED BY <2>1 DEF WorkInv, WorkType, PayloadsPointToPendingPieces, ChokedIsIdle,
                      AskingOwnPieces
<1>6. CASE AskBlocks
  BY <1>6, AskBlocksFacts
     DEF WorkInv, WorkType, PayloadsPointToPendingPieces, ChokedIsIdle
<1>7. CASE UNCHANGED vars
  BY <1>1, <1>7 DEF vars, pieceVars, peerVars
<1> QED BY <1>2, <1>3, <1>4, <1>5, <1>6, <1>7, BlockKeepsWork, VerdictKeepsWork,
           ScheduleKeepsWork DEF Next, Scheduler

THEOREM WorkInvariant == Spec => []WorkInv
<1> QED BY WorkInit, WorkStep, PieceInvariant, PTL DEF Spec

\* payloads holds pointers to pending pieces and keys of connections: no handler
\* leaves behind a piece that was deleted or a connection that was removed.
THEOREM PayloadsNeverDangle == Spec => []PayloadsPointToPendingPieces
<1>1. WorkInv => PayloadsPointToPendingPieces
  BY DEF WorkInv
<1> QED BY <1>1, WorkInvariant, PTL

-----------------------------------------------------------------------------
(* Requested blocks *)

LEMMA ForgetKeepsRequests ==
  ASSUME WorkInv, NoOrphanRequest, NEW c \in Peer, ForgetPieces(c),
         connections' = connections \/ connections' = connections \ {c},
         choked' = choked \/ choked' = choked \cup {c}
  PROVE  NoOrphanRequest'
<1> SUFFICES ASSUME NEW s \in asked'
             PROVE  \E k \in connections' \ choked' : /\ incoming'[k][s] > 0
                                                      /\ s[1] \in PiecesOf(payloads'[k])
  BY DEF NoOrphanRequest
<1>1. s \in asked /\ s[1] \notin PiecesOf(payloads[c])
  BY ForgetFacts
<1>2. PICK k \in connections \ choked : /\ incoming[k][s] > 0
                                        /\ s[1] \in PiecesOf(payloads[k])
  BY <1>1 DEF NoOrphanRequest
<1>3. k # c /\ k \in Peer
  BY <1>1, <1>2 DEF WorkInv, WorkType
<1>4. incoming'[k] = incoming[k] /\ payloads'[k] = payloads[k]
  BY <1>3, ForgetFacts
<1> QED BY <1>2, <1>3, <1>4

\* The block that comes in was asked from somebody only if it was missing; the others
\* are still awaited from whom they were awaited from.
LEMMA BlockKeepsRequests ==
  ASSUME WorkInv, NoOrphanRequest, StoredIsNotAsked, StoredIsNotAsked',
         NEW c \in Peer, NEW s \in Slot, BlockReceived(c, s)
  PROVE  NoOrphanRequest'
<1> SUFFICES ASSUME NEW t \in asked'
             PROVE  \E k \in connections' \ choked' : /\ incoming'[k][t] > 0
                                                      /\ t[1] \in PiecesOf(payloads'[k])
  BY DEF NoOrphanRequest
<1>1. t \in asked /\ t # s
  <2>1. CASE StoreBlock(c, s)
    BY <2>1 DEF StoreBlock
  <2>2. CASE DiscardBlock(c, s)
    <3>1. asked' = asked /\ (s[1] \notin live \/ s \in done)
      BY <2>2 DEF DiscardBlock, pieceVars
    <3>2. s \in done => s \notin asked
      BY DEF StoredIsNotAsked
    <3>3. s \in asked => s[1] \in live
      BY DEF NoOrphanRequest, WorkInv, WorkType, PayloadsPointToPendingPieces
    <3> QED BY <3>1, <3>2, <3>3
  <2> QED BY <2>1, <2>2 DEF BlockReceived
<1>2. PICK k \in connections \ choked : /\ incoming[k][t] > 0
                                        /\ t[1] \in PiecesOf(payloads[k])
  BY <1>1 DEF NoOrphanRequest
<1>3. k \in Peer /\ t \in Slot /\ UNCHANGED <<connections, choked>>
  BY <1>1 DEF WorkInv, WorkType, BlockReceived, peerVars
<1>4. incoming'[k][t] = incoming[k][t]
  <2>1. \E cancel : Received(c, s, cancel)
    BY Zenon DEF BlockReceived, DiscardBlock, StoreBlock
  <2>2. incoming[k] \in [Slot -> Nat]
    BY <1>3 DEF WorkInv, WorkType
  <2>3. incoming'[k] = [incoming[k] EXCEPT ![s] = 0] \/ incoming'[k] = incoming[k]
    BY <1>3, <2>1 DEF Received
  <2> QED BY <1>1, <1>3, <2>2, <2>3
<1>5. t[1] \in PiecesOf(payloads'[k])
  <2>1. CASE payloads' = payloads
    BY <1>2, <2>1
  <2>2. CASE payloads' # payloads
    <3>1. /\ StoreBlock(c, s) /\ SlotsOf(s[1]) \subseteq done'
          /\ payloads' = [l \in Peer |-> WithoutPiece(payloads[l], s[1])]
      BY <2>2 DEF BlockReceived, DiscardBlock, StoreBlock
    <3>2. t[1] # s[1]
      BY <1>3, <3>1 DEF SlotsOf, StoredIsNotAsked
    <3>3. PiecesOf(payloads'[k]) = PiecesOf(payloads[k]) \ {s[1]}
      BY <1>3, <3>1, WithoutPieceFacts DEF WorkInv
    <3> QED BY <1>2, <3>2, <3>3
  <2> QED BY <2>1, <2>2
<1> QED BY <1>2, <1>3, <1>4, <1>5

LEMMA VerdictKeepsRequests ==
  ASSUME WorkInv, NoOrphanRequest, NEW p \in Piece, PieceFailed(p) \/ PieceVerified(p)
  PROVE  NoOrphanRequest'
<1>1. /\ UNCHANGED <<connections, choked, incoming>> /\ asked' = asked \ SlotsOf(p)
      /\ payloads' = [c \in Peer |-> WithoutPiece(payloads[c], p)]
  BY DEF PieceFailed, PieceVerified, TakeVerdict, peerVars
<1>2. \A c \in Peer : PiecesOf(payloads'[c]) = PiecesOf(payloads[c]) \ {p}
  BY <1>1, WithoutPieceFacts DEF WorkInv
<1> SUFFICES ASSUME NEW s \in asked'
             PROVE  \E k \in connections' \ choked' : /\ incoming'[k][s] > 0
                                                      /\ s[1] \in PiecesOf(payloads'[k])
  BY DEF NoOrphanRequest
<1>3. s \in asked /\ s[1] # p
  BY <1>1 DEF SlotsOf, WorkInv, WorkType
<1>4. PICK k \in connections \ choked : /\ incoming[k][s] > 0
                                        /\ s[1] \in PiecesOf(payloads[k])
  BY <1>3 DEF NoOrphanRequest
<1>5. k \in Peer
  BY DEF WorkInv, WorkType
<1> QED BY <1>1, <1>2, <1>3, <1>4, <1>5

\* No step makes a connection lose a piece whose blocks it was asked for.
LEMMA MoreWorkKeepsRequests ==
  ASSUME WorkInv, NoOrphanRequest, asked' = asked, incoming' = incoming,
         connections \ choked \subseteq connections' \ choked',
         \A c \in Peer : PiecesOf(payloads[c]) \subseteq PiecesOf(payloads'[c])
  PROVE  NoOrphanRequest'
BY DEF NoOrphanRequest, WorkInv, WorkType

LEMMA ScheduleKeepsRequests ==
  ASSUME PieceInv, WorkInv, NoOrphanRequest, NEW c \in Peer, SchedulePieceForClient(c)
  PROVE  NoOrphanRequest'
<1>1. /\ UNCHANGED <<connections, choked, asked, incoming>> /\ c \in connections
  BY DEF SchedulePieceForClient, peerVars, WorkInv, WorkType
<1>2. \/ payloads' = payloads
      \/ c \notin choked /\ \E p \in Piece : Assign(c, p)
  <2>1. CASE LeaveClient(c) \/ ResumePiece(c)
    BY <2>1 DEF LeaveClient, ResumePiece
  <2>2. CASE SpreadPiece(c)
    <3>1. c \notin choked /\ \E p \in live : Assign(c, p) \/ payloads' = payloads
      BY <2>2 DEF SpreadPiece, Skipped
    <3> QED BY <3>1 DEF PieceInv, SetsOK
  <2>3. CASE AssignPiece(c)
    <3>1. c \notin choked /\ \E p \in Candidates(c) : Assign(c, p)
      BY <2>3 DEF AssignPiece, Skipped
    <3> QED BY <3>1, CandidatesIncomplete DEF Incomplete
  <2> QED BY <2>1, <2>2, <2>3 DEF SchedulePieceForClient
<1>3. \A k \in Peer : PiecesOf(payloads[k]) \subseteq PiecesOf(payloads'[k])
  <2>1. CASE payloads' = payloads
    BY <2>1
  <2>2. ASSUME c \notin choked, NEW p \in Piece, Assign(c, p)
        PROVE  \A k \in Peer : PiecesOf(payloads[k]) \subseteq PiecesOf(payloads'[k])
    BY <1>1, <2>2, AssignKeepsWork
  <2> QED BY <1>2, <2>1, <2>2
<1> QED BY <1>1, <1>3, MoreWorkKeepsRequests

\* requestMore() asks a connection that is there, does not choke us and works on the
\* piece.
LEMMA AskBlocksKeepsRequests ==
  ASSUME WorkInv, NoOrphanRequest, AskBlocks PROVE NoOrphanRequest'
<1> DEFINE c == asking.peer
           p == Head(asking.pieces)
<1>1. PICK blocks :
           /\ blocks \subseteq Slot /\ \A s \in blocks : s[1] = p
           /\ asked' = asked \cup blocks /\ c \in Peer
           /\ p \in PiecesOf(payloads[c])
           /\ incoming' = [incoming EXCEPT ![c] =
                             [s \in Slot |-> incoming[c][s] + IF s \in blocks THEN 1 ELSE 0]]
           /\ incoming' \in [Peer -> [Slot -> Nat]]
           /\ UNCHANGED <<connections, choked, payloads>>
  BY AskBlocksFacts
<1> HIDE DEF c, p
<1>2. c \in connections \ choked
  BY <1>1, NoPieces DEF WorkInv, PayloadsPointToPendingPieces, ChokedIsIdle
<1>3. \A k \in Peer, s \in Slot : incoming'[k][s] >= incoming[k][s]
  BY <1>1 DEF WorkInv, WorkType
<1>4. \A s \in blocks : incoming'[c][s] > 0
  BY <1>1 DEF WorkInv, WorkType
<1> SUFFICES ASSUME NEW s \in asked'
             PROVE  \E k \in connections' \ choked' : /\ incoming'[k][s] > 0
                                                      /\ s[1] \in PiecesOf(payloads'[k])
  BY DEF NoOrphanRequest
<1>5. CASE s \in blocks
  BY <1>1, <1>2, <1>4, <1>5
<1>6. CASE s \in asked
  <2>1. PICK k \in connections \ choked : /\ incoming[k][s] > 0
                                          /\ s[1] \in PiecesOf(payloads[k])
    BY <1>6 DEF NoOrphanRequest
  <2>2. k \in Peer /\ s \in Slot
    BY <1>6 DEF WorkInv, WorkType
  <2>3. incoming[k][s] \in Nat /\ incoming'[k][s] \in Nat
    BY <1>1, <2>2 DEF WorkInv, WorkType
  <2>4. incoming'[k][s] > 0
    BY <1>3, <2>1, <2>2, <2>3
  <2> QED BY <1>1, <2>1, <2>4
<1> QED BY <1>1, <1>5, <1>6

LEMMA RequestStep ==
  PieceInv /\ WorkInv /\ NoOrphanRequest /\ StoredIsNotAsked /\ StoredIsNotAsked'
    /\ [Next]_vars => NoOrphanRequest'
<1> SUFFICES ASSUME PieceInv, WorkInv, NoOrphanRequest, StoredIsNotAsked,
                    StoredIsNotAsked', [Next]_vars
             PROVE  NoOrphanRequest'
  OBVIOUS
<1>1. ASSUME NEW c \in Peer, Connect(c) \/ Unchoke(c) PROVE NoOrphanRequest'
  <2>1. /\ UNCHANGED <<asked, payloads, incoming>>
        /\ connections' \in {connections, connections \cup {c}}
        /\ choked' \in {choked, choked \ {c}}
    BY <1>1 DEF Connect, Unchoke, pieceVars
  <2> QED BY <2>1, MoreWorkKeepsRequests
<1>2. ASSUME NEW c \in Peer, Disconnect(c) \/ Choke(c) PROVE NoOrphanRequest'
  BY <1>2, ForgetKeepsRequests DEF Disconnect, Choke, RemoveClient
<1>3. ASSUME NEW c \in Peer, NEW pieces \in SUBSET Piece, PiecesAvailable(c, pieces)
      PROVE  NoOrphanRequest'
  <2>1. CASE RemoveClient(c)
    BY <1>3, <2>1, ForgetKeepsRequests DEF PiecesAvailable, RemoveClient
  <2>2. CASE UNCHANGED <<connections, payloads, incoming, inProgress, asked>>
    BY <1>3, <2>2, MoreWorkKeepsRequests DEF PiecesAvailable
  <2> QED BY <1>3, <2>1, <2>2 DEF PiecesAvailable
<1>4. CASE ScheduleDownloads \/ AskDone \/ UNCHANGED vars
  <2>1. UNCHANGED <<connections, choked, asked, payloads, incoming>>
    BY <1>4 DEF ScheduleDownloads, AskDone, vars, pieceVars, peerVars
  <2> QED BY <2>1, MoreWorkKeepsRequests
<1> QED BY <1>1, <1>2, <1>3, <1>4, BlockKeepsRequests, VerdictKeepsRequests,
           ScheduleKeepsRequests, AskBlocksKeepsRequests DEF Next, Scheduler

\* A block marked as requested, which no other connection will ask for outside multi
\* mode, is awaited from a connection that does not choke us and works on its piece.
THEOREM RequestsAreAwaited == Spec => []NoOrphanRequest
<1>1. Init => NoOrphanRequest
  BY DEF Init, NoOrphanRequest
<1> QED BY <1>1, RequestStep, PieceInvariant, WorkInvariant, StoredBlocksAreNotAsked, PTL
        DEF Spec

-----------------------------------------------------------------------------
(* The quota *)

\* While requestMore() is under way, the room that is left keeps to the quota.
QuotaInv == /\ QuotaRespected
            /\ asking # None =>
                 asking.room + Awaited(incoming[asking.peer]) <= MaxBlocksInProgress

LEMMA RequestMoreKeepsQuota ==
  ASSUME NEW c \in Peer, incoming' \in [Peer -> [Slot -> Nat]], QuotaRespected',
         RequestMore(c)
  PROVE  QuotaInv'
<1> DEFINE room == Quota(state') - Awaited(incoming'[c])
           pieces == Among(payloads'[c], IF MultiMode(state') THEN Piece ELSE inProgress')
<1>1. asking' = None \/ asking' = [peer |-> c, pieces |-> pieces, room |-> room]
  BY Zenon DEF RequestMore
<1>2. Awaited(incoming'[c]) \in Nat
  BY ItemsFinite
<1>3. room + Awaited(incoming'[c]) <= MaxBlocksInProgress
  <2>1. room + Awaited(incoming'[c]) = Quota(state')
    BY <1>2, QuotaBound
  <2> QED BY <2>1, QuotaBound
<1> HIDE DEF room, pieces
<1> QED BY <1>1, <1>3 DEF QuotaInv

\* Only requestMore() makes a connection await more blocks.
LEMMA LessAwaited ==
  ASSUME WorkInv, QuotaInv, incoming' \in [Peer -> [Slot -> Nat]],
         \A c \in Peer, s \in Slot : incoming'[c][s] <= incoming[c][s]
  PROVE  QuotaRespected'
<1> SUFFICES ASSUME NEW c \in Peer PROVE Awaited(incoming'[c]) <= MaxBlocksInProgress
  BY DEF QuotaRespected
<1>1. incoming[c] \in [Slot -> Nat] /\ incoming'[c] \in [Slot -> Nat]
  BY DEF WorkInv, WorkType
<1>2. Awaited(incoming'[c]) <= Awaited(incoming[c])
  BY <1>1, AwaitedLess
<1>3. Awaited(incoming[c]) <= MaxBlocksInProgress
  BY DEF QuotaInv, QuotaRespected
<1>4. Awaited(incoming'[c]) \in Nat /\ Awaited(incoming[c]) \in Nat
  BY <1>1, ItemsFinite
<1> QED BY <1>2, <1>3, <1>4, QuotaAssumption

LEMMA SelectionsFit ==
  ASSUME NEW p, NEW room \in Int, room > 0, NEW blocks \in Selections(p, room)
  PROVE  Cardinality(blocks) <= room
<1> DEFINE n == Cardinality(Wanted(p))
<1>1. Wanted(p) \subseteq Slot
  BY DEF Wanted, MissingBlocks, SlotsOf
<1>2. n \in Nat
  BY <1>1, SlotAssumption, FS_Subset, FS_CardinalityType
<1>3. Cardinality(blocks) = Min({room, n})
  BY DEF Selections, kSubset
<1> HIDE DEF n
<1>4. Min({room, n}) <= room
  BY <1>2 DEF Min
<1> QED BY <1>3, <1>4

LEMMA AskBlocksKeepsQuota ==
  ASSUME WorkInv, QuotaInv, AskBlocks PROVE QuotaInv'
<1> DEFINE c == asking.peer
           room == asking.room
<1>1. PICK blocks \in Selections(Head(asking.pieces), asking.room) :
           /\ blocks \subseteq Slot /\ c \in Peer
           /\ incoming' = [incoming EXCEPT ![c] =
                             [s \in Slot |-> incoming[c][s] + IF s \in blocks THEN 1 ELSE 0]]
           /\ incoming' \in [Peer -> [Slot -> Nat]]
           /\ asking' = [asking EXCEPT !.pieces = Tail(asking.pieces),
                                       !.room = room - Cardinality(blocks)]
  BY AskBlocksFacts
<1>2. asking \in [peer : Peer, pieces : Seq(Piece), room : Int] /\ room > 0 /\ asking # None
  BY DEF AskBlocks, WorkInv, AskingOwnPieces
<1>3. Cardinality(blocks) <= room /\ room \in Int
  BY <1>2, SelectionsFit
<1>4. /\ Cardinality(blocks) \in Nat
      /\ Awaited(incoming'[c]) <= Awaited(incoming[c]) + Cardinality(blocks)
      /\ Awaited(incoming'[c]) \in Nat /\ Awaited(incoming[c]) \in Nat
  <2>1. incoming[c] \in [Slot -> Nat] /\ incoming'[c] \in [Slot -> Nat]
    BY <1>1 DEF WorkInv, WorkType
  <2>2. \A s \in Slot : incoming'[c][s] = incoming[c][s] + IF s \in blocks THEN 1 ELSE 0
    BY <1>1 DEF WorkInv, WorkType
  <2> HIDE DEF c
  <2> QED BY <1>1, <2>1, <2>2, AwaitedMore, ItemsFinite
<1>5. room + Awaited(incoming[c]) <= MaxBlocksInProgress
  BY <1>2 DEF QuotaInv
<1>6. asking'.peer = c /\ asking'.room = room - Cardinality(blocks)
  BY <1>1, <1>2
<1>7. \A k \in Peer \ {c} : incoming'[k] = incoming[k]
  BY <1>1 DEF WorkInv, WorkType
<1> HIDE DEF c, room
<1>8. Awaited(incoming'[c]) <= MaxBlocksInProgress
  BY <1>3, <1>4, <1>5, QuotaAssumption
<1>9. (room - Cardinality(blocks)) + Awaited(incoming'[c]) <= MaxBlocksInProgress
  BY <1>3, <1>4, <1>5, QuotaAssumption
<1>10. QuotaRespected'
  BY <1>7, <1>8 DEF QuotaInv, QuotaRespected
<1> QED BY <1>6, <1>9, <1>10 DEF QuotaInv

LEMMA QuotaStep == WorkInv /\ WorkInv' /\ QuotaInv /\ [Next]_vars => QuotaInv'
<1> SUFFICES ASSUME WorkInv, WorkInv', QuotaInv, [Next]_vars PROVE QuotaInv'
  OBVIOUS
<1>1. incoming \in [Peer -> [Slot -> Nat]] /\ incoming' \in [Peer -> [Slot -> Nat]]
  BY DEF WorkInv, WorkType
<1>2. CASE UNCHANGED incoming /\ (asking' = asking \/ asking' = None)
  BY <1>2 DEF QuotaInv, QuotaRespected
<1>3. ASSUME NEW c \in Peer, ForgetPieces(c), asking' = None PROVE QuotaInv'
  <2>1. \A k \in Peer, s \in Slot : incoming'[k][s] <= incoming[k][s]
    <3>1. \A k \in Peer : incoming'[k] = incoming[k] \/ incoming'[k] = NoRequests
      BY <1>1, <1>3 DEF ForgetPieces
    <3> QED BY <1>1, <3>1 DEF NoRequests
  <2> QED BY <1>1, <1>3, <2>1, LessAwaited DEF QuotaInv
<1>4. ASSUME NEW c \in Peer, Connect(c) \/ Unchoke(c) PROVE QuotaInv'
  BY <1>2, <1>4 DEF Connect, Unchoke
<1>5. ASSUME NEW c \in Peer, Disconnect(c) \/ Choke(c) PROVE QuotaInv'
  BY <1>3, <1>5 DEF Disconnect, Choke, RemoveClient, Idle
<1>6. ASSUME NEW c \in Peer, NEW pieces \in SUBSET Piece, PiecesAvailable(c, pieces)
      PROVE  QuotaInv'
  <2>1. CASE RemoveClient(c)
    BY <1>3, <1>6, <2>1 DEF PiecesAvailable, RemoveClient, Idle
  <2>2. CASE UNCHANGED <<connections, payloads, incoming, inProgress, asked>>
    BY <1>2, <1>6, <2>2 DEF PiecesAvailable
  <2> QED BY <1>6, <2>1, <2>2 DEF PiecesAvailable
<1>7. ASSUME NEW c \in Peer, NEW s \in Slot, BlockReceived(c, s) PROVE QuotaInv'
  <2>1. \E cancel : Received(c, s, cancel)
    BY <1>7, Zenon DEF BlockReceived, DiscardBlock, StoreBlock
  <2>2. \A k \in Peer : \/ incoming'[k] = [incoming[k] EXCEPT ![s] = 0]
                        \/ incoming'[k] = incoming[k]
    BY <2>1 DEF Received
  <2>3. \A k \in Peer, t \in Slot : incoming'[k][t] <= incoming[k][t]
    <3> SUFFICES ASSUME NEW k \in Peer, NEW t \in Slot
                 PROVE  incoming'[k][t] <= incoming[k][t]
      OBVIOUS
    <3>1. incoming[k] \in [Slot -> Nat] /\ incoming[k][t] \in Nat
      BY <1>1
    <3> DEFINE f == incoming[k]
    <3>2. [f EXCEPT ![s] = 0][t] <= f[t]
      <4> HIDE DEF f
      <4>1. f \in [Slot -> Nat] /\ f[t] \in Nat
        BY <3>1 DEF f
      <4> QED BY <4>1
    <3>3. f[t] <= f[t]
      BY <3>1
    <3>4. CASE incoming'[k] = [f EXCEPT ![s] = 0]
      BY <3>2, <3>4
    <3>5. CASE incoming'[k] = f
      BY <3>3, <3>5
    <3> QED BY <2>2, <3>4, <3>5, Zenon
  <2>4. QuotaRespected'
    BY <1>1, <2>3, LessAwaited
  <2> QED BY <1>1, <1>7, <2>4, RequestMoreKeepsQuota DEF BlockReceived
<1>8. ASSUME NEW p \in Piece, PieceFailed(p) \/ PieceVerified(p) PROVE QuotaInv'
  BY <1>2, <1>8 DEF PieceFailed, PieceVerified
<1>9. ASSUME NEW c \in Peer, SchedulePieceForClient(c) PROVE QuotaInv'
  <2>1. incoming' = incoming /\ (asking' = asking \/ RequestMore(c))
    BY <1>9 DEF SchedulePieceForClient, LeaveClient, SpreadPiece, ResumePiece,
                AssignPiece
  <2>2. QuotaRespected'
    BY <2>1 DEF QuotaInv, QuotaRespected
  <2> QED BY <1>1, <1>2, <2>1, <2>2, RequestMoreKeepsQuota
<1>10. CASE AskBlocks
  BY <1>10, AskBlocksKeepsQuota
<1>11. CASE ScheduleDownloads \/ AskDone \/ UNCHANGED vars
  BY <1>2, <1>11 DEF ScheduleDownloads, AskDone, vars
<1> QED BY <1>4, <1>5, <1>6, <1>7, <1>8, <1>9, <1>10, <1>11 DEF Next, Scheduler

\* The scheduler never keeps more requests on the wire than the larger quota, although
\* the quota becomes smaller when the torrent changes to multi mode.
THEOREM QuotaIsRespected == Spec => []QuotaRespected
<1>1. Init => QuotaInv
  <2> SUFFICES ASSUME Init PROVE QuotaInv
    OBVIOUS
  <2>1. QuotaRespected
    BY NothingAwaited, QuotaAssumption DEF Init, QuotaRespected
  <2> QED BY <2>1 DEF Init, QuotaInv
<1>2. QuotaInv => QuotaRespected
  BY DEF QuotaInv
<1> QED BY <1>1, <1>2, QuotaStep, WorkInvariant, PTL DEF Spec

-----------------------------------------------------------------------------
(* The client's side of VerdictProtocol *)

\* A step that asks about nothing and is told nothing is not seen by the protocol.
LEMMA ProtocolStutter ==
  ASSUME UNCHANGED <<completed, verifying>>
  PROVE  UNCHANGED Contract!vars
BY DEF Contract!vars

\* The block that makes a pending piece full asks about the piece.
LEMMA StoreAsks ==
  ASSUME PieceInv, NEW c \in Peer, NEW s \in Slot, StoreBlock(c, s)
  PROVE  [Contract!Next]_(Contract!vars)
<1> DEFINE p == s[1]
<1>1. p \in live /\ p \in Piece /\ s \notin done /\ s \in SlotsOf(p)
  BY SlotPiece DEF StoreBlock, SlotsOf
<1>2. completed' = completed /\ p \notin completed
  BY <1>1 DEF StoreBlock, PieceInv, PendingIsIncomplete, Incomplete
<1>3. verifying \in [Piece -> Nat] /\ verifying[p] = 0
  BY <1>1 DEF PieceInv, SetsOK, VerdictFindsFullPiece
<1>4. CASE SlotsOf(p) \subseteq done'
  <2>1. verifying' = [verifying EXCEPT ![p] = @ + 1]
    BY <1>4 DEF StoreBlock
  <2>2. {q \in Piece : verifying'[q] > 0} = {q \in Piece : verifying[q] > 0} \cup {p}
    BY <1>1, <1>3, <2>1
  <2>3. Contract!Ask(p)
    BY <1>2, <1>3, <2>2 DEF Contract!Ask
  <2> QED BY <1>1, <2>3 DEF Contract!Next
<1>5. CASE ~(SlotsOf(p) \subseteq done')
  BY <1>2, <1>5, ProtocolStutter DEF StoreBlock
<1> QED BY <1>4, <1>5

\* A verdict is one that was asked for.
LEMMA VerdictAnswers ==
  ASSUME PieceInv, NEW p \in Piece, PieceFailed(p) \/ PieceVerified(p)
  PROVE  Contract!Next
<1>1. verifying[p] = 1 /\ verifying \in [Piece -> Nat]
      /\ verifying' = [verifying EXCEPT ![p] = @ - 1]
  BY DEF PieceFailed, PieceVerified, TakeVerdict, PieceInv, SetsOK, VerdictFindsFullPiece
<1>2. {q \in Piece : verifying'[q] > 0} = {q \in Piece : verifying[q] > 0} \ {p}
  BY <1>1
<1>3. Contract!Verdict(p)
  BY <1>1, <1>2 DEF Contract!Verdict
<1>4. completed' = completed \/ completed' = completed \cup {p}
  BY DEF PieceFailed, PieceVerified
<1> QED BY <1>3, <1>4 DEF Contract!Pass, Contract!Fail, Contract!Next

LEMMA ProtocolStep == PieceInv /\ [Next]_vars => [Contract!Next]_(Contract!vars)
<1> SUFFICES ASSUME PieceInv, [Next]_vars PROVE [Contract!Next]_(Contract!vars)
  OBVIOUS
<1>1. ASSUME NEW c \in Peer, NEW s \in Slot, BlockReceived(c, s)
      PROVE  [Contract!Next]_(Contract!vars)
  <2>1. CASE DiscardBlock(c, s)
    BY <2>1, ProtocolStutter DEF DiscardBlock, pieceVars
  <2> QED BY <1>1, <2>1, StoreAsks DEF BlockReceived
<1>2. ASSUME NEW c \in Peer,
             \/ Connect(c) \/ Disconnect(c) \/ Choke(c) \/ Unchoke(c)
             \/ \E pieces \in SUBSET Piece : PiecesAvailable(c, pieces)
      PROVE  UNCHANGED <<completed, verifying>>
  BY <1>2 DEF Connect, Disconnect, Choke, Unchoke, PiecesAvailable, pieceVars
<1>3. CASE Scheduler
  BY <1>3, ProtocolStutter DEF Scheduler, ScheduleDownloads, SchedulePieceForClient,
                               AskBlocks, AskDone, pieceVars
<1>4. CASE UNCHANGED vars
  BY <1>4, ProtocolStutter DEF vars, pieceVars
<1> QED BY <1>1, <1>2, <1>3, <1>4, ProtocolStutter, VerdictAnswers DEF Next

\* TorrentClient keeps its side of VerdictProtocol: blockReceived asks for the
\* verification of a piece that is neither complete nor being verified, and
\* pieceVerified only handles verdicts that were asked for.
THEOREM ContractIsKept == Spec => AsksByContract
<1>1. Init => Contract!OpenInit
  BY DEF Init, Contract!OpenInit
<1> QED BY <1>1, InitInv, StepInv, ProtocolStep, PTL
        DEF Spec, AsksByContract, Contract!OpenSpec
=============================================================================
