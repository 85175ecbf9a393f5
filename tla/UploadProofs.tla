---------------------------- MODULE UploadProofs ----------------------------
(***************************************************************************)
(* Proofs about uploading, which is in two modules: Uploads (who may       *)
(* download from us), for any number of clients, pieces and slots, and     *)
(* BlockTransfer (the blocks of one connection), for any number of blocks, *)
(* any sizes and any number of messages under way.  They share no variable.*)
(***************************************************************************)
EXTENDS Uploads, BlockTransfer, FiniteSetTheorems, SequenceTheorems, WellFoundedInduction, TLAPS

-----------------------------------------------------------------------------
(* Uploads: what the peers are told *)

\* Only connected peers have shown us pieces.
OnlyConnectedShow == \A c \in Clients : c \notin Connected => has[c] = {}

PeersInv == /\ UploadsTypeOK
            /\ OnlyConnectedShow
            /\ PeersKnowOurPieces
            /\ InterestIsTold

LEMMA PeersInit == UploadsInit => PeersInv
BY DEF UploadsInit, PeersInv, UploadsTypeOK, OnlyConnectedShow, PeersKnowOurPieces,
       InterestIsTold, Connected

\* What removeClient() leaves is as it was for the clients that stay.
LEMMA RemoveFacts ==
  ASSUME UploadsTypeOK, NEW cs \in SUBSET Clients, RemoveClients(cs)
  PROVE  /\ Connected' = Connected \ cs
         /\ \A c \in Clients \ cs : has'[c] = has[c] /\ told'[c] = told[c]
         /\ \A c \in cs : has'[c] = {} /\ told'[c] = {}
         /\ interested' = interested \ cs
BY DEF UploadsTypeOK, RemoveClients, Without, Connected

\* removeClient() keeps the types of what it changes.
LEMMA RemoveTypes ==
  ASSUME UploadsTypeOK, NEW cs \in SUBSET Clients, RemoveClients(cs)
  PROVE  /\ connections' \subseteq Clients
         /\ socket' \in [Clients -> {"new", "connecting", "connected", "refused", "closed"}]
         /\ shaken' \subseteq Clients
         /\ has' \in [Clients -> SUBSET Pieces]
         /\ wants' \subseteq Clients
         /\ interested' \subseteq Clients
         /\ told' \in [Clients -> SUBSET Pieces]
BY DEF UploadsTypeOK, RemoveClients, Without

LEMMA RemoveKeeps ==
  ASSUME PeersInv, NEW cs \in SUBSET Clients, RemoveClients(cs),
         completed' = completed, unchoked' \subseteq Clients, early' \subseteq Clients
  PROVE  PeersInv'
<1>1. UploadsTypeOK'
  BY RemoveTypes DEF PeersInv, UploadsTypeOK
<1>2. OnlyConnectedShow'
  BY RemoveFacts DEF PeersInv, OnlyConnectedShow
<1>3. PeersKnowOurPieces'
  BY RemoveFacts DEF PeersInv, PeersKnowOurPieces
<1>4. InterestIsTold'
  <2>1. \A c \in Connected' : c \in Clients \ cs /\ c \in Connected
    BY RemoveFacts DEF PeersInv, UploadsTypeOK, Connected
  <2> QED BY <2>1, RemoveFacts DEF PeersInv, InterestIsTold
<1> QED BY <1>1, <1>2, <1>3, <1>4 DEF PeersInv

LEMMA PeersStep == PeersInv /\ [UploadsNext]_uploadsVars => PeersInv'
<1> SUFFICES ASSUME PeersInv, [UploadsNext]_uploadsVars PROVE PeersInv'
  OBVIOUS
<1> USE DEF PeersInv, UploadsTypeOK, OnlyConnectedShow, PeersKnowOurPieces, InterestIsTold,
            Connected, flags
<1>1. ASSUME NEW c \in Clients, ConnectToPeer(c) PROVE PeersInv'
  BY <1>1 DEF ConnectToPeer
<1>2. ASSUME NEW c \in Clients, Established(c) PROVE PeersInv'
  BY <1>2 DEF Established
<1>3. ASSUME NEW c \in Clients, Accept(c) PROVE PeersInv'
  BY <1>3 DEF Accept
<1>4. ASSUME NEW c \in Clients, Refused(c) PROVE PeersInv'
  BY <1>4 DEF Refused
<1>5. ASSUME NEW c \in Clients, Lost(c) PROVE PeersInv'
  BY <1>5, RemoveKeeps DEF Lost
<1>6. ASSUME NEW c \in Clients, HandShake(c) \/ PeerInterest(c) PROVE PeersInv'
  BY <1>6 DEF HandShake, PeerInterest
<1>7. ASSUME NEW c \in Clients, NEW ps \in SUBSET Pieces, PiecesAvailable(c, ps)
      PROVE  PeersInv'
  <2>1. CASE has[c] \cup ps = Pieces /\ Seeding
    BY <1>7, <2>1, RemoveKeeps DEF PiecesAvailable
  <2>2. CASE ~(has[c] \cup ps = Pieces /\ Seeding)
    BY <1>7, <2>2 DEF PiecesAvailable, Interest
  <2> QED BY <2>1, <2>2
<1>8. ASSUME NEW p \in Pieces, PieceVerified(p) PROVE PeersInv'
  BY <1>8 DEF PieceVerified, Notify
<1>9. ASSUME ScheduleUploads PROVE PeersInv'
  <2>1. PICK top \in SUBSET Racing : \E aborted \in SUBSET ToChoke(top),
               lucky \in SUBSET Candidates(top, ToChoke(top)) :
          /\ unchoked' = (unchoked \ ToChoke(top)) \cup top \cup lucky
          /\ early' = unchoked' \ Connected
          /\ RemoveClients(aborted)
    BY <1>9 DEF ScheduleUploads
  <2>2. PICK aborted \in SUBSET ToChoke(top), lucky \in SUBSET Candidates(top, ToChoke(top)) :
          /\ unchoked' = (unchoked \ ToChoke(top)) \cup top \cup lucky
          /\ early' = unchoked' \ Connected
          /\ RemoveClients(aborted)
    BY <2>1
  <2>3. aborted \in SUBSET Clients /\ lucky \subseteq Clients /\ top \subseteq Clients
    BY <2>1, <2>2 DEF ToChoke, Racing, Candidates
  <2>4. completed' = completed
    BY <1>9 DEF ScheduleUploads
  <2> QED BY <2>2, <2>3, <2>4, RemoveKeeps
<1>10. ASSUME UNCHANGED uploadsVars PROVE PeersInv'
  BY <1>10 DEF uploadsVars
<1> QED BY <1>1, <1>2, <1>3, <1>4, <1>5, <1>6, <1>7, <1>8, <1>9, <1>10 DEF UploadsNext

LEMMA PeersInvariant == UploadsSpec => []PeersInv
BY PeersInit, PeersStep, PTL DEF UploadsSpec

\* Every variable keeps its type.
THEOREM UploadsTypeCorrect == UploadsSpec => []UploadsTypeOK
<1>1. PeersInv => UploadsTypeOK
  BY DEF PeersInv
<1> QED BY <1>1, PeersInvariant, PTL

\* A connected peer has heard of each piece that we have, by the list at the opening or by
\* the notice of pieceVerified(), unless it has announced it itself.
THEOREM PeersAlwaysKnow == UploadsSpec => []PeersKnowOurPieces
<1>1. PeersInv => PeersKnowOurPieces
  BY DEF PeersInv
<1> QED BY <1>1, PeersInvariant, PTL

\* peerPiecesAvailable() has told our interest to each peer with a piece that we lack.
THEOREM InterestAlwaysTold == UploadsSpec => []InterestIsTold
<1>1. PeersInv => InterestIsTold
  BY DEF PeersInv
<1> QED BY <1>1, PeersInvariant, PTL

-----------------------------------------------------------------------------
(* Uploads: how many download *)

\* The clients that UploadsAreLimited counts.
Slots == (unchoked \cap Connected) \ (Seeds \cup early)

\* Whoever is unchoked without being connected is remembered as early.
UnchokedEarly == unchoked \ Connected \subseteq early

LimitInv == PeersInv /\ UnchokedEarly /\ UploadsAreLimited

LEMMA SlotsFinite == ASSUME UploadsTypeOK PROVE IsFiniteSet(Slots)
BY ConstantsAssumption, FS_Subset DEF Slots, UploadsTypeOK

\* Slots that are only given back keep the limit.
LEMMA FewerSlots ==
  ASSUME LimitInv, Slots' \subseteq Slots PROVE UploadsAreLimited'
<1>1. IsFiniteSet(Slots)
  BY SlotsFinite DEF LimitInv, PeersInv
<1>2. IsFiniteSet(Slots') /\ Cardinality(Slots') <= Cardinality(Slots)
  BY <1>1, FS_Subset
<1>3. Cardinality(Slots) \in Nat /\ Cardinality(Slots') \in Nat
  BY <1>1, <1>2, FS_CardinalityType
<1>4. Cardinality(Slots) <= MaxUploads + 1
  BY DEF LimitInv, UploadsAreLimited, Slots
<1>5. Cardinality(Slots') <= MaxUploads + 1
  BY <1>2, <1>3, <1>4, ConstantsAssumption
<1> QED BY <1>5 DEF UploadsAreLimited, Slots

\* removeClient() of clients that lose their slots with it
LEMMA RemoveFreesSlots ==
  ASSUME LimitInv, NEW cs \in SUBSET Clients, RemoveClients(cs),
         unchoked' = unchoked \ cs, early' = early \ cs
  PROVE  UnchokedEarly' /\ Slots' \subseteq Slots
<1>1. /\ Connected' = Connected \ cs
      /\ \A c \in Clients \ cs : has'[c] = has[c]
  BY RemoveFacts DEF LimitInv, PeersInv
<1>2. UnchokedEarly'
  BY <1>1 DEF LimitInv, UnchokedEarly
<1>3. Slots' \subseteq Slots
  BY <1>1 DEF Slots, Seeds, LimitInv, PeersInv, UploadsTypeOK
<1> QED BY <1>2, <1>3

\* scheduleUploads() leaves slots to the fastest and to one more.
LEMMA ScheduleLimits == ASSUME LimitInv, ScheduleUploads PROVE UnchokedEarly' /\ UploadsAreLimited'
<1>1. PICK top \in SUBSET Racing :
        /\ \/ Cardinality(top) = MaxUploads
           \/ Cardinality(top) < MaxUploads /\ top = Racing
        /\ \E aborted \in SUBSET ToChoke(top), lucky \in SUBSET Candidates(top, ToChoke(top)) :
             /\ Cardinality(lucky) = IF Candidates(top, ToChoke(top)) = {} THEN 0 ELSE 1
             /\ unchoked' = (unchoked \ ToChoke(top)) \cup top \cup lucky
             /\ early' = unchoked' \ Connected
             /\ RemoveClients(aborted)
  BY DEF ScheduleUploads
<1>2. PICK aborted \in SUBSET ToChoke(top), lucky \in SUBSET Candidates(top, ToChoke(top)) :
        /\ Cardinality(lucky) = IF Candidates(top, ToChoke(top)) = {} THEN 0 ELSE 1
        /\ unchoked' = (unchoked \ ToChoke(top)) \cup top \cup lucky
        /\ early' = unchoked' \ Connected
        /\ RemoveClients(aborted)
  BY <1>1
<1>3. /\ aborted \in SUBSET Clients /\ top \in SUBSET Clients /\ lucky \in SUBSET Clients
      /\ aborted \cap (top \cup lucky) = {}
  BY <1>1, <1>2 DEF ToChoke, Racing, Candidates, Connected, LimitInv, PeersInv, UploadsTypeOK
<1>4. /\ Connected' = Connected \ aborted
      /\ \A c \in Clients \ aborted : has'[c] = has[c]
  BY <1>2, <1>3, RemoveFacts DEF LimitInv, PeersInv
<1>5. UnchokedEarly'
  BY <1>2, <1>3, <1>4 DEF UnchokedEarly
<1>6. Slots' \subseteq top \cup lucky
  BY <1>2, <1>3, <1>4 DEF Slots, Seeds, ToChoke, Racing, LimitInv, PeersInv, UploadsTypeOK
<1>7. IsFiniteSet(top) /\ IsFiniteSet(lucky)
  BY <1>3, ConstantsAssumption, FS_Subset
<1>8. /\ Cardinality(top) \in Nat /\ Cardinality(lucky) \in Nat
      /\ Cardinality(top \cap lucky) \in Nat
      /\ IsFiniteSet(top \cup lucky)
      /\ Cardinality(top \cup lucky)
           = Cardinality(top) + Cardinality(lucky) - Cardinality(top \cap lucky)
  <2>1. IsFiniteSet(top \cap lucky)
    BY <1>7, FS_Subset
  <2> QED BY <2>1, <1>7, FS_CardinalityType, FS_Union
<1>9. Cardinality(top) <= MaxUploads /\ Cardinality(lucky) <= 1
  BY <1>1, <1>2, <1>8, ConstantsAssumption
<1>10. Cardinality(top \cup lucky) <= MaxUploads + 1
  BY <1>8, <1>9, ConstantsAssumption
<1>11. /\ Cardinality(Slots') <= Cardinality(top \cup lucky)
       /\ Cardinality(Slots') \in Nat /\ Cardinality(top \cup lucky) \in Nat
  <2>1. IsFiniteSet(Slots') /\ Cardinality(Slots') <= Cardinality(top \cup lucky)
    BY <1>6, <1>8, FS_Subset
  <2> QED BY <2>1, <1>8, FS_CardinalityType
<1>12. Cardinality(Slots') <= MaxUploads + 1
  BY <1>10, <1>11, ConstantsAssumption
<1> QED BY <1>5, <1>12 DEF UploadsAreLimited, Slots

LEMMA LimitStep == LimitInv /\ [UploadsNext]_uploadsVars => LimitInv'
<1> SUFFICES ASSUME LimitInv, [UploadsNext]_uploadsVars PROVE UnchokedEarly' /\ UploadsAreLimited'
  BY PeersStep DEF LimitInv
<1> SUFFICES ASSUME ~ScheduleUploads PROVE UnchokedEarly' /\ Slots' \subseteq Slots
  BY ScheduleLimits, FewerSlots
<1> USE DEF UnchokedEarly, Slots, Seeds, Connected, LimitInv, PeersInv, UploadsTypeOK, flags
<1>1. ASSUME NEW c \in Clients,
             \/ ConnectToPeer(c) \/ Established(c) \/ Accept(c) \/ Refused(c)
             \/ HandShake(c) \/ PeerInterest(c)
      PROVE  UnchokedEarly' /\ Slots' \subseteq Slots
  BY <1>1 DEF ConnectToPeer, Established, Accept, Refused, HandShake, PeerInterest
<1>2. ASSUME NEW c \in Clients, Lost(c) PROVE UnchokedEarly' /\ Slots' \subseteq Slots
  <2>1. {c} \in SUBSET Clients
    OBVIOUS
  <2>2. RemoveClients({c}) /\ unchoked' = unchoked \ {c} /\ early' = early \ {c}
    BY <1>2 DEF Lost
  <2> QED BY <2>1, <2>2, RemoveFreesSlots
<1>3. ASSUME NEW c \in Clients, NEW ps \in SUBSET Pieces, PiecesAvailable(c, ps)
      PROVE  UnchokedEarly' /\ Slots' \subseteq Slots
  <2>1. CASE has[c] \cup ps = Pieces /\ Seeding
    <3>1. {c} \in SUBSET Clients
      OBVIOUS
    <3>2. RemoveClients({c}) /\ unchoked' = unchoked \ {c} /\ early' = early \ {c}
      BY <1>3, <2>1 DEF PiecesAvailable
    <3> QED BY <3>1, <3>2, RemoveFreesSlots
  <2>2. CASE ~(has[c] \cup ps = Pieces /\ Seeding)
    BY <1>3, <2>2 DEF PiecesAvailable
  <2> QED BY <2>1, <2>2
<1>4. ASSUME NEW p \in Pieces, PieceVerified(p) PROVE UnchokedEarly' /\ Slots' \subseteq Slots
  BY <1>4 DEF PieceVerified
<1>5. ASSUME UNCHANGED uploadsVars PROVE UnchokedEarly' /\ Slots' \subseteq Slots
  BY <1>5 DEF uploadsVars
<1> QED BY <1>1, <1>2, <1>3, <1>4, <1>5 DEF UploadsNext

LEMMA LimitInit == UploadsInit => LimitInv
<1> SUFFICES ASSUME UploadsInit PROVE LimitInv
  OBVIOUS
<1>1. PeersInv
  BY PeersInit
<1>2. Slots = {} /\ UnchokedEarly
  BY DEF UploadsInit, Slots, UnchokedEarly
<1>3. UploadsAreLimited
  BY <1>2, FS_EmptySet, ConstantsAssumption DEF UploadsAreLimited, Slots
<1> QED BY <1>1, <1>2, <1>3 DEF LimitInv

\* scheduleUploads() keeps to MaxUploads and one more, whatever connects, closes and becomes
\* a seed between two schedules.
THEOREM UploadsAlwaysLimited == UploadsSpec => []UploadsAreLimited
<1>1. LimitInv => UploadsAreLimited
  BY DEF LimitInv
<1> QED BY <1>1, LimitInit, LimitStep, PTL DEF UploadsSpec

-----------------------------------------------------------------------------
(* BlockTransfer: sequences *)

\* SetToSeq lists the members of a finite set.
LEMMA SetToSeqLists ==
  ASSUME NEW S, IsFiniteSet(S)
  PROVE  /\ SetToSeq(S) \in Seq(S)
         /\ \A x \in S : Contains(SetToSeq(S), x)
<1> DEFINE s == SetToSeq(S)
           n == Cardinality(S)
<1>1. n \in Nat /\ ExistsBijection(1..n, S)
  BY FS_NatBijection, FS_CountingElements
<1>2. s \in [1..n -> S] /\ IsInjective(s)
  <2>1. \E f \in [1..n -> S] : IsInjective(f)
    BY <1>1 DEF ExistsBijection, Bijection, Injection
  <2> QED BY <2>1 DEF SetToSeq
<1>3. s \in Seq(S) /\ Len(s) = n
  BY <1>1, <1>2
<1>4. \A x \in S : \E i \in 1..n : s[i] = x
  <2> DEFINE T == {s[i] : i \in 1..n}
  <2>1. T \in SUBSET S
    BY <1>2
  <2>2. s \in Bijection(1..n, T)
    BY <1>2 DEF Bijection, Injection, Surjection, IsInjective
  <2>3. Cardinality(T) = n
    BY <1>1, <2>2, FS_CountingElements DEF ExistsBijection
  <2>4. T = S
    BY <2>1, <2>3, FS_Subset
  <2> QED BY <2>4
<1> QED BY <1>3, <1>4 DEF Contains

\* What a sequence contains after one of its operations.
LEMMA ContainsAppend ==
  ASSUME NEW S, NEW s \in Seq(S), NEW e \in S, NEW x
  PROVE  Contains(Append(s, e), x) <=> (Contains(s, x) \/ x = e)
<1>1. /\ Len(s) \in Nat /\ Len(Append(s, e)) = Len(s) + 1
      /\ \A i \in 1..Len(s) : Append(s, e)[i] = s[i]
      /\ Append(s, e)[Len(s) + 1] = e
  BY AppendProperties
<1>2. 1..(Len(s) + 1) = (1..Len(s)) \cup {Len(s) + 1}
  BY <1>1
<1> QED BY <1>1, <1>2 DEF Contains

LEMMA ContainsConcat ==
  ASSUME NEW S, NEW s \in Seq(S), NEW t \in Seq(S), NEW x
  PROVE  Contains(s \o t, x) <=> (Contains(s, x) \/ Contains(t, x))
<1>1. ASSUME NEW i \in 1..Len(t), t[i] = x
      PROVE  Contains(s \o t, x)
  <2>1. Len(s) + i \in 1..Len(s \o t) /\ (s \o t)[Len(s) + i] = x
    BY <1>1, ConcatProperties
  <2> QED BY <2>1 DEF Contains
<1>2. ASSUME Contains(s, x)
      PROVE  Contains(s \o t, x)
  BY <1>2, ConcatProperties DEF Contains
<1>3. ASSUME NEW i \in 1..Len(s \o t), (s \o t)[i] = x
      PROVE  Contains(s, x) \/ Contains(t, x)
  <2>1. CASE i <= Len(s)
    BY <1>3, <2>1, ConcatProperties DEF Contains
  <2>2. CASE i > Len(s)
    <3>1. i - Len(s) \in 1..Len(t) /\ t[i - Len(s)] = x
      BY <1>3, <2>2, ConcatProperties
    <3> QED BY <3>1 DEF Contains
  <2> QED BY <2>1, <2>2
<1> QED BY <1>1, <1>2, <1>3 DEF Contains

LEMMA ContainsTail ==
  ASSUME NEW S, NEW s \in Seq(S), s # <<>>, NEW x
  PROVE  Contains(s, x) <=> (x = Head(s) \/ Contains(Tail(s), x))
<1>1. ASSUME NEW i \in 1..Len(s), s[i] = x, x # Head(s)
      PROVE  Contains(Tail(s), x)
  <2>1. i - 1 \in 1..Len(Tail(s)) /\ Tail(s)[i - 1] = x
    BY <1>1
  <2> QED BY <2>1 DEF Contains
<1>2. ASSUME NEW i \in 1..Len(Tail(s)), Tail(s)[i] = x
      PROVE  Contains(s, x)
  <2>1. i + 1 \in 1..Len(s) /\ s[i + 1] = x
    BY <1>2
  <2> QED BY <2>1 DEF Contains
<1>3. Contains(s, Head(s))
  BY DEF Contains
<1> QED BY <1>1, <1>2, <1>3 DEF Contains

LEMMA ContainsEmpty == \A x : ~Contains(<<>>, x)
BY DEF Contains

\* RemoveFirst takes away one element at most, and none but the one it is given.
LEMMA RemoveFirstFacts ==
  ASSUME NEW S, NEW s \in Seq(S), NEW e
  PROVE  /\ RemoveFirst(s, e) \in Seq(S)
         /\ Len(RemoveFirst(s, e)) <= Len(s)
         /\ \A x : x # e /\ Contains(s, x) => Contains(RemoveFirst(s, e), x)
<1>1. CASE ~\E i \in 1..Len(s) : s[i] = e
  BY <1>1 DEF RemoveFirst
<1>2. CASE \E i \in 1..Len(s) : s[i] = e
  <2> DEFINE I == {i \in 1..Len(s) : s[i] = e}
             k == Min(I)
  <2>1. RemoveFirst(s, e) = RemoveAt(s, k)
    BY <1>2 DEF RemoveFirst, SelectInSeq
  <2>2. k \in I
    <3> DEFINE Less == {ss \in Nat \X Nat : ss[1] < ss[2]}
    <3>1. IsWellFoundedOn(Less, Nat)
      BY NatLessThanWellFounded DEF OpToRel
    <3>2. I \subseteq Nat /\ I # {}
      BY <1>2
    <3>3. PICK i \in I : \A j \in I : <<j, i>> \notin Less
      <4> HIDE DEF I, Less
      <4> QED BY <3>1, <3>2, WFMin
    <3>4. ASSUME NEW j \in I
          PROVE  i <= j
      <4>1. i \in Nat /\ j \in Nat /\ <<j, i>> \notin Less
        BY <3>2, <3>3
      <4>2. j < i => <<j, i>> \in Less
        BY <4>1
      <4> QED BY <4>1, <4>2
    <3> QED BY <3>4 DEF Min
  <2>3. k \in 1..Len(s) /\ s[k] = e
    BY <2>2
  <2> DEFINE before == SubSeq(s, 1, k - 1)
             after == SubSeq(s, k + 1, Len(s))
  <2> HIDE DEF I, k
  <2>4. /\ before \in Seq(S) /\ Len(before) = k - 1
        /\ \A i \in 1..(k - 1) : before[i] = s[i]
    BY <2>3
  <2>5. /\ after \in Seq(S) /\ Len(after) = Len(s) - k
        /\ \A i \in 1..(Len(s) - k) : after[i] = s[k + i]
    BY <2>3
  <2>6. ASSUME NEW x, x # e, NEW i \in 1..Len(s), s[i] = x
        PROVE  Contains(before, x) \/ Contains(after, x)
    <3>1. CASE i < k
      BY <2>3, <2>4, <2>6, <3>1 DEF Contains
    <3>2. CASE i > k
      <4>1. i - k \in 1..Len(after) /\ after[i - k] = x
        BY <2>3, <2>5, <2>6, <3>2
      <4> QED BY <4>1 DEF Contains
    <3> QED BY <2>3, <2>6, <3>1, <3>2
  <2>7. RemoveFirst(s, e) = before \o after
    BY <2>1 DEF RemoveAt
  <2> HIDE DEF before, after
  <2>8. before \o after \in Seq(S) /\ Len(before \o after) <= Len(s)
    BY <2>3, <2>4, <2>5
  <2>9. ASSUME NEW x, x # e, Contains(s, x)
        PROVE  Contains(before \o after, x)
    <3>1. Contains(before, x) \/ Contains(after, x)
      BY <2>6, <2>9 DEF Contains
    <3> QED BY <2>4, <2>5, <3>1, ContainsConcat
  <2> QED BY <2>7, <2>8, <2>9
<1> QED BY <1>1, <1>2

\* Every x in s is followed by some y.
Followed(s, x, y) ==
  \A i \in 1..Len(s) : s[i] = x => \E j \in 1..Len(s) : i < j /\ s[j] = y

LEMMA FollowedTail ==
  ASSUME NEW S, NEW s \in Seq(S), s # <<>>, NEW x, NEW y, Followed(s, x, y)
  PROVE  /\ Followed(Tail(s), x, y)
         /\ Head(s) = x => Contains(Tail(s), y)
<1>1. Len(Tail(s)) = Len(s) - 1 /\ \A i \in 1..Len(Tail(s)) : Tail(s)[i] = s[i + 1]
  OBVIOUS
<1>2. ASSUME NEW i \in 1..Len(Tail(s)), Tail(s)[i] = x
      PROVE  \E j \in 1..Len(Tail(s)) : i < j /\ Tail(s)[j] = y
  <2>1. PICK j \in 1..Len(s) : i + 1 < j /\ s[j] = y
    BY <1>1, <1>2 DEF Followed
  <2>2. j - 1 \in 1..Len(Tail(s)) /\ i < j - 1 /\ Tail(s)[j - 1] = y
    BY <1>1, <2>1
  <2> QED BY <2>2
<1>3. ASSUME Head(s) = x
      PROVE  Contains(Tail(s), y)
  <2>1. PICK j \in 1..Len(s) : 1 < j /\ s[j] = y
    BY <1>3 DEF Followed
  <2>2. j - 1 \in 1..Len(Tail(s)) /\ Tail(s)[j - 1] = y
    BY <1>1, <2>1
  <2> QED BY <2>2 DEF Contains
<1> QED BY <1>2, <1>3 DEF Followed

LEMMA FollowedConcat ==
  ASSUME NEW S, NEW s \in Seq(S), NEW t \in Seq(S), NEW x, NEW y,
         Followed(s, x, y) \/ Contains(t, y), ~Contains(t, x)
  PROVE  Followed(s \o t, x, y)
<1>1. /\ Len(s \o t) = Len(s) + Len(t)
      /\ \A i \in 1..Len(s) : (s \o t)[i] = s[i]
      /\ \A i \in 1..Len(t) : (s \o t)[Len(s) + i] = t[i]
  BY ConcatProperties
<1>2. ASSUME NEW i \in 1..Len(s \o t), (s \o t)[i] = x
      PROVE  i \in 1..Len(s) /\ s[i] = x
  <2>1. CASE i > Len(s)
    <3>1. i - Len(s) \in 1..Len(t) /\ t[i - Len(s)] = x
      BY <1>1, <1>2, <2>1
    <3> QED BY <3>1 DEF Contains
  <2> QED BY <1>1, <1>2, <2>1
<1>3. ASSUME NEW i \in 1..Len(s), s[i] = x
      PROVE  \E j \in 1..Len(s \o t) : i < j /\ (s \o t)[j] = y
  <2>1. CASE Followed(s, x, y)
    <3>1. PICK j \in 1..Len(s) : i < j /\ s[j] = y
      BY <1>3, <2>1 DEF Followed
    <3>2. j \in 1..Len(s \o t) /\ (s \o t)[j] = y
      BY <1>1, <3>1
    <3> QED BY <3>1, <3>2
  <2>2. CASE Contains(t, y)
    <3>1. PICK k \in 1..Len(t) : t[k] = y
      BY <2>2 DEF Contains
    <3>2. /\ Len(s) + k \in 1..Len(s \o t) /\ i < Len(s) + k
          /\ (s \o t)[Len(s) + k] = y
      BY <1>1, <3>1
    <3> QED BY <3>2
  <2> QED BY <2>1, <2>2
<1> QED BY <1>2, <1>3 DEF Followed

LEMMA FollowedAppend ==
  ASSUME NEW S, NEW s \in Seq(S), NEW e \in S, NEW x, NEW y,
         Followed(s, x, y) \/ e = y, e # x
  PROVE  Followed(Append(s, e), x, y)
<1>1. Append(s, e) = s \o <<e>> /\ <<e>> \in Seq(S)
  BY AppendIsConcat
<1>2. \A z : Contains(<<e>>, z) <=> z = e
  BY DEF Contains
<1> QED BY <1>1, <1>2, FollowedConcat

-----------------------------------------------------------------------------
(* BlockTransfer: the inductive invariant *)

ChokeMessage == [type |-> "Choke"]
UnchokeMessage == [type |-> "Unchoke"]
CancelMessage(b) == [type |-> "Cancel", block |-> b]

\* What the server has told the requester, and the requester has not yet read.
Told == toRequester \o outgoing

\* Where a block may be that the requester waits for.
OnTheWay(b) ==
  \/ Contains(toServer, Request(b))
  \/ Contains(reads, b) \/ Contains(pendingBlocks, b)
  \/ Contains(Told, Piece(b)) \/ Contains(Told, ChokeMessage)

\* A server that chokes has said so: the requester has read it and waits for nothing, or
\* will read it, and after every Unchoke.
ChokeIsTold ==
  open /\ choking =>
    /\ ~Contains(Told, ChokeMessage) => choked /\ incoming = {}
    /\ Followed(Told, UnchokeMessage, ChokeMessage)

\* A block that was cancelled and is awaited has been asked for again.
CancelsAreOld ==
  \A b \in incoming : Followed(toServer, CancelMessage(b), Request(b))

\* Nothing is awaited of a peer that has gone.
ClosedAwaitsNothing == ~open => incoming = {}

TransferInv ==
  /\ TypeOK
  /\ ClosedAwaitsNothing
  /\ QueueIsCounted
  /\ ChokedGetsNothing
  /\ ChokeIsTold
  /\ CancelsAreOld
  /\ \A b \in incoming : OnTheWay(b)

LEMMA TransferInit == Init => TransferInv
<1> SUFFICES ASSUME Init
             PROVE  TransferInv
  OBVIOUS
<1>1. /\ TypeOK
      /\ ClosedAwaitsNothing /\ ChokedGetsNothing /\ CancelsAreOld
  <2>1. TypeOK
    <3>1. \A S : <<>> \in Seq(S)
      BY EmptySeq
    <3>2. 0 \in Nat
      OBVIOUS
    <3>3. /\ open = TRUE /\ incoming = {} /\ choked = TRUE /\ timer = FALSE
          /\ toServer = <<>> /\ choking = TRUE /\ reads = <<>> /\ pendingBlocks = <<>>
          /\ pendingBlockSizes = 0 /\ outgoing = <<>> /\ toRequester = <<>>
      BY DEF Init
    <3> QED BY <3>1, <3>2, <3>3, Zenon DEF TypeOK
  <2>2. ClosedAwaitsNothing /\ ChokedGetsNothing /\ CancelsAreOld
    BY DEF Init, ClosedAwaitsNothing, ChokedGetsNothing, CancelsAreOld
  <2> QED BY <2>1, <2>2
<1>2. QueueIsCounted
  BY SizesAssumption DEF Init, QueueIsCounted
<1>3. Told = <<>>
  BY DEF Init, Told
<1>4. ChokeIsTold /\ \A b \in incoming : OnTheWay(b)
  BY <1>3 DEF Init, ChokeIsTold, Followed
<1> QED BY <1>1, <1>2, <1>4 DEF TransferInv

-----------------------------------------------------------------------------
(* BlockTransfer: types *)

\* The new requests are appended, each of them once.
LEMMA RequestBlocksFacts ==
  ASSUME TypeOK, NEW awaited \in SUBSET incoming, RequestBlocks(awaited)
  PROVE  /\ incoming' \subseteq Blocks
         /\ toServer' \in Seq(FromRequester)
         /\ \A m : Contains(toServer, m) => Contains(toServer', m)
         /\ \A b \in incoming' \ awaited : Contains(toServer', Request(b))
         /\ \A b \in incoming' :
              Followed(toServer, CancelMessage(b), Request(b)) \/ b \notin awaited
                => Followed(toServer', CancelMessage(b), Request(b))
<1>1. PICK bs \in SUBSET (Blocks \ awaited) :
             /\ incoming' = awaited \cup bs
             /\ toServer' = toServer \o SetToSeq({Request(b) : b \in bs})
  BY DEF RequestBlocks
<1> DEFINE R == {Request(b) : b \in bs}
           r == SetToSeq(R)
<1>2. IsFiniteSet(R)
  <2>1. IsFiniteSet(bs)
    BY BoundsAssumption, FS_Subset
  <2>2. PICK n \in Nat : ExistsBijection(1..n, bs)
    BY <2>1, FS_NatBijection
  <2>3. PICK f \in Bijection(1..n, bs) : TRUE
    BY <2>2 DEF ExistsBijection
  <2> DEFINE g == [i \in 1..n |-> Request(f[i])]
  <2>4. g \in Bijection(1..n, R)
    <3>1. /\ f \in [1..n -> bs]
          /\ \A i, j \in 1..n : f[i] = f[j] => i = j
          /\ \A b \in bs : \E i \in 1..n : f[i] = b
      BY <2>3 DEF Bijection, Injection, Surjection, IsInjective
    <3>2. g \in [1..n -> R]
      BY <3>1
    <3>3. \A i, j \in 1..n : g[i] = g[j] => i = j
      BY <3>1 DEF Request
    <3>4. \A m \in R : \E i \in 1..n : g[i] = m
      BY <3>1
    <3> QED BY <3>2, <3>3, <3>4 DEF Bijection, Injection, Surjection, IsInjective
  <2> QED BY <2>4, FS_NatBijection DEF ExistsBijection
<1>3. r \in Seq(R) /\ \A b \in bs : Contains(r, Request(b))
  <2>1. \A b \in bs : Request(b) \in R
    OBVIOUS
  <2> HIDE DEF R
  <2> QED BY <1>2, <2>1, SetToSeqLists
<1>4. R \subseteq FromRequester
  BY DEF Request, FromRequester, Message
<1>5. r \in Seq(FromRequester) /\ toServer \in Seq(FromRequester)
  BY <1>3, <1>4, SeqMonotonic DEF TypeOK
<1>6. \A b \in Blocks : ~Contains(r, CancelMessage(b))
  <2>1. \A b \in Blocks : CancelMessage(b) \notin R
    BY DEF Request, CancelMessage
  <2>2. \A i \in 1..Len(r) : r[i] \in R
    BY <1>3, ElementOfSeq
  <2> QED BY <2>1, <2>2 DEF Contains
<1> HIDE DEF R, r
<1>7. toServer' = toServer \o r
  BY <1>1 DEF R, r
<1>8. incoming' \subseteq Blocks /\ toServer' \in Seq(FromRequester)
  <2>1. incoming' \subseteq Blocks
    BY <1>1, Zenon DEF TypeOK
  <2>2. toServer' \in Seq(FromRequester)
    BY <1>5, <1>7, ConcatProperties
  <2> QED BY <2>1, <2>2
<1>9. \A m : Contains(toServer', m) <=> Contains(toServer, m) \/ Contains(r, m)
  BY <1>5, <1>7, ContainsConcat
<1>10. ASSUME NEW b \in incoming',
              Followed(toServer, CancelMessage(b), Request(b)) \/ b \notin awaited
       PROVE  Followed(toServer', CancelMessage(b), Request(b))
  <2>1. Followed(toServer, CancelMessage(b), Request(b)) \/ Contains(r, Request(b))
    BY <1>1, <1>3, <1>10
  <2>2. ~Contains(r, CancelMessage(b))
    BY <1>6, <1>8
  <2> QED BY <1>5, <1>7, <2>1, <2>2, FollowedConcat
<1> QED BY <1>1, <1>3, <1>8, <1>9, <1>10

LEMMA SendBlockTypes ==
  ASSUME TypeOK, NEW b \in Blocks, SendBlock(b)
  PROVE  /\ choking' \in BOOLEAN /\ pendingBlocks' \in Seq(Blocks)
         /\ pendingBlockSizes' \in Nat /\ outgoing' \in Seq(FromServer)
<1>1. CASE pendingBlockSizes + HeaderSize + DataSize > QueueLimit
  <2>1. <<[type |-> "Choke"], [type |-> "Unchoke"]>> \in Seq(FromServer)
    BY DEF FromServer, Control
  <2>2. outgoing' \in Seq(FromServer)
    BY <1>1, <2>1, ConcatProperties DEF TypeOK, SendBlock
  <2>3. pendingBlocks' \in Seq(Blocks) /\ pendingBlockSizes' \in Nat
    BY <1>1 DEF SendBlock
  <2>4. choking' \in BOOLEAN
    BY <1>1 DEF SendBlock
  <2> QED BY <2>2, <2>3, <2>4
<1>2. CASE ~(pendingBlockSizes + HeaderSize + DataSize > QueueLimit)
  <2>1. /\ pendingBlocks' = Append(pendingBlocks, b)
        /\ pendingBlockSizes' = pendingBlockSizes + HeaderSize + DataSize
        /\ choking' = choking /\ outgoing' = outgoing
    BY <1>2 DEF SendBlock
  <2>2. pendingBlocks' \in Seq(Blocks) /\ pendingBlockSizes' \in Nat
    BY <2>1, SizesAssumption DEF TypeOK
  <2>3. choking' \in BOOLEAN
    BY <2>1, Zenon DEF TypeOK
  <2>4. outgoing' \in Seq(FromServer)
    BY <2>1, Zenon DEF TypeOK
  <2> QED BY <2>2, <2>3, <2>4
<1> QED BY <1>1, <1>2

\* writeToSocket takes a block from the queue and its payload from the size: what is left
\* in the queue is still counted.
LEMMA FillBufferCounts ==
  ASSUME TypeOK, QueueIsCounted, FillBuffer
  PROVE  QueueIsCounted' /\ pendingBlockSizes' \in Nat
<1> DEFINE n == Len(pendingBlocks)
           a == HeaderSize + DataSize
<1>1. n \in Nat /\ n > 0 /\ Len(pendingBlocks') = n - 1
  BY DEF TypeOK, FillBuffer
<1>2. pendingBlockSizes' = pendingBlockSizes - DataSize /\ pendingBlockSizes \in Nat
  BY DEF TypeOK, FillBuffer
<1>3. a * n <= pendingBlockSizes /\ pendingBlockSizes <= QueueLimit
  BY DEF QueueIsCounted
<1>4. a \in Nat /\ a >= DataSize /\ DataSize \in Nat /\ QueueLimit \in Nat
  BY SizesAssumption
<1>5. a * (n - 1) = a * n - a /\ a * (n - 1) \in Nat /\ a * n \in Nat
  <2> HIDE DEF n, a
  <2> QED BY <1>1, <1>4
<1>6. a * (n - 1) <= pendingBlockSizes' /\ pendingBlockSizes' <= QueueLimit
  <2> HIDE DEF n, a
  <2> QED BY <1>2, <1>3, <1>4, <1>5
<1> QED BY <1>1, <1>2, <1>5, <1>6 DEF QueueIsCounted

LEMMA TypeStep ==
  ASSUME TypeOK, QueueIsCounted, [Next]_vars
  PROVE  TypeOK'
<1>1. CASE RequestBlock
  <2>1. incoming' \subseteq Blocks /\ toServer' \in Seq(FromRequester)
    BY <1>1, RequestBlocksFacts DEF RequestBlock
  <2> QED BY <1>1, <2>1 DEF RequestBlock, TypeOK, server, queue
<1>2. ASSUME NEW b \in Blocks, CancelRequest(b)
      PROVE  TypeOK'
  <2>1. [type |-> "Cancel", block |-> b] \in FromRequester
    BY DEF FromRequester, Message
  <2> QED BY <1>2, <2>1 DEF CancelRequest, TypeOK, server, queue
<1>3. CASE OtherDirection
  BY <1>3 DEF OtherDirection, TypeOK, server, queue
<1>4. CASE RequesterReceives
  <2>1. PICK m \in FromServer :
          /\ m = Head(toRequester)
          /\ \/ m.type = "Choke" /\ ReceiveChoke
             \/ m.type = "Unchoke" /\ choked' = FALSE /\ UNCHANGED <<incoming, timer, toServer>>
             \/ m.type = "Piece" /\ ReceivePiece(m.block)
    BY <1>4 DEF RequesterReceives, TypeOK
  <2>2. ASSUME ReceivePiece(m.block)
        PROVE  incoming' \subseteq Blocks /\ toServer' \in Seq(FromRequester)
    <3>1. incoming \ {m.block} \in SUBSET incoming
      OBVIOUS
    <3>2. CASE RequestBlocks(incoming \ {m.block})
      BY <3>1, <3>2, RequestBlocksFacts
    <3>3. CASE incoming' = incoming \ {m.block} /\ UNCHANGED toServer
      BY <3>3 DEF TypeOK
    <3> QED BY <2>2, <3>2, <3>3 DEF ReceivePiece
  <2>3. /\ incoming' \subseteq Blocks /\ toServer' \in Seq(FromRequester)
        /\ choked' \in BOOLEAN /\ timer' \in BOOLEAN
    BY <2>1, <2>2 DEF ReceiveChoke, ReceivePiece, TypeOK
  <2>4. toRequester' \in Seq(FromServer)
    BY <1>4 DEF RequesterReceives, TypeOK
  <2> QED BY <1>4, <2>3, <2>4 DEF RequesterReceives, TypeOK, server, queue
<1>5. CASE ChokePeer
  <2>1. [type |-> "Choke"] \in FromServer
    BY DEF FromServer, Control
  <2> QED BY <1>5, <2>1 DEF ChokePeer, Choke, TypeOK, requester
<1>6. CASE UnchokePeer
  <2>1. [type |-> "Unchoke"] \in FromServer
    BY DEF FromServer, Control
  <2>2. outgoing' \in Seq(FromServer)
    BY <1>6, <2>1, AppendProperties DEF UnchokePeer, TypeOK
  <2>3. choking' \in BOOLEAN
    BY <1>6 DEF UnchokePeer
  <2>4. /\ open' = open /\ incoming' = incoming /\ choked' = choked /\ timer' = timer
        /\ toServer' = toServer /\ reads' = reads /\ pendingBlocks' = pendingBlocks
        /\ pendingBlockSizes' = pendingBlockSizes /\ toRequester' = toRequester
    BY <1>6 DEF UnchokePeer, requester
  <2> QED BY <2>2, <2>3, <2>4, Zenon DEF TypeOK
<1>7. CASE ServerReceives
  <2>1. PICK m \in FromRequester :
          /\ m = Head(toServer)
          /\ \/ m.type = "Request" /\ ReceiveRequest(m.block)
             \/ m.type = "Cancel" /\ ReceiveCancel(m.block)
    BY <1>7 DEF ServerReceives, TypeOK
  <2>2. m.block \in Blocks
    BY DEF FromRequester, Message
  <2>3. RemoveFirst(pendingBlocks, m.block) \in Seq(Blocks)
    BY RemoveFirstFacts DEF TypeOK
  <2>4. reads' \in Seq(Blocks) /\ pendingBlocks' \in Seq(Blocks)
    <3>1. CASE ReceiveRequest(m.block)
      <4>1. reads' = reads \/ reads' = Append(reads, m.block)
        BY <3>1 DEF ReceiveRequest
      <4>2. pendingBlocks' = pendingBlocks
        BY <3>1 DEF ReceiveRequest, queue
      <4>3. reads \in Seq(Blocks) /\ pendingBlocks \in Seq(Blocks)
        BY DEF TypeOK
      <4> QED BY <2>2, <4>1, <4>2, <4>3, AppendProperties
    <3>2. CASE ReceiveCancel(m.block)
      BY <2>3, <3>2 DEF ReceiveCancel, TypeOK
    <3> QED BY <2>1, <3>1, <3>2
  <2>5. /\ choking' = choking /\ pendingBlockSizes' = pendingBlockSizes
        /\ outgoing' = outgoing
    BY <2>1 DEF ReceiveRequest, ReceiveCancel, queue
  <2>6. toServer' \in Seq(FromRequester)
    BY <1>7 DEF ServerReceives, TypeOK
  <2>7. /\ open' = open /\ incoming' = incoming /\ choked' = choked /\ timer' = timer
        /\ toRequester' = toRequester
    BY <1>7 DEF ServerReceives, requester
  <2> QED BY <2>4, <2>5, <2>6, <2>7, Zenon DEF TypeOK
<1>8. CASE SendToPeer
  <2>1. Head(reads) \in Blocks /\ reads' \in Seq(Blocks)
    BY <1>8 DEF SendToPeer, TypeOK
  <2>2. /\ choking' \in BOOLEAN /\ pendingBlocks' \in Seq(Blocks)
        /\ pendingBlockSizes' \in Nat /\ outgoing' \in Seq(FromServer)
    <3>1. CASE open /\ ~choking
      BY <1>8, <2>1, <3>1, SendBlockTypes DEF SendToPeer
    <3>2. CASE ~(open /\ ~choking)
      BY <1>8, <3>2 DEF SendToPeer, queue, TypeOK
    <3> QED BY <3>1, <3>2
  <2> QED BY <1>8, <2>1, <2>2 DEF SendToPeer, TypeOK, requester
<1>9. CASE FillBuffer
  <2>1. Head(pendingBlocks) \in Blocks /\ pendingBlocks' \in Seq(Blocks)
    BY <1>9 DEF FillBuffer, TypeOK
  <2>2. outgoing' \in Seq(FromServer)
    BY <1>9, <2>1 DEF FillBuffer, Piece, FromServer, Message
  <2>3. pendingBlockSizes' \in Nat
    BY <1>9, FillBufferCounts DEF TypeOK
  <2>4. /\ open' = open /\ incoming' = incoming /\ choked' = choked /\ timer' = timer
        /\ toServer' = toServer /\ choking' = choking /\ reads' = reads
        /\ toRequester' = toRequester
    BY <1>9 DEF FillBuffer, requester
  <2> QED BY <2>1, <2>2, <2>3, <2>4, Zenon DEF TypeOK
<1>10. CASE WriteMessage
  <2>1. outgoing' \in Seq(FromServer)
    BY <1>10, HeadTailProperties DEF WriteMessage, TypeOK
  <2>2. toRequester' \in Seq(FromServer)
    BY <1>10, HeadTailProperties, AppendProperties DEF WriteMessage, TypeOK
  <2>3. /\ open' = open /\ incoming' = incoming /\ choked' = choked /\ timer' = timer
        /\ toServer' = toServer /\ choking' = choking /\ reads' = reads
        /\ pendingBlocks' = pendingBlocks /\ pendingBlockSizes' = pendingBlockSizes
    BY <1>10 DEF WriteMessage, requester
  <2> QED BY <2>1, <2>2, <2>3, Zenon DEF TypeOK
<1>11. CASE Close
  <2>1. /\ open' = FALSE /\ incoming' = {} /\ choked' = choked /\ timer' = timer
        /\ toServer' = <<>> /\ choking' = choking /\ reads' = reads /\ pendingBlocks' = <<>>
        /\ pendingBlockSizes' = pendingBlockSizes /\ outgoing' = <<>> /\ toRequester' = <<>>
    BY <1>11 DEF Close
  <2>2. \A S : <<>> \in Seq(S)
    BY EmptySeq
  <2> QED BY <2>1, <2>2, Zenon DEF TypeOK
<1>12. CASE UNCHANGED vars
  BY <1>12 DEF vars, requester, server, queue, TypeOK
<1> QED BY <1>1, <1>2, <1>3, <1>4, <1>5, <1>6, <1>7, <1>8, <1>9, <1>10, <1>11, <1>12 DEF Next

-----------------------------------------------------------------------------
(* BlockTransfer: the queue *)

LEMMA ClosedStep ==
  ASSUME ClosedAwaitsNothing, [Next]_vars
  PROVE  ClosedAwaitsNothing'
<1>1. CASE SendToPeer \/ UNCHANGED vars
  BY <1>1 DEF SendToPeer, vars, requester, ClosedAwaitsNothing
<1>2. CASE Close
  BY <1>2 DEF Close, ClosedAwaitsNothing
<1>3. CASE ~(SendToPeer \/ Close \/ UNCHANGED vars)
  <2>1. open /\ open' = open
    BY <1>3 DEF Next, RequestBlock, CancelRequest, OtherDirection, RequesterReceives, ChokePeer,
                UnchokePeer, ServerReceives, FillBuffer, WriteMessage
  <2> QED BY <2>1 DEF ClosedAwaitsNothing
<1> QED BY <1>1, <1>2, <1>3

\* The steps that leave the queue alone.
LEMMA QueueUntouched ==
  ASSUME \/ RequestBlock \/ (\E b \in Blocks : CancelRequest(b)) \/ OtherDirection
         \/ RequesterReceives \/ WriteMessage \/ UNCHANGED vars
  PROVE  /\ choking' = choking /\ pendingBlocks' = pendingBlocks
         /\ pendingBlockSizes' = pendingBlockSizes
BY DEF RequestBlock, CancelRequest, OtherDirection, RequesterReceives, WriteMessage, vars,
       server, queue

LEMMA CountStep ==
  ASSUME TypeOK, QueueIsCounted, [Next]_vars
  PROVE  QueueIsCounted'
<1> DEFINE a == HeaderSize + DataSize
<1>1. a \in Nat /\ a <= QueueLimit /\ QueueLimit \in Nat /\ DataSize \in Nat /\ HeaderSize \in Nat
  BY SizesAssumption
<1>2. /\ Len(pendingBlocks) \in Nat /\ pendingBlockSizes \in Nat
      /\ a * Len(pendingBlocks) <= pendingBlockSizes /\ pendingBlockSizes <= QueueLimit
  BY DEF TypeOK, QueueIsCounted
<1>3. ASSUME pendingBlockSizes' = pendingBlockSizes, Len(pendingBlocks') \in Nat,
             Len(pendingBlocks') <= Len(pendingBlocks)
      PROVE  QueueIsCounted'
  <2> DEFINE m == Len(pendingBlocks)
             n == Len(pendingBlocks')
  <2>1. a * n <= a * m
    <3>1. m \in Nat /\ n \in Nat /\ n <= m
      BY <1>2, <1>3
    <3> HIDE DEF a, m, n
    <3>2. a * m = a * n + a * (m - n) /\ a * (m - n) >= 0
      BY <1>1, <3>1
    <3>3. a * m \in Int /\ a * n \in Int /\ a * (m - n) \in Int
      BY <1>1, <3>1
    <3> QED BY <3>2, <3>3
  <2>2. a * n \in Int /\ a * m \in Int
    BY <1>1, <1>2, <1>3
  <2>3. a * n <= pendingBlockSizes
    <3> HIDE DEF a, m, n
    <3>1. a * m <= pendingBlockSizes
      BY <1>2 DEF m
    <3> QED BY <1>2, <2>1, <2>2, <3>1
  <2> QED BY <1>2, <1>3, <2>3 DEF QueueIsCounted
<1>4. ASSUME pendingBlocks' = <<>>, pendingBlockSizes' = 0
      PROVE  QueueIsCounted'
  BY <1>1, <1>4 DEF QueueIsCounted
<1>5. CASE \/ RequestBlock \/ (\E b \in Blocks : CancelRequest(b)) \/ OtherDirection
           \/ RequesterReceives \/ WriteMessage \/ UNCHANGED vars
  BY <1>5, QueueUntouched DEF QueueIsCounted
<1>6. CASE ChokePeer
  BY <1>4, <1>6 DEF ChokePeer, Choke
<1>7. CASE UnchokePeer
  BY <1>7 DEF UnchokePeer, QueueIsCounted
<1>8. CASE ServerReceives
  <2>1. pendingBlocks' = pendingBlocks \/ \E b : pendingBlocks' = RemoveFirst(pendingBlocks, b)
    BY <1>8 DEF ServerReceives, ReceiveRequest, ReceiveCancel, queue
  <2>2. Len(pendingBlocks') \in Nat /\ Len(pendingBlocks') <= Len(pendingBlocks)
    BY <1>2, <2>1, RemoveFirstFacts DEF TypeOK
  <2>3. pendingBlockSizes' = pendingBlockSizes
    BY <1>8 DEF ServerReceives, ReceiveRequest, ReceiveCancel, queue
  <2> QED BY <1>3, <2>2, <2>3
<1>9. CASE SendToPeer
  <2>1. CASE pendingBlocks' = pendingBlocks /\ pendingBlockSizes' = pendingBlockSizes
    BY <2>1 DEF QueueIsCounted
  <2>2. CASE SendBlock(Head(reads))
    <3>1. CASE pendingBlockSizes + HeaderSize + DataSize > QueueLimit
      BY <1>4, <2>2, <3>1 DEF SendBlock
    <3>2. CASE ~(pendingBlockSizes + HeaderSize + DataSize > QueueLimit)
      <4>1. /\ pendingBlocks' = Append(pendingBlocks, Head(reads))
            /\ pendingBlockSizes' = pendingBlockSizes + HeaderSize + DataSize
        BY <2>2, <3>2 DEF SendBlock
      <4>2. Head(reads) \in Blocks
        BY <1>9 DEF SendToPeer, TypeOK
      <4> DEFINE m == Len(pendingBlocks)
                 n == Len(pendingBlocks')
      <4>3. n = m + 1
        BY <4>1, <4>2, AppendProperties DEF TypeOK
      <4>4. a * n = a * m + a /\ a * m \in Int
        <5> HIDE DEF a, n
        <5> QED BY <1>1, <1>2, <4>3
      <4>5. a * n <= pendingBlockSizes'
        <5>1. pendingBlockSizes' = pendingBlockSizes + a
          BY <1>1, <1>2, <4>1
        <5> HIDE DEF a, m, n
        <5>2. a * m <= pendingBlockSizes
          BY <1>2 DEF m
        <5> QED BY <1>1, <1>2, <4>4, <5>1, <5>2
      <4>6. pendingBlockSizes' <= QueueLimit
        BY <1>1, <1>2, <3>2, <4>1
      <4> QED BY <4>5, <4>6 DEF QueueIsCounted
    <3> QED BY <3>1, <3>2
  <2> QED BY <1>9, <2>1, <2>2 DEF SendToPeer, queue
<1>10. CASE FillBuffer
  BY <1>10, FillBufferCounts
<1>11. CASE Close
  <2>1. Len(pendingBlocks') = 0 /\ pendingBlockSizes' = pendingBlockSizes
    BY <1>11 DEF Close
  <2> QED BY <1>2, <1>3, <2>1
<1> QED BY <1>5, <1>6, <1>7, <1>8, <1>9, <1>10, <1>11 DEF Next

LEMMA ChokedStep ==
  ASSUME TypeOK, ChokedGetsNothing, [Next]_vars
  PROVE  ChokedGetsNothing'
<1>1. CASE \/ RequestBlock \/ (\E b \in Blocks : CancelRequest(b)) \/ OtherDirection
           \/ RequesterReceives \/ WriteMessage \/ UNCHANGED vars
  BY <1>1, QueueUntouched DEF ChokedGetsNothing
<1>2. CASE ChokePeer \/ Close \/ UnchokePeer
  BY <1>2 DEF ChokePeer, Choke, Close, UnchokePeer, ChokedGetsNothing
<1>3. CASE ServerReceives
  <2>1. \/ pendingBlocks' = pendingBlocks
        \/ \E b : pendingBlocks' = RemoveFirst(pendingBlocks, b)
    BY <1>3 DEF ServerReceives, ReceiveRequest, ReceiveCancel, queue
  <2>2. pendingBlocks = <<>> => pendingBlocks' = <<>>
    BY <2>1 DEF RemoveFirst
  <2>3. choking' = choking
    BY <1>3 DEF ServerReceives, ReceiveRequest, ReceiveCancel
  <2> QED BY <2>2, <2>3 DEF ChokedGetsNothing
<1>4. CASE SendToPeer
  <2>1. CASE open /\ ~choking
    <3>1. choking' = FALSE \/ choking' = choking
      BY <1>4, <2>1 DEF SendToPeer, SendBlock
    <3> QED BY <2>1, <3>1 DEF ChokedGetsNothing
  <2>2. CASE ~(open /\ ~choking)
    BY <1>4, <2>2 DEF SendToPeer, queue, ChokedGetsNothing
  <2> QED BY <2>1, <2>2
<1>5. CASE FillBuffer
  BY <1>5 DEF FillBuffer, ChokedGetsNothing
<1> QED BY <1>1, <1>2, <1>3, <1>4, <1>5 DEF Next

-----------------------------------------------------------------------------
(* BlockTransfer: what the requester is told *)

\* The steps that leave alone what is on its way to the requester.
LEMMA ToldUntouched ==
  ASSUME TypeOK,
         \/ RequestBlock \/ (\E b \in Blocks : CancelRequest(b)) \/ OtherDirection
         \/ ServerReceives \/ WriteMessage \/ UNCHANGED vars
  PROVE  Told' = Told
<1>1. CASE WriteMessage
  <2>1. /\ outgoing \in Seq(FromServer) /\ outgoing # <<>> /\ toRequester \in Seq(FromServer)
        /\ outgoing' = Tail(outgoing) /\ toRequester' = Append(toRequester, Head(outgoing))
    BY <1>1 DEF TypeOK, WriteMessage
  <2>2. /\ Head(outgoing) \in FromServer /\ Tail(outgoing) \in Seq(FromServer)
        /\ outgoing = <<Head(outgoing)>> \o Tail(outgoing)
    BY <2>1
  <2>3. toRequester' = toRequester \o <<Head(outgoing)>> /\ <<Head(outgoing)>> \in Seq(FromServer)
    BY <2>1, <2>2, AppendIsConcat
  <2> QED BY <2>1, <2>2, <2>3, ConcatAssociative DEF Told
<1>2. CASE ~WriteMessage
  <2>1. outgoing' = outgoing /\ toRequester' = toRequester
    BY <1>2 DEF RequestBlock, CancelRequest, OtherDirection, ServerReceives, ReceiveRequest,
                ReceiveCancel, vars, server, queue
  <2> QED BY <2>1 DEF Told
<1> QED BY <1>1, <1>2

LEMMA ToldType == TypeOK => Told \in Seq(FromServer)
BY ConcatProperties DEF TypeOK, Told

\* A message that is queued is told last.
LEMMA ToldAppend ==
  ASSUME TypeOK, NEW m \in FromServer, outgoing' = Append(outgoing, m),
         toRequester' = toRequester
  PROVE  Told' = Append(Told, m)
<1>1. outgoing' = outgoing \o <<m>> /\ <<m>> \in Seq(FromServer)
  BY AppendIsConcat DEF TypeOK
<1>2. Told' = Told \o <<m>>
  BY <1>1, ConcatAssociative DEF Told, TypeOK
<1> QED BY <1>2, ToldType, AppendIsConcat

\* A message that is read is the first one told.
LEMMA ToldTail ==
  ASSUME TypeOK, RequesterReceives
  PROVE  /\ Told # <<>> /\ Told' = Tail(Told)
         /\ Head(Told) = Head(toRequester) /\ Head(toRequester) \in FromServer
<1>1. /\ toRequester \in Seq(FromServer) /\ toRequester # <<>>
      /\ outgoing \in Seq(FromServer) /\ outgoing' = outgoing /\ toRequester' = Tail(toRequester)
  BY DEF TypeOK, RequesterReceives, server, queue
<1> QED BY <1>1 DEF Told

LEMMA MessageTypes ==
  /\ ChokeMessage \in FromServer /\ UnchokeMessage \in FromServer
  /\ ChokeMessage # UnchokeMessage
  /\ \A b \in Blocks : /\ Piece(b) \in FromServer
                       /\ Piece(b) # ChokeMessage /\ Piece(b) # UnchokeMessage
                       /\ Request(b) \in FromRequester /\ CancelMessage(b) \in FromRequester
                       /\ Request(b) # CancelMessage(b)
  /\ \A b, c \in Blocks : /\ Piece(b) = Piece(c) => b = c
                          /\ Request(b) = Request(c) => b = c
                          /\ CancelMessage(b) = CancelMessage(c) => b = c
                          /\ Request(b) # CancelMessage(c)
  /\ \A m \in FromServer : /\ m.type = "Choke" => m = ChokeMessage
                           /\ m.type = "Unchoke" => m = UnchokeMessage
                           /\ m.type = "Piece" => m.block \in Blocks /\ m = Piece(m.block)
  /\ \A m \in FromRequester : /\ m.block \in Blocks
                              /\ m.type = "Request" => m = Request(m.block)
                              /\ m.type = "Cancel" => m = CancelMessage(m.block)
BY DEF ChokeMessage, UnchokeMessage, FromServer, FromRequester, Message, Control, Piece, Request,
       CancelMessage

LEMMA ToldStep ==
  ASSUME TypeOK, ChokedGetsNothing, ChokeIsTold, [Next]_vars
  PROVE  ChokeIsTold'
<1> DEFINE C == ChokeMessage
           U == UnchokeMessage
<1>1. Told \in Seq(FromServer)
  BY ToldType
<1>2. ASSUME open' = open, choking' = choking, choked' = choked, incoming' = incoming, Told' = Told
      PROVE  ChokeIsTold'
  BY <1>2 DEF ChokeIsTold
<1>3. CASE RequestBlock
  <2>1. Told' = Told /\ open /\ ~choked /\ choking' = choking
    BY <1>3, ToldUntouched DEF RequestBlock, server
  <2> QED BY <2>1 DEF ChokeIsTold
<1>4. ASSUME NEW b \in Blocks, CancelRequest(b)
      PROVE  ChokeIsTold'
  <2>1. Told' = Told /\ open /\ b \in incoming /\ choking' = choking
    BY <1>4, ToldUntouched DEF CancelRequest, server
  <2> QED BY <2>1 DEF ChokeIsTold
<1>5. CASE OtherDirection \/ ServerReceives \/ WriteMessage \/ UNCHANGED vars
  <2>1. Told' = Told
    BY <1>5, ToldUntouched
  <2>2. open' = open /\ choking' = choking /\ choked' = choked /\ incoming' = incoming
    BY <1>5 DEF OtherDirection, ServerReceives, ReceiveRequest, ReceiveCancel, WriteMessage, vars,
                requester, server
  <2> QED BY <1>2, <2>1, <2>2
<1>6. CASE RequesterReceives
  <2>1. /\ Told # <<>> /\ Told' = Tail(Told) /\ Head(Told) \in FromServer
        /\ Head(Told) = Head(toRequester)
    BY <1>6, ToldTail
  <2> DEFINE m == Head(Told)
  <2>2. /\ open /\ choking' = choking
        /\ \/ m.type = "Choke" /\ ReceiveChoke
           \/ m.type = "Unchoke"
           \/ m.type = "Piece" /\ ReceivePiece(m.block)
    BY <1>6, <2>1 DEF RequesterReceives, server
  <2>3. SUFFICES ASSUME choking
                 PROVE  /\ ~Contains(Told', C) => choked' /\ incoming' = {}
                        /\ Followed(Told', U, C)
    BY <2>2 DEF ChokeIsTold
  <2>4. Followed(Told, U, C) /\ (~Contains(Told, C) => choked /\ incoming = {})
    BY <2>2, <2>3 DEF ChokeIsTold
  <2>5. Followed(Told', U, C) /\ (m = U => Contains(Told', C))
    BY <1>1, <2>1, <2>4, FollowedTail
  <2>6. CASE m.type = "Choke" /\ ReceiveChoke
    BY <2>5, <2>6 DEF ReceiveChoke
  <2>7. CASE m.type = "Unchoke"
    <3>1. m = U
      BY <2>1, <2>7, MessageTypes
    <3> QED BY <2>5, <3>1
  <2>8. CASE m.type = "Piece" /\ ReceivePiece(m.block)
    <3>1. m # C
      BY <2>1, <2>8, MessageTypes
    <3>2. ~Contains(Told', C) => ~Contains(Told, C)
      BY <1>1, <2>1, <3>1, ContainsTail
    <3>3. ASSUME choked, incoming = {}
          PROVE  choked' /\ incoming' = {}
      BY <2>8, <3>3 DEF ReceivePiece
    <3> QED BY <2>4, <2>5, <3>2, <3>3
  <2> QED BY <2>2, <2>6, <2>7, <2>8
<1>7. CASE ChokePeer
  <2>1. Told' = Append(Told, C)
    <3>1. outgoing' = Append(outgoing, C) /\ toRequester' = toRequester
      BY <1>7 DEF ChokePeer, Choke, ChokeMessage
    <3> QED BY <3>1, ToldAppend, MessageTypes
  <2>2. Contains(Told', C) /\ Followed(Told', U, C)
    BY <1>1, <2>1, MessageTypes, ContainsAppend, FollowedAppend
  <2> QED BY <2>2 DEF ChokeIsTold
<1>8. CASE UnchokePeer \/ Close
  BY <1>8 DEF UnchokePeer, Close, ChokeIsTold
<1>9. CASE SendToPeer
  <2>1. CASE open /\ ~choking
    <3>1. choking' = FALSE \/ choking' = choking
      BY <1>9, <2>1 DEF SendToPeer, SendBlock
    <3> QED BY <2>1, <3>1 DEF ChokeIsTold
  <2>2. CASE ~(open /\ ~choking)
    <3>1. Told' = Told
      BY <1>9, <2>2 DEF SendToPeer, queue, Told
    <3>2. open' = open /\ choking' = choking /\ choked' = choked /\ incoming' = incoming
      BY <1>9, <2>2 DEF SendToPeer, requester
    <3> QED BY <1>2, <3>1, <3>2
  <2> QED BY <2>1, <2>2
<1>10. CASE FillBuffer
  <2>1. ~choking /\ choking' = choking
    BY <1>10 DEF FillBuffer, ChokedGetsNothing
  <2> QED BY <2>1 DEF ChokeIsTold
<1> QED BY <1>3, <1>4, <1>5, <1>6, <1>7, <1>8, <1>9, <1>10 DEF Next

-----------------------------------------------------------------------------
(* BlockTransfer: the requests *)

LEMMA CancelStep ==
  ASSUME TypeOK, CancelsAreOld, [Next]_vars
  PROVE  CancelsAreOld'
<1>1. CASE \/ OtherDirection \/ ChokePeer \/ UnchokePeer \/ SendToPeer \/ FillBuffer
           \/ WriteMessage \/ UNCHANGED vars
  <2>1. toServer' = toServer /\ incoming' = incoming
    BY <1>1 DEF OtherDirection, ChokePeer, UnchokePeer, SendToPeer, FillBuffer, WriteMessage, vars,
                requester
  <2> QED BY <2>1 DEF CancelsAreOld
<1>2. ASSUME NEW awaited \in SUBSET incoming, RequestBlocks(awaited)
      PROVE  CancelsAreOld'
  <2>1. \A b \in incoming' : b \in awaited => Followed(toServer, CancelMessage(b), Request(b))
    BY DEF CancelsAreOld
  <2> QED BY <1>2, <2>1, RequestBlocksFacts DEF CancelsAreOld
<1>3. CASE RequestBlock
  BY <1>2, <1>3 DEF RequestBlock
<1>4. ASSUME NEW b \in Blocks, CancelRequest(b)
      PROVE  CancelsAreOld'
  <2>1. incoming' = incoming \ {b} /\ toServer' = Append(toServer, CancelMessage(b))
    BY <1>4 DEF CancelRequest, CancelMessage
  <2>2. ASSUME NEW c \in incoming'
        PROVE  Followed(toServer', CancelMessage(c), Request(c))
    <3>1. c \in Blocks /\ c # b /\ Followed(toServer, CancelMessage(c), Request(c))
      BY <2>1, <2>2 DEF CancelsAreOld, TypeOK
    <3>2. toServer \in Seq(FromRequester)
      BY DEF TypeOK
    <3>3. CancelMessage(b) \in FromRequester /\ CancelMessage(b) # CancelMessage(c)
      BY <3>1, MessageTypes
    <3> QED BY <2>1, <3>1, <3>2, <3>3, FollowedAppend
  <2> QED BY <2>2 DEF CancelsAreOld
<1>5. CASE RequesterReceives
  <2>1. \/ incoming' = {}
        \/ incoming' = incoming /\ toServer' = toServer
        \/ \E b \in FromServer : ReceivePiece(b.block)
    BY <1>5 DEF RequesterReceives, ReceiveChoke, TypeOK
  <2>2. ASSUME NEW b, ReceivePiece(b)
        PROVE  CancelsAreOld'
    <3>1. CASE incoming' = incoming \ {b} /\ UNCHANGED toServer
      BY <3>1 DEF CancelsAreOld
    <3>2. CASE RequestBlocks(incoming \ {b})
      BY <1>2, <3>2
    <3> QED BY <2>2, <3>1, <3>2 DEF ReceivePiece
  <2> QED BY <2>1, <2>2 DEF CancelsAreOld
<1>6. CASE ServerReceives
  <2>1. /\ incoming' = incoming /\ toServer' = Tail(toServer)
        /\ toServer # <<>> /\ toServer \in Seq(FromRequester)
    BY <1>6 DEF ServerReceives, requester, TypeOK
  <2> QED BY <2>1, FollowedTail DEF CancelsAreOld
<1>7. CASE Close
  BY <1>7 DEF Close, CancelsAreOld
<1> QED BY <1>1, <1>3, <1>4, <1>5, <1>6, <1>7 DEF Next

\* A step that takes nothing away leaves every block on its way.
LEMMA StaysOnTheWay ==
  ASSUME NEW b, OnTheWay(b),
         Contains(toServer, Request(b)) => Contains(toServer', Request(b)),
         Contains(reads, b) => Contains(reads', b),
         Contains(pendingBlocks, b) => Contains(pendingBlocks', b),
         \A m \in {Piece(b), ChokeMessage} : Contains(Told, m) => Contains(Told', m)
  PROVE  OnTheWay(b)'
BY DEF OnTheWay, Request, Piece, ChokeMessage

LEMMA OnTheWayStep ==
  ASSUME TransferInv, [Next]_vars
  PROVE  \A b \in incoming' : OnTheWay(b)'
<1> USE DEF TransferInv
<1>1. /\ TypeOK /\ Told \in Seq(FromServer) /\ toServer \in Seq(FromRequester)
      /\ reads \in Seq(Blocks) /\ pendingBlocks \in Seq(Blocks) /\ incoming \subseteq Blocks
  BY ToldType DEF TypeOK
<1>2. \A b \in incoming : OnTheWay(b)
  OBVIOUS
<1>3. CASE OtherDirection \/ UNCHANGED vars
  <2>1. /\ toServer' = toServer /\ reads' = reads /\ pendingBlocks' = pendingBlocks
        /\ Told' = Told /\ incoming' = incoming
    BY <1>3 DEF OtherDirection, vars, requester, server, queue, Told
  <2> QED BY <1>2, <2>1, StaysOnTheWay
<1>4. CASE RequestBlock
  <2>1. RequestBlocks(incoming) /\ reads' = reads /\ pendingBlocks' = pendingBlocks /\ Told' = Told
    BY <1>4 DEF RequestBlock, server, queue, Told
  <2>2. \A b \in incoming' \ incoming : OnTheWay(b)'
    BY <1>1, <2>1, RequestBlocksFacts DEF OnTheWay, Request
  <2>3. \A m : Contains(toServer, m) => Contains(toServer', m)
    BY <1>1, <2>1, RequestBlocksFacts
  <2> QED BY <1>2, <2>1, <2>2, <2>3, StaysOnTheWay
<1>5. ASSUME NEW b \in Blocks, CancelRequest(b)
      PROVE  \A c \in incoming' : OnTheWay(c)'
  <2>1. /\ toServer' = Append(toServer, CancelMessage(b)) /\ incoming' \subseteq incoming
        /\ reads' = reads /\ pendingBlocks' = pendingBlocks /\ Told' = Told
    BY <1>5 DEF CancelRequest, CancelMessage, server, queue, Told
  <2>2. \A m : Contains(toServer, m) => Contains(toServer', m)
    BY <1>1, <2>1, MessageTypes, ContainsAppend
  <2> QED BY <1>2, <2>1, <2>2, StaysOnTheWay
<1>6. CASE RequesterReceives
  <2>1. /\ Told # <<>> /\ Told' = Tail(Told) /\ Head(Told) \in FromServer
        /\ Head(Told) = Head(toRequester)
    BY <1>1, <1>6, ToldTail
  <2> DEFINE m == Head(Told)
  <2>2. /\ reads' = reads /\ pendingBlocks' = pendingBlocks
        /\ \/ m.type = "Choke" /\ ReceiveChoke
           \/ m.type = "Unchoke" /\ incoming' = incoming /\ toServer' = toServer
           \/ m.type = "Piece" /\ ReceivePiece(m.block)
    BY <1>6, <2>1 DEF RequesterReceives, server, queue
  <2>3. \A x : x # m /\ Contains(Told, x) => Contains(Told', x)
    BY <1>1, <2>1, ContainsTail
  <2>4. CASE m.type = "Choke" /\ ReceiveChoke
    BY <2>4 DEF ReceiveChoke
  <2>5. CASE m.type = "Unchoke" /\ incoming' = incoming /\ toServer' = toServer
    <3>1. ASSUME NEW b \in incoming
          PROVE  \A x \in {Piece(b), ChokeMessage} : Contains(Told, x) => Contains(Told', x)
      BY <1>1, <2>1, <2>3, <2>5, MessageTypes
    <3> QED BY <1>2, <2>2, <2>5, <3>1, StaysOnTheWay
  <2>6. CASE m.type = "Piece" /\ ReceivePiece(m.block)
    <3> DEFINE awaited == incoming \ {m.block}
    <3>1. m.block \in Blocks /\ m = Piece(m.block)
      BY <2>1, <2>6, MessageTypes
    <3>2. /\ \A x : Contains(toServer, x) => Contains(toServer', x)
          /\ \A b \in incoming' \ awaited : Contains(toServer', Request(b))
      <4>1. CASE RequestBlocks(awaited)
        BY <1>1, <4>1, RequestBlocksFacts
      <4>2. CASE incoming' = awaited /\ UNCHANGED toServer
        BY <4>2
      <4> QED BY <2>6, <4>1, <4>2 DEF ReceivePiece
    <3>3. ASSUME NEW b \in awaited
          PROVE  \A x \in {Piece(b), ChokeMessage} : Contains(Told, x) => Contains(Told', x)
      <4>1. b \in Blocks /\ b # m.block
        BY <1>1
      <4> QED BY <2>3, <3>1, <4>1, MessageTypes
    <3>4. \A b \in awaited : OnTheWay(b)'
      BY <1>2, <2>2, <3>2, <3>3, StaysOnTheWay
    <3>5. \A b \in incoming' \ awaited : OnTheWay(b)'
      BY <3>2 DEF OnTheWay, Request
    <3> QED BY <3>4, <3>5
  <2> QED BY <2>2, <2>4, <2>5, <2>6
<1>7. CASE ChokePeer
  <2>1. Told' = Append(Told, ChokeMessage)
    <3>1. outgoing' = Append(outgoing, ChokeMessage) /\ toRequester' = toRequester
      BY <1>7 DEF ChokePeer, Choke, ChokeMessage
    <3> QED BY <1>1, <3>1, ToldAppend, MessageTypes
  <2>2. Contains(Told', ChokeMessage)
    BY <1>1, <2>1, MessageTypes, ContainsAppend
  <2> QED BY <2>2 DEF OnTheWay, ChokeMessage
<1>8. CASE UnchokePeer
  <2>1. Told' = Append(Told, UnchokeMessage)
    <3>1. outgoing' = Append(outgoing, UnchokeMessage) /\ toRequester' = toRequester
      BY <1>8 DEF UnchokePeer, UnchokeMessage
    <3> QED BY <1>1, <3>1, ToldAppend, MessageTypes
  <2>2. \A m : Contains(Told, m) => Contains(Told', m)
    BY <1>1, <2>1, MessageTypes, ContainsAppend
  <2>3. /\ toServer' = toServer /\ reads' = reads /\ pendingBlocks' = pendingBlocks
        /\ incoming' = incoming
    BY <1>8 DEF UnchokePeer, requester
  <2> QED BY <1>2, <2>2, <2>3, StaysOnTheWay
<1>9. CASE ServerReceives
  <2>1. /\ open /\ incoming' = incoming /\ Told' = Told
        /\ toServer # <<>> /\ toServer' = Tail(toServer)
    BY <1>1, <1>9, ToldUntouched DEF ServerReceives, requester
  <2>2. PICK m \in FromRequester, c \in Blocks :
          /\ m = Head(toServer) /\ c = m.block
          /\ \/ m.type = "Request" /\ ReceiveRequest(c)
             \/ m.type = "Cancel" /\ ReceiveCancel(c)
    <3>1. Head(toServer) \in FromRequester
      BY <1>1, <2>1
    <3> QED BY <1>9, <3>1, MessageTypes DEF ServerReceives
  <2>3. \A x : Contains(toServer, x) <=> (x = m \/ Contains(toServer', x))
    BY <1>1, <2>1, <2>2, ContainsTail
  <2>4. CASE m.type = "Request" /\ ReceiveRequest(c)
    <3>1. m = Request(c)
      BY <2>2, <2>4, MessageTypes
    <3>2. pendingBlocks' = pendingBlocks /\ \A x : Contains(reads, x) => Contains(reads', x)
      <4>1. reads' = reads \/ reads' = Append(reads, c)
        BY <2>4 DEF ReceiveRequest
      <4>2. pendingBlocks' = pendingBlocks
        BY <2>4 DEF ReceiveRequest, queue
      <4>3. \A x : Contains(Append(reads, c), x) <=> (Contains(reads, x) \/ x = c)
        BY <1>1, ContainsAppend
      <4> QED BY <4>1, <4>2, <4>3
    <3>3. ASSUME NEW b \in incoming, b # c
          PROVE  OnTheWay(b)'
      <4>1. Contains(toServer, Request(b)) => Contains(toServer', Request(b))
        BY <1>1, <2>2, <2>3, <3>1, <3>3, MessageTypes
      <4> QED BY <1>2, <2>1, <3>2, <4>1, StaysOnTheWay
    <3>4. ASSUME c \in incoming
          PROVE  OnTheWay(c)'
      <4>1. CASE choking
        <5>1. Contains(Told', ChokeMessage)
          BY <2>1, <3>4, <4>1 DEF ChokeIsTold
        <5> QED BY <5>1 DEF OnTheWay, ChokeMessage
      <4>2. CASE ~choking
        <5>1. reads' = Append(reads, c)
          BY <2>4, <4>2 DEF ReceiveRequest
        <5>2. Contains(reads', c)
          BY <1>1, <2>2, <5>1, ContainsAppend
        <5> QED BY <5>2 DEF OnTheWay
      <4> QED BY <4>1, <4>2
    <3> QED BY <2>1, <3>3, <3>4
  <2>5. CASE m.type = "Cancel" /\ ReceiveCancel(c)
    <3>1. m = CancelMessage(c)
      BY <2>2, <2>5, MessageTypes
    <3>2. reads' = reads /\ pendingBlocks' = RemoveFirst(pendingBlocks, c)
      BY <2>5 DEF ReceiveCancel
    <3>3. ASSUME NEW b \in incoming, b # c
          PROVE  OnTheWay(b)'
      <4>1. Contains(toServer, Request(b)) => Contains(toServer', Request(b))
        BY <1>1, <2>2, <2>3, <3>1, MessageTypes
      <4>2. Contains(pendingBlocks, b) => Contains(pendingBlocks', b)
        BY <1>1, <3>2, <3>3, RemoveFirstFacts
      <4> QED BY <1>2, <2>1, <3>2, <4>1, <4>2, StaysOnTheWay
    <3>4. ASSUME c \in incoming
          PROVE  OnTheWay(c)'
      <4>1. Followed(toServer, CancelMessage(c), Request(c))
        BY <3>4 DEF CancelsAreOld
      <4>2. Contains(toServer', Request(c))
        BY <1>1, <2>1, <2>2, <3>1, <4>1, FollowedTail
      <4> QED BY <4>2 DEF OnTheWay, Request
    <3> QED BY <2>1, <3>3, <3>4
  <2> QED BY <2>2, <2>4, <2>5
<1>10. CASE SendToPeer
  <2>1. /\ incoming' = incoming /\ toServer' = toServer /\ toRequester' = toRequester
        /\ reads # <<>> /\ reads' = Tail(reads)
    BY <1>10 DEF SendToPeer, requester
  <2> DEFINE c == Head(reads)
  <2>2. c \in Blocks /\ \A x : Contains(reads, x) <=> (x = c \/ Contains(reads', x))
    BY <1>1, <2>1, ContainsTail
  <2>3. CASE open /\ ~choking
    <3>1. SendBlock(c)
      BY <1>10, <2>3 DEF SendToPeer
    <3>2. CASE pendingBlockSizes + HeaderSize + DataSize > QueueLimit
      <4>1. /\ outgoing' = outgoing \o <<ChokeMessage, UnchokeMessage>>
            /\ <<ChokeMessage, UnchokeMessage>> \in Seq(FromServer)
        BY <3>1, <3>2, MessageTypes DEF SendBlock, ChokeMessage, UnchokeMessage
      <4>2. Told' = Told \o <<ChokeMessage, UnchokeMessage>>
        <5> DEFINE t == <<ChokeMessage, UnchokeMessage>>
        <5>1. t \in Seq(FromServer) /\ Told' = toRequester \o (outgoing \o t)
          BY <2>1, <4>1 DEF Told
        <5>2. outgoing \in Seq(FromServer) /\ toRequester \in Seq(FromServer)
          BY <1>1 DEF TypeOK
        <5> HIDE DEF t
        <5>3. Told' = (toRequester \o outgoing) \o t
          BY <5>1, <5>2, ConcatAssociative
        <5> QED BY <5>3 DEF t, Told
      <4>3. Contains(<<ChokeMessage, UnchokeMessage>>, ChokeMessage)
        BY DEF Contains
      <4>4. Contains(Told', ChokeMessage)
        BY <1>1, <4>1, <4>2, <4>3, ContainsConcat
      <4> QED BY <4>4 DEF OnTheWay, ChokeMessage
    <3>3. CASE ~(pendingBlockSizes + HeaderSize + DataSize > QueueLimit)
      <4>1. pendingBlocks' = Append(pendingBlocks, c) /\ Told' = Told
        BY <2>1, <3>1, <3>3 DEF SendBlock, Told
      <4>2. \A x : Contains(pendingBlocks', x) <=> (Contains(pendingBlocks, x) \/ x = c)
        BY <1>1, <2>2, <4>1, ContainsAppend
      <4> QED BY <1>2, <2>1, <2>2, <4>1, <4>2 DEF OnTheWay, Request, Piece, ChokeMessage
    <3> QED BY <3>2, <3>3
  <2>4. CASE ~(open /\ ~choking)
    <3>1. Told' = Told
      BY <1>10, <2>1, <2>4 DEF SendToPeer, queue, Told
    <3>2. incoming # {} => Contains(Told', ChokeMessage)
      BY <2>4, <3>1 DEF ClosedAwaitsNothing, ChokeIsTold
    <3> QED BY <2>1, <3>2 DEF OnTheWay, ChokeMessage
  <2> QED BY <2>3, <2>4
<1>11. CASE FillBuffer
  <2> DEFINE c == Head(pendingBlocks)
  <2>1. /\ incoming' = incoming /\ toServer' = toServer /\ reads' = reads
        /\ pendingBlocks # <<>> /\ pendingBlocks' = Tail(pendingBlocks) /\ c \in Blocks
    BY <1>1, <1>11 DEF FillBuffer, requester
  <2>2. Told' = Append(Told, Piece(c))
    <3>1. outgoing' = Append(outgoing, Piece(c)) /\ toRequester' = toRequester
      BY <1>11 DEF FillBuffer
    <3> QED BY <1>1, <2>1, <3>1, ToldAppend, MessageTypes
  <2>3. \A x : Contains(pendingBlocks, x) <=> (x = c \/ Contains(pendingBlocks', x))
    BY <1>1, <2>1, ContainsTail
  <2>4. \A x : Contains(Told', x) <=> (Contains(Told, x) \/ x = Piece(c))
    BY <1>1, <2>1, <2>2, MessageTypes, ContainsAppend
  <2> QED BY <1>2, <2>1, <2>3, <2>4 DEF OnTheWay, Request, Piece, ChokeMessage
<1>12. CASE WriteMessage
  <2>1. /\ toServer' = toServer /\ reads' = reads /\ pendingBlocks' = pendingBlocks
        /\ Told' = Told /\ incoming' = incoming
    BY <1>1, <1>12, ToldUntouched DEF WriteMessage, requester
  <2> QED BY <1>2, <2>1, StaysOnTheWay
<1>13. CASE Close
  BY <1>13 DEF Close
<1> QED BY <1>3, <1>4, <1>5, <1>6, <1>7, <1>8, <1>9, <1>10, <1>11, <1>12, <1>13 DEF Next

-----------------------------------------------------------------------------
(* BlockTransfer: the theorems *)

LEMMA TransferInvariant == Spec => []TransferInv
<1>1. TransferInv /\ [Next]_vars => TransferInv'
  <2> SUFFICES ASSUME TransferInv, [Next]_vars
               PROVE  TransferInv'
    OBVIOUS
  <2>1. TypeOK' /\ ClosedAwaitsNothing' /\ QueueIsCounted' /\ ChokedGetsNothing'
    BY TypeStep, ClosedStep, CountStep, ChokedStep DEF TransferInv
  <2>2. ChokeIsTold' /\ CancelsAreOld' /\ \A b \in incoming' : OnTheWay(b)'
    BY ToldStep, CancelStep, OnTheWayStep DEF TransferInv
  <2> QED BY <2>1, <2>2 DEF TransferInv
<1> QED BY <1>1, TransferInit, PTL DEF Spec

\* Every variable keeps its type: the size of the queue never becomes negative, though a
\* message is added whole and taken off without its header.
THEOREM TypeCorrect == Spec => []TypeOK
<1>1. TransferInv => TypeOK
  BY DEF TransferInv
<1> QED BY <1>1, TransferInvariant, PTL

\* A request is never lost between the two ends, whatever crosses it: cancels, chokes that
\* overtake the blocks, and the choke and unchoke of a queue that is full.
THEOREM RequestsAreKept == Spec => []NoLostRequest
<1>1. TransferInv => NoLostRequest
  <2> SUFFICES ASSUME TransferInv, NEW b \in incoming
               PROVE  \/ Contains(toServer, Request(b))
                      \/ Contains(reads, b) \/ Contains(pendingBlocks, b)
                      \/ \E m \in {Piece(b), [type |-> "Choke"]} :
                           Contains(outgoing, m) \/ Contains(toRequester, m)
    BY DEF NoLostRequest
  <2>1. OnTheWay(b)
    BY DEF TransferInv
  <2>2. \A m : Contains(Told, m) <=> Contains(toRequester, m) \/ Contains(outgoing, m)
    BY ContainsConcat DEF TransferInv, TypeOK, Told
  <2> QED BY <2>1, <2>2 DEF OnTheWay, ChokeMessage
<1> QED BY <1>1, TransferInvariant, PTL

\* What sendBlock() compares with its limit counts at least the bytes that are queued.
THEOREM QueueAlwaysCounted == Spec => []QueueIsCounted
<1>1. TransferInv => QueueIsCounted
  BY DEF TransferInv
<1> QED BY <1>1, TransferInvariant, PTL

\* A choked peer has nothing queued, whatever the disk still answers.
THEOREM ChokedNeverServed == Spec => []ChokedGetsNothing
<1>1. TransferInv => ChokedGetsNothing
  BY DEF TransferInv
<1> QED BY <1>1, TransferInvariant, PTL
=============================================================================
