--------------------------- MODULE SessionProofs ---------------------------
(***************************************************************************)
(* Proofs about Session, for any torrent files, number of clients, pieces, *)
(* bytes and launches: a torrent is listed and served once, what has       *)
(* reached the disk comes back, the settings show the list, and what they  *)
(* say of a torrent's progress does not fall.                              *)
(***************************************************************************)
EXTENDS Session, SequenceTheorems, TLAPS

-----------------------------------------------------------------------------
(* Sequences *)

LEMMA RemoveAtFacts ==
  ASSUME NEW S, NEW s \in Seq(S), NEW i \in 1..Len(s)
  PROVE  /\ RemoveAt(s, i) \in Seq(S)
         /\ \A k \in 1..Len(RemoveAt(s, i)) :
              \E j \in 1..Len(s) : /\ RemoveAt(s, i)[k] = s[j]
                                   /\ j = IF k < i THEN k ELSE k + 1
         /\ \A j \in 1..Len(s) \ {i} :
              \E k \in 1..Len(RemoveAt(s, i)) : RemoveAt(s, i)[k] = s[j]
<1> DEFINE before == SubSeq(s, 1, i - 1)
           after == SubSeq(s, i + 1, Len(s))
           t == before \o after
<1>1. /\ before \in Seq(S) /\ Len(before) = i - 1
      /\ \A k \in 1..(i - 1) : before[k] = s[k]
  OBVIOUS
<1>2. /\ after \in Seq(S) /\ Len(after) = Len(s) - i
      /\ \A k \in 1..(Len(s) - i) : after[k] = s[i + k]
  OBVIOUS
<1>3. RemoveAt(s, i) = t
  BY DEF RemoveAt
<1> HIDE DEF before, after
<1>4. /\ t \in Seq(S) /\ Len(t) = Len(s) - 1
      /\ \A k \in 1..(Len(before) + Len(after)) :
           t[k] = IF k <= Len(before) THEN before[k] ELSE after[k - Len(before)]
  <2>1. Len(t) = Len(before) + Len(after) /\ t \in Seq(S)
    BY <1>1, <1>2, ConcatProperties
  <2>2. \A k \in 1..(Len(before) + Len(after)) :
          t[k] = IF k <= Len(before) THEN before[k] ELSE after[k - Len(before)]
    BY <1>1, <1>2, ConcatProperties
  <2>3. Len(before) + Len(after) = Len(s) - 1
    BY <1>1, <1>2
  <2> QED BY <2>1, <2>2, <2>3
<1> HIDE DEF t
<1>5. ASSUME NEW k \in 1..(Len(s) - 1)
      PROVE  t[k] = IF k < i THEN s[k] ELSE s[k + 1]
  <2>1. t[k] = IF k <= i - 1 THEN before[k] ELSE after[k - (i - 1)]
    <3>1. Len(before) = i - 1 /\ k \in 1..(Len(before) + Len(after))
      BY <1>1, <1>2
    <3>2. t[k] = IF k <= Len(before) THEN before[k] ELSE after[k - Len(before)]
      BY <1>4, <3>1
    <3> QED BY <3>1, <3>2
  <2>2. CASE k < i
    BY <1>1, <2>1, <2>2
  <2>3. CASE ~(k < i)
    <3>1. k - (i - 1) \in 1..(Len(s) - i) /\ i + (k - (i - 1)) = k + 1
      BY <2>3
    <3>2. t[k] = after[k - (i - 1)]
      BY <2>1, <2>3
    <3> QED BY <1>2, <2>3, <3>1, <3>2
  <2> QED BY <2>2, <2>3
<1>6. \A k \in 1..Len(t) : \E j \in 1..Len(s) : t[k] = s[j] /\ j = IF k < i THEN k ELSE k + 1
  BY <1>4, <1>5
<1>7. ASSUME NEW j \in 1..Len(s) \ {i}
      PROVE  \E k \in 1..Len(t) : t[k] = s[j]
  <2>1. CASE j < i
    BY <1>4, <1>5, <2>1
  <2>2. CASE j > i
    <3>1. j - 1 \in 1..Len(t) /\ t[j - 1] = s[j]
      BY <1>4, <1>5, <2>2
    <3> QED BY <3>1
  <2> QED BY <2>1, <2>2
<1> QED BY <1>3, <1>4, <1>6, <1>7

-----------------------------------------------------------------------------
(* The inductive invariant *)

\* A listed file has the client that was created for it, and only such clients are served.
ClientsMatch ==
  /\ \A i \in DOMAIN items : client[items[i].client].file = items[i].file
  /\ \A c \in served : \E i \in DOMAIN items : items[i].client = c

\* Two entries of the settings describe two torrents.
Distinct(list) ==
  \A i, j \in DOMAIN list : InfoHash(list[i].file) = InfoHash(list[j].file) => i = j

\* While the list is loaded it shows nothing but earlier rows of the settings.
LoadedFromRows ==
  /\ phase = "down" => items = <<>> /\ served = {}
  /\ phase = "loading" =>
       /\ stored = disk
       /\ \A i \in DOMAIN items : \E k \in DOMAIN stored : k < row /\ items[i].file = stored[k].file
       /\ \A f \in kept : \/ f \in FilesOf(items)
                          \/ \E k \in DOMAIN stored : k >= row /\ f = stored[k].file

SessionInv ==
  /\ TypeOK
  /\ ClientsMatch
  /\ NoTorrentTwice
  /\ Distinct(items) /\ Distinct(stored) /\ Distinct(disk)
  /\ LoadedFromRows
  /\ TorrentsAreKept

LEMMA SessionInit == Init => SessionInv
<1> SUFFICES ASSUME Init
             PROVE  SessionInv
  OBVIOUS
<1>1. TypeOK
  <2>1. NewClient \in [file : File \cup {NoFile}, state : ClientState, verifying : BOOLEAN,
                       completed : 0 .. Pieces, bytes : 0 .. MaxBytes]
    BY BoundAssumption DEF NewClient, ClientState
  <2> QED BY <2>1, BoundAssumption DEF Init, TypeOK
<1>2. ClientsMatch /\ NoTorrentTwice /\ LoadedFromRows
  BY DEF Init, ClientsMatch, NoTorrentTwice, LoadedFromRows
<1>3. Distinct(items) /\ Distinct(stored) /\ Distinct(disk)
  BY DEF Init, Distinct
<1>4. TorrentsAreKept
  BY DEF Init, TorrentsAreKept
<1> QED BY <1>1, <1>2, <1>3, <1>4 DEF SessionInv

-----------------------------------------------------------------------------
(* Saving and adding *)

\* A snapshot has an entry for every torrent of the list, in its order.
LEMMA SnapshotFacts ==
  ASSUME NEW list \in Seq([file : File, client : Client]),
         NEW objects \in [Client -> [file : File \cup {NoFile}, state : ClientState,
                                     verifying : BOOLEAN, completed : 0 .. Pieces,
                                     bytes : 0 .. MaxBytes]]
  PROVE  /\ Snapshot(list, objects) \in Seq(Entry)
         /\ Distinct(list) => Distinct(Snapshot(list, objects))
<1> DEFINE s == Snapshot(list, objects)
           n == Len(list)
<1>1. n \in Nat /\ DOMAIN list = 1..n /\ \A i \in 1..n : list[i] \in [file : File, client : Client]
  BY LenProperties, ElementOfSeq
<1>2. s = [i \in 1..n |-> [file |-> list[i].file,
                           completed |-> objects[list[i].client].completed,
                           bytes |-> objects[list[i].client].bytes]]
  BY <1>1 DEF Snapshot
<1> HIDE DEF s, n
<1>3. \A i \in 1..n : s[i] \in Entry /\ s[i].file = list[i].file
  BY <1>1, <1>2 DEF Entry
<1>4. s \in [1..n -> Entry]
  BY <1>2, <1>3
<1>5. s \in Seq(Entry)
  BY <1>1, <1>4, SeqDef
<1>6. Distinct(list) => Distinct(s)
  BY <1>1, <1>3, <1>4 DEF Distinct
<1> QED BY <1>5, <1>6 DEF s

ClientType == [file : File \cup {NoFile}, state : ClientState, verifying : BOOLEAN,
               completed : 0 .. Pieces, bytes : 0 .. MaxBytes]

\* What the steps have to keep of the list and the objects.
ListOK(list, objects, serving) ==
  /\ list \in Seq([file : File, client : Client])
  /\ objects \in [Client -> ClientType]
  /\ serving \subseteq Client
  /\ \A i \in DOMAIN list : objects[list[i].client].file = list[i].file
  /\ \A c \in serving : \E i \in DOMAIN list : list[i].client = c
  /\ Distinct(list)

\* What is served is served once, since what is listed is listed once.
LEMMA ServedOnce ==
  ASSUME NEW list, NEW objects, NEW serving, ListOK(list, objects, serving),
         NEW c \in serving, NEW d \in serving,
         InfoHash(objects[c].file) = InfoHash(objects[d].file)
  PROVE  c = d
<1>1. PICK i \in DOMAIN list : list[i].client = c
  BY DEF ListOK
<1>2. PICK j \in DOMAIN list : list[j].client = d
  BY DEF ListOK
<1>3. InfoHash(list[i].file) = InfoHash(list[j].file)
  BY <1>1, <1>2 DEF ListOK
<1>4. i = j
  BY <1>3 DEF ListOK, Distinct
<1> QED BY <1>1, <1>2, <1>4

LEMMA ListStaysOK ==
  ASSUME ListOK(items', client', served')
  PROVE  ClientsMatch' /\ NoTorrentTwice' /\ Distinct(items)'
<1>1. \A c, d \in served' : InfoHash(client'[c].file) = InfoHash(client'[d].file) => c = d
  BY ServedOnce
<1> QED BY <1>1 DEF ListOK, ClientsMatch, NoTorrentTwice, Distinct

LEMMA ListIsOK ==
  ASSUME TypeOK, ClientsMatch, Distinct(items)
  PROVE  ListOK(items, client, served)
BY DEF TypeOK, ClientsMatch, ListOK, ClientType

\* addTorrent changes nothing, or lists a file that describes no listed torrent.
LEMMA AddTorrentFacts ==
  ASSUME TypeOK, ClientsMatch, Distinct(items), Distinct(stored),
         NEW f \in File, NEW completed \in 0 .. Pieces, NEW bytes \in 0 .. MaxBytes,
         AddTorrent(f, completed, bytes)
  PROVE  /\ ListOK(items', client', served')
         /\ stored' \in Seq(Entry) /\ Distinct(stored)' /\ (AutoSave \/ stored' = stored)
         /\ \A g \in FilesOf(items) : g \in FilesOf(items)'
         /\ \A i \in DOMAIN items' : items'[i].file \in FilesOf(items) \cup {f}
         /\ f \in readable /\ ~IsListed(f) => f \in FilesOf(items)'
<1>1. ListOK(items, client, served) /\ stored \in Seq(Entry)
  BY ListIsOK DEF TypeOK
<1>2. CASE ~(f \in readable /\ ~IsListed(f))
  <2>1. items' = items /\ client' = client /\ served' = served /\ stored' = stored
    BY <1>2 DEF AddTorrent
  <2> QED BY <1>1, <1>2, <2>1 DEF FilesOf, Distinct, TypeOK
<1>3. CASE f \in readable /\ ~IsListed(f)
  <2> DEFINE c == CHOOSE x \in Unused : TRUE
             object(n) == [file |-> f, state |-> "Preparing", verifying |-> TRUE,
                           completed |-> completed, bytes |-> n]
             item == [file |-> f, client |-> c]
  <2>1. /\ Unused # {}
        /\ items' = Append(items, item)
        /\ client' = [client EXCEPT ![c] = object(bytes)]
        /\ served' = served \cup {c}
        /\ CountChanged(items', [client EXCEPT ![c] = object(0)])
    BY <1>3 DEF AddTorrent
  <2>2. c \in Client /\ client[c].file = NoFile
    BY <2>1 DEF Unused
  <2> HIDE DEF c
  <2>3. object(bytes) \in ClientType /\ object(0) \in ClientType
    BY BoundAssumption DEF ClientType, ClientState
  <2>4. client' \in [Client -> ClientType] /\ [client EXCEPT ![c] = object(0)] \in [Client -> ClientType]
    BY <1>1, <2>1, <2>2, <2>3 DEF ListOK
  <2>5. item \in [file : File, client : Client]
    BY <2>2
  <2> HIDE DEF object
  <2> DEFINE n == Len(items)
  <2>6. /\ items' \in Seq([file : File, client : Client]) /\ n \in Nat
        /\ DOMAIN items' = 1..(n + 1) /\ DOMAIN items = 1..n
        /\ \A i \in 1..n : items'[i] = items[i]
        /\ items'[n + 1] = item
    BY <1>1, <2>1, <2>5, AppendProperties, LenProperties DEF ListOK
  <2> HIDE DEF n
  <2>7. ASSUME NEW i \in 1..n
        PROVE  /\ items[i].client \in Client /\ items[i].client # c
               /\ client[items[i].client].file = items[i].file
    <3>1. client[items[i].client].file = items[i].file
      BY <1>1, <2>6 DEF ListOK
    <3>2. items[i].file \in File /\ items[i].client \in Client
      <4>1. items \in Seq([file : File, client : Client]) /\ i \in 1..Len(items)
        BY <1>1 DEF ListOK, n
      <4>2. items[i] \in [file : File, client : Client]
        BY <4>1, ElementOfSeq
      <4> QED BY <4>2
    <3> QED BY <2>2, <3>1, <3>2, NoFileAssumption
  <2>8. client'[c].file = f
    BY <1>1, <2>1, <2>2 DEF ListOK, object
  <2>9. \A i \in DOMAIN items' : client'[items'[i].client].file = items'[i].file
    <3>1. \A i \in 1..n : client'[items[i].client].file = items[i].file
      BY <1>1, <2>1, <2>2, <2>6, <2>7 DEF ListOK
    <3>2. client'[item.client].file = item.file
      BY <2>8
    <3> QED BY <2>6, <3>1, <3>2
  <2>10. \A x \in served' : \E i \in DOMAIN items' : items'[i].client = x
    <3>1. \A x \in served : \E i \in 1..n : items[i].client = x
      BY <1>1, <2>6 DEF ListOK
    <3>2. n + 1 \in DOMAIN items' /\ items'[n + 1].client = c
      BY <2>6
    <3> QED BY <2>1, <2>6, <3>1, <3>2
  <2>11. \A i \in 1..n : InfoHash(items[i].file) # InfoHash(f)
    BY <1>3, <2>6 DEF IsListed
  <2>12. Distinct(items')
    BY <1>1, <2>6, <2>11 DEF ListOK, Distinct
  <2>13. served' \subseteq Client
    BY <1>1, <2>1, <2>2 DEF ListOK
  <2>14. ListOK(items', client', served')
    BY <2>4, <2>6, <2>9, <2>10, <2>12, <2>13 DEF ListOK
  <2>15. stored' \in Seq(Entry) /\ Distinct(stored)' /\ (AutoSave \/ stored' = stored)
    BY <1>1, <2>1, <2>4, <2>6, <2>12, SnapshotFacts DEF CountChanged, ClientType
  <2>16. /\ \A g \in FilesOf(items) : g \in FilesOf(items)'
         /\ \A i \in DOMAIN items' : items'[i].file \in FilesOf(items) \cup {f}
         /\ f \in FilesOf(items)'
    BY <2>6 DEF FilesOf
  <2> QED BY <2>14, <2>15, <2>16
<1> QED BY <1>2, <1>3

-----------------------------------------------------------------------------
(* The steps in the event loop *)

LEMMA ItemFacts ==
  ASSUME NEW list \in Seq([file : File, client : Client]), NEW i \in DOMAIN list
  PROVE  list[i].file \in File /\ list[i].client \in Client
<1>1. i \in 1..Len(list)
  BY LenProperties
<1>2. list[i] \in [file : File, client : Client]
  BY <1>1, ElementOfSeq
<1> QED BY <1>2

\* An object that changes keeps its file when its record does.
LEMMA ObjectFacts ==
  ASSUME NEW objects \in [Client -> ClientType], NEW c \in Client, NEW next \in ClientType,
         next.file = objects[c].file
  PROVE  /\ [objects EXCEPT ![c] = next] \in [Client -> ClientType]
         /\ \A d \in Client : [objects EXCEPT ![c] = next][d].file = objects[d].file
OBVIOUS

LEMMA FieldFacts ==
  ASSUME NEW r \in ClientType
  PROVE  /\ \A x \in ClientState : /\ [r EXCEPT !.state = x] \in ClientType
                                   /\ [r EXCEPT !.state = x].file = r.file
         /\ \A n \in 0 .. Pieces : /\ [r EXCEPT !.completed = n] \in ClientType
                                   /\ [r EXCEPT !.completed = n].file = r.file
         /\ \A n \in 0 .. MaxBytes : /\ [r EXCEPT !.bytes = n] \in ClientType
                                     /\ [r EXCEPT !.bytes = n].file = r.file
         /\ \A n \in 0 .. Pieces :
              LET v == [r EXCEPT !.completed = n, !.state = "Active", !.verifying = FALSE]
              IN v \in ClientType /\ v.file = r.file
BY DEF ClientType, ClientState

\* The steps that change objects, but not which file they are for.
LEMMA ObjectsStep ==
  ASSUME SessionInv, phase = "running",
         \/ \E i \in DOMAIN items : SetPause(i, TRUE) \/ SetPause(i, FALSE)
         \/ \E c \in Client : FullVerificationDone(c) \/ PieceVerified(c) \/ BytesTransferred(c)
  PROVE  SessionInv'
<1> USE DEF SessionInv
<1>1. ListOK(items, client, served)
  BY ListIsOK
<1>2. /\ items' = items /\ stored' = stored /\ disk' = disk /\ row' = row /\ phase' = phase
      /\ readable' = readable /\ launches' = launches /\ kept' = kept
  BY DEF SetPause, FullVerificationDone, PieceVerified, BytesTransferred
<1>3. client' \in [Client -> ClientType] /\ \A c \in Client : client'[c].file = client[c].file
  <2> SUFFICES \E c \in Client, next \in ClientType :
                 client' = [client EXCEPT ![c] = next] /\ next.file = client[c].file
    BY <1>1, ObjectFacts DEF ListOK
  <2>1. ASSUME NEW c \in Client
        PROVE  client[c] \in ClientType /\ client[c].completed \in 0 .. Pieces
    BY <1>1 DEF ListOK, ClientType
  <2>2. ASSUME NEW c \in Client, FullVerificationDone(c)
        PROVE  \E next \in ClientType :
                 client' = [client EXCEPT ![c] = next] /\ next.file = client[c].file
    <3>1. PICK n \in 0 .. Pieces :
            client' = [client EXCEPT ![c].completed = n, ![c].state = "Active",
                                     ![c].verifying = FALSE]
      BY <2>1, <2>2 DEF FullVerificationDone
    <3> DEFINE next == [client[c] EXCEPT !.completed = n, !.state = "Active", !.verifying = FALSE]
    <3>2. client' = [client EXCEPT ![c] = next]
      BY <1>1, <3>1 DEF ListOK
    <3>3. next \in ClientType /\ next.file = client[c].file
      BY <2>1, FieldFacts
    <3> QED BY <3>2, <3>3
  <2>3. ASSUME NEW c \in Client, PieceVerified(c)
        PROVE  \E next \in ClientType :
                 client' = [client EXCEPT ![c] = next] /\ next.file = client[c].file
    <3>1. /\ client' = [client EXCEPT ![c] = [client[c] EXCEPT !.completed = client[c].completed + 1]]
          /\ client[c].completed + 1 \in 0 .. Pieces
      BY <1>1, <2>1, <2>3, BoundAssumption DEF PieceVerified, ListOK
    <3> QED BY <2>1, <3>1, FieldFacts
  <2>4. ASSUME NEW c \in Client, BytesTransferred(c)
        PROVE  \E next \in ClientType :
                 client' = [client EXCEPT ![c] = next] /\ next.file = client[c].file
    <3>1. /\ client' = [client EXCEPT ![c] = [client[c] EXCEPT !.bytes = client[c].bytes + 1]]
          /\ client[c].bytes + 1 \in 0 .. MaxBytes
      <4>1. client[c].bytes \in 0 .. MaxBytes
        BY <2>1 DEF ClientType
      <4> QED BY <1>1, <2>4, <4>1, BoundAssumption DEF BytesTransferred, ListOK
    <3> QED BY <2>1, <3>1, FieldFacts
  <2>5. ASSUME NEW i \in DOMAIN items, NEW value \in BOOLEAN, SetPause(i, value)
        PROVE  \E c \in Client, next \in ClientType :
                 client' = [client EXCEPT ![c] = next] /\ next.file = client[c].file
    <3> DEFINE c == items[i].client
    <3>1. c \in Client
      BY <1>1, ItemFacts DEF ListOK
    <3>2. PICK x \in ClientState : client' = [client EXCEPT ![c].state = x]
      BY <2>5 DEF SetPause, ClientState
    <3> HIDE DEF c
    <3>3. client' = [client EXCEPT ![c] = [client[c] EXCEPT !.state = x]]
      BY <1>1, <3>1, <3>2 DEF ListOK
    <3> DEFINE next == [client[c] EXCEPT !.state = x]
    <3>4. next \in ClientType /\ next.file = client[c].file
      BY <2>1, <3>1, FieldFacts
    <3> HIDE DEF next
    <3>5. client' = [client EXCEPT ![c] = next]
      BY <3>3 DEF next
    <3> QED BY <3>1, <3>4, <3>5
  <2> QED BY <2>2, <2>3, <2>4, <2>5
<1>4. \A c \in served' : \E i \in DOMAIN items : items[i].client = c
  <2>1. served' = served \/ \E i \in DOMAIN items : served' \subseteq served \cup {items[i].client}
    BY DEF SetPause, FullVerificationDone, PieceVerified, BytesTransferred
  <2> QED BY <1>1, <2>1 DEF ListOK
<1>5. \A i \in DOMAIN items : items[i].client \in Client
  BY <1>1, ItemFacts DEF ListOK
<1>6. ListOK(items', client', served')
  BY <1>1, <1>2, <1>3, <1>4, <1>5 DEF ListOK
<1>7. ClientsMatch' /\ NoTorrentTwice' /\ Distinct(items)'
  BY <1>6, ListStaysOK
<1>8. TypeOK'
  BY <1>2, <1>6 DEF ListOK, TypeOK, ClientType
<1>9. LoadedFromRows' /\ TorrentsAreKept' /\ Distinct(stored)' /\ Distinct(disk)'
  BY <1>2 DEF LoadedFromRows, TorrentsAreKept, Distinct, FilesOf
<1> QED BY <1>7, <1>8, <1>9

\* The steps that save.
LEMMA SaveStep ==
  ASSUME SessionInv, SaveTimer \/ Sync
  PROVE  SessionInv'
<1> USE DEF SessionInv
<1>1. /\ items' = items /\ client' = client /\ served' = served /\ row' = row
      /\ phase = "running" /\ phase' = phase /\ readable' = readable /\ launches' = launches
  BY DEF SaveTimer, Sync
<1>2. ClientsMatch' /\ NoTorrentTwice' /\ Distinct(items)'
  BY <1>1 DEF ClientsMatch, NoTorrentTwice, Distinct
<1>3. CASE SaveTimer
  <2>1. stored' = Snapshot(items, client) /\ disk' = disk /\ kept' = kept
    BY <1>3 DEF SaveTimer
  <2>2. stored' \in Seq(Entry) /\ Distinct(stored')
    BY <2>1, SnapshotFacts DEF TypeOK
  <2>3. TypeOK'
    BY <1>1, <2>1, <2>2 DEF TypeOK
  <2>4. LoadedFromRows' /\ TorrentsAreKept' /\ Distinct(stored)' /\ Distinct(disk)'
    BY <1>1, <2>1, <2>2 DEF LoadedFromRows, TorrentsAreKept, Distinct, FilesOf
  <2> QED BY <1>2, <2>3, <2>4
<1>4. CASE Sync
  <2>1. stored' = stored /\ disk' = stored /\ kept' = FilesOf(stored) \cap FilesOf(items)
    BY <1>4 DEF Sync, Synced
  <2>2. FilesOf(items) \subseteq File
    BY ItemFacts DEF FilesOf, TypeOK
  <2>3. TypeOK'
    BY <1>1, <2>1, <2>2 DEF TypeOK
  <2>4. LoadedFromRows' /\ TorrentsAreKept' /\ Distinct(stored)' /\ Distinct(disk)'
    BY <1>1, <2>1 DEF LoadedFromRows, TorrentsAreKept, Distinct, FilesOf
  <2> QED BY <1>2, <2>3, <2>4
<1> QED BY <1>3, <1>4

LEMMA UserAddsStep ==
  ASSUME SessionInv, NEW f \in File, UserAdds(f)
  PROVE  SessionInv'
<1> USE DEF SessionInv
<1>1. /\ phase = "running" /\ phase' = phase /\ disk' = disk /\ row' = row
      /\ readable' = readable /\ launches' = launches /\ kept' = kept
      /\ AddTorrent(f, 0, 0)
  BY DEF UserAdds
<1>2. /\ ListOK(items', client', served') /\ stored' \in Seq(Entry) /\ Distinct(stored)'
      /\ \A g \in FilesOf(items) : g \in FilesOf(items)'
  BY <1>1, AddTorrentFacts, BoundAssumption
<1>3. ClientsMatch' /\ NoTorrentTwice' /\ Distinct(items)'
  BY <1>2, ListStaysOK
<1>4. TypeOK'
  BY <1>1, <1>2 DEF ListOK, TypeOK, ClientType
<1>5. LoadedFromRows' /\ TorrentsAreKept' /\ Distinct(disk)'
  <2>1. FilesOf(disk)' = FilesOf(disk)
    BY <1>1 DEF FilesOf
  <2>2. TorrentsAreKept'
    BY <1>1, <1>2, <2>1 DEF TorrentsAreKept
  <2> QED BY <1>1, <2>2 DEF LoadedFromRows, Distinct
<1> QED BY <1>2, <1>3, <1>4, <1>5

LEMMA SetStopStep ==
  ASSUME SessionInv, NEW i \in DOMAIN items, SetStop(i)
  PROVE  SessionInv'
<1> USE DEF SessionInv
<1> DEFINE c == items[i].client
           rest == RemoveAt(items, i)
<1>1. PICK state \in ClientState :
        /\ phase = "running" /\ items' = rest
        /\ client' = [client EXCEPT ![c].state = state]
        /\ served' = served \ {c}
        /\ CountChanged(rest, client')
        /\ kept' = kept \ {items[i].file}
        /\ phase' = phase /\ disk' = disk /\ row' = row /\ readable' = readable
        /\ launches' = launches
  BY DEF SetStop, ClientState
<1>2. ListOK(items, client, served)
  BY ListIsOK
<1>3. /\ items \in Seq([file : File, client : Client]) /\ DOMAIN items = 1..Len(items)
      /\ i \in 1..Len(items) /\ Len(items) \in Nat
  BY <1>2, LenProperties DEF ListOK
<1>4. /\ rest \in Seq([file : File, client : Client])
      /\ \A k \in 1..Len(rest) : \E j \in 1..Len(items) : /\ rest[k] = items[j]
                                                          /\ j = IF k < i THEN k ELSE k + 1
      /\ \A j \in 1..Len(items) \ {i} : \E k \in 1..Len(rest) : rest[k] = items[j]
  BY <1>3, RemoveAtFacts
<1>5. DOMAIN rest = 1..Len(rest) /\ Len(rest) \in Nat
  BY <1>4, LenProperties
<1> HIDE DEF rest
<1>6. client' \in [Client -> ClientType] /\ \A d \in Client : client'[d].file = client[d].file
  <2>1. c \in Client /\ client[c] \in ClientType
    BY <1>2, <1>3, ItemFacts DEF ListOK
  <2> HIDE DEF c
  <2>2. client' = [client EXCEPT ![c] = [client[c] EXCEPT !.state = state]]
    BY <1>1, <1>2, <2>1 DEF ListOK
  <2> DEFINE next == [client[c] EXCEPT !.state = state]
  <2>3. next \in ClientType /\ next.file = client[c].file
    BY <2>1, FieldFacts
  <2> HIDE DEF next
  <2>4. client' = [client EXCEPT ![c] = next] /\ client \in [Client -> ClientType]
    BY <1>2, <2>2 DEF next, ListOK
  <2> QED BY <2>1, <2>3, <2>4, ObjectFacts
<1>7. \A k \in DOMAIN rest : client'[rest[k].client].file = rest[k].file
  <2> TAKE k \in DOMAIN rest
  <2>1. PICK j \in 1..Len(items) : rest[k] = items[j]
    BY <1>4, <1>5
  <2>2. items[j].client \in Client
    BY <1>3, ItemFacts
  <2>3. client[items[j].client].file = items[j].file
    BY <1>2, <1>3 DEF ListOK
  <2> QED BY <1>6, <2>1, <2>2, <2>3
<1>8. \A d \in served' : \E k \in DOMAIN rest : rest[k].client = d
  <2> TAKE d \in served'
  <2>1. d \in served /\ d # c
    BY <1>1
  <2>2. PICK j \in 1..Len(items) : items[j].client = d
    BY <1>2, <1>3, <2>1 DEF ListOK
  <2>3. j # i
    BY <2>1, <2>2
  <2> QED BY <1>4, <1>5, <2>2, <2>3
<1>9. Distinct(rest)
  <2> SUFFICES ASSUME NEW k \in 1..Len(rest), NEW m \in 1..Len(rest),
                      InfoHash(rest[k].file) = InfoHash(rest[m].file)
               PROVE  k = m
    BY <1>5 DEF Distinct
  <2>1. PICK j \in 1..Len(items) : rest[k] = items[j] /\ j = IF k < i THEN k ELSE k + 1
    BY <1>4
  <2>2. PICK l \in 1..Len(items) : rest[m] = items[l] /\ l = IF m < i THEN m ELSE m + 1
    BY <1>4
  <2>3. j = l
    BY <1>2, <1>3, <2>1, <2>2 DEF ListOK, Distinct
  <2> QED BY <1>3, <1>5, <2>1, <2>2, <2>3
<1>10. ListOK(items', client', served')
  BY <1>1, <1>2, <1>4, <1>6, <1>7, <1>8, <1>9 DEF ListOK
<1>11. ClientsMatch' /\ NoTorrentTwice' /\ Distinct(items)'
  BY <1>10, ListStaysOK
<1>12. stored' \in Seq(Entry) /\ Distinct(stored)'
  <2>1. stored' = Snapshot(rest, client')
    BY <1>1 DEF CountChanged, AutoSave
  <2> QED BY <1>4, <1>6, <1>9, <2>1, SnapshotFacts DEF ClientType
<1>13. TypeOK'
  BY <1>1, <1>10, <1>12 DEF ListOK, TypeOK, ClientType
<1>14. TorrentsAreKept'
  <2>1. FilesOf(disk)' = FilesOf(disk)
    BY <1>1 DEF FilesOf
  <2>2. ASSUME NEW f \in kept'
        PROVE  f \in FilesOf(items)'
    <3>1. f \in FilesOf(items) /\ f # items[i].file
      BY <1>1, <2>2 DEF TorrentsAreKept
    <3>2. PICK j \in 1..Len(items) : items[j].file = f
      BY <1>3, <3>1 DEF FilesOf
    <3>3. PICK k \in 1..Len(rest) : rest[k] = items[j]
      BY <1>4, <3>1, <3>2
    <3> QED BY <1>1, <1>5, <3>2, <3>3 DEF FilesOf
  <2> QED BY <1>1, <2>1, <2>2 DEF TorrentsAreKept
<1>15. LoadedFromRows' /\ Distinct(disk)'
  BY <1>1 DEF LoadedFromRows, Distinct
<1> QED BY <1>11, <1>12, <1>13, <1>14, <1>15

-----------------------------------------------------------------------------
(* The program starts and ends *)

LEMMA LaunchStep ==
  ASSUME SessionInv, Launch
  PROVE  SessionInv'
<1> USE DEF SessionInv
<1>1. /\ phase = "down" /\ phase' = "loading" /\ stored' = disk /\ row' = 1 /\ disk' = disk
      /\ items' = items /\ client' = client /\ served' = served /\ readable' = readable
      /\ kept' = kept /\ launches < MaxLaunches /\ launches' = launches + 1
  BY DEF Launch
<1>2. TypeOK'
  BY <1>1, BoundAssumption DEF TypeOK
<1>3. ClientsMatch' /\ NoTorrentTwice' /\ Distinct(items)' /\ Distinct(stored)' /\ Distinct(disk)'
  BY <1>1 DEF ClientsMatch, NoTorrentTwice, Distinct
<1>4. disk \in Seq(Entry) /\ DOMAIN disk = 1..Len(disk) /\ Len(disk) \in Nat
  BY LenProperties DEF TypeOK
<1>5. LoadedFromRows'
  <2>1. items = <<>>
    BY <1>1 DEF LoadedFromRows
  <2>2. ASSUME NEW f \in kept
        PROVE  \E k \in DOMAIN disk : k >= 1 /\ f = disk[k].file
    BY <1>4 DEF TorrentsAreKept, FilesOf
  <2> QED BY <1>1, <2>1, <2>2 DEF LoadedFromRows
<1>6. TorrentsAreKept'
  BY <1>1 DEF TorrentsAreKept, FilesOf
<1> QED BY <1>2, <1>3, <1>5, <1>6

LEMMA LoadRowStep ==
  ASSUME SessionInv, LoadRow
  PROVE  SessionInv'
<1> USE DEF SessionInv
<1> DEFINE f == stored[row].file
           completed == stored[row].completed
           bytes == stored[row].bytes
<1>1. /\ phase = "loading" /\ phase' = phase /\ disk' = disk /\ row' = row + 1
      /\ readable' = readable /\ launches' = launches /\ row <= Len(stored)
      /\ kept' = IF f \in readable THEN kept ELSE kept \ {f}
      /\ AddTorrent(f, completed, bytes)
  BY DEF LoadRow
<1>2. /\ stored \in Seq(Entry) /\ DOMAIN stored = 1..Len(stored) /\ row \in 1..Len(stored)
      /\ Len(stored) \in Nat
  BY <1>1, LenProperties DEF TypeOK
<1>3. f \in File /\ completed \in 0 .. Pieces /\ bytes \in 0 .. MaxBytes
  <2>1. stored[row] \in Entry
    BY <1>2, ElementOfSeq
  <2> QED BY <2>1 DEF Entry
<1> HIDE DEF f, completed, bytes
<1>4. /\ ListOK(items', client', served') /\ stored' = stored
      /\ \A g \in FilesOf(items) : g \in FilesOf(items)'
      /\ \A i \in DOMAIN items' : items'[i].file \in FilesOf(items) \cup {f}
      /\ f \in readable /\ ~IsListed(f) => f \in FilesOf(items)'
  BY <1>1, <1>3, AddTorrentFacts DEF AutoSave
<1>5. ClientsMatch' /\ NoTorrentTwice' /\ Distinct(items)'
  BY <1>4, ListStaysOK
<1>6. Distinct(stored)' /\ Distinct(disk)'
  BY <1>1, <1>4 DEF Distinct
<1>7. TypeOK'
  BY <1>1, <1>4 DEF ListOK, TypeOK, ClientType
<1>8. TorrentsAreKept'
  BY <1>1 DEF TorrentsAreKept, FilesOf
<1>9. \A i \in DOMAIN items' : \E k \in DOMAIN stored : k < row + 1 /\ items'[i].file = stored[k].file
  <2> TAKE i \in DOMAIN items'
  <2>1. CASE items'[i].file = f
    BY <1>2, <2>1 DEF f
  <2>2. CASE items'[i].file \in FilesOf(items)
    <3>1. PICK j \in DOMAIN items : items[j].file = items'[i].file
      BY <2>2 DEF FilesOf
    <3>2. PICK k \in DOMAIN stored : k < row /\ items[j].file = stored[k].file
      BY <1>1 DEF LoadedFromRows
    <3> QED BY <1>2, <3>1, <3>2
  <2> QED BY <1>4, <2>1, <2>2
<1>10. ASSUME NEW g \in kept'
       PROVE  g \in FilesOf(items)' \/ \E k \in DOMAIN stored : k >= row + 1 /\ g = stored[k].file
  <2>1. g \in kept /\ (g = f => f \in readable)
    BY <1>1
  <2>2. CASE g \in FilesOf(items)
    BY <1>4, <2>2
  <2>3. CASE g = f /\ g \notin FilesOf(items)
    <3>1. ~IsListed(f)
      <4>1. SUFFICES ASSUME NEW i \in DOMAIN items, InfoHash(items[i].file) = InfoHash(f)
                     PROVE  FALSE
        BY DEF IsListed
      <4>2. PICK k \in DOMAIN stored : k < row /\ items[i].file = stored[k].file
        BY <1>1 DEF LoadedFromRows
      <4>3. InfoHash(stored[k].file) = InfoHash(stored[row].file)
        BY <4>1, <4>2 DEF f
      <4>4. k = row
        BY <1>2, <4>3 DEF Distinct
      <4> QED BY <1>2, <4>2, <4>4
    <3> QED BY <1>4, <2>1, <2>3, <3>1
  <2>4. CASE g # f /\ g \notin FilesOf(items)
    <3>1. PICK k \in DOMAIN stored : k >= row /\ g = stored[k].file
      BY <1>1, <2>1, <2>4 DEF LoadedFromRows
    <3>2. k # row
      BY <2>4, <3>1 DEF f
    <3> QED BY <1>2, <3>1, <3>2
  <2> QED BY <2>2, <2>3, <2>4
<1>11. LoadedFromRows'
  <2>1. stored = disk
    BY <1>1 DEF LoadedFromRows
  <2> QED BY <1>1, <1>4, <1>9, <1>10, <2>1 DEF LoadedFromRows
<1> QED BY <1>5, <1>6, <1>7, <1>8, <1>11

LEMMA StartAutoSaveStep ==
  ASSUME SessionInv, StartAutoSave
  PROVE  SessionInv'
<1> USE DEF SessionInv
<1>1. /\ phase = "loading" /\ phase' = "running" /\ row > Len(stored)
      /\ items' = items /\ client' = client /\ served' = served /\ stored' = stored
      /\ disk' = disk /\ row' = row /\ readable' = readable /\ launches' = launches
      /\ kept' = kept
  BY DEF StartAutoSave
<1>2. DOMAIN stored = 1..Len(stored) /\ Len(stored) \in Nat /\ row \in Nat
  BY LenProperties DEF TypeOK
<1>3. TypeOK'
  BY <1>1 DEF TypeOK
<1>4. /\ ClientsMatch' /\ NoTorrentTwice' /\ LoadedFromRows'
      /\ Distinct(items)' /\ Distinct(stored)' /\ Distinct(disk)'
  BY <1>1 DEF ClientsMatch, NoTorrentTwice, Distinct, LoadedFromRows
<1>5. kept \subseteq FilesOf(items)
  BY <1>1, <1>2 DEF LoadedFromRows
<1>6. TorrentsAreKept'
  BY <1>1, <1>5 DEF TorrentsAreKept, FilesOf
<1> QED BY <1>3, <1>4, <1>6

LEMMA EndStep ==
  ASSUME SessionInv, Quit \/ Crash
  PROVE  SessionInv'
<1> USE DEF SessionInv
<1>1. /\ phase' = "down" /\ items' = <<>> /\ client' = [c \in Client |-> NewClient]
      /\ served' = {} /\ stored' = stored /\ row' = row /\ readable' = readable
      /\ launches' = launches
  BY DEF Quit, Crash, Gone
<1>2. /\ disk' = disk \/ disk' = stored
      /\ kept' \subseteq FilesOf(disk') /\ kept' \subseteq File
  <2>1. CASE Quit
    BY <2>1, ItemFacts DEF Quit, Synced, FilesOf, TypeOK
  <2>2. CASE Crash
    BY <2>2 DEF Crash, TorrentsAreKept, TypeOK
  <2> QED BY <2>1, <2>2
<1>3. NewClient \in ClientType
  BY BoundAssumption DEF NewClient, ClientType, ClientState
<1>4. TypeOK'
  BY <1>1, <1>2, <1>3 DEF TypeOK, ClientType
<1>5. /\ ClientsMatch' /\ NoTorrentTwice' /\ LoadedFromRows'
      /\ Distinct(items)' /\ Distinct(stored)' /\ Distinct(disk)'
  BY <1>1, <1>2 DEF ClientsMatch, NoTorrentTwice, Distinct, LoadedFromRows
<1>6. TorrentsAreKept'
  BY <1>1, <1>2 DEF TorrentsAreKept, FilesOf
<1> QED BY <1>4, <1>5, <1>6

\* Moving a torrent file away, and stuttering.
LEMMA OtherStep ==
  ASSUME SessionInv, (\E f \in File : FileComesOrGoes(f)) \/ UNCHANGED vars
  PROVE  SessionInv'
<1> USE DEF SessionInv
<1>1. /\ phase' = phase /\ items' = items /\ client' = client /\ served' = served
      /\ stored' = stored /\ disk' = disk /\ row' = row /\ launches' = launches /\ kept' = kept
      /\ readable' \subseteq File
  BY DEF FileComesOrGoes, vars, TypeOK
<1>2. TypeOK'
  BY <1>1 DEF TypeOK
<1>3. /\ ClientsMatch' /\ NoTorrentTwice' /\ LoadedFromRows' /\ TorrentsAreKept'
      /\ Distinct(items)' /\ Distinct(stored)' /\ Distinct(disk)'
  BY <1>1 DEF ClientsMatch, NoTorrentTwice, Distinct, LoadedFromRows, TorrentsAreKept, FilesOf
<1> QED BY <1>2, <1>3

-----------------------------------------------------------------------------
(* The theorems *)

LEMMA SessionInvariant == Spec => []SessionInv
<1>1. SessionInv /\ [Next]_vars => SessionInv'
  <2> SUFFICES ASSUME SessionInv, [Next]_vars
               PROVE  SessionInv'
    OBVIOUS
  <2>1. ASSUME \/ \E i \in DOMAIN items : SetPause(i, TRUE) \/ SetPause(i, FALSE)
               \/ \E c \in Client :
                    FullVerificationDone(c) \/ PieceVerified(c) \/ BytesTransferred(c)
        PROVE  SessionInv'
    <3>1. phase = "running"
      BY <2>1 DEF SetPause, FullVerificationDone, PieceVerified, BytesTransferred
    <3> QED BY <2>1, <3>1, ObjectsStep
  <2> QED BY <2>1, SaveStep, UserAddsStep, SetStopStep, LaunchStep, LoadRowStep, StartAutoSaveStep,
             EndStep, OtherStep DEF Next
<1> QED BY <1>1, SessionInit, PTL DEF Spec

\* Every variable keeps its type.
THEOREM TypeCorrect == Spec => []TypeOK
<1>1. SessionInv => TypeOK
  BY DEF SessionInv
<1> QED BY <1>1, SessionInvariant, PTL

\* A torrent is listed once and served by one client, whatever files describe it, and however
\* it is stopped, added again, saved and loaded.
THEOREM TorrentsAreSingle == Spec => []NoTorrentTwice
<1>1. SessionInv => NoTorrentTwice
  BY DEF SessionInv
<1> QED BY <1>1, SessionInvariant, PTL

\* A torrent that has reached the disk stays in the settings and comes back with each start,
\* after any number of quits and crashes.
THEOREM TorrentsAlwaysKept == Spec => []TorrentsAreKept
<1>1. SessionInv => TorrentsAreKept
  BY DEF SessionInv
<1> QED BY <1>1, SessionInvariant, PTL

-----------------------------------------------------------------------------
(* The settings show the list, and its progress *)

\* The torrents of the list could be read; rows loaded so far, and in the event
\* loop all rows, are shown.
ShownInv ==
  /\ phase # "down" => FilesOf(items) \subseteq readable
  /\ phase = "loading" => row - 1 <= Len(stored) /\ Shows(items, stored, 1 .. row - 1, readable)
  /\ SavedListIsShown

\* What the settings say of a torrent of the list is no more than it has.
CountersInv ==
  phase # "down" =>
    \A k \in DOMAIN stored, i \in DOMAIN items :
      stored[k].file = items[i].file =>
        /\ stored[k].completed <= client[items[i].client].completed
        /\ stored[k].bytes <= client[items[i].client].bytes

ItemType == [file : File, client : Client]

\* A list shows a copy of itself.
LEMMA ShowsItself ==
  ASSUME NEW list \in Seq(ItemType), NEW entries, NEW files,
         DOMAIN entries = DOMAIN list, FilesOf(list) \subseteq files,
         \A i \in DOMAIN list : entries[i].file = list[i].file
  PROVE  Shows(list, entries, DOMAIN entries, files)
<1> DEFINE at == [i \in DOMAIN list |-> i]
<1>1. at \in [DOMAIN list -> DOMAIN entries]
  OBVIOUS
<1>2. \A i \in DOMAIN list : at[i] = i /\ entries[at[i]].file = list[i].file
  OBVIOUS
<1>3. {at[i] : i \in DOMAIN list} = {k \in DOMAIN entries : entries[k].file \in files}
  BY <1>2 DEF FilesOf
<1>4. \A i, j \in DOMAIN list : i < j => at[i] < at[j]
  BY <1>2
<1> HIDE DEF at
<1> QED BY <1>1, <1>2, <1>3, <1>4 DEF Shows

\* The next row is shown when it is appended.
LEMMA ShowsAppended ==
  ASSUME NEW list \in Seq(ItemType), NEW item \in ItemType, NEW entries, NEW files,
         NEW n \in Nat \ {0}, Shows(list, entries, 1 .. n - 1, files),
         entries[n].file = item.file, item.file \in files
  PROVE  Shows(Append(list, item), entries, 1 .. n, files)
<1> DEFINE m == Len(list)
           new == Append(list, item)
<1>1. PICK at \in [DOMAIN list -> 1 .. n - 1] :
        /\ \A i, j \in DOMAIN list : i < j => at[i] < at[j]
        /\ \A i \in DOMAIN list : entries[at[i]].file = list[i].file
        /\ {at[i] : i \in DOMAIN list} = {k \in 1 .. n - 1 : entries[k].file \in files}
  BY DEF Shows
<1>2. /\ m \in Nat /\ DOMAIN list = 1 .. m /\ DOMAIN new = 1 .. m + 1
      /\ \A i \in 1 .. m : new[i] = list[i]
      /\ new[m + 1] = item
  BY AppendProperties, LenProperties
<1> HIDE DEF m, new
<1> DEFINE at2 == [i \in DOMAIN new |-> IF i = m + 1 THEN n ELSE at[i]]
<1>3. /\ \A i \in 1 .. m : at2[i] = at[i] /\ at[i] \in 1 .. n - 1
      /\ at2[m + 1] = n
  BY <1>2
<1>4. at2 \in [DOMAIN new -> 1 .. n]
  BY <1>2, <1>3
<1>5. \A i \in DOMAIN new : i \in 1 .. m \/ i = m + 1
  BY <1>2
<1> HIDE DEF at2
<1>6. \A i, j \in DOMAIN new : i < j => at2[i] < at2[j]
  <2> SUFFICES ASSUME NEW i \in DOMAIN new, NEW j \in DOMAIN new, i < j
               PROVE  at2[i] < at2[j]
    OBVIOUS
  <2>1. i \in 1 .. m
    BY <1>2
  <2>2. CASE j = m + 1
    BY <1>3, <2>1, <2>2
  <2>3. CASE j \in 1 .. m
    BY <1>1, <1>2, <1>3, <2>1, <2>3
  <2> QED BY <1>5, <2>2, <2>3
<1>7. \A i \in DOMAIN new : entries[at2[i]].file = new[i].file
  BY <1>1, <1>2, <1>3, <1>5
<1>8. {at2[i] : i \in DOMAIN new} = {k \in 1 .. n : entries[k].file \in files}
  <2>1. ASSUME NEW i \in DOMAIN new
        PROVE  at2[i] \in 1 .. n /\ entries[at2[i]].file \in files
    <3>1. CASE i = m + 1
      BY <1>3, <3>1
    <3>2. CASE i \in 1 .. m
      BY <1>1, <1>2, <1>3, <3>2
    <3> QED BY <1>5, <3>1, <3>2
  <2>2. ASSUME NEW k \in 1 .. n, entries[k].file \in files
        PROVE  \E i \in DOMAIN new : at2[i] = k
    <3>1. CASE k = n
      BY <1>2, <1>3, <3>1
    <3>2. CASE k \in 1 .. n - 1
      <4>1. k \in {at[i] : i \in DOMAIN list}
        BY <1>1, <2>2, <3>2
      <4>2. PICK i \in DOMAIN list : at[i] = k
        BY <4>1
      <4> QED BY <1>2, <1>3, <4>2
    <3> QED BY <3>1, <3>2
  <2> QED BY <2>1, <2>2
<1> QED BY <1>4, <1>6, <1>7, <1>8 DEF Shows, new

\* A row whose file cannot be read is not shown.
LEMMA ShowsPassedOver ==
  ASSUME NEW list, NEW entries, NEW files,
         NEW n \in Nat \ {0}, Shows(list, entries, 1 .. n - 1, files),
         entries[n].file \notin files
  PROVE  Shows(list, entries, 1 .. n, files)
<1>1. PICK at \in [DOMAIN list -> 1 .. n - 1] :
        /\ \A i, j \in DOMAIN list : i < j => at[i] < at[j]
        /\ \A i \in DOMAIN list : entries[at[i]].file = list[i].file
        /\ {at[i] : i \in DOMAIN list} = {k \in 1 .. n - 1 : entries[k].file \in files}
  BY DEF Shows
<1>2. at \in [DOMAIN list -> 1 .. n]
  OBVIOUS
<1>3. {k \in 1 .. n - 1 : entries[k].file \in files} = {k \in 1 .. n : entries[k].file \in files}
  OBVIOUS
<1> QED BY <1>1, <1>2, <1>3 DEF Shows

\* A row that is shown is listed.
LEMMA ShownIsListed ==
  ASSUME NEW list, NEW entries, NEW rows, NEW files, Shows(list, entries, rows, files),
         NEW k \in rows, entries[k].file \in files
  PROVE  entries[k].file \in FilesOf(list)
<1>1. PICK at \in [DOMAIN list -> rows] :
        /\ \A i \in DOMAIN list : entries[at[i]].file = list[i].file
        /\ {at[i] : i \in DOMAIN list} = {x \in rows : entries[x].file \in files}
  BY DEF Shows
<1>2. k \in {at[i] : i \in DOMAIN list}
  BY <1>1
<1>3. PICK i \in DOMAIN list : at[i] = k
  BY <1>2
<1> QED BY <1>1, <1>3 DEF FilesOf

\* What a snapshot says of each torrent of the list.
LEMMA SnapshotSays ==
  ASSUME NEW list \in Seq(ItemType), NEW objects
  PROVE  /\ DOMAIN Snapshot(list, objects) = DOMAIN list
         /\ \A i \in DOMAIN list :
              /\ Snapshot(list, objects)[i].file = list[i].file
              /\ Snapshot(list, objects)[i].completed = objects[list[i].client].completed
              /\ Snapshot(list, objects)[i].bytes = objects[list[i].client].bytes
BY DEF Snapshot

\* addTorrent in detail: a new client with the given counters; a save that comes in
\* between finds the bytes still at zero.
Adds(f, completed, bytes, c, objects) ==
  /\ \A i \in DOMAIN items : items[i].client # c
  /\ items' = Append(items, [file |-> f, client |-> c])
  /\ client'[c].completed = completed /\ client'[c].bytes = bytes
  /\ objects[c].completed = completed /\ objects[c].bytes = 0
  /\ \A d \in Client : d # c => client'[d] = client[d] /\ objects[d] = client[d]
  /\ stored' = IF AutoSave THEN Snapshot(items', objects) ELSE stored

LEMMA AddTorrentEffect ==
  ASSUME TypeOK, ClientsMatch, NEW f \in File, NEW completed \in 0 .. Pieces,
         NEW bytes \in 0 .. MaxBytes,
         AddTorrent(f, completed, bytes), f \in readable, ~IsListed(f)
  PROVE  \E c \in Client : \E objects : Adds(f, completed, bytes, c, objects)
<1> DEFINE c == CHOOSE x \in Unused : TRUE
           object(n) == [file |-> f, state |-> "Preparing", verifying |-> TRUE,
                         completed |-> completed, bytes |-> n]
           objects == [client EXCEPT ![c] = object(0)]
<1>1. /\ Unused # {}
      /\ items' = Append(items, [file |-> f, client |-> c])
      /\ client' = [client EXCEPT ![c] = object(bytes)]
      /\ stored' = IF AutoSave THEN Snapshot(items', objects) ELSE stored
  BY DEF AddTorrent, CountChanged
<1>2. c \in Client /\ client[c].file = NoFile
  BY <1>1 DEF Unused
<1>3. \A i \in DOMAIN items : items[i].client # c
  <2> SUFFICES ASSUME NEW i \in DOMAIN items, items[i].client = c
               PROVE  FALSE
    OBVIOUS
  <2>1. items[i].file \in File
    BY ItemFacts DEF TypeOK
  <2> QED BY <1>2, <2>1, NoFileAssumption DEF ClientsMatch
<1> HIDE DEF c
<1>4. \A d \in Client : d # c => client'[d] = client[d] /\ objects[d] = client[d]
  BY <1>1 DEF TypeOK
<1>5. /\ client'[c].completed = completed /\ client'[c].bytes = bytes
      /\ objects[c].completed = completed /\ objects[c].bytes = 0
  BY <1>1, <1>2 DEF TypeOK
<1> HIDE DEF objects
<1>6. Adds(f, completed, bytes, c, objects)
  BY <1>1, <1>2, <1>3, <1>4, <1>5 DEF Adds
<1> QED BY <1>2, <1>6

-----------------------------------------------------------------------------
(* Every step keeps what the settings say *)

SavedInv == ShownInv /\ CountersInv

\* One step of the settings' progress, as ProgressIsKept states it.
ProgressStep ==
  phase # "down" =>
    \A i \in DOMAIN stored, j \in DOMAIN stored' :
      stored[i].file = stored'[j].file =>
        /\ stored[i].completed <= stored'[j].completed
        /\ stored[i].bytes <= stored'[j].bytes

\* Settings that do not change say what they said.
LEMMA SameProgress ==
  ASSUME SessionInv, stored' = stored
  PROVE  ProgressStep
<1>1. \A i, j \in DOMAIN stored : stored[i].file = stored[j].file => i = j
  BY DEF SessionInv, Distinct
<1>2. \A i \in DOMAIN stored : stored[i].completed \in Int /\ stored[i].bytes \in Int
  <2> SUFFICES ASSUME NEW i \in DOMAIN stored
               PROVE  stored[i].completed \in Int /\ stored[i].bytes \in Int
    OBVIOUS
  <2>1. stored \in Seq(Entry) /\ i \in 1 .. Len(stored)
    BY LenProperties DEF SessionInv, TypeOK
  <2>2. stored[i] \in Entry
    BY <2>1, ElementOfSeq
  <2> QED BY <2>2 DEF Entry
<1>3. ASSUME NEW i \in DOMAIN stored, NEW j \in DOMAIN stored, stored[i].file = stored[j].file
      PROVE  /\ stored[i].completed <= stored[j].completed
             /\ stored[i].bytes <= stored[j].bytes
  BY <1>1, <1>2, <1>3
<1> QED BY <1>3 DEF ProgressStep

\* The counters of an object never fall.
LEMMA ObjectsSaved ==
  ASSUME SessionInv, SavedInv,
         \/ \E i \in DOMAIN items : SetPause(i, TRUE) \/ SetPause(i, FALSE)
         \/ \E c \in Client : FullVerificationDone(c) \/ PieceVerified(c) \/ BytesTransferred(c)
  PROVE  SavedInv' /\ ProgressStep
<1>1. /\ phase = "running"
      /\ items' = items /\ stored' = stored /\ phase' = phase /\ readable' = readable
  BY DEF SetPause, FullVerificationDone, PieceVerified, BytesTransferred
<1>2. TypeOK /\ client \in [Client -> ClientType]
  BY DEF SessionInv, TypeOK, ClientType
<1>3. \A c \in Client : /\ client[c].completed \in 0 .. Pieces
                        /\ client[c].bytes \in 0 .. MaxBytes
  BY <1>2 DEF ClientType
<1>4. \A c \in Client : /\ client[c].completed <= client'[c].completed
                        /\ client[c].bytes <= client'[c].bytes
  <2>1. ASSUME NEW c \in Client, FullVerificationDone(c)
        PROVE  \A d \in Client : /\ client[d].completed <= client'[d].completed
                                 /\ client[d].bytes <= client'[d].bytes
    <3>1. PICK n \in IF client[c].completed = 0 THEN 0 .. Pieces ELSE {client[c].completed} :
            client' = [client EXCEPT ![c].completed = n, ![c].state = "Active",
                                     ![c].verifying = FALSE]
      BY <2>1 DEF FullVerificationDone
    <3>2. n \in Int /\ client[c].completed <= n
      BY <1>3, BoundAssumption
    <3>3. client'[c].completed = n /\ client'[c].bytes = client[c].bytes
      BY <1>2, <3>1 DEF ClientType
    <3>4. \A d \in Client : d # c => client'[d] = client[d]
      BY <1>2, <3>1
    <3> QED BY <1>3, <3>2, <3>3, <3>4
  <2>2. ASSUME NEW c \in Client, PieceVerified(c)
        PROVE  \A d \in Client : /\ client[d].completed <= client'[d].completed
                                 /\ client[d].bytes <= client'[d].bytes
    <3>1. /\ client'[c].completed = client[c].completed + 1
          /\ client'[c].bytes = client[c].bytes
      BY <1>2, <2>2 DEF PieceVerified, ClientType
    <3>2. \A d \in Client : d # c => client'[d] = client[d]
      BY <1>2, <2>2 DEF PieceVerified
    <3> QED BY <1>3, <3>1, <3>2
  <2>3. ASSUME NEW c \in Client, BytesTransferred(c)
        PROVE  \A d \in Client : /\ client[d].completed <= client'[d].completed
                                 /\ client[d].bytes <= client'[d].bytes
    <3>1. /\ client'[c].bytes = client[c].bytes + 1
          /\ client'[c].completed = client[c].completed
      BY <1>2, <2>3 DEF BytesTransferred, ClientType
    <3>2. \A d \in Client : d # c => client'[d] = client[d]
      BY <1>2, <2>3 DEF BytesTransferred
    <3> QED BY <1>3, <3>1, <3>2
  <2>4. ASSUME NEW i \in DOMAIN items, NEW value \in BOOLEAN, SetPause(i, value)
        PROVE  \A d \in Client : /\ client[d].completed <= client'[d].completed
                                 /\ client[d].bytes <= client'[d].bytes
    <3>1. \A d \in Client : /\ client'[d].completed = client[d].completed
                            /\ client'[d].bytes = client[d].bytes
      BY <1>2, <2>4 DEF SetPause, ClientType
    <3> QED BY <1>3, <3>1
  <2> QED BY <2>1, <2>2, <2>3, <2>4
<1>5. client' \in [Client -> ClientType]
  BY ObjectsStep, <1>1 DEF SessionInv, TypeOK, ClientType
<1>6. CountersInv'
  <2> SUFFICES ASSUME NEW k \in DOMAIN stored, NEW i \in DOMAIN items,
                      stored[k].file = items[i].file
               PROVE  /\ stored[k].completed <= client'[items[i].client].completed
                      /\ stored[k].bytes <= client'[items[i].client].bytes
    BY <1>1 DEF CountersInv
  <2> DEFINE c == items[i].client
  <2>1. c \in Client
    BY <1>2, ItemFacts DEF TypeOK
  <2>2. stored[k] \in Entry
    BY <1>2, ElementOfSeq, LenProperties DEF TypeOK
  <2>3. stored[k].completed <= client[c].completed /\ stored[k].bytes <= client[c].bytes
    BY <1>1 DEF SavedInv, CountersInv
  <2>4. /\ client'[c].completed \in Int /\ client'[c].bytes \in Int
        /\ client[c].completed \in Int /\ client[c].bytes \in Int
    BY <1>2, <1>5, <2>1 DEF ClientType
  <2> HIDE DEF c
  <2>5. stored[k].completed \in Int /\ stored[k].bytes \in Int
    BY <2>2 DEF Entry
  <2> QED BY <1>4, <2>1, <2>3, <2>4, <2>5 DEF c
<1>7. ShownInv'
  BY <1>1 DEF SavedInv, ShownInv, SavedListIsShown, FilesOf
<1> QED BY <1>1, <1>6, <1>7, SameProgress DEF SavedInv

\* Saving the list as it is.
LEMMA TimerSaved ==
  ASSUME SessionInv, SavedInv, SaveTimer
  PROVE  SavedInv' /\ ProgressStep
<1>1. /\ phase = "running" /\ phase' = phase /\ items' = items /\ client' = client
      /\ readable' = readable /\ stored' = Snapshot(items, client)
  BY DEF SaveTimer
<1>2. items \in Seq(ItemType) /\ client \in [Client -> ClientType]
  BY DEF SessionInv, TypeOK, ItemType, ClientType
<1>3. /\ DOMAIN stored' = DOMAIN items
      /\ \A i \in DOMAIN items :
           /\ stored'[i].file = items[i].file
           /\ stored'[i].completed = client[items[i].client].completed
           /\ stored'[i].bytes = client[items[i].client].bytes
  BY <1>1, <1>2, SnapshotSays
<1>4. Shows(items, stored', DOMAIN stored', readable)
  BY <1>1, <1>2, <1>3, ShowsItself DEF SavedInv, ShownInv
<1>5. ShownInv'
  BY <1>1, <1>4 DEF SavedInv, ShownInv, SavedListIsShown, FilesOf
<1>6. CountersInv'
  <2> SUFFICES ASSUME NEW k \in DOMAIN items, NEW i \in DOMAIN items,
                      items[k].file = items[i].file
               PROVE  /\ stored'[k].completed <= client[items[i].client].completed
                      /\ stored'[k].bytes <= client[items[i].client].bytes
    BY <1>1, <1>3 DEF CountersInv
  <2>1. k = i
    BY DEF SessionInv, Distinct
  <2>2. items[i].client \in Client
    BY <1>2, ItemFacts DEF ItemType
  <2>3. client[items[i].client] \in ClientType
    BY <1>2, <2>2
  <2>4. client[items[i].client].completed \in Int /\ client[items[i].client].bytes \in Int
    BY <2>3 DEF ClientType
  <2> QED BY <1>3, <2>1, <2>4
<1>7. ProgressStep
  BY <1>1, <1>3 DEF ProgressStep, SavedInv, CountersInv
<1> QED BY <1>5, <1>6, <1>7 DEF SavedInv

\* A torrent is added while the program runs: the settings did not name it.
LEMMA UserAddsSaved ==
  ASSUME SessionInv, SavedInv, NEW f \in File, UserAdds(f)
  PROVE  SavedInv' /\ ProgressStep
<1>1. /\ phase = "running" /\ phase' = phase /\ readable' = readable
      /\ AddTorrent(f, 0, 0)
  BY DEF UserAdds
<1>2. TypeOK /\ items \in Seq(ItemType) /\ client \in [Client -> ClientType]
  BY DEF SessionInv, TypeOK, ItemType, ClientType
<1>3. CASE ~(f \in readable /\ ~IsListed(f))
  <2>1. items' = items /\ client' = client /\ stored' = stored
    BY <1>1, <1>3 DEF AddTorrent
  <2> QED BY <1>1, <2>1, SameProgress
          DEF SavedInv, ShownInv, CountersInv, SavedListIsShown, FilesOf
<1>4. CASE f \in readable /\ ~IsListed(f)
  <2>1. PICK c \in Client : \E objects : Adds(f, 0, 0, c, objects)
    <3>1. ClientsMatch /\ 0 \in 0 .. Pieces /\ 0 \in 0 .. MaxBytes
      BY BoundAssumption DEF SessionInv
    <3> QED BY <1>1, <1>2, <1>4, <3>1, AddTorrentEffect
  <2>2. PICK objects : Adds(f, 0, 0, c, objects)
    BY <2>1
  <2>3. /\ \A i \in DOMAIN items : items[i].client # c
        /\ items' = Append(items, [file |-> f, client |-> c])
        /\ client'[c].completed = 0 /\ client'[c].bytes = 0
        /\ objects[c].completed = 0 /\ objects[c].bytes = 0
        /\ \A d \in Client : d # c => client'[d] = client[d] /\ objects[d] = client[d]
        /\ stored' = IF AutoSave THEN Snapshot(items', objects) ELSE stored
    BY <2>2 DEF Adds
  <2> DEFINE item == [file |-> f, client |-> c]
             n == Len(items)
  <2>4. /\ items' \in Seq(ItemType) /\ n \in Nat
        /\ DOMAIN items' = 1 .. (n + 1) /\ DOMAIN items = 1 .. n
        /\ \A i \in 1 .. n : items'[i] = items[i]
        /\ items'[n + 1] = item
    <3>1. item \in ItemType
      BY DEF ItemType
    <3> QED BY <1>2, <2>3, <3>1, AppendProperties, LenProperties
  <2>5. item.file = f /\ item.client = c
    OBVIOUS
  <2> HIDE DEF item, n
  <2>6. stored' = Snapshot(items', objects)
    BY <1>1, <2>3 DEF AutoSave
  <2>7. /\ DOMAIN stored' = DOMAIN items'
        /\ \A i \in DOMAIN items' :
             /\ stored'[i].file = items'[i].file
             /\ stored'[i].completed = objects[items'[i].client].completed
             /\ stored'[i].bytes = objects[items'[i].client].bytes
    BY <2>4, <2>6, SnapshotSays
  <2>8. FilesOf(items') \subseteq readable
    BY <1>1, <1>4, <2>4, <2>5 DEF SavedInv, ShownInv, FilesOf
  <2>9. Shows(items', stored', DOMAIN stored', readable)
    BY <2>4, <2>7, <2>8, ShowsItself
  <2>10. ShownInv'
    BY <1>1, <2>8, <2>9 DEF ShownInv, SavedListIsShown, FilesOf
  <2>11. \A i \in 1 .. n :
          /\ items[i].client \in Client /\ items[i].client # c
          /\ client[items[i].client].completed \in Int
          /\ client[items[i].client].bytes \in Int
    <3> SUFFICES ASSUME NEW i \in 1 .. n
                 PROVE  /\ items[i].client \in Client /\ items[i].client # c
                        /\ client[items[i].client].completed \in Int
                        /\ client[items[i].client].bytes \in Int
      OBVIOUS
    <3>1. items[i].client \in Client
      BY <1>2, <2>4, ItemFacts DEF ItemType
    <3>2. client[items[i].client] \in ClientType
      BY <1>2, <3>1
    <3> QED BY <2>3, <2>4, <3>1, <3>2 DEF ClientType
  <2>12. \A i \in 1 .. n :
           /\ items'[i] = items[i] /\ client'[items[i].client] = client[items[i].client]
           /\ stored'[i].completed = client[items[i].client].completed
           /\ stored'[i].bytes = client[items[i].client].bytes
    BY <2>3, <2>4, <2>7, <2>11
  <2>13. \A i, j \in DOMAIN items' : items'[i].file = items'[j].file => i = j
    <3>1. Distinct(items')
      BY <1>2, <1>1, AddTorrentFacts, BoundAssumption DEF SessionInv, ListOK
    <3> QED BY <3>1 DEF Distinct
  <2>14. stored'[n + 1].file = f /\ \A k \in DOMAIN stored : stored[k].file # f
    <3>1. stored'[n + 1].file = f
      BY <2>4, <2>5, <2>7
    <3>2. ASSUME NEW k \in DOMAIN stored, stored[k].file = f
          PROVE  FALSE
      <4>1. f \in FilesOf(items)
        BY <1>1, <1>4, <3>2, ShownIsListed DEF SavedInv, ShownInv, SavedListIsShown
      <4> QED BY <1>4, <4>1 DEF FilesOf, IsListed
    <3> QED BY <3>1, <3>2
  <2>15. \A i \in DOMAIN items' : i \in 1 .. n \/ i = n + 1
    BY <2>4
  <2>16. ProgressStep
    <3> SUFFICES ASSUME NEW k \in DOMAIN stored, NEW j \in DOMAIN stored',
                        stored[k].file = stored'[j].file
                 PROVE  /\ stored[k].completed <= stored'[j].completed
                        /\ stored[k].bytes <= stored'[j].bytes
      BY DEF ProgressStep
    <3>1. j \in 1 .. n
      BY <2>7, <2>14, <2>15
    <3>2. stored[k].file = items[j].file
      BY <2>4, <2>7, <3>1
    <3>3. /\ stored[k].completed <= client[items[j].client].completed
          /\ stored[k].bytes <= client[items[j].client].bytes
      BY <1>1, <2>4, <3>1, <3>2 DEF SavedInv, CountersInv
    <3> QED BY <2>12, <3>1, <3>3
  <2>17. CountersInv'
    <3> SUFFICES ASSUME NEW k \in DOMAIN items', NEW i \in DOMAIN items',
                        items'[k].file = items'[i].file
                 PROVE  /\ stored'[k].completed <= client'[items'[i].client].completed
                        /\ stored'[k].bytes <= client'[items'[i].client].bytes
      BY <2>7 DEF CountersInv
    <3>1. k = i
      BY <2>13
    <3>2. CASE i \in 1 .. n
      BY <2>11, <2>12, <3>1, <3>2
    <3>3. CASE i = n + 1
      BY <2>3, <2>4, <2>5, <2>7, <3>1, <3>3
    <3> QED BY <2>15, <3>2, <3>3
  <2> QED BY <2>10, <2>16, <2>17 DEF SavedInv
<1> QED BY <1>3, <1>4

\* A torrent is taken off the list, and the rest is saved.
LEMMA SetStopSaved ==
  ASSUME SessionInv, SavedInv, NEW i \in DOMAIN items, SetStop(i)
  PROVE  SavedInv' /\ ProgressStep
<1> DEFINE rest == RemoveAt(items, i)
<1>1. /\ phase = "running" /\ phase' = phase /\ readable' = readable
      /\ items' = rest /\ CountChanged(rest, client')
      /\ \E state \in ClientState : client' = [client EXCEPT ![items[i].client].state = state]
  BY DEF SetStop, ClientState
<1>2. /\ items \in Seq(ItemType) /\ client \in [Client -> ClientType]
      /\ DOMAIN items = 1 .. Len(items) /\ i \in 1 .. Len(items)
  BY LenProperties DEF SessionInv, TypeOK, ItemType, ClientType
<1>3. /\ rest \in Seq(ItemType)
      /\ \A k \in 1 .. Len(rest) : \E j \in 1 .. Len(items) : rest[k] = items[j]
  BY <1>2, RemoveAtFacts
<1>4. DOMAIN rest = 1 .. Len(rest)
  BY <1>3, LenProperties
<1> HIDE DEF rest
<1>5. \A d \in Client : /\ client'[d].completed = client[d].completed
                        /\ client'[d].bytes = client[d].bytes
  BY <1>1, <1>2 DEF ClientType
<1>6. stored' = Snapshot(rest, client')
  BY <1>1 DEF CountChanged, AutoSave
<1>7. /\ DOMAIN stored' = DOMAIN rest
      /\ \A k \in DOMAIN rest :
           /\ stored'[k].file = rest[k].file
           /\ stored'[k].completed = client'[rest[k].client].completed
           /\ stored'[k].bytes = client'[rest[k].client].bytes
  BY <1>3, <1>6, SnapshotSays
<1>8. FilesOf(rest) \subseteq readable
  BY <1>1, <1>2, <1>3, <1>4 DEF SavedInv, ShownInv, FilesOf
<1>9. Shows(rest, stored', DOMAIN stored', readable)
  BY <1>3, <1>7, <1>8, ShowsItself
<1>10. ShownInv'
  BY <1>1, <1>8, <1>9 DEF ShownInv, SavedListIsShown, FilesOf
<1>11. Distinct(rest)
  BY <1>1, SetStopStep DEF SessionInv
<1>12. \A k \in DOMAIN rest : /\ rest[k].client \in Client
                              /\ client'[rest[k].client].completed \in Int
                              /\ client'[rest[k].client].bytes \in Int
  <2> SUFFICES ASSUME NEW k \in DOMAIN rest
               PROVE  /\ rest[k].client \in Client
                      /\ client'[rest[k].client].completed \in Int
                      /\ client'[rest[k].client].bytes \in Int
    OBVIOUS
  <2>1. rest[k].client \in Client
    BY <1>3, ItemFacts DEF ItemType
  <2>2. client[rest[k].client] \in ClientType
    BY <1>2, <2>1
  <2> QED BY <1>5, <2>1, <2>2 DEF ClientType
<1>13. CountersInv'
  <2> SUFFICES ASSUME NEW k \in DOMAIN rest, NEW m \in DOMAIN rest,
                      rest[k].file = rest[m].file
               PROVE  /\ stored'[k].completed <= client'[rest[m].client].completed
                      /\ stored'[k].bytes <= client'[rest[m].client].bytes
    BY <1>1, <1>7 DEF CountersInv
  <2>1. k = m
    BY <1>11 DEF Distinct
  <2> QED BY <1>7, <1>12, <2>1
<1>14. ProgressStep
  <2> SUFFICES ASSUME NEW k \in DOMAIN stored, NEW m \in DOMAIN rest,
                      stored[k].file = rest[m].file
               PROVE  /\ stored[k].completed <= stored'[m].completed
                      /\ stored[k].bytes <= stored'[m].bytes
    BY <1>7 DEF ProgressStep
  <2>1. PICK j \in DOMAIN items : rest[m] = items[j]
    BY <1>2, <1>3, <1>4
  <2>2. /\ stored[k].completed <= client[items[j].client].completed
        /\ stored[k].bytes <= client[items[j].client].bytes
    BY <1>1, <2>1 DEF SavedInv, CountersInv
  <2>3. items[j].client \in Client
    BY <1>12, <2>1
  <2> QED BY <1>5, <1>7, <2>1, <2>2, <2>3
<1> QED BY <1>10, <1>13, <1>14 DEF SavedInv

\* A row of the settings is loaded: its torrent is not listed yet, and gets the
\* counters of the row.
LEMMA LoadRowSaved ==
  ASSUME SessionInv, SavedInv, LoadRow
  PROVE  SavedInv' /\ ProgressStep
<1> DEFINE f == stored[row].file
           completed == stored[row].completed
           bytes == stored[row].bytes
<1>1. /\ phase = "loading" /\ phase' = phase /\ row' = row + 1 /\ readable' = readable
      /\ row <= Len(stored) /\ AddTorrent(f, completed, bytes)
  BY DEF LoadRow
<1>2. /\ TypeOK /\ ClientsMatch /\ items \in Seq(ItemType)
      /\ client \in [Client -> ClientType]
      /\ stored \in Seq(Entry) /\ DOMAIN stored = 1 .. Len(stored) /\ Len(stored) \in Nat
      /\ row \in 1 .. Len(stored) /\ row \in Nat \ {0}
  BY <1>1, LenProperties DEF SessionInv, TypeOK, ItemType, ClientType
<1>3. f \in File /\ completed \in 0 .. Pieces /\ bytes \in 0 .. MaxBytes
  <2>1. stored[row] \in Entry
    BY <1>2, ElementOfSeq
  <2> QED BY <2>1 DEF Entry
<1>4. \A k, l \in DOMAIN stored : stored[k].file = stored[l].file => k = l
  BY DEF SessionInv, Distinct
<1> HIDE DEF f, completed, bytes
<1>5. Shows(items, stored, 1 .. row - 1, readable) /\ FilesOf(items) \subseteq readable
  BY <1>1 DEF SavedInv, ShownInv
<1>6. stored' = stored
  BY <1>1 DEF AddTorrent, CountChanged, AutoSave
<1>7. row' - 1 = row /\ row' - 1 <= Len(stored)
  BY <1>1, <1>2
<1>8. CASE f \notin readable
  <2>1. items' = items /\ client' = client
    BY <1>1, <1>8 DEF AddTorrent
  <2>2. Shows(items, stored, 1 .. row, readable)
    BY <1>2, <1>5, <1>8, ShowsPassedOver DEF f
  <2>3. ShownInv'
    BY <1>1, <1>5, <1>6, <1>7, <2>1, <2>2 DEF ShownInv, SavedListIsShown, FilesOf
  <2>4. CountersInv'
    BY <1>1, <1>6, <2>1 DEF SavedInv, CountersInv
  <2> QED BY <1>6, <2>3, <2>4, SameProgress DEF SavedInv
<1>9. CASE f \in readable
  <2>1. ~IsListed(f)
    <3> SUFFICES ASSUME NEW i \in DOMAIN items, InfoHash(items[i].file) = InfoHash(f)
                 PROVE  FALSE
      BY DEF IsListed
    <3>1. PICK k \in DOMAIN stored : k < row /\ items[i].file = stored[k].file
      BY <1>1 DEF SessionInv, LoadedFromRows
    <3>2. k = row
      BY <1>2, <3>1 DEF SessionInv, Distinct, f
    <3> QED BY <1>2, <3>1, <3>2
  <2>2. PICK c \in Client : \E objects : Adds(f, completed, bytes, c, objects)
    BY <1>1, <1>2, <1>3, <1>9, <2>1, AddTorrentEffect
  <2> DEFINE item == [file |-> f, client |-> c]
             n == Len(items)
  <2>3. /\ \A i \in DOMAIN items : items[i].client # c
        /\ items' = Append(items, item)
        /\ client'[c].completed = completed /\ client'[c].bytes = bytes
        /\ \A d \in Client : d # c => client'[d] = client[d]
    BY <2>2 DEF Adds
  <2>4. item \in ItemType /\ item.file = f /\ item.client = c
    BY <1>3 DEF ItemType
  <2>5. /\ n \in Nat /\ DOMAIN items' = 1 .. (n + 1) /\ DOMAIN items = 1 .. n
        /\ \A i \in 1 .. n : items'[i] = items[i]
        /\ items'[n + 1] = item
    BY <1>2, <2>3, <2>4, AppendProperties, LenProperties
  <2> HIDE DEF item, n
  <2>6. Shows(items', stored, 1 .. row, readable)
    BY <1>2, <1>5, <1>9, <2>3, <2>4, ShowsAppended DEF f
  <2>7. FilesOf(items') \subseteq readable
    BY <1>5, <1>9, <2>4, <2>5 DEF FilesOf
  <2>8. ShownInv'
    BY <1>1, <1>6, <1>7, <2>6, <2>7 DEF ShownInv, SavedListIsShown, FilesOf
  <2>9. CountersInv'
    <3> SUFFICES ASSUME NEW k \in DOMAIN stored, NEW i \in DOMAIN items',
                        stored[k].file = items'[i].file
                 PROVE  /\ stored[k].completed <= client'[items'[i].client].completed
                        /\ stored[k].bytes <= client'[items'[i].client].bytes
      BY <1>6 DEF CountersInv
    <3>1. CASE i \in 1 .. n
      <4>1. items[i].client \in Client
        BY <1>2, <2>5, <3>1, ItemFacts DEF ItemType
      <4>2. client'[items[i].client] = client[items[i].client]
        BY <2>3, <2>5, <3>1, <4>1
      <4>3. /\ stored[k].completed <= client[items[i].client].completed
            /\ stored[k].bytes <= client[items[i].client].bytes
        BY <1>1, <2>5, <3>1 DEF SavedInv, CountersInv
      <4> QED BY <2>5, <3>1, <4>2, <4>3
    <3>2. CASE i = n + 1
      <4>1. k = row
        BY <1>2, <1>4, <2>4, <2>5, <3>2 DEF f
      <4> QED BY <1>3, <2>3, <2>4, <2>5, <3>2, <4>1 DEF completed, bytes
    <3>3. i \in 1 .. n \/ i = n + 1
      BY <2>5
    <3> QED BY <3>1, <3>2, <3>3
  <2> QED BY <1>6, <2>8, <2>9, SameProgress DEF SavedInv
<1> QED BY <1>8, <1>9

\* The other steps leave the settings and the list alone, or begin and end a process.
LEMMA OtherSaved ==
  ASSUME SessionInv, SavedInv,
         \/ Sync \/ Launch \/ StartAutoSave \/ Quit \/ Crash
         \/ (\E f \in File : FileComesOrGoes(f)) \/ UNCHANGED vars
  PROVE  SavedInv' /\ ProgressStep
<1>1. CASE Sync \/ UNCHANGED vars
  <2>1. /\ phase' = phase /\ items' = items /\ client' = client /\ stored' = stored
        /\ readable' = readable /\ row' = row
    BY <1>1 DEF Sync, vars
  <2> QED BY <2>1, SameProgress
          DEF SavedInv, ShownInv, CountersInv, SavedListIsShown, FilesOf
<1>2. CASE Launch
  <2>1. /\ phase = "down" /\ phase' = "loading" /\ row' = 1 /\ items' = items
        /\ stored' = disk /\ readable' = readable
    BY <1>2 DEF Launch
  <2>2. items = <<>> /\ Len(stored') \in Nat
    BY <2>1, LenProperties DEF SessionInv, LoadedFromRows, TypeOK
  <2>3. FilesOf(items') = {} /\ DOMAIN items' = {}
    BY <2>1, <2>2 DEF FilesOf
  <2>4. Shows(items', stored', 1 .. row' - 1, readable')
    <3> DEFINE at == [i \in DOMAIN items' |-> i]
    <3>1. at \in [DOMAIN items' -> 1 .. row' - 1]
      BY <2>3
    <3>2. 1 .. row' - 1 = {}
      BY <2>1
    <3> HIDE DEF at
    <3> QED BY <2>3, <3>1, <3>2 DEF Shows
  <2>5. ShownInv'
    BY <2>1, <2>2, <2>3, <2>4 DEF ShownInv, SavedListIsShown
  <2>6. CountersInv' /\ ProgressStep
    BY <2>1, <2>3 DEF CountersInv, ProgressStep
  <2> QED BY <2>5, <2>6 DEF SavedInv
<1>3. CASE StartAutoSave
  <2>1. /\ phase = "loading" /\ phase' = "running" /\ row > Len(stored)
        /\ items' = items /\ client' = client /\ stored' = stored /\ readable' = readable
    BY <1>3 DEF StartAutoSave
  <2>2. DOMAIN stored = 1 .. Len(stored) /\ Len(stored) \in Nat /\ row \in Nat
    BY LenProperties DEF SessionInv, TypeOK
  <2>3. row - 1 = Len(stored)
    BY <2>1, <2>2 DEF SavedInv, ShownInv
  <2>4. Shows(items, stored, DOMAIN stored, readable)
    BY <2>1, <2>2, <2>3 DEF SavedInv, ShownInv
  <2> QED BY <2>1, <2>4, SameProgress
          DEF SavedInv, ShownInv, CountersInv, SavedListIsShown, FilesOf
<1>4. CASE Quit \/ Crash
  <2>1. phase' = "down" /\ stored' = stored
    BY <1>4 DEF Quit, Crash, Gone
  <2> QED BY <2>1, SameProgress
          DEF SavedInv, ShownInv, CountersInv, SavedListIsShown
<1>5. CASE \E f \in File : FileComesOrGoes(f)
  <2>1. phase = "down" /\ phase' = "down" /\ stored' = stored
    BY <1>5 DEF FileComesOrGoes
  <2> QED BY <2>1, SameProgress
          DEF SavedInv, ShownInv, CountersInv, SavedListIsShown
<1> QED BY <1>1, <1>2, <1>3, <1>4, <1>5

\* Every step keeps the invariant, and no step lets the saved progress fall.
LEMMA StepSaved == SessionInv /\ SavedInv /\ [Next]_vars => SavedInv' /\ ProgressStep
<1> SUFFICES ASSUME SessionInv, SavedInv, [Next]_vars
             PROVE  SavedInv' /\ ProgressStep
  OBVIOUS
<1> QED BY ObjectsSaved, TimerSaved, UserAddsSaved, SetStopSaved, LoadRowSaved, OtherSaved
        DEF Next

\* Before the first start nothing is saved.
LEMMA InitSaved == Init => SavedInv
BY DEF Init, SavedInv, ShownInv, CountersInv, SavedListIsShown

\* In the event loop the settings name the listed torrents in their order, and besides
\* them only torrents whose file cannot be read, for any number of torrents.
THEOREM SavedListAlwaysShown == Spec => []SavedListIsShown
<1>1. SavedInv => SavedListIsShown
  BY DEF SavedInv, ShownInv
<1> QED BY <1>1, InitSaved, StepSaved, SessionInvariant, PTL DEF Spec

\* What the settings say of a torrent's progress never falls while it stays in them.
THEOREM ProgressAlwaysKept == Spec => ProgressIsKept
<1>1. SessionInv /\ SavedInv /\ [Next]_vars => [ProgressStep]_vars
  BY StepSaved
<1>2. ProgressIsKept <=> [][ProgressStep]_vars
  BY DEF ProgressIsKept, ProgressStep
<1> QED BY <1>1, <1>2, InitSaved, StepSaved, SessionInvariant, PTL DEF Spec
=============================================================================
