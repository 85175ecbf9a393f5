------------------------------- MODULE Storage -------------------------------
(***************************************************************************)
(* From the torrent file to the bytes on the disk: MetaInfo (metainfo.cpp),*)
(* the files and blocks of FileManager (generateFiles, readBlock,          *)
(* writeBlock, verification) and how TorrentClient cuts a piece into blocks*)
(* and keeps them in a dumped state.  FileManager has the two threads; here*)
(* one request is done at a time, and what counts is which byte goes where.*)
(* How a torrent file is read is in TorrentFile.                           *)
(*                                                                         *)
(* Byte k of the torrent has the content k; 0 is what a resized file is    *)
(* filled with, Wrong what a peer sent that is not the torrent's data.  The*)
(* SHA-1 sum of some bytes is the sequence of these bytes.                 *)
(***************************************************************************)
EXTENDS Integers, Sequences, FiniteSets, SequencesExt

CONSTANTS
  Torrents,        \* [multi, files (their lengths), pieceLength, tiers]
  Contents(_),     \* what the file of a torrent may hold
  Reading(_),      \* [ok, meta]: what MetaInfo::parse makes of a content
  BlockSize,       \* bytes of a block (16384)
  MaxWrong         \* bound: blocks with wrong data

ASSUME TorrentsAssumption ==
  Torrents \subseteq [multi : BOOLEAN, files : Seq(Nat), pieceLength : Nat \ {0}, tiers : Nat]

ASSUME BlockAssumption == BlockSize \in Nat \ {0} /\ MaxWrong \in Nat

VARIABLES
  torrent,         \* what the file was made from
  content,         \* the torrent file
  status,          \* how far the client is
  meta,            \* TorrentClientPrivate::metaInfo
  copy,            \* FileManager::m_metaInfo
  files,           \* the bytes of the files
  newFile,         \* FileManager::m_newFile
  verified,        \* FileManager::m_verifiedPieces
  blocks,          \* CompletedBlocks of the pending pieces: what was written
  wrong            \* counter of the bound

vars == <<torrent, content, status, meta, copy, files, newFile, verified, blocks, wrong>>

Zero == 0
Wrong == -1

\* Where each of the files with these lengths ends, in a torrent that begins at 0.
Ends(lengths) ==
  LET end[i \in 0 .. Len(lengths)] == IF i = 0 THEN 0 ELSE end[i - 1] + lengths[i]
  IN end

SumOf(lengths) == Ends(lengths)[Len(lengths)]
Least(a, b) == IF a < b THEN a ELSE b

-----------------------------------------------------------------------------
(* The torrent file *)

\* Bytes of piece p of a torrent with this piece length and total length.
PieceBytes(p, pieceLength, total) ==
  LET from == (p - 1) * pieceLength
  IN [i \in 1 .. Least(pieceLength, total - from) |-> from + i]

SumsOf(t) ==
  LET total == SumOf(t.files)
  IN [p \in 1 .. (total + t.pieceLength - 1) \div t.pieceLength |->
        PieceBytes(p, t.pieceLength, total)]

-----------------------------------------------------------------------------
(* MetaInfo *)

Forms == {"single", "multi"}

MetaInfos == [form : Forms \cup {"?"}, single : Nat, multi : Seq(Nat),
              singlePieceLength : Nat, pieceLength : Nat, sums : Seq(Seq(Int)),
              announce : Seq(STRING)]

\* Fields that clear() leaves to chance are "?".
Cleared == [form |-> "?", single |-> 0, multi |-> <<>>, singlePieceLength |-> 0,
            pieceLength |-> 0, sums |-> <<>>, announce |-> <<>>]

\* A file that is read at all gives the sums of the pieces, which come last in the info
\* section, only with the lengths before them.
ASSUME ReadingAssumption ==
  \A t \in Torrents : \A c \in Contents(t) :
    LET info == Reading(c).meta
    IN /\ info \in MetaInfos
       /\ Reading(c).ok /\ info.sums # <<>> =>
            /\ info.sums = SumsOf(t)
            /\ info.multi = IF t.multi THEN t.files ELSE <<>>
            /\ info.pieceLength = IF t.multi THEN t.pieceLength ELSE 0

\* copy(): the form and the single file are left out, so that the copy has the form
\* it had before: what the memory held when it was made.
Copied(src, before) ==
  [src EXCEPT !.form = before, !.single = 0, !.singlePieceLength = 0]

\* totalSize(), in the form given.
TotalSize(info) == IF info.form = "single" THEN info.single ELSE SumOf(info.multi)

-----------------------------------------------------------------------------
(* Pieces and blocks *)

NumPieces == Len(copy.sums)
TotalLength == TotalSize(copy)

\* pieceLengthAt: the last piece of a torrent that its piece length divides gets 0.
PieceLengthAt(p) ==
  IF p = NumPieces THEN TotalLength % copy.pieceLength ELSE copy.pieceLength

\* The size of CompletedBlocks of a new TorrentPiece; blocks count from 0.
NumBlocks(p) ==
  PieceLengthAt(p) \div BlockSize + (IF PieceLengthAt(p) % BlockSize # 0 THEN 1 ELSE 0)

\* requestBlocks: the size of a block.
SizeOf(p, i) ==
  IF PieceLengthAt(p) % BlockSize # 0 /\ i = NumBlocks(p) - 1
    THEN PieceLengthAt(p) % BlockSize ELSE BlockSize

StartOf(p, offset) == (p - 1) * copy.pieceLength + offset

-----------------------------------------------------------------------------
(* FileManager *)

\* A round of the loop of readBlock, over the bytes of the files.
ReadRound(bytes, acc, i) ==
  LET size == Len(bytes[i])
      at == acc.start - acc.current
      n == Least(acc.length, size - at)
  IN IF acc.length > 0 /\ acc.current + size > acc.start
       THEN [start |-> acc.start + n, current |-> acc.current + size,
             length |-> acc.length - n,
             block |-> acc.block \o SubSeq(bytes[i], at + 1, at + n)]
       ELSE [acc EXCEPT !.current = @ + size]

BytesRead(bytes, start, length) ==
  LET after[i \in 0 .. Len(bytes)] ==
        IF i = 0 THEN [start |-> start, current |-> 0, length |-> length, block |-> <<>>]
        ELSE ReadRound(bytes, after[i - 1], i)
  IN after[Len(bytes)].block

ReadBlock(p, offset, length) == BytesRead(files, StartOf(p, offset), length)

\* Fault: each file gets the data from its beginning.
WriteRoundFromStart(acc, i) ==
  LET size == Len(acc.files[i])
      at == acc.start - acc.current
      n == Least(acc.rest, size - at)
  IN IF acc.rest > 0 /\ acc.current + size > acc.start
       THEN [acc EXCEPT !.start = @ + n, !.current = @ + size, !.rest = @ - n,
                        !.files[i] = [k \in DOMAIN @ |-> IF k \in at + 1 .. at + n
                                                         THEN acc.data[k - at] ELSE @[k]]]
       ELSE [acc EXCEPT !.current = @ + size]

\* A round of the loop of writeBlock.
WriteRound(acc, i) ==
  LET size == Len(acc.files[i])
      at == acc.start - acc.current
      n == Least(acc.rest, size - at)
      written == Len(acc.data) - acc.rest
  IN IF acc.rest > 0 /\ acc.current + size > acc.start
       THEN [acc EXCEPT !.start = @ + n, !.current = @ + size, !.rest = @ - n,
                        !.files[i] = [k \in DOMAIN @ |-> IF k \in at + 1 .. at + n
                                                         THEN acc.data[written + k - at]
                                                         ELSE @[k]]]
       ELSE [acc EXCEPT !.current = @ + size]

BytesWritten(bytes, start, data) ==
  LET after[i \in 0 .. Len(bytes)] ==
        IF i = 0 THEN [start |-> start, current |-> 0, rest |-> Len(data), data |-> data,
                       files |-> bytes]
        ELSE WriteRound(after[i - 1], i)
  IN after[Len(bytes)].files

\* The files after writeBlock.
WriteBlock(p, offset, data) == BytesWritten(files, StartOf(p, offset), data)

\* Fault: only the first block is compared.
FirstBlockMatches(p) ==
  LET n == Least(BlockSize, Len(copy.sums[p]))
  IN ReadBlock(p, 0, n) = SubSeq(copy.sums[p], 1, n)

\* verifySinglePiece
VerifySinglePiece(p) == ReadBlock(p, 0, copy.pieceLength) = copy.sums[p]

-----------------------------------------------------------------------------
(* Actions *)

Whole(t) ==
  [i \in DOMAIN t.files |-> [k \in 1 .. t.files[i] |-> Ends(t.files)[i - 1] + k]]

\* The files of the torrent exist or not.
Init ==
  /\ torrent \in Torrents
  /\ content \in Contents(torrent)
  /\ status = "new"
  /\ meta = Cleared
  /\ copy = Cleared
  /\ \E present \in SUBSET DOMAIN torrent.files :
       files = [i \in DOMAIN torrent.files |->
                  IF i \in present THEN Whole(torrent)[i] ELSE <<>>]
  /\ newFile = FALSE
  /\ verified = {}
  /\ blocks = <<>>
  /\ wrong = 0

\* setTorrent
SetTorrent ==
  /\ status = "new"
  /\ status' = IF Reading(content).ok THEN "parsed" ELSE "rejected"
  /\ meta' = Reading(content).meta
  /\ UNCHANGED <<torrent, content, copy, files, newFile, verified, blocks, wrong>>

\* start(): setMetaInfo() copies.
Start ==
  /\ status = "parsed"
  /\ status' = "starting"
  /\ \E form \in Forms : copy' = Copied(meta, form)
  /\ UNCHANGED <<torrent, content, meta, files, newFile, verified, blocks, wrong>>

Resized(bytes, length) ==
  [k \in 1 .. length |-> IF k <= Len(bytes) THEN bytes[k] ELSE Zero]

\* generateFiles in the single file form: the file has no name, for the copy lost
\* it, and cannot be opened.
GenerateSingleFile ==
  /\ status = "starting"
  /\ copy.form = "single"
  /\ status' = "failed"
  /\ UNCHANGED <<torrent, content, meta, copy, files, newFile, verified, blocks, wrong>>

\* generateFiles in the form with several files; a path that cannot be made, opened
\* or resized is an error.
GenerateMultiFiles ==
  /\ status = "starting"
  /\ copy.form = "multi"
  /\ \/ /\ status' = "generated"
        /\ files' = [i \in DOMAIN copy.multi |-> Resized(files[i], copy.multi[i])]
        /\ newFile' = \E i \in DOMAIN copy.multi : Len(files[i]) # copy.multi[i]
     \/ status' = "failed" /\ UNCHANGED <<files, newFile>>
  /\ UNCHANGED <<torrent, content, meta, copy, verified, blocks, wrong>>

\* The first verification, and fullVerificationDone: pending pieces of a dumped
\* state that turn out to be complete are dropped.
FullVerification ==
  /\ status = "generated"
  /\ status' = "running"
  /\ verified' = IF verified = {} /\ ~newFile
                   THEN {p \in 1 .. NumPieces : VerifySinglePiece(p)} ELSE verified
  /\ blocks' = [p \in DOMAIN blocks \ verified' |-> blocks[p]]
  /\ UNCHANGED <<torrent, content, meta, copy, files, newFile, wrong>>

\* schedulePieceForClient makes a TorrentPiece.  (Without a piece length the
\* program ends with a division by zero, or nothing is asked for.)
NewPiece(p) ==
  /\ status = "running"
  /\ copy.pieceLength > 0
  /\ p \in 1 .. NumPieces \ (verified \cup DOMAIN blocks)
  /\ blocks' = [q \in DOMAIN blocks \cup {p} |->
                  IF q = p THEN [i \in 0 .. NumBlocks(p) - 1 |-> "none"] ELSE blocks[q]]
  /\ UNCHANGED <<torrent, content, status, meta, copy, files, newFile, verified, wrong>>

Complete(p) == \A i \in DOMAIN blocks[p] : blocks[p][i] # "none"

\* blockReceived, and writeBlock in the other thread: a block the piece lacks.
BlockReceived(p, i, data) ==
  LET begin == i * BlockSize
      right == [k \in 1 .. SizeOf(p, i) |-> StartOf(p, begin) + k]
  IN /\ status = "running"
     /\ blocks[p][i] = "none"
     /\ data = "wrong" => wrong < MaxWrong
     /\ wrong' = IF data = "wrong" THEN wrong + 1 ELSE wrong
     /\ blocks' = [blocks EXCEPT ![p][i] = data]
     /\ files' = WriteBlock(p, begin, IF data = "right" THEN right
                                      ELSE [k \in DOMAIN right |-> Wrong])
     /\ UNCHANGED <<torrent, content, status, meta, copy, newFile, verified>>

\* verifyPiece, and pieceVerified.
VerifyPiece(p) ==
  /\ status = "running"
  /\ DOMAIN blocks[p] # {}
  /\ Complete(p)
  /\ IF VerifySinglePiece(p)
       THEN /\ verified' = verified \cup {p}
            /\ blocks' = [q \in DOMAIN blocks \ {p} |-> blocks[q]]
       ELSE /\ verified' = verified
            /\ blocks' = [blocks EXCEPT ![p] = [i \in DOMAIN @ |-> "none"]]
  /\ UNCHANGED <<torrent, content, status, meta, copy, files, newFile, wrong>>

\* dumpedState and setDumpedState: pieces without a block yet, and those whose
\* verification is under way, are not dumped.
Dumped == {p \in DOMAIN blocks : /\ ~Complete(p)
                                 /\ \E i \in DOMAIN blocks[p] : blocks[p][i] # "none"}

\* The program ends and is started again, with its last dumped state or without.
Restart ==
  /\ status = "running"
  /\ status' = "new"
  /\ meta' = Cleared
  /\ copy' = Cleared
  /\ newFile' = FALSE
  /\ \/ verified' = verified /\ blocks' = [p \in Dumped |-> blocks[p]]
     \/ verified' = {} /\ blocks' = <<>>
  /\ UNCHANGED <<torrent, content, files, wrong>>

Next ==
  \/ SetTorrent \/ Start \/ GenerateSingleFile \/ GenerateMultiFiles
  \/ FullVerification \/ Restart
  \/ \E p \in 1 .. NumPieces : NewPiece(p)
  \/ \E p \in DOMAIN blocks :
       \/ VerifyPiece(p)
       \/ \E i \in DOMAIN blocks[p], data \in {"right", "wrong"} :
            BlockReceived(p, i, data)

Spec == Init /\ [][Next]_vars

-----------------------------------------------------------------------------
(* Properties *)

\* Blocks written in any order, over the bounds of files of any size, and over what
\* an earlier run left, make a piece that passes its verification.
BlocksMakeThePiece ==
  status = "running" =>
    \A p \in DOMAIN blocks :
      (DOMAIN blocks[p] # {} /\ \A i \in DOMAIN blocks[p] : blocks[p][i] = "right")
        => VerifySinglePiece(p)

\* The bytes of a verified piece are in the file and at the place where the lengths
\* of the files put them.
VerifiedIsInPlace ==
  status = "running" =>
    \A p \in verified : \A i \in DOMAIN files : \A k \in DOMAIN files[i] :
      Whole(torrent)[i][k] \in ToSet(copy.sums[p]) => files[i][k] = Whole(torrent)[i][k]
=============================================================================
