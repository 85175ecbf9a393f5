----------------------------- MODULE TorrentFile -----------------------------
(***************************************************************************)
(* What is read from a torrent file: MetaInfo::parse (metainfo.cpp) with   *)
(* BencodeParser, over the files that a torrent's creator writes.  A       *)
(* configuration gives Storage's constants the values defined here:        *)
(* Contents <- ContentsOf, Reading <- ReadingOf.                           *)
(***************************************************************************)
EXTENDS Bencode, Storage

-----------------------------------------------------------------------------
(* The torrent file *)

InfoOf(t) ==
  LET file(n) == Pairs(<< <<"length", Number(n)>>, <<"path", List(<<Str("name")>>)>> >>)
      what == IF t.multi
                THEN <<"files", List([i \in DOMAIN t.files |-> file(t.files[i])])>>
                ELSE <<"length", Number(t.files[1])>>
  IN Pairs(<< what, <<"name", Str("name")>>, <<"piece length", Number(t.pieceLength)>>,
              <<"pieces", Str(SumsOf(t))>> >>)

\* Before its own key "info" the torrent has a dictionary with a key of that name.
TorrentOf(t) ==
  LET tier == List(<<Str("backup")>>)
      extension == Pairs(<< <<"info", Number(1)>>, <<"name", Str("name")>> >>)
  IN Pairs(<< <<"announce", Str("tracker")>> >>
           \o (IF t.tiers = 0 THEN <<>>
               ELSE << <<"announce-list", List([i \in 1 .. t.tiers |-> tier])>> >>)
           \o << <<"extension", extension>>, <<"info", InfoOf(t)>>,
                 <<"title", Str("title")>> >>)

\* The file of a torrent.
Written(t) == Encode(TorrentOf(t))

\* The file may have a spot that cannot be read.
ContentsOf(t) == {Written(t)} \cup {[Written(t) EXCEPT ![i] = X] : i \in DOMAIN Written(t)}

-----------------------------------------------------------------------------
(* MetaInfo *)

ValueOf(dict, key, default) == IF key \in DOMAIN dict THEN dict[key][2] ELSE default

\* toStringList() makes an empty string of each tier of the list.
AnnounceList(dict) ==
  LET tiers == ValueOf(dict, "announce-list", <<>>)
  IN Append([i \in DOMAIN tiers |-> ""], ValueOf(dict, "announce", ""))

\* The part of parse() that reads the dictionary.
MetaInfo(dict) ==
  LET info == dict["info"][2]
      sums == ValueOf(info, "pieces", <<>>)
      named == [Cleared EXCEPT !.announce = AnnounceList(dict)]
  IN IF "files" \in DOMAIN info
       THEN [named EXCEPT !.form = "multi", !.sums = sums,
                          !.pieceLength = ValueOf(info, "piece length", 0),
                          !.multi = [i \in DOMAIN info["files"][2] |->
                                       info["files"][2][i][2]["length"][2]]]
     ELSE IF "length" \in DOMAIN info
       THEN [named EXCEPT !.form = "single", !.sums = sums,
                          !.singlePieceLength = ValueOf(info, "piece length", 0),
                          !.single = info["length"][2]]
     ELSE named

\* parse()
ReadingOf(c) ==
  LET result == Parse(c)
  IN IF result.ok /\ "info" \in DOMAIN result.value[2]
       THEN [ok |-> TRUE, meta |-> MetaInfo(result.value[2])]
       ELSE [ok |-> FALSE, meta |-> Cleared]

-----------------------------------------------------------------------------
(* Properties *)

\* A torrent file that is whole is understood: the dictionary is what was written,
\* and the section whose hash identifies the torrent is the value of "info", with
\* the dictionaries inside it and the keys after it, though another dictionary
\* before it has a key of that name.  (One inside it or after it moves the section.
\* Of a damaged file nothing is said here: some are read up to the damage, which
\* ReadingAssumption allows.)
ParsedIsTheTorrent ==
  LET result == Parse(content)
  IN content = Written(torrent) =>
       /\ result.ok
       /\ Dict(result.value[2]) = Meaning(TorrentOf(torrent))
       /\ InfoSection(content, result) = Encode(InfoOf(torrent))
=============================================================================
