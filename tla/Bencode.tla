------------------------------- MODULE Bencode -------------------------------
(***************************************************************************)
(* BencodeParser (bencodeparser.cpp).  The content of a torrent file is a  *)
(* sequence of tokens: <<"int", n>>, <<"str", s>> and the one-byte tokens  *)
(* "d", "l" and "e", and <<"x">> for bytes that start no value.  m_index,  *)
(* m_infoStart and m_infoLength count tokens.                              *)
(*                                                                         *)
(* Only this module declares RECURSIVE operators; nothing is proved of it. *)
(***************************************************************************)
EXTENDS Integers, Sequences, FiniteSets, SequencesExt

D == <<"d">>
L == <<"l">>
E == <<"e">>
X == <<"x">>

\* A parsed value: an integer, a string, a list, or a dictionary as a function from
\* its keys.
Number(n) == <<"int", n>>
Str(s) == <<"str", s>>
List(values) == <<"list", values>>
Dict(f) == <<"dict", f>>

-----------------------------------------------------------------------------
(* What the file says *)

\* A dictionary is written as the sequence of its <<key, value>> pairs.
Pairs(entries) == <<"pairs", entries>>

RECURSIVE Encode(_)
Encode(value) ==
  CASE value[1] \in {"int", "str"} -> <<value>>
    [] value[1] = "list" -> <<L>> \o FlattenSeq([i \in DOMAIN value[2] |-> Encode(value[2][i])])
                                  \o <<E>>
    [] value[1] = "pairs" ->
         <<D>> \o FlattenSeq([i \in DOMAIN value[2] |->
                                <<Str(value[2][i][1])>> \o Encode(value[2][i][2])])
               \o <<E>>

RECURSIVE Meaning(_)
Meaning(value) ==
  CASE value[1] \in {"int", "str"} -> value
    [] value[1] = "list" -> List([i \in DOMAIN value[2] |-> Meaning(value[2][i])])
    [] value[1] = "pairs" ->
         LET entries == value[2]
         IN Dict([key \in {entries[i][1] : i \in DOMAIN entries} |->
                    Meaning(entries[CHOOSE i \in DOMAIN entries : entries[i][1] = key][2])])

-----------------------------------------------------------------------------
(* The parser *)

\* Where the parser is, and what it has noted of the info section.
State(index, start, length) == [index |-> index, start |-> start, length |-> length]
Failed(at) == [ok |-> FALSE, value |-> E, at |-> at]
Parsed(value, at) == [ok |-> TRUE, value |-> value, at |-> at]

Step(at) == [at EXCEPT !.index = @ + 1]

\* The loops of getList and getDictionary end with the content.
AtEnd(content, at) == at.index > Len(content)

RECURSIVE GetValue(_, _), GetItems(_, _, _), GetEntries(_, _, _)

\* getInteger, getByteString, getList or getDictionary, in this order.  An
\* alternative that fails leaves the index where nothing can be read, so that those
\* tried after it fail as well.
GetValue(content, at) ==
  LET token == content[at.index]
  IN CASE token[1] \in {"int", "str"} -> Parsed(token, Step(at))
       [] token[1] = "l" -> GetItems(content, Step(at), <<>>)
       [] token[1] = "d" -> GetEntries(content, Step(at), <<>>)
       [] OTHER -> Failed(at)

\* getList, after its first byte.
GetItems(content, at, values) ==
  IF AtEnd(content, at) THEN Parsed(List(values), at)
  ELSE IF content[at.index] = E THEN Parsed(List(values), Step(at))
  ELSE LET item == GetValue(content, at)
       IN IF item.ok THEN GetItems(content, item.at, Append(values, item.value))
                     ELSE Failed(item.at)

\* Fault: the section ends where the key of the next entry starts.
SectionEndWithKey(key, at) ==
  IF key = "info" THEN State(at.index, at.start, at.index - at.start + 1) ELSE at

\* m_infoStart and m_infoLength are set at every key "info", at whatever depth.
SectionStart(key, at) ==
  IF key = "info" THEN State(at.index, at.index, at.length) ELSE at
SectionEnd(key, at) ==
  IF key = "info" THEN State(at.index, at.start, at.index - at.start) ELSE at

\* getDictionary, after its first byte: a key that is no string ends it as well.
\* `map' holds the pairs; the last one with a key counts.
GetEntries(content, at, map) ==
  LET last(key) == CHOOSE i \in DOMAIN map :
                     /\ map[i][1] = key
                     /\ \A j \in i + 1 .. Len(map) : map[j][1] # key
      dict == Dict([key \in {map[i][1] : i \in DOMAIN map} |-> map[last(key)][2]])
  IN IF AtEnd(content, at) THEN Parsed(dict, at)
     ELSE IF content[at.index] = E THEN Parsed(dict, Step(at))
     ELSE IF content[at.index][1] # "str" THEN Parsed(dict, at)
     ELSE LET key == content[at.index][2]
              entry == GetValue(content, SectionStart(key, Step(at)))
          IN IF entry.ok
               THEN GetEntries(content, SectionEnd(key, entry.at),
                               Append(map, <<key, entry.value>>))
               ELSE Failed(entry.at)

\* parse()
Parse(content) ==
  LET start == State(1, 1, 0)
  IN IF content = <<>> \/ content[1] # D THEN Failed(start)
     ELSE GetEntries(content, Step(start), <<>>)

\* infoSection()
InfoSection(content, result) ==
  SubSeq(content, result.at.start, result.at.start + result.at.length - 1)
=============================================================================
