------------------------------- MODULE Session -------------------------------
(***************************************************************************)
(* The list of torrents and how it outlives the program: TorrentModel      *)
(* (addTorrent, setPause, setStop), the TorrentSerializer that loads and   *)
(* saves it (torrentserializer.cpp), and of TorrentClient what is saved:   *)
(* the completed pieces and the bytes transferred.                         *)
(*                                                                         *)
(* Everything runs in the main thread, and every action but LoadRow is one *)
(* event; the program may be killed between two of them.  load() is split  *)
(* into its rounds, during which nothing else happens.                     *)
(***************************************************************************)
EXTENDS Integers, Sequences, FiniteSets, SequencesExt

CONSTANTS
  File,            \* .torrent files
  InfoHash(_),     \* the torrent each of them describes
  Client,          \* TorrentClient objects of one process
  NoFile,          \* the file of an object not created yet
  Pieces,          \* pieces of a torrent
  MaxBytes,        \* bound: bytes counted for a torrent
  MaxLaunches      \* bound: how often the program is started

ASSUME NoFileAssumption == NoFile \notin File
ASSUME BoundAssumption == {Pieces, MaxBytes, MaxLaunches} \subseteq Nat

VARIABLES
  phase,           \* of main(): not running, in load(), in the event loop
  items,           \* TorrentModel::m_items
  client,          \* the TorrentClient objects, also those no item points to
  served,          \* TorrentServer::clients
  stored,          \* "TorrentData" of the QSettings object
  disk,            \* the settings a new process will find
  row,             \* the round of load()
  readable,        \* the torrent files that can be opened
  launches,        \* counter of the bound
  kept             \* history: files on the disk's list that were neither stopped
                   \* nor unreadable when they were to be loaded

vars == <<phase, items, client, served, stored, disk, row, readable, launches, kept>>

Entry == [file : File, completed : 0 .. Pieces, bytes : 0 .. MaxBytes]
ClientState == {"Idle", "Paused", "Stopping", "Preparing", "Active"}
NewClient == [file |-> NoFile, state |-> "Idle", verifying |-> FALSE,
              completed |-> 0, bytes |-> 0]

FilesOf(list) == {list[i].file : i \in DOMAIN list}

Init ==
  /\ phase = "down"
  /\ items = <<>>
  /\ client = [c \in Client |-> NewClient]
  /\ served = {}
  /\ stored = <<>>
  /\ disk = <<>>
  /\ row = 1
  /\ readable = File
  /\ launches = 0
  /\ kept = {}

-----------------------------------------------------------------------------
(* Saving *)

\* Fault: countChanged() is connected before the list has been loaded.
SavesWhileLoading == phase # "down"

\* Fault: only the timer saves.
SavesByTimer == FALSE

\* startAutoSave() has connected countChanged() to save().
AutoSave == phase = "running"

\* What save() writes.
Snapshot(list, objects) ==
  [i \in DOMAIN list |-> [file |-> list[i].file,
                          completed |-> objects[list[i].client].completed,
                          bytes |-> objects[list[i].client].bytes]]

\* The signal countChanged, with the list and the objects as they are then.
CountChanged(list, objects) ==
  stored' = IF AutoSave THEN Snapshot(list, objects) ELSE stored

\* The timer of the serializer fires.
SaveTimer ==
  /\ phase = "running"
  /\ stored' = Snapshot(items, client)
  /\ UNCHANGED <<phase, items, client, served, disk, row, readable, launches, kept>>

\* QSettings writes its changes when the event loop is idle.
Synced ==
  /\ disk' = stored
  /\ kept' = FilesOf(stored) \cap FilesOf(items)

Sync ==
  /\ phase = "running"
  /\ Synced
  /\ UNCHANGED <<phase, items, client, served, stored, row, readable, launches>>

-----------------------------------------------------------------------------
(* Adding and removing torrents *)

\* Fault: only the same file is found again.
IsListedByName(f) == f \in FilesOf(items)

\* The torrent is already in the list.
IsListed(f) == \E i \in DOMAIN items : InfoHash(items[i].file) = InfoHash(f)

Unused == {c \in Client : client[c].file = NoFile}

\* addTorrent with the completed pieces of a dumped state; start() follows the
\* signal, and bytes are what the caller sets afterwards.  A file that cannot be
\* read, and a torrent that is listed, change nothing.
AddTorrent(f, completed, bytes) ==
  IF f \in readable /\ ~IsListed(f)
    THEN LET c == CHOOSE c \in Unused : TRUE
             object(n) == [file |-> f, state |-> "Preparing", verifying |-> TRUE,
                           completed |-> completed, bytes |-> n]
         IN /\ Unused # {}
            /\ items' = Append(items, [file |-> f, client |-> c])
            /\ client' = [client EXCEPT ![c] = object(bytes)]
            /\ served' = served \cup {c}
            /\ CountChanged(items', [client EXCEPT ![c] = object(0)])
    ELSE UNCHANGED <<items, client, served, stored>>

\* The user opens a torrent file.
UserAdds(f) ==
  /\ phase = "running"
  /\ AddTorrent(f, 0, 0)
  /\ UNCHANGED <<phase, disk, row, readable, launches, kept>>

\* setStop: the client is stopped and dropped from the list, but never deleted.
SetStop(i) ==
  LET c == items[i].client
      rest == RemoveAt(items, i)
      stopped == [client EXCEPT ![c].state = IF @ = "Active" THEN "Stopping" ELSE "Idle"]
  IN /\ phase = "running"
     /\ items' = rest
     /\ client' = stopped
     /\ served' = served \ {c}
     /\ CountChanged(rest, stopped)
     /\ kept' = kept \ {items[i].file}
     /\ UNCHANGED <<phase, disk, row, readable, launches>>

\* setPause, as the buttons offer it.
SetPause(i, value) ==
  LET c == items[i].client
  IN /\ phase = "running"
     /\ client[c].state = IF value THEN "Active" ELSE "Paused"
     /\ client' = [client EXCEPT ![c].state = IF value THEN "Paused" ELSE "Active"]
     /\ served' = IF value THEN served \ {c} ELSE served \cup {c}
     /\ UNCHANGED <<phase, items, stored, disk, row, readable, launches, kept>>

-----------------------------------------------------------------------------
(* The clients at work, listed or not *)

\* fullVerificationDone: a dumped state is believed, otherwise the files decide.
\* It does not look at the state, so that a stopped client becomes active.
FullVerificationDone(c) ==
  /\ phase = "running"
  /\ client[c].verifying
  /\ \E n \in IF client[c].completed = 0 THEN 0 .. Pieces ELSE {client[c].completed} :
       client' = [client EXCEPT ![c].completed = n, ![c].state = "Active",
                                ![c].verifying = FALSE]
  /\ UNCHANGED <<phase, items, served, stored, disk, row, readable, launches, kept>>

\* A piece passes its verification.
PieceVerified(c) ==
  /\ phase = "running"
  /\ client[c].state = "Active"
  /\ client[c].completed < Pieces
  /\ client' = [client EXCEPT ![c].completed = @ + 1]
  /\ UNCHANGED <<phase, items, served, stored, disk, row, readable, launches, kept>>

\* peerWireBytesWritten, peerWireBytesReceived
BytesTransferred(c) ==
  /\ phase = "running"
  /\ client[c].state = "Active"
  /\ client[c].bytes < MaxBytes
  /\ client' = [client EXCEPT ![c].bytes = @ + 1]
  /\ UNCHANGED <<phase, items, served, stored, disk, row, readable, launches, kept>>

-----------------------------------------------------------------------------
(* The program starts and ends *)

Launch ==
  /\ phase = "down"
  /\ launches < MaxLaunches
  /\ launches' = launches + 1
  /\ phase' = "loading"
  /\ stored' = disk
  /\ row' = 1
  /\ UNCHANGED <<items, client, served, disk, readable, kept>>

\* Fault: the counters of the entry are not restored.
LoadRowWithoutBytes ==
  /\ phase = "loading"
  /\ row <= Len(stored)
  /\ AddTorrent(stored[row].file, stored[row].completed, 0)
  /\ row' = row + 1
  /\ kept' = IF stored[row].file \in readable THEN kept ELSE kept \ {stored[row].file}
  /\ UNCHANGED <<phase, disk, readable, launches>>

\* A round of load().
LoadRow ==
  /\ phase = "loading"
  /\ row <= Len(stored)
  /\ AddTorrent(stored[row].file, stored[row].completed, stored[row].bytes)
  /\ row' = row + 1
  /\ kept' = IF stored[row].file \in readable THEN kept ELSE kept \ {stored[row].file}
  /\ UNCHANGED <<phase, disk, readable, launches>>

\* startAutoSave, and the event loop.
StartAutoSave ==
  /\ phase = "loading"
  /\ row > Len(stored)
  /\ phase' = "running"
  /\ UNCHANGED <<items, client, served, stored, disk, row, readable, launches, kept>>

\* Nothing of the process is left.
Gone ==
  /\ phase' = "down"
  /\ items' = <<>>
  /\ client' = [c \in Client |-> NewClient]
  /\ served' = {}
  /\ UNCHANGED <<stored, row, readable, launches>>

\* The destructor of the serializer writes the settings, without a last save().
Quit == phase = "running" /\ Synced /\ Gone

Crash == phase # "down" /\ Gone /\ UNCHANGED <<disk, kept>>

\* A torrent file is moved away, or is back.
FileComesOrGoes(f) ==
  /\ readable' = IF f \in readable THEN readable \ {f} ELSE readable \cup {f}
  /\ phase = "down"
  /\ UNCHANGED <<phase, items, client, served, stored, disk, row, launches, kept>>

Next ==
  \/ SaveTimer \/ Sync \/ Launch \/ LoadRow \/ StartAutoSave \/ Quit \/ Crash
  \/ \E f \in File : UserAdds(f) \/ FileComesOrGoes(f)
  \/ \E i \in DOMAIN items : SetStop(i) \/ SetPause(i, TRUE) \/ SetPause(i, FALSE)
  \/ \E c \in Client :
       FullVerificationDone(c) \/ PieceVerified(c) \/ BytesTransferred(c)

Spec == Init /\ [][Next]_vars

-----------------------------------------------------------------------------
(* Properties *)

\* Every variable has its type.
TypeOK ==
  /\ phase \in {"down", "loading", "running"}
  /\ items \in Seq([file : File, client : Client])
  /\ client \in [Client -> [file : File \cup {NoFile}, state : ClientState,
                            verifying : BOOLEAN, completed : 0 .. Pieces, bytes : 0 .. MaxBytes]]
  /\ served \subseteq Client
  /\ {stored, disk} \subseteq Seq(Entry)
  /\ row \in Nat \ {0}
  /\ readable \subseteq File
  /\ launches \in 0 .. MaxLaunches
  /\ kept \subseteq File

\* A torrent is listed once, and incoming connections for it find one client: a
\* torrent that was removed and added again is not served by its first client too.
NoTorrentTwice ==
  /\ \A i, j \in DOMAIN items :
       InfoHash(items[i].file) = InfoHash(items[j].file) => i = j
  /\ \A c, d \in served : InfoHash(client[c].file) = InfoHash(client[d].file) => c = d

\* The list shows, in their order, the given rows of the settings whose file can be
\* read, and nothing else.
Shows(list, entries, rows, files) ==
  \E at \in [DOMAIN list -> rows] :
    /\ \A i, j \in DOMAIN list : i < j => at[i] < at[j]
    /\ \A i \in DOMAIN list : entries[at[i]].file = list[i].file
    /\ {at[i] : i \in DOMAIN list} = {k \in rows : entries[k].file \in files}

\* In the event loop the settings name the torrents of the list, in its order, and
\* besides them at most those whose file could not be read at the start.
SavedListIsShown ==
  phase = "running" => Shows(items, stored, DOMAIN stored, readable)

\* A torrent that reached the disk stays there and comes back after a quit or a
\* crash, at whatever moment, until the user stops it or its file cannot be read.
TorrentsAreKept ==
  /\ kept \subseteq FilesOf(disk)
  /\ phase = "running" => kept \subseteq FilesOf(items)

\* While a torrent stays in the settings what they say of its progress never falls:
\* not when it is loaded, verified again, paused or saved before it has started.
ProgressIsKept ==
  [][phase # "down" =>
       \A i \in DOMAIN stored, j \in DOMAIN stored' :
         stored[i].file = stored'[j].file =>
           /\ stored[i].completed <= stored'[j].completed
           /\ stored[i].bytes <= stored'[j].bytes]_vars
=============================================================================
