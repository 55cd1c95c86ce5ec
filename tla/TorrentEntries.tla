--------------------------- MODULE TorrentEntries ---------------------------
(***************************************************************************)
(* The files the command line processes and the daemon share without a lock: *)
(* torrent-entries.json and next-id (torrent_entries.rs), read by the daemon *)
(* in reload_config (main_loop.rs), and state.json (state_persistence.rs).   *)
(*                                                                         *)
(* Every process reads or writes a file in steps of its own: a write empties *)
(* the file first.  A list of torrents is a function from ids to torrents;   *)
(* what a daemon's numbers are about is the torrent they were counted for.   *)
(***************************************************************************)
EXTENDS Integers, FiniteSets

CONSTANTS
    Commands,   \* processes of the command line, one command at a time each
    Torrents,   \* what the commands add
    MaxId,      \* bound: the largest id given, one digit in next-id
    Overlap     \* commands may run at the same time

ASSUME EntriesAssumption == MaxId \in 1 .. 8 /\ Overlap \in BOOLEAN

Ids == 1 .. MaxId
Lists == UNION { [ids -> Torrents] : ids \in SUBSET Ids }
NoTorrents == [i \in {} |-> i]

VARIABLES
    text,         \* torrent-entries.json: "missing", "empty", "mixed" or "json"
    entries,      \* the list in it when it is "json", or was the last time it was
    next_id,      \* the number in next-id; Missing or Empty
    pc,           \* what each command does next
    view,         \* the list a command has read, then the one it saves
    new_id,       \* the id a command gives; 0 when it removes
    daemon,       \* what the daemon does next
    downloads,    \* the daemon's map from ids to downloads
    counted_for,  \* the torrent the numbers of each download were counted for
    loaded,       \* initial_persistent_state: what state.json held at the start
    state_text,   \* state.json: "missing", "empty" or "json"
    state,        \* what it says when it is "json"
    given         \* every id the list ever had

Missing == 0
Empty   == -1

fileVars    == << text, entries, next_id, given >>
commandVars == << pc, view, new_id >>
daemonVars  == << daemon, downloads, counted_for, loaded, state_text, state >>
vars == << fileVars, commandVars, daemonVars >>

Init ==
    /\ text = "missing" /\ entries = NoTorrents /\ next_id = Missing /\ given = {}
    /\ pc = [c \in Commands |-> "idle"]
    /\ view = [c \in Commands |-> NoTorrents]
    /\ new_id = [c \in Commands |-> 0]
    /\ daemon = "off" /\ downloads = NoTorrents /\ counted_for = NoTorrents
    /\ loaded = NoTorrents /\ state_text = "missing" /\ state = NoTorrents

Becomes(c, from, to) == pc[c] = from /\ pc' = [pc EXCEPT ![c] = to]

(***************************************************************************)
(* init_entries: every process writes an empty list if there is no file.     *)
(***************************************************************************)
InitEntries(c) ==
    /\ Overlap \/ \A d \in Commands : pc[d] = "idle"
    /\ IF text = "missing"
         THEN Becomes(c, "idle", "create") ELSE Becomes(c, "idle", "command")
    /\ new_id' = [new_id EXCEPT ![c] = 0]
    /\ view' = [view EXCEPT ![c] = NoTorrents]
    /\ UNCHANGED << fileVars, daemonVars >>

Truncate(c) ==
    /\ Becomes(c, "create", "write") \/ Becomes(c, "save", "write")
    /\ text' = "empty"
    /\ UNCHANGED << entries, next_id, given, view, new_id, daemonVars >>

\* A file that another process has written since is overwritten from its start; what
\* it held beyond the end of the new text stays.
Write(c) ==
    /\ \/ text = "empty" /\ text' = "json"
       \/ text # "empty" /\ text' \in { "json", "mixed" }
    /\ entries' = IF text' = "json" THEN view[c] ELSE entries
    /\ given' = IF text' = "json" THEN given \cup DOMAIN view[c] ELSE given
    /\ Becomes(c, "write", IF new_id[c] = 0 THEN "idle" ELSE "number")
    /\ UNCHANGED << next_id, view, new_id, daemonVars >>

(***************************************************************************)
(* list_torrents: a text that is not a list ends the process.               *)
(***************************************************************************)
\* get_new_id.
NewId(list) ==
    IF list = NoTorrents THEN 1
    ELSE 1 + (CHOOSE i \in DOMAIN list : \A j \in DOMAIN list : j <= i)

With(list, i, t) == [j \in DOMAIN list \cup {i} |-> IF j = i THEN t ELSE list[j]]
Without(list, i) == [j \in DOMAIN list \ {i} |-> list[j]]

\* Faulty variant: next-id is not looked at.
NumberByListOnly(list) == NewId(list)

\* add_torrent: the larger of next-id and the id after those listed.
Number(list) ==
    IF next_id = Missing \/ next_id < NewId(list) THEN NewId(list) ELSE next_id

AddList(c) ==
    /\ Number(entries) \in Ids
    /\ Becomes(c, "command", IF text = "json" THEN "add" ELSE "idle")
    /\ view' = [view EXCEPT ![c] = IF text = "json" THEN entries ELSE NoTorrents]
    /\ UNCHANGED << fileVars, new_id, daemonVars >>

\* An empty next-id ends the process.
AddNumber(c, t) ==
    /\ Becomes(c, "add", IF next_id = Empty THEN "idle" ELSE "save")
    /\ IF next_id = Empty THEN UNCHANGED << view, new_id >>
       ELSE /\ Number(view[c]) \in Ids
            /\ new_id' = [new_id EXCEPT ![c] = Number(view[c])]
            /\ view' = [view EXCEPT ![c] = With(view[c], Number(view[c]), t)]
    /\ UNCHANGED << fileVars, daemonVars >>

CreateNextId(c) ==
    /\ Becomes(c, "number", "numbered")
    /\ next_id' = Empty
    /\ UNCHANGED << text, entries, given, view, new_id, daemonVars >>

WriteNextId(c) ==
    /\ Becomes(c, "numbered", "idle")
    /\ next_id' = new_id[c] + 1
    /\ UNCHANGED << text, entries, given, view, new_id, daemonVars >>

\* remove_torrent, which ends early when the id is not listed.
RemoveList(c, i) ==
    /\ Becomes(c, "command", IF text = "json" /\ i \in DOMAIN entries THEN "save" ELSE "idle")
    /\ view' = [view EXCEPT ![c] = IF text = "json" THEN Without(entries, i) ELSE NoTorrents]
    /\ UNCHANGED << fileVars, new_id, daemonVars >>

(***************************************************************************)
(* The daemon.  load refuses an empty state.json, and the daemon is gone; it *)
(* starts after a first command has written torrent-entries.json.           *)
(***************************************************************************)
Load ==
    /\ daemon = "off" /\ text # "missing" /\ state_text # "empty"
    /\ daemon' = "loaded"
    /\ loaded' = IF state_text = "json" THEN state ELSE NoTorrents
    /\ UNCHANGED << fileVars, commandVars, downloads, counted_for, state_text, state >>

\* Faulty variant: a download without saved numbers gets none.
CountOnlyLoaded(list) ==
    [i \in DOMAIN downloads \cup (DOMAIN list \cap DOMAIN loaded) |->
        IF i \in DOMAIN downloads THEN counted_for[i] ELSE loaded[i]]

\* set_stats: a new download continues the numbers saved under its id.
Continued(list) ==
    [i \in DOMAIN downloads \cup DOMAIN list |->
        IF i \in DOMAIN downloads THEN counted_for[i]
        ELSE IF i \in DOMAIN loaded THEN loaded[i] ELSE list[i]]

\* Ids the daemon knows keep their download; nothing is ever dropped.
ReloadConfig ==
    /\ daemon \in { "loaded", "running" } /\ text = "json"
    /\ daemon' = "running"
    /\ downloads' = [i \in DOMAIN downloads \cup DOMAIN entries |->
                        IF i \in DOMAIN downloads THEN downloads[i] ELSE entries[i]]
    /\ counted_for' = Continued(entries)
    /\ UNCHANGED << fileVars, commandVars, loaded, state_text, state >>

DaemonGone ==
    /\ daemon' = "off" /\ downloads' = NoTorrents
    /\ counted_for' = NoTorrents /\ loaded' = NoTorrents
    /\ UNCHANGED << fileVars, commandVars, state_text, state >>

\* list_torrents in the middle of a command's write.
ReloadFails == daemon \in { "loaded", "running" } /\ text # "json" /\ DaemonGone

Stop == daemon # "off" /\ DaemonGone

PersistCreate ==
    /\ daemon = "running" /\ daemon' = "persist"
    /\ state_text' = "empty"
    /\ UNCHANGED << fileVars, commandVars, downloads, counted_for, loaded, state >>

PersistWrite ==
    /\ daemon = "persist" /\ daemon' = "running"
    /\ state_text' = "json" /\ state' = counted_for
    /\ UNCHANGED << fileVars, commandVars, downloads, counted_for, loaded >>

Next ==
    \/ \E c \in Commands :
         \/ InitEntries(c) \/ Truncate(c) \/ Write(c)
         \/ AddList(c) \/ \E t \in Torrents : AddNumber(c, t)
         \/ CreateNextId(c) \/ WriteNextId(c)
         \/ \E i \in Ids : RemoveList(c, i)
    \/ Load \/ ReloadConfig \/ ReloadFails \/ Stop
    \/ PersistCreate \/ PersistWrite

Spec == Init /\ [][Next]_vars

-----------------------------------------------------------------------------
\* The types; the numbers are kept for exactly the downloads there are, and a daemon
\* that is off has none.
TypeOK ==
    /\ text \in { "missing", "empty", "mixed", "json" } /\ entries \in Lists
    /\ next_id \in { Missing, Empty } \cup 1 .. MaxId + 1
    /\ pc \in [Commands -> { "idle", "create", "command", "add", "save", "write",
                             "number", "numbered" }]
    /\ view \in [Commands -> Lists] /\ new_id \in [Commands -> 0 .. MaxId]
    /\ daemon \in { "off", "loaded", "running", "persist" }
    /\ downloads \in Lists /\ counted_for \in Lists /\ loaded \in Lists
    /\ DOMAIN counted_for = DOMAIN downloads
    /\ daemon = "off" => downloads = NoTorrents
    /\ state_text \in { "missing", "empty", "json" } /\ state \in Lists
    /\ given \subseteq Ids

\* A daemon that was up while torrents were added and removed downloads, under each id
\* on the list, the torrent that is listed under it: reload_config never replaces a
\* download, so this rests on ids not being given twice.
DaemonAgrees ==
    \A i \in DOMAIN downloads \cap DOMAIN entries : downloads[i] = entries[i]

\* A download goes on from its own numbers, and what `list' prints under an id are the
\* numbers of the torrent it names, across restarts of the daemon.
OwnNumbers ==
    /\ counted_for = downloads
    /\ \A i \in DOMAIN state \cap DOMAIN entries : state[i] = entries[i]

\* Commands that run one after the other keep the promise of TorrentRegistry: nothing
\* added is lost, and no id is given twice, not even that of a removed torrent.
Registry == INSTANCE TorrentRegistry WITH listed <- entries
ImplementsRegistry == Registry!Spec

\* An id that was given once is never given again.
IdsNotReused ==
    [][\A i \in Ids : i \in given /\ i \in DOMAIN entries' =>
          i \in DOMAIN entries /\ entries'[i] = entries[i]]_vars
=============================================================================
