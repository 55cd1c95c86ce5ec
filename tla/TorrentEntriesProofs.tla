------------------------ MODULE TorrentEntriesProofs -------------------------
(***************************************************************************)
(* Theorems about TorrentEntries: types however commands overlap; and for    *)
(* commands that run one after the other, whatever the daemon does meanwhile, *)
(* that ids are never given twice, that the daemon and its numbers agree      *)
(* with the list, and the refinement of TorrentRegistry.                     *)
(***************************************************************************)
EXTENDS TorrentEntries, TLAPS

-----------------------------------------------------------------------------
(***************************************************************************)
(* Lists.                                                                  *)
(***************************************************************************)
LEMMA ListDef ==
    ASSUME NEW list
    PROVE  list \in Lists <=> /\ list = [i \in DOMAIN list |-> list[i]]
                              /\ DOMAIN list \subseteq Ids
                              /\ \A i \in DOMAIN list : list[i] \in Torrents
<1>1. ASSUME list \in Lists
      PROVE  /\ list = [i \in DOMAIN list |-> list[i]]
             /\ DOMAIN list \subseteq Ids
             /\ \A i \in DOMAIN list : list[i] \in Torrents
  BY <1>1 DEF Lists
<1>2. ASSUME list = [i \in DOMAIN list |-> list[i]], DOMAIN list \subseteq Ids,
             \A i \in DOMAIN list : list[i] \in Torrents
      PROVE  list \in Lists
  <2>1. list \in [DOMAIN list -> Torrents]
    BY <1>2
  <2> QED BY <1>2, <2>1 DEF Lists
<1> QED BY <1>1, <1>2

LEMMA NoTorrentsList == NoTorrents \in Lists /\ DOMAIN NoTorrents = {}
BY DEF NoTorrents, Lists

LEMMA WithList ==
    ASSUME NEW list \in Lists, NEW i \in Ids, NEW t \in Torrents
    PROVE  With(list, i, t) \in Lists
<1>1. DOMAIN With(list, i, t) = DOMAIN list \cup {i}
  BY DEF With
<1>2. DOMAIN list \subseteq Ids /\ \A j \in DOMAIN list : list[j] \in Torrents
  BY ListDef
<1> QED BY <1>1, <1>2, ListDef DEF With

LEMMA WithoutList ==
    ASSUME NEW list \in Lists, NEW i
    PROVE  Without(list, i) \in Lists
<1>1. DOMAIN list \subseteq Ids /\ \A j \in DOMAIN list : list[j] \in Torrents
  BY ListDef
<1>2. Without(list, i) \in [DOMAIN list \ {i} -> Torrents]
  BY <1>1 DEF Without
<1> QED BY <1>1, <1>2 DEF Lists

\* Two lists joined, the first going before the second.
LEMMA JoinedList ==
    ASSUME NEW first \in Lists, NEW second \in Lists,
           NEW f, f = [i \in DOMAIN first \cup DOMAIN second |->
                          IF i \in DOMAIN first THEN first[i] ELSE second[i]]
    PROVE  f \in Lists /\ DOMAIN f = DOMAIN first \cup DOMAIN second
<1>1. /\ DOMAIN first \subseteq Ids /\ \A j \in DOMAIN first : first[j] \in Torrents
      /\ DOMAIN second \subseteq Ids /\ \A j \in DOMAIN second : second[j] \in Torrents
  BY ListDef
<1>2. f \in [DOMAIN first \cup DOMAIN second -> Torrents]
  BY <1>1
<1> QED BY <1>1, <1>2 DEF Lists

-----------------------------------------------------------------------------
(***************************************************************************)
(* Types, whether commands overlap or not.                                  *)
(***************************************************************************)
LEMMA InitTypes == Init => TypeOK
BY NoTorrentsList, EntriesAssumption DEF Init, TypeOK

LEMMA CommandTypes ==
    ASSUME TypeOK, NEW c \in Commands,
           \/ InitEntries(c) \/ Truncate(c) \/ Write(c)
           \/ AddList(c) \/ \E t \in Torrents : AddNumber(c, t)
           \/ CreateNextId(c) \/ WriteNextId(c)
           \/ \E i \in Ids : RemoveList(c, i)
    PROVE  TypeOK'
<1> USE DEF Becomes, fileVars, daemonVars
<1>1. CASE InitEntries(c)
  BY <1>1, NoTorrentsList, EntriesAssumption DEF InitEntries, TypeOK
<1>2. CASE Truncate(c)
  BY <1>2 DEF Truncate, TypeOK
<1>3. CASE Write(c)
  <2>1. view[c] \in Lists /\ DOMAIN view[c] \subseteq Ids
    BY ListDef DEF TypeOK
  <2>2. entries' \in Lists /\ given' \subseteq Ids
    BY <1>3, <2>1 DEF Write, TypeOK
  <2> QED BY <1>3, <2>2 DEF Write, TypeOK
<1>4. CASE AddList(c)
  <2>1. view' \in [Commands -> Lists]
    BY <1>4, NoTorrentsList DEF AddList, TypeOK
  <2> QED BY <1>4, <2>1 DEF AddList, TypeOK
<1>5. ASSUME NEW t \in Torrents, AddNumber(c, t) PROVE TypeOK'
  <2>1. CASE next_id = Empty
    BY <1>5, <2>1 DEF AddNumber, TypeOK
  <2>2. CASE next_id # Empty
    <3>1. Number(view[c]) \in Ids /\ Number(view[c]) \in 0 .. MaxId
      BY <1>5, <2>2, EntriesAssumption DEF AddNumber, Ids
    <3>2. With(view[c], Number(view[c]), t) \in Lists
      BY <3>1, WithList DEF TypeOK
    <3>3. view' \in [Commands -> Lists] /\ new_id' \in [Commands -> 0 .. MaxId]
      BY <1>5, <2>2, <3>1, <3>2 DEF AddNumber, TypeOK
    <3> QED BY <1>5, <2>2, <3>3 DEF AddNumber, TypeOK
  <2> QED BY <2>1, <2>2
<1>6. CASE CreateNextId(c)
  BY <1>6 DEF CreateNextId, TypeOK
<1>7. CASE WriteNextId(c)
  <2>1. next_id' \in 1 .. MaxId + 1
    BY <1>7, EntriesAssumption DEF WriteNextId, TypeOK
  <2> QED BY <1>7, <2>1 DEF WriteNextId, TypeOK
<1>8. ASSUME NEW i \in Ids, RemoveList(c, i) PROVE TypeOK'
  <2>1. view' \in [Commands -> Lists]
    BY <1>8, NoTorrentsList, WithoutList DEF RemoveList, TypeOK
  <2> QED BY <1>8, <2>1 DEF RemoveList, TypeOK
<1> QED BY <1>1, <1>2, <1>3, <1>4, <1>5, <1>6, <1>7, <1>8

LEMMA DaemonTypes ==
    ASSUME TypeOK, Load \/ ReloadConfig \/ ReloadFails \/ Stop \/ PersistCreate \/ PersistWrite
    PROVE  TypeOK'
<1> USE DEF fileVars, commandVars
<1>1. CASE Load
  BY <1>1, NoTorrentsList DEF Load, TypeOK
<1>2. CASE ReloadConfig
  <2>1. downloads' \in Lists /\ DOMAIN downloads' = DOMAIN downloads \cup DOMAIN entries
    BY <1>2, JoinedList DEF ReloadConfig, TypeOK
  <2>2. /\ counted_for' \in [DOMAIN downloads \cup DOMAIN entries -> Torrents]
        /\ DOMAIN downloads \cup DOMAIN entries \subseteq Ids
    <3>1. \A list \in Lists : /\ DOMAIN list \subseteq Ids
                              /\ \A i \in DOMAIN list : list[i] \in Torrents
      BY ListDef
    <3>2. counted_for' = Continued(entries)
      BY <1>2 DEF ReloadConfig
    <3> QED BY <3>1, <3>2 DEF Continued, TypeOK
  <2>3. counted_for' \in Lists /\ DOMAIN counted_for' = DOMAIN downloads'
    BY <2>1, <2>2 DEF Lists
  <2> QED BY <1>2, <2>1, <2>3 DEF ReloadConfig, TypeOK
<1>3. CASE ReloadFails \/ Stop
  BY <1>3, NoTorrentsList DEF ReloadFails, Stop, DaemonGone, TypeOK
<1>4. CASE PersistCreate
  BY <1>4 DEF PersistCreate, TypeOK
<1>5. CASE PersistWrite
  BY <1>5 DEF PersistWrite, TypeOK
<1> QED BY <1>1, <1>2, <1>3, <1>4, <1>5

LEMMA TypeStep == TypeOK /\ [Next]_vars => TypeOK'
<1> SUFFICES ASSUME TypeOK, [Next]_vars PROVE TypeOK'
  OBVIOUS
<1>1. CASE UNCHANGED vars
  BY <1>1 DEF vars, fileVars, commandVars, daemonVars, TypeOK
<1> QED BY <1>1, CommandTypes, DaemonTypes DEF Next

\* In every reachable state, however commands overlap, the files hold lists of torrents
\* and the daemon's numbers are kept for exactly the downloads it has.
THEOREM EntriesTyped == Spec => []TypeOK
<1> QED BY InitTypes, TypeStep, PTL DEF Spec

-----------------------------------------------------------------------------
(***************************************************************************)
(* Commands that run one after the other.                                   *)
(***************************************************************************)
OneCommand == \A c, d \in Commands : pc[c] # "idle" /\ pc[d] # "idle" => c = d

At(places) == \E c \in Commands : pc[c] \in places

\* Every id given is below the next one, from the end of an addition to the middle of
\* the next; the list is empty for as long as it is written.
FilesAgree ==
    /\ text # "mixed" /\ (text = "empty" => At({ "write" }))
    /\ text = "missing" => entries = NoTorrents
    /\ DOMAIN entries \subseteq given
    /\ next_id = Empty => At({ "numbered" })
    /\ ~At({ "number", "numbered" }) =>
          IF next_id = Missing THEN given = {} ELSE \A i \in given : i < next_id

\* What a command is about to save: the list as it is, without one torrent, or with one
\* more under an id above all that were given.
Saves(c) ==
    \/ new_id[c] = 0 /\ view[c] = entries
    \/ new_id[c] = 0 /\ \E i \in DOMAIN entries : view[c] = Without(entries, i)
    \/ /\ new_id[c] \in Ids /\ \A i \in given : i < new_id[c]
       /\ \E t \in Torrents : view[c] = With(entries, new_id[c], t)

CommandAgrees(c) ==
    /\ pc[c] = "create" => text = "missing" /\ view[c] = NoTorrents
    /\ pc[c] \in { "create", "command" } => new_id[c] = 0
    /\ pc[c] \in { "command", "add", "save", "number", "numbered" } => text = "json"
    /\ pc[c] = "add" => view[c] = entries
    /\ pc[c] = "write" => text = "empty"
    /\ pc[c] \in { "save", "write" } => Saves(c)
    /\ pc[c] \in { "number", "numbered" } =>
          new_id[c] \in Ids /\ \A i \in given : i <= new_id[c]

SerialInv == OneCommand /\ FilesAgree /\ \A c \in Commands : CommandAgrees(c)

\* What the daemon has read of the list at one time or another, or saved of it, is still
\* true of it.
Remembers(list) ==
    /\ DOMAIN list \subseteq given
    /\ \A i \in DOMAIN list \cap DOMAIN entries : list[i] = entries[i]

MemoryInv ==
    /\ counted_for = downloads
    /\ Remembers(downloads) /\ Remembers(loaded) /\ Remembers(state)

LEMMA InitSerial == Init => SerialInv /\ MemoryInv
BY NoTorrentsList DEF Init, SerialInv, OneCommand, FilesAgree, CommandAgrees, At, MemoryInv,
                      Remembers, Missing, Empty

\* A step of the only command leaves the others idle.
LEMMA OthersIdle ==
    ASSUME TypeOK, SerialInv, ~Overlap, NEW c \in Commands, NEW from, NEW to,
           Becomes(c, from, to),
           from # "idle" \/ \A d \in Commands : pc[d] = "idle"
    PROVE  /\ pc'[c] = to /\ \A d \in Commands \ {c} : pc[d] = "idle" /\ pc'[d] = "idle"
           /\ OneCommand'
<1>1. pc'[c] = to /\ \A d \in Commands \ {c} : pc'[d] = pc[d]
  BY DEF Becomes, TypeOK
<1>2. \A d \in Commands \ {c} : pc[d] = "idle"
  BY DEF Becomes, SerialInv, OneCommand
<1> QED BY <1>1, <1>2 DEF OneCommand

\* The two files when one command only is at work: what the invariant says of them, and
\* what it takes to keep it.
Files(c) ==
    /\ text \in { "missing", "empty", "json" }
    /\ text = "empty" => pc[c] = "write"
    /\ text = "missing" => entries = NoTorrents
    /\ DOMAIN entries \subseteq given
    /\ next_id = Empty => pc[c] = "numbered"
    /\ pc[c] \notin { "number", "numbered" } =>
         IF next_id = Missing THEN given = {} ELSE \A i \in given : i < next_id

LEMMA FilesKnown ==
    ASSUME TypeOK, SerialInv, NEW c \in Commands, \A d \in Commands \ {c} : pc[d] = "idle"
    PROVE  Files(c) /\ CommandAgrees(c)
<1>1. At({ "write" }) => pc[c] = "write"
  BY DEF At
<1>2. At({ "numbered" }) => pc[c] = "numbered"
  BY DEF At
<1>3. At({ "number", "numbered" }) => pc[c] \in { "number", "numbered" }
  BY DEF At
<1> QED BY <1>1, <1>2, <1>3 DEF SerialInv, FilesAgree, Files, TypeOK

LEMMA FilesKept ==
    ASSUME NEW c \in Commands, \A d \in Commands \ {c} : pc'[d] = "idle",
           OneCommand', Files(c)', CommandAgrees(c)'
    PROVE  SerialInv'
<1>1. \A d \in Commands \ {c} : CommandAgrees(d)'
  BY DEF CommandAgrees
<1>2. FilesAgree'
  BY DEF FilesAgree, At, Files
<1> QED BY <1>1, <1>2 DEF SerialInv

LEMMA CommandSerial ==
    ASSUME TypeOK, SerialInv, ~Overlap, NEW c \in Commands,
           \/ InitEntries(c) \/ Truncate(c) \/ Write(c)
           \/ AddList(c) \/ \E t \in Torrents : AddNumber(c, t)
           \/ CreateNextId(c) \/ WriteNextId(c)
           \/ \E i \in Ids : RemoveList(c, i)
    PROVE  SerialInv'
<1> USE DEF fileVars, daemonVars
<1>0. /\ pc \in [Commands -> { "idle", "create", "command", "add", "save", "write",
                               "number", "numbered" }]
      /\ view \in [Commands -> Lists] /\ new_id \in [Commands -> 0 .. MaxId]
      /\ given \subseteq Ids
  BY DEF TypeOK
<1>1. CASE InitEntries(c)
  <2>1. PICK to \in { "create", "command" } :
          Becomes(c, "idle", to) /\ (to = "create" <=> text = "missing")
    BY <1>1 DEF InitEntries
  <2>2. \A d \in Commands : pc[d] = "idle"
    BY <1>1 DEF InitEntries
  <2>3. pc'[c] = to /\ (\A d \in Commands \ {c} : pc'[d] = "idle") /\ OneCommand'
    BY <2>1, <2>2, OthersIdle
  <2>4. Files(c)
    BY <2>2, FilesKnown
  <2>5. new_id'[c] = 0 /\ view'[c] = NoTorrents /\ UNCHANGED << text, entries, next_id, given >>
    BY <1>0, <1>1 DEF InitEntries
  <2>6. text = "missing" \/ text = "json"
    BY <2>2, <2>4 DEF Files
  <2>7. Files(c)'
    BY <2>2, <2>3, <2>4, <2>5 DEF Files
  <2>8. CommandAgrees(c)'
    BY <2>1, <2>3, <2>5, <2>6 DEF CommandAgrees
  <2> QED BY <2>3, <2>7, <2>8, FilesKept
<1>2. CASE Truncate(c)
  <2>1. PICK from \in { "create", "save" } : Becomes(c, from, "write")
    BY <1>2 DEF Truncate
  <2>2. /\ pc'[c] = "write" /\ OneCommand'
        /\ \A d \in Commands \ {c} : pc[d] = "idle" /\ pc'[d] = "idle"
    BY <2>1, OthersIdle
  <2>3. Files(c) /\ CommandAgrees(c)
    BY <2>2, FilesKnown
  <2>4. pc[c] = from /\ text' = "empty" /\ UNCHANGED << entries, next_id, given, view, new_id >>
    BY <1>2, <2>1 DEF Truncate, Becomes
  <2>5. Files(c)'
    BY <2>2, <2>3, <2>4 DEF Files
  <2>6. Saves(c)
    <3>1. CASE from = "create"
      BY <2>3, <2>4, <3>1 DEF CommandAgrees, Files, Saves
    <3>2. CASE from = "save"
      BY <2>3, <2>4, <3>2 DEF CommandAgrees
    <3> QED BY <3>1, <3>2
  <2>7. Saves(c)'
    BY <2>4, <2>6 DEF Saves
  <2>8. CommandAgrees(c)'
    BY <2>2, <2>4, <2>7 DEF CommandAgrees
  <2> QED BY <2>2, <2>5, <2>8, FilesKept
<1>3. CASE Write(c)
  <2>1. Becomes(c, "write", IF new_id[c] = 0 THEN "idle" ELSE "number")
    BY <1>3 DEF Write
  <2>2. /\ pc'[c] = (IF new_id[c] = 0 THEN "idle" ELSE "number") /\ OneCommand'
        /\ \A d \in Commands \ {c} : pc[d] = "idle" /\ pc'[d] = "idle"
    BY <2>1, OthersIdle
  <2>3. Files(c) /\ CommandAgrees(c) /\ pc[c] = "write"
    BY <2>1, <2>2, FilesKnown DEF Becomes
  <2>4. /\ text' = "json" /\ entries' = view[c] /\ given' = given \cup DOMAIN view[c]
        /\ UNCHANGED << next_id, view, new_id >>
    BY <1>3, <2>3 DEF Write, CommandAgrees
  <2>5. DOMAIN entries' \subseteq given' /\ next_id' # Empty
    BY <2>3, <2>4 DEF Files
  <2>6. CASE new_id[c] = 0
    <3>1. DOMAIN view[c] \subseteq given
      <4>1. view[c] = entries \/ \E i \in DOMAIN entries : view[c] = Without(entries, i)
        BY <2>3, <2>6, EntriesAssumption DEF CommandAgrees, Saves, Ids
      <4>2. \A i : DOMAIN Without(entries, i) \subseteq DOMAIN entries
        BY DEF Without
      <4> QED BY <2>3, <4>1, <4>2 DEF Files
    <3>2. given' = given
      BY <2>4, <3>1
    <3>3. Files(c)'
      BY <2>2, <2>3, <2>4, <2>5, <2>6, <3>2 DEF Files
    <3>4. CommandAgrees(c)'
      BY <2>2, <2>6 DEF CommandAgrees
    <3> QED BY <2>2, <3>3, <3>4, FilesKept
  <2>7. CASE new_id[c] # 0
    <3>1. /\ new_id[c] \in Ids /\ \A i \in given : i < new_id[c]
          /\ DOMAIN view[c] = DOMAIN entries \cup {new_id[c]}
      BY <2>3, <2>7 DEF CommandAgrees, Saves, With
    <3>2. given' = given \cup {new_id[c]}
      BY <2>3, <2>4, <3>1 DEF Files
    <3>3. \A i \in given' : i <= new_id'[c]
      BY <1>0, <2>4, <3>1, <3>2 DEF Ids
    <3>4. Files(c)'
      BY <2>2, <2>4, <2>5, <2>7 DEF Files
    <3>5. CommandAgrees(c)'
      BY <2>2, <2>4, <2>7, <3>1, <3>3 DEF CommandAgrees
    <3> QED BY <2>2, <3>4, <3>5, FilesKept
  <2> QED BY <2>6, <2>7
<1>4. CASE AddList(c) \/ \E i \in Ids : RemoveList(c, i)
  <2>1. PICK to \in { "add", "save", "idle" } : Becomes(c, "command", to)
    BY <1>4 DEF AddList, RemoveList
  <2>2. /\ pc'[c] = to /\ OneCommand'
        /\ \A d \in Commands \ {c} : pc[d] = "idle" /\ pc'[d] = "idle"
    BY <2>1, OthersIdle
  <2>3. Files(c) /\ CommandAgrees(c) /\ pc[c] = "command"
    BY <2>1, <2>2, FilesKnown DEF Becomes
  <2>4. text = "json" /\ new_id[c] = 0
    BY <2>3 DEF CommandAgrees
  <2>5. UNCHANGED << text, entries, next_id, given, new_id >>
    BY <1>4 DEF AddList, RemoveList
  <2>6. Files(c)'
    BY <2>2, <2>3, <2>5 DEF Files
  <2>7. CASE AddList(c)
    <3>1. view'[c] = entries /\ pc'[c] = "add"
      BY <1>0, <2>4, <2>7 DEF AddList, Becomes
    <3>2. CommandAgrees(c)'
      BY <2>4, <2>5, <3>1 DEF CommandAgrees
    <3> QED BY <2>2, <2>6, <3>2, FilesKept
  <2>8. ASSUME NEW i \in Ids, RemoveList(c, i) PROVE SerialInv'
    <3>1. /\ view'[c] = Without(entries, i)
          /\ pc'[c] = IF i \in DOMAIN entries THEN "save" ELSE "idle"
      BY <1>0, <2>4, <2>8 DEF RemoveList, Becomes
    <3>2. i \in DOMAIN entries => Saves(c)'
      BY <2>4, <2>5, <3>1 DEF Saves
    <3>3. CommandAgrees(c)'
      BY <2>4, <2>5, <3>1, <3>2 DEF CommandAgrees
    <3> QED BY <2>2, <2>6, <3>3, FilesKept
  <2> QED BY <1>4, <2>7, <2>8
<1>5. ASSUME NEW t \in Torrents, AddNumber(c, t) PROVE SerialInv'
  <2>1. Becomes(c, "add", IF next_id = Empty THEN "idle" ELSE "save")
    BY <1>5 DEF AddNumber
  <2>2. /\ pc'[c] = (IF next_id = Empty THEN "idle" ELSE "save") /\ OneCommand'
        /\ \A d \in Commands \ {c} : pc[d] = "idle" /\ pc'[d] = "idle"
    BY <2>1, OthersIdle
  <2>3. Files(c) /\ CommandAgrees(c) /\ pc[c] = "add"
    BY <2>1, <2>2, FilesKnown DEF Becomes
  <2>4. next_id # Empty /\ text = "json" /\ view[c] = entries
    BY <2>3 DEF Files, CommandAgrees
  <2> DEFINE n == Number(entries)
  <2>5. /\ n \in Ids /\ new_id'[c] = n /\ view'[c] = With(entries, n, t)
        /\ UNCHANGED << text, entries, next_id, given >>
    BY <1>0, <1>5, <2>4 DEF AddNumber
  <2>6. \A i \in given : i < n
    <3>1. IF next_id = Missing THEN given = {} ELSE \A i \in given : i < next_id
      BY <2>3 DEF Files
    <3>2. CASE next_id # Missing /\ next_id < NewId(entries)
      <4>1. n = NewId(entries)
        BY <3>2 DEF Number
      <4>2. next_id \in Int
        BY <3>2, EntriesAssumption DEF TypeOK, Empty
      <4> QED BY <1>0, <2>5, <3>1, <3>2, <4>1, <4>2 DEF Ids
    <3>3. CASE next_id # Missing /\ ~(next_id < NewId(entries))
      BY <3>1, <3>3 DEF Number
    <3> QED BY <3>1, <3>2, <3>3
  <2> HIDE DEF n
  <2>7. Files(c)'
    BY <2>2, <2>3, <2>4, <2>5 DEF Files
  <2>8. Saves(c)'
    BY <2>5, <2>6 DEF Saves
  <2>9. CommandAgrees(c)'
    BY <2>2, <2>4, <2>5, <2>8 DEF CommandAgrees
  <2> QED BY <2>2, <2>7, <2>9, FilesKept
<1>6. CASE CreateNextId(c)
  <2>1. Becomes(c, "number", "numbered")
    BY <1>6 DEF CreateNextId
  <2>2. /\ pc'[c] = "numbered" /\ OneCommand'
        /\ \A d \in Commands \ {c} : pc[d] = "idle" /\ pc'[d] = "idle"
    BY <2>1, OthersIdle
  <2>3. Files(c) /\ CommandAgrees(c) /\ pc[c] = "number"
    BY <2>1, <2>2, FilesKnown DEF Becomes
  <2>4. UNCHANGED << text, entries, given, view, new_id >>
    BY <1>6 DEF CreateNextId
  <2>5. Files(c)' /\ CommandAgrees(c)'
    BY <2>2, <2>3, <2>4 DEF Files, CommandAgrees
  <2> QED BY <2>2, <2>5, FilesKept
<1>7. CASE WriteNextId(c)
  <2>1. Becomes(c, "numbered", "idle")
    BY <1>7 DEF WriteNextId
  <2>2. /\ pc'[c] = "idle" /\ OneCommand'
        /\ \A d \in Commands \ {c} : pc[d] = "idle" /\ pc'[d] = "idle"
    BY <2>1, OthersIdle
  <2>3. Files(c) /\ CommandAgrees(c) /\ pc[c] = "numbered"
    BY <2>1, <2>2, FilesKnown DEF Becomes
  <2>4. next_id' = new_id[c] + 1 /\ UNCHANGED << text, entries, given, view, new_id >>
    BY <1>7 DEF WriteNextId
  <2>5. /\ next_id' # Empty /\ next_id' # Missing
        /\ \A i \in given : i < next_id'
    BY <1>0, <2>3, <2>4, EntriesAssumption DEF CommandAgrees, Ids, Empty, Missing
  <2>6. Files(c)' /\ CommandAgrees(c)'
    BY <2>2, <2>3, <2>4, <2>5 DEF Files, CommandAgrees
  <2> QED BY <2>2, <2>6, FilesKept
<1> QED BY <1>1, <1>2, <1>3, <1>4, <1>5, <1>6, <1>7

LEMMA DaemonLeavesFiles ==
    ASSUME Load \/ ReloadConfig \/ ReloadFails \/ Stop \/ PersistCreate \/ PersistWrite
    PROVE  UNCHANGED << fileVars, commandVars >>
BY DEF Load, ReloadConfig, ReloadFails, Stop, DaemonGone, PersistCreate, PersistWrite

LEMMA SerialStep == TypeOK /\ SerialInv /\ ~Overlap /\ [Next]_vars => SerialInv'
<1> SUFFICES ASSUME TypeOK, SerialInv, ~Overlap, [Next]_vars PROVE SerialInv'
  OBVIOUS
<1>1. CASE UNCHANGED << fileVars, commandVars >>
  BY <1>1 DEF fileVars, commandVars, SerialInv, OneCommand, FilesAgree, At, CommandAgrees, Saves
<1>2. CASE UNCHANGED vars
  BY <1>1, <1>2 DEF vars
<1> QED BY <1>1, <1>2, CommandSerial, DaemonLeavesFiles DEF Next

-----------------------------------------------------------------------------
(***************************************************************************)
(* The refinement of TorrentRegistry: the list changes only when a command    *)
(* has written it, by one addition or one removal, or not at all.            *)
(***************************************************************************)
LEMMA WritePromised ==
    ASSUME TypeOK, SerialInv, ~Overlap, NEW c \in Commands, Write(c)
    PROVE  Registry!Next \/ UNCHANGED << entries, given >>
<1>1. Becomes(c, "write", IF new_id[c] = 0 THEN "idle" ELSE "number")
  BY DEF Write
<1>2. Files(c) /\ CommandAgrees(c) /\ pc[c] = "write"
  <2>1. \A d \in Commands \ {c} : pc[d] = "idle"
    BY <1>1, OthersIdle
  <2> QED BY <1>1, <2>1, FilesKnown DEF Becomes
<1>3. entries' = view[c] /\ given' = given \cup DOMAIN view[c]
  BY <1>2 DEF Write, CommandAgrees
<1>4. Saves(c) /\ DOMAIN entries \subseteq given /\ DOMAIN entries \subseteq Ids
  BY <1>2, ListDef DEF CommandAgrees, Files, TypeOK
<1>5. CASE view[c] = entries
  BY <1>3, <1>4, <1>5
<1>6. ASSUME NEW i \in DOMAIN entries, view[c] = Without(entries, i)
      PROVE  Registry!Next
  <2>1. Registry!Remove(i)
    BY <1>3, <1>4, <1>6 DEF Registry!Remove, Without
  <2> QED BY <1>4, <2>1 DEF Registry!Next
<1>7. ASSUME NEW t \in Torrents, new_id[c] \in Ids, \A i \in given : i < new_id[c],
             view[c] = With(entries, new_id[c], t)
      PROVE  Registry!Next
  <2>1. given' = given \cup {new_id[c]}
    BY <1>3, <1>4, <1>7 DEF With
  <2>2. Registry!Add(new_id[c], t)
    BY <1>3, <1>7, <2>1 DEF Registry!Add, With
  <2> QED BY <1>7, <2>2 DEF Registry!Next
<1> QED BY <1>4, <1>5, <1>6, <1>7 DEF Saves

LEMMA RegistryStep ==
    TypeOK /\ SerialInv /\ ~Overlap /\ [Next]_vars => [Registry!Next]_<< entries, given >>
<1> SUFFICES ASSUME TypeOK, SerialInv, ~Overlap, [Next]_vars
             PROVE  Registry!Next \/ UNCHANGED << entries, given >>
  OBVIOUS
<1>1. ASSUME NEW c \in Commands, Write(c)
      PROVE  Registry!Next \/ UNCHANGED << entries, given >>
  BY <1>1, WritePromised
<1>2. ASSUME NEW c \in Commands,
             \/ InitEntries(c) \/ Truncate(c)
             \/ AddList(c) \/ \E t \in Torrents : AddNumber(c, t)
             \/ CreateNextId(c) \/ WriteNextId(c)
             \/ \E i \in Ids : RemoveList(c, i)
      PROVE  UNCHANGED << entries, given >>
  BY <1>2 DEF InitEntries, Truncate, AddList, AddNumber, CreateNextId, WriteNextId, RemoveList,
              fileVars
<1>3. CASE UNCHANGED vars
  BY <1>3 DEF vars, fileVars
<1> QED BY <1>1, <1>2, <1>3, DaemonLeavesFiles DEF Next, fileVars

\* Commands that run one after the other implement TorrentRegistry for any number of
\* torrents, although each works in several steps and the daemon reads, dies and is
\* started between them: nothing added is lost, and every id is above those before.
THEOREM EntriesImplementRegistry ==
    ASSUME ~Overlap
    PROVE  Spec => ImplementsRegistry
<1>1. Init => Registry!Init
  BY DEF Init, Registry!Init, NoTorrents
<1>2. TypeOK /\ SerialInv /\ [Next]_vars => SerialInv'
  BY SerialStep
<1>3. TypeOK /\ SerialInv /\ [Next]_vars => [Registry!Next]_<< entries, given >>
  BY RegistryStep
<1> QED BY EntriesTyped, InitSerial, <1>1, <1>2, <1>3, PTL
        DEF Spec, ImplementsRegistry, Registry!Spec, Registry!vars

\* Commands that run one after the other never give an id a second time, not even that
\* of a torrent removed since: with Overlap they may (run `overlap').
THEOREM IdsGivenOnce ==
    ASSUME ~Overlap
    PROVE  Spec => IdsNotReused
<1> DEFINE Kept == \A i \in Ids : i \in given /\ i \in DOMAIN entries' =>
                      i \in DOMAIN entries /\ entries'[i] = entries[i]
<1>1. TypeOK /\ SerialInv /\ [Next]_vars => SerialInv'
  BY SerialStep
<1>2. TypeOK /\ SerialInv /\ [Next]_vars => [Kept]_vars
  <2> SUFFICES ASSUME TypeOK, SerialInv, [Next]_vars PROVE Kept
    OBVIOUS
  <2>1. [Registry!Next]_<< entries, given >>
    BY RegistryStep
  <2>2. ASSUME NEW i \in Ids, Registry!Remove(i) PROVE Kept
    BY <2>2 DEF Registry!Remove
  <2>3. ASSUME NEW i \in Ids, NEW t \in Torrents, Registry!Add(i, t) PROVE Kept
    <3>1. i \notin given
      BY <2>3, EntriesAssumption DEF Registry!Add, Ids
    <3> QED BY <2>3, <3>1 DEF Registry!Add
  <2> QED BY <2>1, <2>2, <2>3 DEF Registry!Next
<1> QED BY EntriesTyped, InitSerial, <1>1, <1>2, PTL DEF Spec, IdsNotReused

-----------------------------------------------------------------------------
(***************************************************************************)
(* What the daemon remembers.                                              *)
(***************************************************************************)
LEMMA StillRemembered ==
    ASSUME [Registry!Next]_<< entries, given >>, NEW list, Remembers(list), given \subseteq Ids
    PROVE  /\ DOMAIN list \subseteq given'
           /\ \A i \in DOMAIN list \cap DOMAIN entries' : list[i] = entries'[i]
<1>1. CASE UNCHANGED << entries, given >>
  BY <1>1 DEF Remembers
<1>2. ASSUME NEW i \in Ids, Registry!Remove(i)
      PROVE  /\ DOMAIN list \subseteq given'
             /\ \A j \in DOMAIN list \cap DOMAIN entries' : list[j] = entries'[j]
  BY <1>2 DEF Registry!Remove, Remembers
<1>3. ASSUME NEW i \in Ids, NEW t \in Torrents, Registry!Add(i, t)
      PROVE  /\ DOMAIN list \subseteq given'
             /\ \A j \in DOMAIN list \cap DOMAIN entries' : list[j] = entries'[j]
  <2>1. i \notin given
    BY <1>3, EntriesAssumption DEF Registry!Add, Ids
  <2> QED BY <1>3, <2>1 DEF Registry!Add, Remembers
<1> QED BY <1>1, <1>2, <1>3 DEF Registry!Next

LEMMA MemoryStep ==
    TypeOK /\ SerialInv /\ MemoryInv /\ ~Overlap /\ [Next]_vars => MemoryInv'
<1> SUFFICES ASSUME TypeOK, SerialInv, MemoryInv, ~Overlap, [Next]_vars PROVE MemoryInv'
  OBVIOUS
<1>1. [Registry!Next]_<< entries, given >> /\ given \subseteq Ids
  BY RegistryStep DEF TypeOK
<1>2. CASE UNCHANGED daemonVars
  <2>1. /\ downloads' = downloads /\ counted_for' = counted_for
        /\ loaded' = loaded /\ state' = state
    BY <1>2 DEF daemonVars
  <2> QED BY <1>1, <2>1, StillRemembered DEF MemoryInv, Remembers
<1>3. ASSUME NEW c \in Commands,
             \/ InitEntries(c) \/ Truncate(c) \/ Write(c)
             \/ AddList(c) \/ \E t \in Torrents : AddNumber(c, t)
             \/ CreateNextId(c) \/ WriteNextId(c)
             \/ \E i \in Ids : RemoveList(c, i)
      PROVE  UNCHANGED daemonVars
  BY <1>3 DEF InitEntries, Truncate, Write, AddList, AddNumber, CreateNextId, WriteNextId,
              RemoveList
<1>4. ASSUME Load \/ ReloadConfig \/ ReloadFails \/ Stop \/ PersistCreate \/ PersistWrite
      PROVE  UNCHANGED << entries, given >>
  BY <1>4, DaemonLeavesFiles DEF fileVars
<1>5. Remembers(NoTorrents)
  BY NoTorrentsList DEF Remembers
<1>6. CASE Load
  BY <1>4, <1>5, <1>6 DEF Load, MemoryInv, Remembers
<1>7. CASE ReloadConfig
  <2>1. DOMAIN entries \subseteq given
    BY DEF SerialInv, FilesAgree
  <2>2. DOMAIN downloads' = DOMAIN downloads \cup DOMAIN entries
    BY <1>7 DEF ReloadConfig
  <2>3. \A i \in DOMAIN downloads' :
          downloads'[i] = IF i \in DOMAIN downloads THEN downloads[i] ELSE entries[i]
    BY <1>7 DEF ReloadConfig
  <2>4. Remembers(downloads)'
    BY <1>4, <1>7, <2>1, <2>2, <2>3 DEF MemoryInv, Remembers
  <2>5. counted_for' = downloads'
    <3>1. \A i \in DOMAIN entries \cap DOMAIN loaded : loaded[i] = entries[i]
      BY DEF MemoryInv, Remembers
    <3> QED BY <1>7, <3>1 DEF ReloadConfig, Continued, MemoryInv
  <2> QED BY <1>4, <1>7, <2>4, <2>5 DEF ReloadConfig, MemoryInv, Remembers
<1>8. CASE ReloadFails \/ Stop
  BY <1>4, <1>5, <1>8 DEF ReloadFails, Stop, DaemonGone, MemoryInv, Remembers
<1>9. CASE PersistCreate
  BY <1>4, <1>9 DEF PersistCreate, MemoryInv, Remembers
<1>10. CASE PersistWrite
  BY <1>4, <1>10 DEF PersistWrite, MemoryInv, Remembers
<1>11. CASE UNCHANGED vars
  BY <1>2, <1>11 DEF vars
<1> QED BY <1>2, <1>3, <1>6, <1>7, <1>8, <1>9, <1>10, <1>11 DEF Next

LEMMA AlwaysRemembered ==
    ASSUME ~Overlap
    PROVE  Spec => []MemoryInv
<1>1. TypeOK /\ SerialInv /\ [Next]_vars => SerialInv'
  BY SerialStep
<1>2. TypeOK /\ SerialInv /\ MemoryInv /\ [Next]_vars => MemoryInv'
  BY MemoryStep
<1> QED BY EntriesTyped, InitSerial, <1>1, <1>2, PTL DEF Spec

\* If commands run one after the other, a daemon never has another torrent under an id
\* than the list, however long it has been up and whatever was removed and added.
THEOREM DaemonAlwaysAgrees ==
    ASSUME ~Overlap
    PROVE  Spec => []DaemonAgrees
<1> MemoryInv => DaemonAgrees
  BY DEF MemoryInv, Remembers, DaemonAgrees
<1> QED BY AlwaysRemembered, PTL

\* If commands run one after the other, no download goes on from the numbers of another
\* torrent, and none is shown with them, across restarts of the daemon.
THEOREM NumbersStayOwn ==
    ASSUME ~Overlap
    PROVE  Spec => []OwnNumbers
<1> MemoryInv => OwnNumbers
  BY DEF MemoryInv, Remembers, OwnNumbers
<1> QED BY AlwaysRemembered, PTL
=============================================================================
