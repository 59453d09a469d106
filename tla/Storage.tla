------------------------------- MODULE Storage -------------------------------
(***************************************************************************)
(* What the tools leave on disk: tools/edit_file.py with its backups, and   *)
(* the notes of tools/memory_store.py, memory_list.py and memory_search.py, *)
(* called as tools/registry.py calls them.  One tool runs at a time, in the *)
(* agent's daemon thread, which ends with the process wherever it is: a     *)
(* tool may stop between any two of its steps, because a call failed or     *)
(* because the process ended, and what it wrote so far stays.  A file is    *)
(* emptied when it is opened for writing, before anything is written.       *)
(*                                                                          *)
(* Backups and notes are named by the second of their making: the clock     *)
(* here counts seconds, and any number of steps fit into one.               *)
(***************************************************************************)
EXTENDS Naturals, Sequences, SequencesExt

CONSTANTS
    Files,      \* paths the edit tool is called with
    BackupName, \* of a path: the path with "_" for "/", so two may share it
    Keys,       \* keys of notes, numbered in alphabetical order
    Limits,     \* the limits a listing or a search is called with
    MaxTime,    \* bound: seconds
    MaxCalls,   \* bound: calls of the tools
    MaxSaves    \* bound: files the user saves from outside

ASSUME StorageAssumption ==
    /\ DOMAIN BackupName = Files
    /\ Keys \subseteq Nat /\ Limits \subseteq Nat \ {0}
    /\ {MaxTime, MaxCalls, MaxSaves} \subseteq Nat

Times   == 0..MaxTime
Backups == {BackupName[f] : f \in Files} \X Times
Notes   == Keys \X Times

\* Contents: none, what a write left that did not end, and the whole ones,
\* each with a number of its own.
Absent == 0
Torn   == 1
Whole(n) == n + 1

VARIABLES
    now,        \* the second
    files,      \* the content of each path
    backups,    \* the content of backups/<name>_<second>.bak
    notes,      \* storage/memory/<key>_<second>.md: content and write order
    pc, job,    \* the step the tool is at, and its arguments
    written,    \* whole contents so far; their numbers tell their order
    calls,      \* calls of the tools so far
    saves,      \* files saved by the user so far
    versions,   \* history: whole contents a path was given
    copied,     \* history: the backups made, in order
    stored      \* history: the notes stored, in order

disk == <<files, backups, notes>>
past == <<versions, copied, stored>>
vars == <<now, disk, pc, job, written, calls, saves, past>>

NoJob == [file |-> "none", whole |-> FALSE]

Ends == pc' = "idle" /\ job' = NoJob

Version == [file : Files, content : Nat \ {Absent, Torn}, meanwhile : BOOLEAN]

StoredNote == [note : Notes, key : Keys, second : Times, content : Nat,
               done : BOOLEAN]

TypeOK ==
    /\ now \in Times
    /\ files \in [Files -> Nat]
    /\ backups \in [Backups -> Nat]
    /\ notes \in [Notes -> [content : Nat, order : Nat]]
    /\ pc \in {"idle", "backup", "look", "open", "write", "note"}
    /\ job \in [file : Files \cup {"none"}, whole : BOOLEAN]
    /\ pc \in {"backup", "look", "open", "write"} => job.file \in Files
    /\ pc = "note" => stored # <<>>
    /\ written \in Nat /\ calls \in Nat /\ saves \in Nat
    /\ versions \subseteq Version
    /\ copied \in Seq([backup : Backups, content : Nat])
    /\ stored \in Seq(StoredNote)

Init ==
    /\ now = 0
    /\ files = [f \in Files |-> Absent]
    /\ backups = [b \in Backups |-> Absent]
    /\ notes = [m \in Notes |-> [content |-> Absent, order |-> 0]]
    /\ pc = "idle" /\ job = NoJob
    /\ written = 0 /\ calls = 0 /\ saves = 0
    /\ versions = {} /\ copied = <<>> /\ stored = <<>>

Tick ==
    /\ now < MaxTime
    /\ now' = now + 1
    /\ UNCHANGED <<disk, pc, job, written, calls, saves, past>>

-----------------------------------------------------------------------------
(***************************************************************************)
(* edit_file_tool.                                                         *)
(***************************************************************************)

\* execute_tool_safely: a missing string is the empty one.
Bound(argument) == IF argument = "missing" THEN "empty" ELSE argument

\* Mutant: there is no backup of a file that is written anew.
BackUpEditsOnly(file, whole) == files[file] # Absent /\ ~whole

BacksUp(file, whole) == files[file] # Absent

\* With the empty old_str the file is created or written anew; another one
\* is looked for.  Without a file to look in nothing happens.
StartEdit ==
    /\ pc = "idle" /\ calls < MaxCalls
    /\ calls' = calls + 1
    /\ \E file \in Files, argument \in {"missing", "empty", "text"} :
           LET whole == Bound(argument) = "empty"
           IN  /\ whole \/ BacksUp(file, whole)
               /\ job' = [file |-> file, whole |-> whole]
               /\ pc' = IF BacksUp(file, whole) THEN "backup" ELSE "open"
    /\ UNCHANGED <<now, disk, written, saves, past>>

ThisBackup == <<BackupName[job.file], now>>

\* _create_backup, with shutil.copy2.
CopyBackup ==
    /\ pc = "backup"
    /\ backups' = [backups EXCEPT ![ThisBackup] = files[job.file]]
    /\ copied' = Append(copied, [backup |-> ThisBackup,
                                 content |-> files[job.file]])
    /\ pc' = IF job.whole THEN "open" ELSE "look"
    /\ UNCHANGED <<now, files, notes, job, written, calls, saves, versions, stored>>

\* The copy is begun and does not end.
CopyFails ==
    /\ pc = "backup"
    /\ backups' = [backups EXCEPT ![ThisBackup] = Torn]
    /\ copied' = Append(copied, [backup |-> ThisBackup, content |-> Torn])
    /\ Ends
    /\ UNCHANGED <<now, files, notes, written, calls, saves, versions, stored>>

\* The file is too large, or old_str is not in it.
NothingToEdit ==
    /\ pc = "look"
    /\ Ends
    /\ UNCHANGED <<now, disk, written, calls, saves, past>>

Found ==
    /\ pc = "look"
    /\ pc' = "open"
    /\ UNCHANGED <<now, disk, job, written, calls, saves, past>>

OpenFile ==
    /\ pc = "open"
    /\ files' = [files EXCEPT ![job.file] = Torn]
    /\ pc' = "write"
    /\ UNCHANGED <<now, backups, notes, job, written, calls, saves, past>>

WriteFile ==
    /\ pc = "write"
    /\ written' = written + 1
    /\ files' = [files EXCEPT ![job.file] = Whole(written')]
    /\ versions' = versions \cup
           {[file |-> job.file, content |-> Whole(written'),
             meanwhile |-> FALSE]}
    /\ Ends
    /\ UNCHANGED <<now, backups, notes, calls, saves, copied, stored>>

\* The user saves the file in an editor; what was in it is theirs to lose.
\* Nothing keeps them from doing so meanwhile, between backup and write.
UserSaves ==
    /\ saves < MaxSaves
    /\ saves' = saves + 1
    /\ written' = written + 1
    /\ \E file \in Files :
           /\ files' = [files EXCEPT ![file] = Whole(written')]
           /\ versions' =
                  {v \in versions : v.content # files[file]} \cup
                  {[file |-> file, content |-> Whole(written'),
                    meanwhile |-> /\ pc \in {"look", "open", "write"}
                                  /\ job.file = file]}
    /\ UNCHANGED <<now, backups, notes, pc, job, calls, copied, stored>>

-----------------------------------------------------------------------------
(***************************************************************************)
(* memory_store_tool.  The order of the files' modification times is that  *)
(* of their writing.                                                       *)
(***************************************************************************)

\* Mutant: there is one note for each key.
NoteOfKey(key) == <<key, 0>>

ThisNote(key) == <<key, now>>

OpenNote ==
    /\ pc = "idle" /\ calls < MaxCalls
    /\ calls' = calls + 1
    /\ written' = written + 1
    /\ \E key \in Keys :
           /\ notes' = [notes EXCEPT ![ThisNote(key)] =
                            [content |-> Torn, order |-> written']]
           /\ stored' = Append(stored, [note |-> ThisNote(key), key |-> key,
                                        second |-> now,
                                        content |-> Whole(written'),
                                        done |-> FALSE])
    /\ pc' = "note"
    /\ UNCHANGED <<now, files, backups, job, saves, versions, copied>>

WriteNote ==
    /\ pc = "note"
    /\ LET last == Last(stored)
       IN  /\ notes' = [notes EXCEPT ![last.note].content = last.content]
           /\ stored' = Append(Front(stored), [last EXCEPT !.done = TRUE])
    /\ pc' = "idle"
    /\ UNCHANGED <<now, files, backups, job, written, calls, saves, versions,
                   copied>>

\* A write fails, or the process ends.
Stop ==
    /\ pc # "idle"
    /\ Ends
    /\ UNCHANGED <<now, disk, written, calls, saves, past>>

Next ==
    \/ Tick \/ UserSaves \/ Stop
    \/ StartEdit \/ CopyBackup \/ CopyFails \/ NothingToEdit \/ Found
    \/ OpenFile \/ WriteFile
    \/ OpenNote \/ WriteNote

Spec == Init /\ [][Next]_vars

-----------------------------------------------------------------------------
(***************************************************************************)
(* memory_list_tool and memory_search_tool, without filters: the notes      *)
(* they give, in their order.                                               *)
(***************************************************************************)

FirstOf(limit, sorted) ==
    SubSeq(sorted, 1, IF limit < Len(sorted) THEN limit ELSE Len(sorted))

\* sorted(): the i-th is the one that i - 1 others come before.
Sorted(S, before) ==
    [i \in 1..Cardinality(S) |->
        CHOOSE m \in S : Cardinality({n \in S : <<n, m>> \in before}) = i - 1]

\* <key>_<second>.md sorts by the key, then by the second.
ByNameDescending ==
    {p \in Notes \X Notes :
        \/ p[1][1] > p[2][1]
        \/ p[1][1] = p[2][1] /\ p[1][2] > p[2][2]}

LatestFirst == {p \in Notes \X Notes : notes[p[1]].order > notes[p[2]].order}

OnDisk == {m \in Notes : notes[m].content # Absent}

\* By whole keys.  Torn notes are left out, though what there is of one may match.
Matching(keys) ==
    {m \in keys \X Times : notes[m].content \notin {Absent, Torn}}

\* Mutant: the listing is sorted by name.
ListedByName(limit) == FirstOf(limit, Sorted(OnDisk, ByNameDescending))

\* Every file, the latest modified first.
Listed(limit) == FirstOf(limit, Sorted(OnDisk, LatestFirst))

Searched(keys, limit) == FirstOf(limit, Sorted(Matching(keys), ByNameDescending))

-----------------------------------------------------------------------------
(***************************************************************************)
(* Properties.                                                             *)
(***************************************************************************)

\* A backup with the content was written over, by one with the same name in
\* the same second.
BackupReplaced(content) ==
    \E i, j \in DOMAIN copied :
        /\ i < j
        /\ copied[i].content = content
        /\ copied[j].backup = copied[i].backup

Secured(v) ==
    \/ \E b \in Backups : backups[b] = v.content
    \/ BackupReplaced(v.content)
    \/ v.meanwhile

\* Whatever fails, and wherever the process ends, the tool loses no content
\* a file ever had: it is in the file or in a backup ("edits keep a backup",
\* README.md:18).  But two backups in one second, of one file or of two whose
\* paths differ only in "/" and "_", leave the second alone; and what the
\* user saves between the backup and the write is lost.
NoVersionIsLost ==
    \A v \in versions : files[v.file] = v.content \/ Secured(v)

\* The backups' contents are those of the copies made.
BackupsAreCopies ==
    \A b \in Backups :
        backups[b] # Absent =>
            \E i \in DOMAIN copied :
                copied[i].backup = b /\ copied[i].content = backups[b]

\* What makes it so: once the backup is made, the file may be written over.
EditInv ==
    /\ NoVersionIsLost
    /\ pc \in {"look", "open", "write"} =>
           \A v \in versions : v.file = job.file => Secured(v)
    /\ BackupsAreCopies

\* A note that was reported as stored stays as it was stored, but for a note
\* stored under the same key in the same second ("Files survive across
\* sessions and can be retrieved", tools/memory_store.py:34-35).
NotesAreKept ==
    \A i \in DOMAIN stored :
        \/ ~stored[i].done
        \/ notes[stored[i].note].content = stored[i].content
        \/ \E j \in (i + 1)..Len(stored) :
               /\ stored[j].key = stored[i].key
               /\ stored[j].second = stored[i].second

\* What makes it so: a note is found by its key and second.
NoteInv ==
    /\ NotesAreKept
    /\ \A i \in DOMAIN stored :
           stored[i].note = <<stored[i].key, stored[i].second>>

\* Where the older note is given, the newer one is, before it.
NewerFirst(given, older, newer) ==
    \A i \in DOMAIN given :
        given[i] = older => \E j \in 1..(i - 1) : given[j] = newer

IsKept(s) == s.done /\ notes[s.note].content = s.content

\* A limit cuts off the oldest notes: of two notes that are kept, the listing
\* does not give the older one alone or first, and a search does not if they
\* have one key ("sorted newest-first", tools/memory_list.py:47).  Over
\* several keys a search goes by the key, whatever its comment says
\* (tools/memory_search.py:79).
NewestNotesFirst ==
    \A i, j \in DOMAIN stored : \A limit \in Limits :
        i < j /\ IsKept(stored[i]) /\ IsKept(stored[j]) =>
            /\ NewerFirst(Listed(limit), stored[i].note, stored[j].note)
            /\ stored[i].key = stored[j].key =>
                   \A keys \in SUBSET Keys :
                       NewerFirst(Searched(keys, limit),
                                  stored[i].note, stored[j].note)

\* What makes it so: what is on disk was written by a call that is recorded;
\* times, contents and the order of writing grow together.
WritesInOrder ==
    \A i \in DOMAIN stored :
        /\ stored[i].content > Torn /\ stored[i].content <= Whole(written)
        /\ stored[i].second <= now
        /\ \A j \in DOMAIN stored :
               i < j => /\ stored[i].content < stored[j].content
                        /\ stored[i].second <= stored[j].second

NotesAreWrites ==
    \A m \in OnDisk :
        /\ \E i \in DOMAIN stored : stored[i].note = m
        /\ notes[m].content \in {Torn, Whole(notes[m].order)}
        /\ notes[m].order <= written
        /\ \A n \in OnDisk : notes[m].order = notes[n].order => m = n

OrderInv ==
    /\ WritesInOrder /\ NotesAreWrites
    /\ pc = "note" =>
           LET last == Last(stored)
           IN  /\ notes[last.note].content = Torn
               /\ Whole(notes[last.note].order) = last.content

=============================================================================
