--------------------------- MODULE Storage_proofs ---------------------------
(***************************************************************************)
(* Theorems about what the tools leave on disk.                             *)
(***************************************************************************)
EXTENDS Storage, TLAPS, FunctionTheorems, FiniteSetTheorems

USE DEF disk, past, Absent, Torn, Whole, Times

LEMMA NamesOfBackups ==
    TypeOK /\ job.file \in Files => ThisBackup \in Backups
BY DEF TypeOK, ThisBackup, Backups

-----------------------------------------------------------------------------
(***************************************************************************)
(* Types.                                                                  *)
(***************************************************************************)

\* A content that is written next is whole.
LEMMA NextContent ==
    TypeOK => written + 1 \in Nat /\ Whole(written + 1) \in Nat \ {Absent, Torn}
BY DEF TypeOK

LEMMA StepTypeOK == TypeOK /\ [Next]_vars => TypeOK'
<1> SUFFICES ASSUME TypeOK, [Next]_vars PROVE TypeOK'
    OBVIOUS
<1>1. CASE Tick
    <2>1. now' \in Times
        BY <1>1, StorageAssumption DEF Tick, TypeOK
    <2> QED
        BY <1>1, <2>1 DEF Tick, TypeOK
<1>2. CASE UserSaves
    <2>1. PICK file \in Files :
              /\ files' = [files EXCEPT ![file] = Whole(written')]
              /\ versions' =
                     {v \in versions : v.content # files[file]} \cup
                     {[file |-> file, content |-> Whole(written'),
                       meanwhile |-> /\ pc \in {"look", "open", "write"}
                                     /\ job.file = file]}
        BY <1>2 DEF UserSaves
    <2>2. written' \in Nat /\ Whole(written') \in Nat \ {Absent, Torn}
        BY <1>2, NextContent DEF UserSaves
    <2>3. files' \in [Files -> Nat]
        BY <2>1, <2>2 DEF TypeOK
    <2>4. (pc \in {"look", "open", "write"} /\ job.file = file) \in BOOLEAN
        OBVIOUS
    <2>5. [file |-> file, content |-> Whole(written'),
           meanwhile |-> /\ pc \in {"look", "open", "write"}
                         /\ job.file = file] \in Version
        BY <2>2, <2>4 DEF Version
    <2>7. versions \subseteq Version
        BY DEF TypeOK
    <2>8. versions' \subseteq Version
        BY <2>1, <2>5, <2>7
    <2>6. saves' \in Nat
        BY <1>2 DEF UserSaves, TypeOK
    <2> QED
        BY <1>2, <2>2, <2>3, <2>6, <2>8 DEF UserSaves, TypeOK
<1>3. CASE Stop
    BY <1>3 DEF Stop, Ends, NoJob, TypeOK
<1>4. CASE StartEdit
    <2>1. PICK file \in Files, argument \in {"missing", "empty", "text"} :
              LET whole == Bound(argument) = "empty"
              IN  /\ job' = [file |-> file, whole |-> whole]
                  /\ pc' = IF BacksUp(file, whole) THEN "backup" ELSE "open"
        BY <1>4 DEF StartEdit
    <2>2. job' \in [file : Files, whole : BOOLEAN]
        BY <2>1
    <2>3. pc' \in {"backup", "open"}
        BY <2>1
    <2>4. calls' = calls + 1 /\ calls \in Nat
        BY <1>4 DEF StartEdit, TypeOK
    <2>5. /\ job' \in [file : Files \cup {"none"}, whole : BOOLEAN]
          /\ job'.file \in Files
        BY <2>2
    <2>6. UNCHANGED <<now, disk, written, saves, past>>
        BY <1>4 DEF StartEdit
    <2>7. pc' \in {"idle", "backup", "look", "open", "write", "note"}
          /\ pc' # "note" /\ calls' \in Nat
        BY <2>3, <2>4
    <2> QED
        BY <2>5, <2>6, <2>7 DEF TypeOK
<1>5. CASE CopyBackup
    <2>1. ThisBackup \in Backups /\ files[job.file] \in Nat
        BY <1>5, NamesOfBackups DEF CopyBackup, TypeOK
    <2>2. backups' \in [Backups -> Nat]
        BY <1>5, <2>1 DEF CopyBackup, TypeOK
    <2>3. copied' \in Seq([backup : Backups, content : Nat])
        BY <1>5, <2>1 DEF CopyBackup, TypeOK
    <2> QED
        BY <1>5, <2>2, <2>3 DEF CopyBackup, TypeOK
<1>6. CASE CopyFails
    <2>1. ThisBackup \in Backups
        BY <1>6, NamesOfBackups DEF CopyFails, TypeOK
    <2>2. backups' \in [Backups -> Nat]
        BY <1>6, <2>1 DEF CopyFails, TypeOK
    <2>3. copied' \in Seq([backup : Backups, content : Nat])
        BY <1>6, <2>1 DEF CopyFails, TypeOK
    <2> QED
        BY <1>6, <2>2, <2>3 DEF CopyFails, Ends, NoJob, TypeOK
<1>7. CASE NothingToEdit
    BY <1>7 DEF NothingToEdit, Ends, NoJob, TypeOK
<1>8. CASE Found
    BY <1>8 DEF Found, TypeOK
<1>9. CASE OpenFile
    BY <1>9 DEF OpenFile, TypeOK
<1>10. CASE WriteFile
    <2>1. written' \in Nat /\ Whole(written') \in Nat \ {Absent, Torn}
        BY <1>10, NextContent DEF WriteFile
    <2>2. job.file \in Files
        BY <1>10 DEF WriteFile, TypeOK
    <2>3. [file |-> job.file, content |-> Whole(written'),
           meanwhile |-> FALSE] \in Version
        BY <2>1, <2>2 DEF Version
    <2>5. versions \subseteq Version
        BY DEF TypeOK
    <2>6. versions' \subseteq Version
        BY <1>10, <2>3, <2>5 DEF WriteFile
    <2>4. files' \in [Files -> Nat]
        BY <1>10, <2>1 DEF WriteFile, TypeOK
    <2> QED
        BY <1>10, <2>1, <2>4, <2>6 DEF WriteFile, Ends, NoJob, TypeOK
<1>11. CASE OpenNote
    <2>1. PICK key \in Keys :
              /\ notes' = [notes EXCEPT ![ThisNote(key)] =
                               [content |-> Torn, order |-> written']]
              /\ stored' = Append(stored,
                               [note |-> ThisNote(key), key |-> key,
                                second |-> now, content |-> Whole(written'),
                                done |-> FALSE])
        BY <1>11 DEF OpenNote
    <2>2. written' \in Nat /\ Whole(written') \in Nat
        BY <1>11, NextContent DEF OpenNote
    <2>3. ThisNote(key) \in Notes /\ now \in Times
        BY DEF ThisNote, Notes, TypeOK
    <2>4. notes' \in [Notes -> [content : Nat, order : Nat]]
        BY <2>1, <2>2 DEF TypeOK
    <2>5. [note |-> ThisNote(key), key |-> key, second |-> now,
           content |-> Whole(written'), done |-> FALSE] \in StoredNote
        BY <2>2, <2>3 DEF StoredNote
    <2>6. stored \in Seq(StoredNote)
        BY DEF TypeOK
    <2>8. stored' \in Seq(StoredNote) /\ stored' # <<>>
        BY <2>1, <2>5, <2>6
    <2>7. calls' \in Nat
        BY <1>11 DEF OpenNote, TypeOK
    <2> QED
        BY <1>11, <2>2, <2>4, <2>7, <2>8 DEF OpenNote, TypeOK
<1>12. CASE WriteNote
    <2>1. stored \in Seq(StoredNote) /\ stored # <<>>
        BY <1>12 DEF WriteNote, TypeOK
    <2>2. Last(stored) \in StoredNote
        BY <2>1 DEF Last
    <2>3. Last(stored).content \in Nat
        BY <2>2 DEF StoredNote
    <2>4. notes' \in [Notes -> [content : Nat, order : Nat]]
        BY <1>12, <2>3 DEF WriteNote, TypeOK
    <2>5. [Last(stored) EXCEPT !.done = TRUE] \in StoredNote
        BY <2>2 DEF StoredNote
    <2>6. Front(stored) \in Seq(StoredNote)
        BY <2>1 DEF Front
    <2>7. stored' \in Seq(StoredNote)
        BY <1>12, <2>5, <2>6 DEF WriteNote
    <2> QED
        BY <1>12, <2>4, <2>7 DEF WriteNote, TypeOK
<1>13. CASE UNCHANGED vars
    BY <1>13 DEF vars, TypeOK
<1> QED
    BY <1>1, <1>2, <1>3, <1>4, <1>5, <1>6, <1>7, <1>8, <1>9, <1>10, <1>11,
       <1>12, <1>13 DEF Next

\* Every variable keeps its type, and the edit tool is at a file whenever it
\* is at a step of an edit.
THEOREM StorageTypeCorrect == Spec => []TypeOK
<1>1. Init => TypeOK
    BY StorageAssumption DEF Init, TypeOK, NoJob
<1> QED
    BY <1>1, StepTypeOK, PTL DEF Spec

-----------------------------------------------------------------------------
(***************************************************************************)
(* No version of a file is lost.                                           *)
(***************************************************************************)

\* What is copied, and what a copy writes over, is found among the copies.
LEMMA CopyKeepsSecured ==
    ASSUME TypeOK, BackupsAreCopies, job.file \in Files, NEW content \in Nat,
           backups' = [backups EXCEPT ![ThisBackup] = content],
           copied' = Append(copied, [backup |-> ThisBackup,
                                     content |-> content])
    PROVE  /\ BackupsAreCopies'
           /\ \A v \in versions : Secured(v) => Secured(v)'
<1>1. ThisBackup \in Backups /\ backups \in [Backups -> Nat]
    BY NamesOfBackups DEF TypeOK
<1>2. copied \in Seq([backup : Backups, content : Nat])
    BY DEF TypeOK
<1>3. /\ Len(copied) \in Nat
      /\ DOMAIN copied = 1..Len(copied)
      /\ DOMAIN copied' = 1..(Len(copied) + 1)
      /\ \A i \in DOMAIN copied : copied'[i] = copied[i]
      /\ copied'[Len(copied) + 1] = [backup |-> ThisBackup,
                                    content |-> content]
    BY <1>2
<1>4. \A i \in DOMAIN copied : i \in DOMAIN copied' /\ i < Len(copied) + 1
    BY <1>3
<1>5. Len(copied) + 1 \in DOMAIN copied'
    BY <1>3
<1>6. BackupsAreCopies'
    <2> SUFFICES ASSUME NEW b \in Backups, backups'[b] # Absent
                 PROVE  \E i \in DOMAIN copied' :
                            /\ copied'[i].backup = b
                            /\ copied'[i].content = backups'[b]
        BY DEF BackupsAreCopies, Backups
    <2>1. CASE b = ThisBackup
        BY <2>1, <1>1, <1>3, <1>5
    <2>2. CASE b # ThisBackup
        BY <2>2, <1>1, <1>3, <1>4 DEF BackupsAreCopies
    <2> QED
        BY <2>1, <2>2
<1>7. ASSUME NEW v \in versions, Secured(v) PROVE Secured(v)'
    <2>1. v.content # Absent
        BY DEF TypeOK, Version
    <2>2. CASE BackupReplaced(v.content)
        <3>1. BackupReplaced(v.content)'
            BY <2>2, <1>3, <1>4 DEF BackupReplaced
        <3> QED
            BY <3>1 DEF Secured
    <2>3. CASE v.meanwhile
        BY <2>3 DEF Secured
    <2>4. ASSUME NEW b \in Backups, backups[b] = v.content PROVE Secured(v)'
        <3>1. CASE b # ThisBackup
            BY <3>1, <2>4, <1>1 DEF Secured, Backups
        <3>2. CASE b = ThisBackup
            <4>1. PICK i \in DOMAIN copied :
                      copied[i].backup = b /\ copied[i].content = v.content
                BY <2>1, <2>4 DEF BackupsAreCopies
            <4>2. BackupReplaced(v.content)'
                BY <4>1, <3>2, <1>3, <1>4, <1>5 DEF BackupReplaced
            <4> QED
                BY <4>2 DEF Secured
        <3> QED
            BY <3>1, <3>2
    <2> QED
        BY <1>7, <2>2, <2>3, <2>4 DEF Secured
<1> QED
    BY <1>6, <1>7

LEMMA StepEditInv == TypeOK /\ EditInv /\ [Next]_vars => EditInv'
<1> SUFFICES ASSUME TypeOK, EditInv, [Next]_vars PROVE EditInv'
    OBVIOUS
<1>1. /\ NoVersionIsLost /\ BackupsAreCopies
      /\ pc \in {"look", "open", "write"} =>
             \A v \in versions : v.file = job.file => Secured(v)
    BY DEF EditInv
\* Nothing is copied: the copies stay, and so does what they secure.
<1>2. ASSUME UNCHANGED <<backups, copied>>
      PROVE  /\ BackupsAreCopies'
             /\ \A v : Secured(v) => Secured(v)'
    BY <1>1, <1>2 DEF BackupsAreCopies, Secured, BackupReplaced, Backups
<1>3. CASE UNCHANGED <<files, backups, copied, versions, pc, job>>
    BY <1>1, <1>2, <1>3 DEF EditInv, NoVersionIsLost
\* The tool ends, or leaves the edit to itself.
<1>4. ASSUME UNCHANGED <<files, backups, copied, versions>>,
             pc' \notin {"look", "open", "write"}
      PROVE  EditInv'
    BY <1>1, <1>2, <1>4 DEF EditInv, NoVersionIsLost
<1>5. CASE Tick
    BY <1>3, <1>5 DEF Tick
<1>6. CASE UserSaves
    <2>1. PICK file \in Files :
              /\ files' = [files EXCEPT ![file] = Whole(written')]
              /\ versions' =
                     {v \in versions : v.content # files[file]} \cup
                     {[file |-> file, content |-> Whole(written'),
                       meanwhile |-> /\ pc \in {"look", "open", "write"}
                                     /\ job.file = file]}
        BY <1>6 DEF UserSaves
    <2> DEFINE new == [file |-> file, content |-> Whole(written'),
                       meanwhile |-> /\ pc \in {"look", "open", "write"}
                                     /\ job.file = file]
    <2>2. UNCHANGED <<backups, copied, pc, job>>
        BY <1>6 DEF UserSaves
    <2>3. files \in [Files -> Nat] /\ \A v \in versions : v.file \in Files
        BY DEF TypeOK, Version
    <2>4. ASSUME NEW v \in versions' PROVE
              /\ files'[v.file] = v.content \/ Secured(v)'
              /\ pc' \in {"look", "open", "write"} /\ v.file = job'.file =>
                     Secured(v)'
        <3>1. CASE v = new
            <4>1. /\ v.file = file /\ v.content = Whole(written')
                  /\ v.meanwhile <=> /\ pc \in {"look", "open", "write"}
                                     /\ job.file = file
                BY <3>1
            <4>2. files'[v.file] = v.content
                BY <4>1, <2>1, <2>3
            <4>3. v.meanwhile => Secured(v)'
                BY DEF Secured
            <4> QED
                BY <4>1, <4>2, <4>3, <2>2
        <3>2. CASE v \in versions /\ v.content # files[file]
            <4>1. files[v.file] = v.content \/ Secured(v)'
                BY <3>2, <2>2, <1>1, <1>2 DEF NoVersionIsLost
            <4>2. files[v.file] = v.content => files'[v.file] = v.content
                BY <3>2, <2>1, <2>3
            <4>3. pc \in {"look", "open", "write"} /\ v.file = job.file =>
                      Secured(v)'
                BY <3>2, <2>2, <1>1, <1>2
            <4> QED
                BY <4>1, <4>2, <4>3, <2>2
        <3> QED
            BY <3>1, <3>2, <2>1
    <2> QED
        BY <2>2, <2>4, <1>2 DEF EditInv, NoVersionIsLost
<1>7. CASE Stop
    BY <1>4, <1>7 DEF Stop, Ends
<1>8. CASE StartEdit
    <2>1. \E file \in Files, argument \in {"missing", "empty", "text"} :
              LET whole == Bound(argument) = "empty"
              IN  /\ job' = [file |-> file, whole |-> whole]
                  /\ pc' = IF BacksUp(file, whole) THEN "backup" ELSE "open"
        BY <1>8 DEF StartEdit
    <2>4. PICK file \in Files :
              /\ job'.file = file
              /\ pc' = IF files[file] # Absent THEN "backup" ELSE "open"
        BY <2>1 DEF BacksUp
    <2>2. UNCHANGED <<files, backups, copied, versions>>
        BY <1>8 DEF StartEdit
    <2>3. ASSUME NEW v \in versions, pc' = "open", v.file = job'.file
          PROVE  Secured(v)
        <3>1. files[v.file] = Absent /\ v.content # Absent
            BY <2>4, <2>3 DEF TypeOK, Version
        <3> QED
            BY <3>1, <1>1 DEF NoVersionIsLost
    <2> QED
        BY <2>2, <2>3, <2>4, <1>1, <1>2 DEF EditInv, NoVersionIsLost
<1>9. CASE CopyBackup
    <2>1. job.file \in Files /\ files[job.file] \in Nat
        BY <1>9 DEF CopyBackup, TypeOK
    <2>2. BackupsAreCopies' /\ \A v \in versions : Secured(v) => Secured(v)'
        BY <2>1, <1>1, <1>9, CopyKeepsSecured DEF CopyBackup
    <2>3. ThisBackup \in Backups /\ backups \in [Backups -> Nat]
        BY <2>1, NamesOfBackups DEF TypeOK
    <2>4. backups'[ThisBackup] = files[job.file]
        BY <2>3, <1>9 DEF CopyBackup
    <2>5. ASSUME NEW v \in versions, v.file = job.file PROVE Secured(v)'
        <3>1. CASE files[v.file] = v.content
            BY <3>1, <2>3, <2>4, <2>5 DEF Secured, Backups
        <3> QED
            BY <3>1, <2>2, <1>1 DEF NoVersionIsLost
    <2>6. UNCHANGED <<files, versions, job>>
        BY <1>9 DEF CopyBackup
    <2> QED
        BY <2>2, <2>5, <2>6, <1>1 DEF EditInv, NoVersionIsLost
<1>10. CASE CopyFails
    <2>1. BackupsAreCopies' /\ \A v \in versions : Secured(v) => Secured(v)'
        BY <1>1, <1>10, CopyKeepsSecured DEF CopyFails, TypeOK
    <2>2. UNCHANGED <<files, versions>> /\ pc' = "idle"
        BY <1>10 DEF CopyFails, Ends
    <2> QED
        BY <2>1, <2>2, <1>1 DEF EditInv, NoVersionIsLost
<1>11. CASE NothingToEdit
    BY <1>4, <1>11 DEF NothingToEdit, Ends
<1>12. CASE Found
    BY <1>1, <1>2, <1>12 DEF Found, EditInv, NoVersionIsLost
\* The file is written over: what it held is in a backup.
<1>13. CASE OpenFile
    <2>1. UNCHANGED <<backups, copied, versions, job>> /\ pc = "open"
        BY <1>13 DEF OpenFile
    <2>2. files' = [files EXCEPT ![job.file] = Torn]
        BY <1>13 DEF OpenFile
    <2>3. files \in [Files -> Nat] /\ \A v \in versions : v.file \in Files
        BY DEF TypeOK, Version
    <2>4. ASSUME NEW v \in versions
          PROVE  files'[v.file] = v.content \/ Secured(v)'
        <3>1. CASE v.file = job.file
            BY <3>1, <2>1, <1>1, <1>2
        <3>2. CASE v.file # job.file
            BY <3>2, <2>1, <2>2, <2>3, <1>1, <1>2 DEF NoVersionIsLost
        <3> QED
            BY <3>1, <3>2
    <2> QED
        BY <2>1, <2>4, <1>1, <1>2 DEF EditInv, NoVersionIsLost
<1>14. CASE WriteFile
    <2>1. UNCHANGED <<backups, copied>> /\ pc = "write" /\ pc' = "idle"
        BY <1>14 DEF WriteFile, Ends
    <2>2. /\ files' = [files EXCEPT ![job.file] = Whole(written')]
          /\ versions' = versions \cup
                 {[file |-> job.file, content |-> Whole(written'),
                   meanwhile |-> FALSE]}
        BY <1>14 DEF WriteFile
    <2>3. /\ files \in [Files -> Nat] /\ \A v \in versions : v.file \in Files
          /\ job.file \in Files
        BY <2>1 DEF TypeOK, Version
    <2>4. ASSUME NEW v \in versions'
          PROVE  files'[v.file] = v.content \/ Secured(v)'
        <3>1. CASE v \in versions /\ v.file = job.file
            BY <3>1, <2>1, <1>1, <1>2
        <3>2. CASE v \in versions /\ v.file # job.file
            BY <3>2, <2>1, <2>2, <2>3, <1>1, <1>2 DEF NoVersionIsLost
        <3>3. CASE v.file = job.file /\ v.content = Whole(written')
            BY <3>3, <2>2, <2>3
        <3> QED
            BY <3>1, <3>2, <3>3, <2>2
    <2> QED
        BY <2>1, <2>4, <1>2 DEF EditInv, NoVersionIsLost
<1>15. CASE OpenNote
    BY <1>4, <1>15 DEF OpenNote
<1>16. CASE WriteNote
    BY <1>4, <1>16 DEF WriteNote
<1>17. CASE UNCHANGED vars
    BY <1>3, <1>17 DEF vars
<1> QED
    BY <1>5, <1>6, <1>7, <1>8, <1>9, <1>10, <1>11, <1>12, <1>13, <1>14,
       <1>15, <1>16, <1>17 DEF Next

\* Whatever fails, and wherever the process ends, the content a file had is
\* in the file or in a backup, but for two backups made in one second and
\* for what the user saves between the backup and the write.
THEOREM EditsKeepABackup == Spec => []NoVersionIsLost
<1>1. Init => EditInv
    BY DEF Init, EditInv, NoVersionIsLost, BackupsAreCopies
<1>2. EditInv => NoVersionIsLost
    BY DEF EditInv
<1> QED
    BY <1>1, <1>2, StepEditInv, StorageTypeCorrect, PTL DEF Spec

-----------------------------------------------------------------------------
(***************************************************************************)
(* A stored note stays as it was stored.                                   *)
(***************************************************************************)

LEMMA StepNoteInv == TypeOK /\ NoteInv /\ [Next]_vars => NoteInv'
<1> SUFFICES ASSUME TypeOK, NoteInv, [Next]_vars PROVE NoteInv'
    OBVIOUS
<1>1. CASE UNCHANGED <<notes, stored>>
    BY <1>1 DEF NoteInv, NotesAreKept
<1>2. stored \in Seq(StoredNote) /\ Len(stored) \in Nat
    BY DEF TypeOK
<1>3. ASSUME NEW i \in DOMAIN stored
      PROVE  /\ stored[i].note = <<stored[i].key, stored[i].second>>
             /\ stored[i].note \in Notes
             /\ \/ ~stored[i].done
                \/ notes[stored[i].note].content = stored[i].content
                \/ \E j \in (i + 1)..Len(stored) :
                       /\ stored[j].key = stored[i].key
                       /\ stored[j].second = stored[i].second
    <2>1. stored[i] \in StoredNote
        BY <1>2
    <2>2. stored[i].note \in Notes
        BY <2>1 DEF StoredNote
    <2> QED
        BY <2>2 DEF NoteInv, NotesAreKept
<1>4. notes \in [Notes -> [content : Nat, order : Nat]]
    BY DEF TypeOK
<1>5. CASE OpenNote
    <2>1. PICK key \in Keys :
              /\ notes' = [notes EXCEPT ![ThisNote(key)] =
                               [content |-> Torn, order |-> written']]
              /\ stored' = Append(stored,
                               [note |-> ThisNote(key), key |-> key,
                                second |-> now, content |-> Whole(written'),
                                done |-> FALSE])
        BY <1>5 DEF OpenNote
    <2> DEFINE n == Len(stored) + 1
    <2>2. /\ DOMAIN stored = 1..Len(stored)
          /\ Len(stored') = n /\ DOMAIN stored' = 1..n
          /\ \A i \in DOMAIN stored : stored'[i] = stored[i]
          /\ stored'[n].note = ThisNote(key) /\ stored'[n].key = key
          /\ stored'[n].second = now /\ stored'[n].done = FALSE
        BY <2>1, <1>2
    <2>3. ASSUME NEW i \in DOMAIN stored
          PROVE  \/ ~stored'[i].done
                 \/ notes'[stored'[i].note].content = stored'[i].content
                 \/ \E j \in (i + 1)..n :
                        /\ stored'[j].key = stored'[i].key
                        /\ stored'[j].second = stored'[i].second
        <3>1. stored'[i] = stored[i]
            BY <2>2
        <3>2. CASE stored[i].note = ThisNote(key)
            <4>1. stored[i].key = key /\ stored[i].second = now
                BY <3>2, <1>3 DEF ThisNote
            <4>2. n \in (i + 1)..n
                BY <2>2, <1>2
            <4> QED
                BY <4>1, <4>2, <3>1, <2>2
        <3>3. CASE stored[i].note # ThisNote(key)
            <4>1. notes'[stored[i].note] = notes[stored[i].note]
                BY <3>3, <2>1, <1>3, <1>4
            <4>2. \A j \in (i + 1)..Len(stored) :
                      j \in (i + 1)..n /\ stored'[j] = stored[j]
                BY <2>2, <1>2
            <4> QED
                BY <4>1, <4>2, <3>1, <1>3
        <3> QED
            BY <3>2, <3>3
    <2>4. NotesAreKept'
        BY <2>2, <2>3 DEF NotesAreKept
    <2>5. \A i \in DOMAIN stored' :
              stored'[i].note = <<stored'[i].key, stored'[i].second>>
        BY <2>2, <1>2, <1>3 DEF ThisNote
    <2> QED
        BY <2>4, <2>5 DEF NoteInv
<1>6. CASE WriteNote
    <2> DEFINE n == Len(stored)
    <2>1. stored # <<>> /\ n \in DOMAIN stored /\ DOMAIN stored = 1..n
        BY <1>6, <1>2 DEF WriteNote, TypeOK
    <2>2. /\ notes' = [notes EXCEPT ![stored[n].note].content
                                       = stored[n].content]
          /\ stored' = Append(SubSeq(stored, 1, n - 1),
                              [stored[n] EXCEPT !.done = TRUE])
        BY <1>6 DEF WriteNote, Last, Front
    <2>3. stored[n] \in StoredNote
        BY <2>1, <1>2
    <2>4. /\ Len(stored') = n /\ DOMAIN stored' = 1..n
          /\ \A i \in 1..(n - 1) : stored'[i] = stored[i]
          /\ stored'[n] = [stored[n] EXCEPT !.done = TRUE]
        BY <2>1, <2>2, <1>2
    <2>5. /\ stored'[n].note = stored[n].note
          /\ stored'[n].key = stored[n].key
          /\ stored'[n].second = stored[n].second
          /\ stored'[n].content = stored[n].content
        BY <2>3, <2>4 DEF StoredNote
    <2>6. notes'[stored'[n].note].content = stored'[n].content
        BY <2>1, <2>2, <2>5, <1>3, <1>4
    <2>7. ASSUME NEW i \in 1..(n - 1)
          PROVE  \/ ~stored'[i].done
                 \/ notes'[stored'[i].note].content = stored'[i].content
                 \/ \E j \in (i + 1)..n :
                        /\ stored'[j].key = stored'[i].key
                        /\ stored'[j].second = stored'[i].second
        <3>1. i \in DOMAIN stored /\ stored'[i] = stored[i]
            BY <2>1, <2>4
        <3>2. n \in (i + 1)..n
            BY <2>1, <1>2
        <3>3. CASE stored[i].note = stored[n].note
            <4>1. /\ stored[i].key = stored[n].key
                  /\ stored[i].second = stored[n].second
                BY <3>1, <3>3, <2>1, <1>3
            <4> QED
                BY <4>1, <3>1, <3>2, <2>5
        <3>4. CASE stored[i].note # stored[n].note
            <4>1. notes'[stored[i].note] = notes[stored[i].note]
                BY <3>1, <3>4, <2>2, <1>3, <1>4
            <4>2. \A j \in (i + 1)..n :
                      /\ stored'[j].key = stored[j].key
                      /\ stored'[j].second = stored[j].second
                <5> SUFFICES ASSUME NEW j \in (i + 1)..n
                             PROVE  /\ stored'[j].key = stored[j].key
                                    /\ stored'[j].second = stored[j].second
                    OBVIOUS
                <5>1. CASE j = n
                    BY <5>1, <2>5
                <5>2. CASE j # n
                    BY <5>2, <2>4, <1>2
                <5> QED
                    BY <5>1, <5>2
            <4> QED
                BY <4>1, <4>2, <3>1, <1>3
        <3> QED
            BY <3>3, <3>4
    <2>10. \A i \in DOMAIN stored' : i \in 1..(n - 1) \/ i = n
        BY <2>4, <1>2
    <2>8. NotesAreKept'
        BY <2>4, <2>6, <2>7, <2>10 DEF NotesAreKept
    <2>9. \A i \in DOMAIN stored' :
              stored'[i].note = <<stored'[i].key, stored'[i].second>>
        BY <2>1, <2>4, <2>5, <2>10, <1>3, ZenonT(60)
    <2> QED
        BY <2>8, <2>9 DEF NoteInv
<1>7. CASE Tick \/ UserSaves \/ Stop \/ StartEdit
    BY <1>1, <1>7 DEF Tick, UserSaves, Stop, StartEdit
<1>8. CASE CopyBackup \/ CopyFails \/ NothingToEdit \/ Found
               \/ OpenFile \/ WriteFile
    BY <1>1, <1>8 DEF CopyBackup, CopyFails, NothingToEdit, Found, OpenFile,
                      WriteFile
<1>9. CASE UNCHANGED vars
    BY <1>1, <1>9 DEF vars
<1> QED
    BY <1>5, <1>6, <1>7, <1>8, <1>9 DEF Next

\* A note reported as stored stays as it was stored, but for a note stored
\* under the same key in the same second.
THEOREM StoredNotesAreKept == Spec => []NotesAreKept
<1>1. Init => NoteInv
    BY DEF Init, NoteInv, NotesAreKept
<1>2. NoteInv => NotesAreKept
    BY DEF NoteInv
<1> QED
    BY <1>1, <1>2, StepNoteInv, StorageTypeCorrect, PTL DEF Spec

-----------------------------------------------------------------------------
(***************************************************************************)
(* Sorting: the i-th is the one that i - 1 others come before.             *)
(***************************************************************************)

IsStrictOrder(S, before) ==
    /\ \A a \in S : <<a, a>> \notin before
    /\ \A a, b \in S : a # b => <<a, b>> \in before \/ <<b, a>> \in before
    /\ \A a, b, c \in S :
           <<a, b>> \in before /\ <<b, c>> \in before => <<a, c>> \in before

Predecessors(S, before, m) == {n \in S : <<n, m>> \in before}

\* What comes before has fewer before it.
LEMMA FewerPredecessors ==
    ASSUME NEW S, IsFiniteSet(S), NEW before, IsStrictOrder(S, before),
           NEW a \in S, NEW b \in S, <<a, b>> \in before
    PROVE  Cardinality(Predecessors(S, before, a))
               < Cardinality(Predecessors(S, before, b))
<1> DEFINE A == Predecessors(S, before, a)
           B == Predecessors(S, before, b)
<1>1. A \in SUBSET B
    BY DEF IsStrictOrder, Predecessors
<1>2. a \in B /\ a \notin A
    BY DEF IsStrictOrder, Predecessors
<1>3. B \in SUBSET S
    BY DEF Predecessors
<1>4. IsFiniteSet(B)
    BY <1>3, FS_Subset
<1> HIDE DEF A, B
<1>5. /\ IsFiniteSet(A) /\ Cardinality(A) <= Cardinality(B)
      /\ Cardinality(B) = Cardinality(A) => B = A
    BY <1>1, <1>4, FS_Subset
<1>6. Cardinality(A) \in Nat /\ Cardinality(B) \in Nat
    BY <1>4, <1>5, FS_CardinalityType
<1>7. Cardinality(A) # Cardinality(B)
    BY <1>2, <1>5
<1> QED
    BY <1>5, <1>6, <1>7 DEF A, B

\* There is one with each number before it, from none to all the others.
LEMMA EachPlaceIsTaken ==
    ASSUME NEW S, IsFiniteSet(S), NEW before, IsStrictOrder(S, before)
    PROVE  /\ Cardinality(S) \in Nat
           /\ \A m \in S : Cardinality(Predecessors(S, before, m)) + 1
                               \in 1..Cardinality(S)
           /\ \A i \in 1..Cardinality(S) : \E m \in S :
                  Cardinality(Predecessors(S, before, m)) = i - 1
<1> DEFINE former(m) == Predecessors(S, before, m)
           size == Cardinality(S)
           place == [m \in S |-> Cardinality(former(m)) + 1]
<1>1. size \in Nat
    BY FS_CardinalityType
<1>2. ASSUME NEW m \in S
      PROVE  /\ Cardinality(former(m)) \in Nat
             /\ Cardinality(former(m)) + 1 \in 1..size
    <2>1. former(m) \in SUBSET S /\ m \notin former(m)
        BY DEF Predecessors, IsStrictOrder
    <2>2. /\ IsFiniteSet(former(m)) /\ Cardinality(former(m)) <= size
          /\ size = Cardinality(former(m)) => S = former(m)
        BY <2>1, FS_Subset
    <2>3. Cardinality(former(m)) \in Nat
        BY <2>2, FS_CardinalityType
    <2> QED
        BY <2>1, <2>2, <2>3, <1>1
<1>3. place \in [S -> 1..size]
    BY <1>2
<1>4. ASSUME NEW a \in S, NEW b \in S, a # b
      PROVE  place[a] # place[b]
    <2>1. <<a, b>> \in before \/ <<b, a>> \in before
        BY <1>4 DEF IsStrictOrder
    <2>2. Cardinality(former(a)) < Cardinality(former(b))
              \/ Cardinality(former(b)) < Cardinality(former(a))
        BY <2>1, FewerPredecessors
    <2>3. Cardinality(former(a)) # Cardinality(former(b))
        BY <2>2, <1>2
    <2> HIDE DEF former
    <2> QED
        BY <2>3, <1>2
<1>5. place \in Injection(S, 1..size)
    <2> HIDE DEF place, size
    <2> QED
        BY <1>3, <1>4, Fun_IsInj
<1>6. IsFiniteSet(1..size) /\ Cardinality(1..size) = size
    BY <1>1, FS_Interval
<1>7. place \in Surjection(S, 1..size)
    <2> HIDE DEF place
    <2> QED
        BY <1>5, <1>6, FS_Injection
<1>8. \A i \in 1..size : \E m \in S : place[m] = i
    <2> HIDE DEF place, size
    <2> QED
        BY <1>7, Fun_SurjectionProperties
<1>9. \A i \in 1..size : \E m \in S : Cardinality(former(m)) = i - 1
    <2> SUFFICES ASSUME NEW i \in 1..size
                 PROVE  \E m \in S : Cardinality(former(m)) = i - 1
        OBVIOUS
    <2>1. PICK m \in S : place[m] = i
        BY <1>8
    <2>2. Cardinality(former(m)) + 1 = i
        BY <2>1
    <2> HIDE DEF former
    <2>3. Cardinality(former(m)) = i - 1
        BY <2>2, <1>2
    <2> QED
        BY <2>3
<1> QED
    BY <1>1, <1>2, <1>9

\* Sorted gives each element of a finite set once, in the order.
LEMMA SortedIsSorted ==
    ASSUME NEW S, IsFiniteSet(S), NEW before, IsStrictOrder(S, before)
    PROVE  LET s == Sorted(S, before)
           IN  /\ s \in Seq(S)
               /\ \A m \in S : \E i \in 1..Len(s) : s[i] = m
               /\ \A i, j \in 1..Len(s) : <<s[i], s[j]>> \in before => i < j
<1> DEFINE s == Sorted(S, before)
           count(m) == Cardinality(Predecessors(S, before, m))
           size == Cardinality(S)
<1>1. s = [i \in 1..size |-> CHOOSE m \in S : count(m) = i - 1]
    BY DEF Sorted, Predecessors
<1>2. /\ size \in Nat
      /\ \A m \in S : count(m) + 1 \in 1..size
      /\ \A i \in 1..size : \E m \in S : count(m) = i - 1
    BY EachPlaceIsTaken
<1>3. \A a, b \in S : <<a, b>> \in before => count(a) < count(b)
    BY FewerPredecessors
<1>4. \A m \in S : count(m) \in Nat
    <2> SUFFICES ASSUME NEW m \in S PROVE count(m) \in Nat
        OBVIOUS
    <2>1. Predecessors(S, before, m) \in SUBSET S
        BY DEF Predecessors
    <2> QED
        BY <2>1, FS_Subset, FS_CardinalityType
<1>5. \A a, b \in S : a # b => count(a) # count(b)
    <2> SUFFICES ASSUME NEW a \in S, NEW b \in S, a # b
                 PROVE  count(a) # count(b)
        OBVIOUS
    <2>1. <<a, b>> \in before \/ <<b, a>> \in before
        BY DEF IsStrictOrder
    <2>2. count(a) < count(b) \/ count(b) < count(a)
        BY <2>1, <1>3
    <2> HIDE DEF count
    <2> QED
        BY <2>2, <1>4
<1> HIDE DEF count, size
<1>6. \A i \in 1..size : s[i] \in S /\ count(s[i]) = i - 1
    <2> SUFFICES ASSUME NEW i \in 1..size
                 PROVE  s[i] \in S /\ count(s[i]) = i - 1
        OBVIOUS
    <2>1. s[i] = CHOOSE m \in S : count(m) = i - 1
        BY <1>1
    <2> HIDE DEF s
    <2> QED
        BY <2>1, <1>2
<1>7. s \in Seq(S) /\ Len(s) = size
    BY <1>1, <1>2, <1>6
<1> HIDE DEF s
<1>8. \A m \in S : \E i \in 1..Len(s) : s[i] = m
    <2> SUFFICES ASSUME NEW m \in S PROVE \E i \in 1..size : s[i] = m
        BY <1>7
    <2> DEFINE i == count(m) + 1
    <2>1. i \in 1..size
        BY <1>2
    <2>2. s[i] \in S /\ count(s[i]) = count(m)
        BY <2>1, <1>4, <1>6
    <2> QED
        BY <2>1, <2>2, <1>5
<1>9. \A i, j \in 1..Len(s) : <<s[i], s[j]>> \in before => i < j
    <2> SUFFICES ASSUME NEW i \in 1..size, NEW j \in 1..size,
                        <<s[i], s[j]>> \in before
                 PROVE  i < j
        BY <1>7
    <2>1. count(s[i]) < count(s[j])
        BY <1>3, <1>6
    <2> QED
        BY <2>1, <1>2, <1>6
<1> QED
    BY <1>7, <1>8, <1>9 DEF s

-----------------------------------------------------------------------------
(***************************************************************************)
(* What a limit cuts off is the oldest.                                    *)
(***************************************************************************)

\* In the first so many of what is sorted, what comes before is before.
LEMMA FirstInOrder ==
    ASSUME NEW S, IsFiniteSet(S), NEW before, IsStrictOrder(S, before),
           NEW limit \in Nat, NEW older, NEW newer \in S,
           older \in S => <<newer, older>> \in before
    PROVE  NewerFirst(FirstOf(limit, Sorted(S, before)), older, newer)
<1> DEFINE s == Sorted(S, before)
           n == IF limit < Len(s) THEN limit ELSE Len(s)
           given == FirstOf(limit, s)
<1>1. /\ s \in Seq(S)
      /\ \A m \in S : \E i \in 1..Len(s) : s[i] = m
      /\ \A i, j \in 1..Len(s) : <<s[i], s[j]>> \in before => i < j
    BY SortedIsSorted
<1> HIDE DEF s
<1>2. given = SubSeq(s, 1, n) /\ n \in Nat /\ n <= Len(s) /\ Len(s) \in Nat
    BY <1>1 DEF FirstOf
<1>3. DOMAIN given = 1..n /\ \A i \in 1..n : given[i] = s[i]
    BY <1>1, <1>2
<1> HIDE DEF given, n
<1>4. ASSUME NEW i \in DOMAIN given, given[i] = older
      PROVE  \E j \in 1..(i - 1) : given[j] = newer
    <2>1. i \in 1..n /\ i \in 1..Len(s) /\ s[i] = older
        BY <1>2, <1>3, <1>4
    <2>2. older \in S
        BY <2>1, <1>1
    <2>3. PICK j \in 1..Len(s) : s[j] = newer
        BY <1>1
    <2>4. j < i
        BY <2>1, <2>2, <2>3, <1>1
    <2>5. j \in 1..(i - 1) /\ j \in 1..n
        BY <2>1, <2>4, <1>2
    <2> QED
        BY <2>3, <2>5, <1>3
<1> QED
    BY <1>4 DEF NewerFirst, given, s

\* Only recorded notes are on disk, so they are finitely many, and no two
\* were written at once.
LEMMA DiskIsInOrder ==
    ASSUME TypeOK, OrderInv
    PROVE  IsFiniteSet(OnDisk) /\ IsStrictOrder(OnDisk, LatestFirst)
<1> DEFINE places == 1..Len(stored)
           notesOf == {stored[i].note : i \in places}
<1>1. Len(stored) \in Nat /\ DOMAIN stored = places
    BY DEF TypeOK
<1>2. IsFiniteSet(places)
    BY <1>1, FS_Interval
<1>3. IsFiniteSet(notesOf)
    <2> DEFINE f == [i \in places |-> stored[i].note]
    <2>1. f \in [places -> notesOf] /\ \A m \in notesOf : \E i \in places : f[i] = m
        OBVIOUS
    <2>2. f \in Surjection(places, notesOf)
        <3> HIDE DEF f, places, notesOf
        <3> QED
            BY <2>1, Fun_IsSurj
    <2> HIDE DEF f, places, notesOf
    <2> QED
        BY <2>2, <1>2, FS_Surjection
<1>4. OnDisk \in SUBSET notesOf
    BY <1>1 DEF OrderInv, NotesAreWrites
<1>5. IsFiniteSet(OnDisk)
    BY <1>3, <1>4, FS_Subset
<1>6. \A m \in OnDisk : m \in Notes /\ notes[m].order \in Nat
    BY DEF OnDisk, TypeOK
<1>7. \A m, n \in OnDisk :
          <<m, n>> \in LatestFirst <=> notes[m].order > notes[n].order
    BY <1>6 DEF LatestFirst
<1>8. \A m, n \in OnDisk : notes[m].order = notes[n].order => m = n
    BY DEF OrderInv, NotesAreWrites
<1>9. IsStrictOrder(OnDisk, LatestFirst)
    BY <1>6, <1>7, <1>8 DEF IsStrictOrder
<1> QED
    BY <1>5, <1>9

\* The names of notes are in a strict order.
LEMMA NamesAreInOrder ==
    ASSUME NEW S, S \subseteq Notes
    PROVE  IsStrictOrder(S, ByNameDescending)
<1>1. \A m \in Notes : m[1] \in Nat /\ m[2] \in Nat /\ m = <<m[1], m[2]>>
    <2> SUFFICES ASSUME NEW m \in Notes
                 PROVE  m[1] \in Nat /\ m[2] \in Nat /\ m = <<m[1], m[2]>>
        OBVIOUS
    <2>1. PICK key \in Keys, second \in Times : m = <<key, second>>
        BY DEF Notes
    <2>2. key \in Nat /\ second \in Nat
        BY StorageAssumption
    <2> QED
        BY <2>1, <2>2
<1>2. \A m, n \in Notes :
          <<m, n>> \in ByNameDescending <=>
              \/ m[1] > n[1]
              \/ m[1] = n[1] /\ m[2] > n[2]
    BY DEF ByNameDescending
<1>3. \A a \in S : <<a, a>> \notin ByNameDescending
    BY <1>1, <1>2
<1>4. \A a, b \in S : a # b => \/ <<a, b>> \in ByNameDescending
                               \/ <<b, a>> \in ByNameDescending
    <2> SUFFICES ASSUME NEW a \in S, NEW b \in S, a # b
                 PROVE  \/ <<a, b>> \in ByNameDescending
                        \/ <<b, a>> \in ByNameDescending
        OBVIOUS
    <2>1. a[1] # b[1] \/ a[2] # b[2]
        BY <1>1, Zenon
    <2> QED
        BY <2>1, <1>1, <1>2
<1>5. \A a, b, c \in S :
          <<a, b>> \in ByNameDescending /\ <<b, c>> \in ByNameDescending
              => <<a, c>> \in ByNameDescending
    BY <1>1, <1>2
<1> QED
    BY <1>3, <1>4, <1>5 DEF IsStrictOrder

\* Of two notes that are kept, the later stored is the later written.
LEMMA KeptInOrder ==
    ASSUME TypeOK, NoteInv, OrderInv,
           NEW i \in DOMAIN stored, NEW j \in DOMAIN stored, i < j,
           IsKept(stored[i]), IsKept(stored[j])
    PROVE  /\ stored[i].note \in OnDisk /\ stored[j].note \in OnDisk
           /\ notes[stored[i].note].content \notin {Absent, Torn}
           /\ notes[stored[j].note].content \notin {Absent, Torn}
           /\ notes[stored[i].note].order < notes[stored[j].note].order
           /\ stored[i].key = stored[j].key =>
                  stored[i].second < stored[j].second
<1>1. \A k \in {i, j} :
          /\ stored[k] \in StoredNote
          /\ stored[k].note \in Notes
          /\ stored[k].note = <<stored[k].key, stored[k].second>>
          /\ stored[k].content \in Nat /\ stored[k].content > Torn
          /\ stored[k].second \in Nat
          /\ notes[stored[k].note].content = stored[k].content
          /\ notes[stored[k].note].order \in Nat
    <2> SUFFICES ASSUME NEW k \in DOMAIN stored, IsKept(stored[k])
                 PROVE  /\ stored[k] \in StoredNote
                        /\ stored[k].note \in Notes
                        /\ stored[k].note = <<stored[k].key, stored[k].second>>
                        /\ stored[k].content \in Nat /\ stored[k].content > Torn
                        /\ stored[k].second \in Nat
                        /\ notes[stored[k].note].content = stored[k].content
                        /\ notes[stored[k].note].order \in Nat
        OBVIOUS
    <2>1. stored[k] \in StoredNote
        BY DEF TypeOK
    <2>2. /\ stored[k].note \in Notes /\ stored[k].content \in Nat
          /\ stored[k].second \in Nat
        BY <2>1, StorageAssumption DEF StoredNote
    <2> QED
        BY <2>1, <2>2 DEF NoteInv, OrderInv, WritesInOrder, IsKept, TypeOK
<1>2. \A k \in {i, j} :
          /\ stored[k].note \in OnDisk
          /\ notes[stored[k].note].content \notin {Absent, Torn}
    BY <1>1 DEF OnDisk
<1>3. \A k \in {i, j} :
          stored[k].content = Whole(notes[stored[k].note].order)
    BY <1>1, <1>2 DEF OrderInv, NotesAreWrites
<1>4. stored[i].content < stored[j].content
      /\ stored[i].second <= stored[j].second
    BY DEF OrderInv, WritesInOrder
<1>5. notes[stored[i].note].order < notes[stored[j].note].order
    BY <1>1, <1>3, <1>4
<1>6. stored[i].note # stored[j].note
    BY <1>1, <1>5
<1>7. stored[i].key = stored[j].key => stored[i].second # stored[j].second
    BY <1>1, <1>6
<1> QED
    BY <1>1, <1>2, <1>4, <1>5, <1>7

LEMMA InOrderNewestFirst == TypeOK /\ NoteInv /\ OrderInv => NewestNotesFirst
<1> SUFFICES ASSUME TypeOK, NoteInv, OrderInv,
                    NEW i \in DOMAIN stored, NEW j \in DOMAIN stored,
                    NEW limit \in Limits, i < j,
                    IsKept(stored[i]), IsKept(stored[j])
             PROVE  /\ NewerFirst(Listed(limit), stored[i].note, stored[j].note)
                    /\ stored[i].key = stored[j].key =>
                           \A keys \in SUBSET Keys :
                               NewerFirst(Searched(keys, limit),
                                          stored[i].note, stored[j].note)
    BY DEF NewestNotesFirst
<1> DEFINE older == stored[i].note
           newer == stored[j].note
<1>1. /\ older \in OnDisk /\ newer \in OnDisk
      /\ notes[newer].content \notin {Absent, Torn}
      /\ notes[older].order < notes[newer].order
      /\ stored[i].key = stored[j].key => stored[i].second < stored[j].second
    BY KeptInOrder
<1>2. older \in Notes /\ newer \in Notes
    BY <1>1 DEF OnDisk
<1>3. limit \in Nat
    BY StorageAssumption
<1>4. NewerFirst(Listed(limit), older, newer)
    <2>1. notes[older].order \in Nat /\ notes[newer].order \in Nat
        BY <1>2 DEF TypeOK
    <2>2. <<newer, older>> \in LatestFirst
        BY <1>1, <1>2, <2>1 DEF LatestFirst
    <2> HIDE DEF older, newer
    <2> QED
        BY <1>1, <1>3, <2>2, DiskIsInOrder, FirstInOrder DEF Listed
<1>5. ASSUME stored[i].key = stored[j].key, NEW keys \in SUBSET Keys
      PROVE  NewerFirst(Searched(keys, limit), older, newer)
    <2>1. Matching(keys) \in SUBSET OnDisk /\ Matching(keys) \subseteq Notes
        BY DEF Matching, OnDisk, Notes
    <2>2. IsFiniteSet(Matching(keys))
        BY <2>1, DiskIsInOrder, FS_Subset
    <2>3. IsStrictOrder(Matching(keys), ByNameDescending)
        BY <2>1, NamesAreInOrder
    <2>4. /\ older = <<stored[i].key, stored[i].second>>
          /\ newer = <<stored[j].key, stored[j].second>>
          /\ stored[j].second \in Times
          /\ stored[i].second \in Nat /\ stored[j].second \in Nat
        <3>1. stored[i] \in StoredNote /\ stored[j] \in StoredNote
            BY DEF TypeOK
        <3> QED
            BY <3>1, StorageAssumption DEF NoteInv, StoredNote
    <2>5. <<newer, older>> \in ByNameDescending
        BY <2>4, <1>1, <1>2, <1>5 DEF ByNameDescending
    <2>6. CASE newer \in Matching(keys)
        <3> HIDE DEF older, newer
        <3> QED
            BY <2>2, <2>3, <2>5, <2>6, <1>3, FirstInOrder DEF Searched
    <2>7. CASE newer \notin Matching(keys)
        <3>1. stored[i].key \notin keys
            BY <2>4, <2>7, <1>1, <1>5 DEF Matching
        <3>2. older \notin Matching(keys)
            BY <2>4, <3>1 DEF Matching
        <3> DEFINE s == Sorted(Matching(keys), ByNameDescending)
                   n == IF limit < Len(s) THEN limit ELSE Len(s)
        <3>3. s \in Seq(Matching(keys))
            BY <2>2, <2>3, SortedIsSorted
        <3>4. Searched(keys, limit) = SubSeq(s, 1, n)
            BY DEF Searched, FirstOf
        <3> HIDE DEF s
        <3>5. /\ n \in 0..Len(s)
              /\ DOMAIN SubSeq(s, 1, n) = 1..n
              /\ \A k \in 1..n : SubSeq(s, 1, n)[k] = s[k]
                                 /\ s[k] \in Matching(keys)
            BY <3>3, <1>3
        <3> HIDE DEF n
        <3> QED
            BY <3>2, <3>4, <3>5 DEF NewerFirst
    <2> QED
        BY <2>6, <2>7
<1> QED
    BY <1>4, <1>5

\* A note is opened: it is the last one written, whatever it replaces.
LEMMA OpenNoteInOrder ==
    ASSUME TypeOK, OrderInv, OpenNote
    PROVE  OrderInv'
<1>1. PICK key \in Keys :
          /\ notes' = [notes EXCEPT ![ThisNote(key)] =
                           [content |-> Torn, order |-> written']]
          /\ stored' = Append(stored,
                           [note |-> ThisNote(key), key |-> key,
                            second |-> now, content |-> Whole(written'),
                            done |-> FALSE])
    BY DEF OpenNote
<1> DEFINE n == Len(stored) + 1
           new == ThisNote(key)
<1>2. /\ written \in Nat /\ written' = written + 1 /\ now' = now /\ now \in Nat
      /\ stored \in Seq(StoredNote) /\ n \in Nat /\ n >= 1
      /\ notes \in [Notes -> [content : Nat, order : Nat]]
    BY StorageAssumption DEF OpenNote, TypeOK
<1>3. new \in Notes
    BY DEF ThisNote, TypeOK, Notes
<1>4. /\ DOMAIN stored = 1..(n - 1) /\ DOMAIN stored' = 1..n /\ Len(stored') = n
      /\ \A i \in 1..(n - 1) : stored'[i] = stored[i]
      /\ stored'[n].note = new /\ stored'[n].second = now
      /\ stored'[n].content = written + 2
    BY <1>1, <1>2
<1>5. /\ notes'[new] = [content |-> Torn, order |-> written + 1]
      /\ \A m \in Notes \ {new} : notes'[m] = notes[m]
    BY <1>1, <1>2, <1>3
<1>6. \A i \in 1..(n - 1) :
          /\ stored[i].content \in Nat /\ stored[i].second \in Nat
          /\ stored[i].content > Torn /\ stored[i].content <= written + 1
          /\ stored[i].second <= now
          /\ \A j \in 1..(n - 1) :
                 i < j => /\ stored[i].content < stored[j].content
                          /\ stored[i].second <= stored[j].second
    <2> SUFFICES ASSUME NEW i \in 1..(n - 1)
                 PROVE  /\ stored[i].content \in Nat /\ stored[i].second \in Nat
                        /\ stored[i].content > Torn
                        /\ stored[i].content <= written + 1
                        /\ stored[i].second <= now
                        /\ \A j \in 1..(n - 1) :
                               i < j => /\ stored[i].content < stored[j].content
                                        /\ stored[i].second <= stored[j].second
        OBVIOUS
    <2>1. stored[i] \in StoredNote
        BY <1>2, <1>4
    <2>2. stored[i].content \in Nat /\ stored[i].second \in Nat
        BY <2>1, StorageAssumption DEF StoredNote
    <2> QED
        BY <2>2, <1>4 DEF OrderInv, WritesInOrder
<1> HIDE DEF n, new
<1>7. WritesInOrder'
    <2>1. ASSUME NEW i \in 1..n
          PROVE  /\ stored'[i].content > Torn
                 /\ stored'[i].content <= written' + 1
                 /\ stored'[i].second <= now'
                 /\ \A j \in 1..n :
                        i < j => /\ stored'[i].content < stored'[j].content
                                 /\ stored'[i].second <= stored'[j].second
        <3>1. CASE i = n
            BY <3>1, <1>2, <1>4
        <3>2. CASE i # n
            <4>1. i \in 1..(n - 1) /\ stored'[i] = stored[i]
                BY <3>2, <1>2, <1>4
            <4>2. ASSUME NEW j \in 1..n, i < j
                  PROVE  /\ stored'[i].content < stored'[j].content
                         /\ stored'[i].second <= stored'[j].second
                <5>1. CASE j = n
                    BY <4>1, <5>1, <1>2, <1>4, <1>6
                <5>2. CASE j # n
                    <6>1. j \in 1..(n - 1) /\ stored'[j] = stored[j]
                        BY <5>2, <1>2, <1>4
                    <6> QED
                        BY <4>1, <4>2, <6>1, <1>6
                <5> QED
                    BY <5>1, <5>2
            <4>3. /\ stored'[i].content > Torn
                  /\ stored'[i].content <= written' + 1
                  /\ stored'[i].second <= now'
                BY <4>1, <1>2, <1>6
            <4> QED
                BY <4>2, <4>3
        <3> QED
            BY <3>1, <3>2
    <2> QED
        BY <2>1, <1>4 DEF WritesInOrder
<1>8. \A m \in OnDisk' : m # new => m \in OnDisk /\ notes'[m] = notes[m]
    BY <1>5 DEF OnDisk
<1>9. NotesAreWrites'
    <2>1. ASSUME NEW m \in OnDisk'
          PROVE  /\ \E i \in DOMAIN stored' : stored'[i].note = m
                 /\ notes'[m].content \in {Torn, notes'[m].order + 1}
                 /\ notes'[m].order <= written'
                 /\ m = new \/ notes'[m].order < written'
        <3>1. CASE m = new
            <4>1. n \in DOMAIN stored' /\ stored'[n].note = m
                BY <3>1, <1>2, <1>4
            <4> QED
                BY <3>1, <4>1, <1>2, <1>5
        <3>2. CASE m # new
            <4>1. m \in OnDisk /\ notes'[m] = notes[m]
                BY <3>2, <1>8
            <4>2. m \in Notes /\ notes[m].order \in Nat
                BY <4>1, <1>2 DEF OnDisk
            <4>3. PICK i \in DOMAIN stored : stored[i].note = m
                BY <4>1 DEF OrderInv, NotesAreWrites
            <4>4. i \in DOMAIN stored' /\ stored'[i].note = m
                BY <4>3, <1>2, <1>4
            <4>5. /\ notes[m].content \in {Torn, notes[m].order + 1}
                  /\ notes[m].order <= written
                BY <4>1 DEF OrderInv, NotesAreWrites
            <4> QED
                BY <4>1, <4>2, <4>4, <4>5, <1>2
        <3> QED
            BY <3>1, <3>2
    <2>2. ASSUME NEW m \in OnDisk', NEW k \in OnDisk',
                 notes'[m].order = notes'[k].order
          PROVE  m = k
        <3>1. CASE m # new /\ k # new
            <4>1. /\ m \in OnDisk /\ notes'[m] = notes[m]
                  /\ k \in OnDisk /\ notes'[k] = notes[k]
                BY <3>1, <1>8
            <4> QED
                BY <4>1, <2>2 DEF OrderInv, NotesAreWrites
        <3>2. CASE m = new \/ k = new
            <4>1. notes'[new].order = written'
                BY <1>2, <1>5
            <4>2. notes'[m].order = written' /\ notes'[k].order = written'
                BY <3>2, <4>1, <2>2
            <4>3. ~(written' < written')
                BY <1>2
            <4> QED
                BY <2>1, <4>2, <4>3
        <3> QED
            BY <3>1, <3>2
    <2> QED
        BY <2>1, <2>2 DEF NotesAreWrites
<1>10. Last(stored') = stored'[n]
    BY <1>4 DEF Last
<1> QED
    BY <1>2, <1>4, <1>5, <1>7, <1>9, <1>10 DEF OrderInv

\* The note that is open gets its content.
LEMMA WriteNoteInOrder ==
    ASSUME TypeOK, OrderInv, WriteNote
    PROVE  OrderInv'
<1> DEFINE n == Len(stored)
           open == stored[n].note
<1>1. /\ stored \in Seq(StoredNote) /\ stored # <<>>
      /\ notes \in [Notes -> [content : Nat, order : Nat]]
    BY DEF WriteNote, TypeOK
<1>2. n \in DOMAIN stored /\ DOMAIN stored = 1..n /\ n \in Nat
    BY <1>1
<1>3. stored[n] \in StoredNote /\ open \in Notes
    <2>1. stored[n] \in StoredNote
        BY <1>1, <1>2
    <2> QED
        BY <2>1 DEF StoredNote
<1>4. /\ notes' = [notes EXCEPT ![open].content = stored[n].content]
      /\ stored' = Append(SubSeq(stored, 1, n - 1),
                          [stored[n] EXCEPT !.done = TRUE])
      /\ written' = written /\ now' = now /\ pc' = "idle"
    BY DEF WriteNote, Last, Front
<1>5. /\ Len(stored') = n /\ DOMAIN stored' = 1..n
      /\ \A i \in 1..(n - 1) : stored'[i] = stored[i]
      /\ stored'[n] = [stored[n] EXCEPT !.done = TRUE]
    BY <1>1, <1>2, <1>4
<1>6. \A i \in 1..n : /\ stored'[i].note = stored[i].note
                      /\ stored'[i].content = stored[i].content
                      /\ stored'[i].second = stored[i].second
    <2> SUFFICES ASSUME NEW i \in 1..n
                 PROVE  /\ stored'[i].note = stored[i].note
                        /\ stored'[i].content = stored[i].content
                        /\ stored'[i].second = stored[i].second
        OBVIOUS
    <2>1. CASE i = n
        BY <2>1, <1>3, <1>5 DEF StoredNote
    <2>2. CASE i # n
        BY <2>2, <1>2, <1>5
    <2> QED
        BY <2>1, <2>2
<1>7. /\ notes[open].content = Torn
      /\ notes[open].order + 1 = stored[n].content
    BY DEF OrderInv, WriteNote, Last
<1>8. /\ \A m \in Notes : notes'[m].order = notes[m].order
      /\ \A m \in Notes \ {open} : notes'[m] = notes[m]
      /\ notes'[open].content = notes[open].order + 1
    BY <1>1, <1>3, <1>4, <1>7
<1>9. WritesInOrder'
    BY <1>2, <1>4, <1>5, <1>6 DEF OrderInv, WritesInOrder
<1>10. OnDisk' = OnDisk
    <2>1. open \in OnDisk
        BY <1>3, <1>7 DEF OnDisk
    <2>2. stored[n].content # Absent
        BY <1>2 DEF OrderInv, WritesInOrder
    <2>3. open \in OnDisk'
        BY <2>2, <1>3, <1>7, <1>8 DEF OnDisk
    <2> QED
        BY <2>1, <2>3, <1>8 DEF OnDisk
<1>11. NotesAreWrites'
    <2>1. ASSUME NEW m \in OnDisk
          PROVE  /\ \E i \in DOMAIN stored' : stored'[i].note = m
                 /\ notes'[m].content \in {Torn, notes'[m].order + 1}
                 /\ notes'[m].order <= written'
                 /\ \A k \in OnDisk : notes'[m].order = notes'[k].order => m = k
        <3>1. m \in Notes /\ OnDisk \subseteq Notes
            BY DEF OnDisk
        <3>2. /\ \E i \in DOMAIN stored : stored[i].note = m
              /\ notes[m].content \in {Torn, notes[m].order + 1}
              /\ notes[m].order <= written
              /\ \A k \in OnDisk : notes[m].order = notes[k].order => m = k
            BY DEF OrderInv, NotesAreWrites
        <3>3. \E i \in DOMAIN stored' : stored'[i].note = m
            BY <3>2, <1>2, <1>5, <1>6
        <3>4. notes'[m].content \in {Torn, notes'[m].order + 1}
            BY <3>1, <3>2, <1>8
        <3>5. /\ notes'[m].order <= written'
              /\ \A k \in OnDisk : notes'[m].order = notes'[k].order => m = k
            BY <3>1, <3>2, <1>4, <1>8
        <3> QED
            BY <3>3, <3>4, <3>5
    <2> QED
        BY <2>1, <1>10 DEF NotesAreWrites
<1> QED
    BY <1>4, <1>9, <1>11 DEF OrderInv

LEMMA StepOrderInv == TypeOK /\ OrderInv /\ [Next]_vars => OrderInv'
<1> SUFFICES ASSUME TypeOK, OrderInv, [Next]_vars PROVE OrderInv'
    OBVIOUS
<1>1. /\ written \in Nat /\ now \in Nat
      /\ \A i \in DOMAIN stored :
             stored[i].content \in Nat /\ stored[i].second \in Nat
    <2>1. ASSUME NEW i \in DOMAIN stored
          PROVE  stored[i].content \in Nat /\ stored[i].second \in Nat
        <3>1. stored[i] \in StoredNote
            BY DEF TypeOK
        <3> QED
            BY <3>1, StorageAssumption DEF StoredNote
    <2> QED
        BY <2>1, StorageAssumption DEF TypeOK
<1>2. \A m \in OnDisk : notes[m].order \in Nat
    BY DEF OnDisk, TypeOK
\* Elsewhere notes do not change, and time and contents do not go back.
<1>3. ASSUME UNCHANGED <<notes, stored>>,
             written' \in Nat, written' >= written,
             now' \in Nat, now' >= now,
             pc' = "note" => pc = "note"
      PROVE  OrderInv'
    <2>1. WritesInOrder'
        BY <1>1, <1>3 DEF OrderInv, WritesInOrder
    <2>2. OnDisk' = OnDisk
        BY <1>3 DEF OnDisk
    <2>3. NotesAreWrites'
        BY <1>1, <1>2, <1>3, <2>2 DEF OrderInv, NotesAreWrites
    <2> QED
        BY <1>3, <2>1, <2>3 DEF OrderInv
<1>4. CASE OpenNote
    BY <1>4, OpenNoteInOrder
<1>5. CASE WriteNote
    BY <1>5, WriteNoteInOrder
<1>6. CASE Tick
    BY <1>1, <1>3, <1>6 DEF Tick, disk, past
<1>7. CASE UserSaves
    BY <1>1, <1>3, <1>7 DEF UserSaves
<1>8. CASE Stop \/ NothingToEdit \/ CopyFails
    BY <1>1, <1>3, <1>8 DEF Stop, NothingToEdit, CopyFails, Ends
<1>9. CASE StartEdit
    BY <1>1, <1>3, <1>9 DEF StartEdit
<1>10. CASE CopyBackup \/ Found \/ OpenFile
    BY <1>1, <1>3, <1>10 DEF CopyBackup, Found, OpenFile
<1>11. CASE WriteFile
    BY <1>1, <1>3, <1>11 DEF WriteFile, Ends
<1>12. CASE UNCHANGED vars
    BY <1>1, <1>3, <1>12 DEF vars
<1> QED
    BY <1>4, <1>5, <1>6, <1>7, <1>8, <1>9, <1>10, <1>11, <1>12 DEF Next

\* Of two notes that are kept, neither a listing nor, under one key, a search
\* gives the older one alone or first.
THEOREM LimitsCutOffTheOldest == Spec => []NewestNotesFirst
<1>1. Init => NoteInv /\ OrderInv
    BY StorageAssumption DEF Init, NoteInv, NotesAreKept, OrderInv,
       WritesInOrder, NotesAreWrites, OnDisk
<1> QED
    BY <1>1, StepNoteInv, StepOrderInv, InOrderNewestFirst, StorageTypeCorrect,
       PTL DEF Spec

=============================================================================
