--------------------------- MODULE BackupRestore ---------------------------
(***************************************************************************)
(* Backups of the database, restoring one, and deleting the database:      *)
(* services/backup, services/dangerZone, the backup:* and danger:*         *)
(* handlers of ipc/index, and initDatabase/closeDatabase of db/index.      *)
(*                                                                         *)
(* Each handler awaits once, while SQLite copies the database page by page *)
(* (db.backup).  What follows the await runs to its end without another:   *)
(* manifest, pruning, closing, replacing the file and opening it again.    *)
(* Other handlers and writes run during the await; the process may stop    *)
(* anywhere, also between two file operations of that last part.           *)
(*                                                                         *)
(* Abstracted: what the database holds is one value; receipts and          *)
(* attachments, checksums, settings and audit rows are left out.           *)
(***************************************************************************)
EXTENDS Naturals, Sequences, SequencesExt

CONSTANTS
    Data,            \* what the database may hold after work was done in it
    Fresh,           \* a database just created, with its schema and seeds
    Bad,             \* a file that is whole but does not open as a database
    NoFile,          \* nedarim.db is missing
    Torn,            \* nedarim.db was only partly written
    Elsewhere,       \* contents of the backups in folders the program never prunes
    Jobs,            \* handlers that may be under way at once
    KeepAuto,        \* createBackup's keep, 30
    KeepSafety,      \* prepareRestore's keep, 5
    FailedOpenLocks, \* a database that failed to open cannot be removed (Windows)
    MaxBackups,      \* bound: backups begun
    MaxFailures,     \* bound: backups that fail while the process runs on
    MaxCrashes       \* bound: times the process stops

ASSUME ContentsApart == /\ {Fresh, Bad, NoFile, Torn} \cap Data = {}
                        /\ Fresh \notin {Bad, NoFile, Torn}
                        /\ Bad \notin {NoFile, Torn} /\ NoFile # Torn
                        /\ Elsewhere \subseteq Data \cup {Fresh, Bad}
ASSUME KeepsSome == KeepAuto \in Nat \ {0} /\ KeepSafety \in Nat \ {0}
ASSUME Bounds == /\ MaxBackups \in Nat /\ MaxFailures \in Nat /\ MaxCrashes \in Nat
                 /\ FailedOpenLocks \in BOOLEAN

VARIABLES
    file,     \* what nedarim.db holds
    open,     \* db/index holds an open connection to it
    up,       \* the process runs
    folder,   \* backups/auto and backups/before-restore: their backups by name
    job,      \* the handlers that await db.backup
    made,     \* backups begun so far; also the next one's name
    failures, crashes

vars == <<file, open, up, folder, job, made, failures, crashes>>

Folders == {"auto", "before-restore"}
KeepIn(d) == IF d = "auto" THEN KeepAuto ELSE KeepSafety

\* done: the manifest was written.  An unfinished backup has no usable content.
Backup == [name : Nat, content : Data \cup {Fresh, Torn}, done : BOOLEAN]

\* a backup the user chose to restore; place is its folder
Choice == [place : Folders \cup {"elsewhere"}, name : Nat, content : Data \cup {Fresh, Bad}]
NoChoice == [place |-> "elsewhere", name |-> 0, content |-> Fresh]

Idle == [kind |-> "none", name |-> 0, from |-> NoChoice]
Job == [kind : {"none", "backup", "restore", "delete"}, name : Nat, from : Choice]

\* every variable holds what its file, folder or field can hold
TypeOK ==
    /\ file \in Data \cup {Fresh, Bad, NoFile, Torn}
    /\ open \in BOOLEAN
    /\ up \in BOOLEAN
    /\ folder \in [Folders -> Seq(Backup)]
    /\ \A d \in Folders : Len(folder[d]) <= MaxBackups
    /\ job \in [Jobs -> Job]
    /\ made \in 0..MaxBackups
    /\ failures \in 0..MaxFailures
    /\ crashes \in 0..MaxCrashes

Init ==
    /\ file \in Data
    /\ open = TRUE
    /\ up = TRUE
    /\ folder = [d \in Folders |-> <<>>]
    /\ job = [j \in Jobs |-> Idle]
    /\ made = 0
    /\ failures = 0
    /\ crashes = 0

\* mutant: whatever file was put in place counts as a database
Opens_Always(c) == TRUE

Opens(c) == c \in Data \cup {Fresh}

FolderOf(kind) == IF kind = "restore" THEN "before-restore" ELSE "auto"

-----------------------------------------------------------------------------
(* Work in the database, by every other handler *)

Write(c) ==
    /\ open
    /\ file # c
    /\ file' = c
    /\ UNCHANGED <<open, up, folder, job, made, failures, crashes>>

-----------------------------------------------------------------------------
(* createBackup up to its await: a folder of its own, with a later name *)

Begin(j, kind, choice) ==
    /\ open
    /\ job[j].kind = "none"
    /\ made < MaxBackups
    /\ made' = made + 1
    /\ job' = [job EXCEPT ![j] = [kind |-> kind, name |-> made', from |-> choice]]
    /\ folder' = [folder EXCEPT ![FolderOf(kind)] =
                     Append(@, [name |-> made', content |-> Torn, done |-> FALSE])]
    /\ UNCHANGED <<file, open, up, failures, crashes>>

\* backup:create, to the internal folder
StartBackup(j) == Begin(j, "backup", NoChoice)

\* danger:deleteDatabase, its confirmation typed correctly
StartDelete(j) == Begin(j, "delete", NoChoice)

\* what the list of backups lets the user pick: valid ones only
Offered ==
    (UNION {{[place |-> d, name |-> b.name, content |-> b.content] :
                 b \in {x \in Range(folder[d]) : x.done}} : d \in Folders})
    \cup {[place |-> "elsewhere", name |-> 0, content |-> c] : c \in Elsewhere}

\* backup:restore: prepareRestore verifies the choice and makes a safety copy
StartRestore(j) == \E choice \in Offered : Begin(j, "restore", choice)

-----------------------------------------------------------------------------
(* createBackup after its await: the copy holds what the database holds    *)
(* when its last page is copied; then the folder is pruned, oldest first.  *)

Finished(j) ==
    LET d == FolderOf(job[j].kind)
    IN  [k \in 1..Len(folder[d]) |->
            IF folder[d][k].name = job[j].name
            THEN [folder[d][k] EXCEPT !.content = file, !.done = TRUE]
            ELSE folder[d][k]]

\* mutant: the newest are removed
Prune_Newest(s, keep) == SubSeq(s, 1, IF Len(s) > keep THEN keep ELSE Len(s))

Prune(s, keep) == SubSeq(s, IF Len(s) > keep THEN Len(s) - keep + 1 ELSE 1, Len(s))

Stored(j) ==
    LET d == FolderOf(job[j].kind)
    IN  [folder EXCEPT ![d] = Prune(Finished(j), KeepIn(d))]

FinishBackup(j) ==
    /\ job[j].kind = "backup"
    /\ folder' = Stored(j)
    /\ job' = [job EXCEPT ![j] = Idle]
    /\ UNCHANGED <<file, open, up, made, failures, crashes>>

\* mutant: the folder is pruned whatever became of the backup
LeftBehind_Pruned(d) == Prune(folder[d], KeepIn(d))

LeftBehind(d) == folder[d]

\* db.backup or the copying of files fails: the handler throws, its folder
\* stays behind unfinished
BackupFails(j) ==
    /\ job[j].kind # "none"
    /\ failures < MaxFailures
    /\ failures' = failures + 1
    /\ folder' = [folder EXCEPT ![FolderOf(job[j].kind)] = LeftBehind(FolderOf(job[j].kind))]
    /\ job' = [job EXCEPT ![j] = Idle]
    /\ UNCHANGED <<file, open, up, made, crashes>>

-----------------------------------------------------------------------------
(* backup:restore after its await: close, replace the file, open.  Closing *)
(* the connection makes every other db.backup on it reject.                *)

AllRejected == [j \in Jobs |-> Idle]

StillThere(choice, copies) ==
    choice.place \in Folders =>
        \E b \in Range(copies[choice.place]) : b.name = choice.name

\* applyRestore throws, and initDatabase is never reached
ChoiceGone(choice, copies) ==
    /\ ~StillThere(choice, copies)
    /\ open' = FALSE
    /\ UNCHANGED file

ChoiceOpens(choice, copies) ==
    /\ StillThere(choice, copies)
    /\ Opens(choice.content)
    /\ file' = choice.content
    /\ open' = TRUE

\* the safety copy is put back; unless the connection that failed to open,
\* and was not closed, keeps the file from being removed
ChoiceFails(choice, copies) ==
    /\ StillThere(choice, copies)
    /\ ~Opens(choice.content)
    /\ IF FailedOpenLocks THEN file' = choice.content /\ open' = FALSE
                          ELSE UNCHANGED <<file, open>>

FinishRestore(j) ==
    /\ job[j].kind = "restore"
    /\ folder' = Stored(j)
    /\ job' = AllRejected
    /\ \/ ChoiceGone(job[j].from, folder')
       \/ ChoiceOpens(job[j].from, folder')
       \/ ChoiceFails(job[j].from, folder')
    /\ UNCHANGED <<up, made, failures, crashes>>

\* danger:deleteDatabase after its await: the file goes, an empty one opens
FinishDelete(j) ==
    /\ job[j].kind = "delete"
    /\ folder' = Stored(j)
    /\ job' = AllRejected
    /\ file' = Fresh
    /\ UNCHANGED <<open, up, made, failures, crashes>>

-----------------------------------------------------------------------------
(* The process stops, and starts again *)

Down ==
    /\ up
    /\ crashes < MaxCrashes
    /\ crashes' = crashes + 1
    /\ up' = FALSE
    /\ open' = FALSE
    /\ job' = AllRejected
    /\ UNCHANGED <<made, failures>>

Crash ==
    /\ Down
    /\ UNCHANGED <<file, folder>>

\* between removing the file and having the other one in its place
CrashInRestore(j) ==
    /\ job[j].kind = "restore"
    /\ folder' = Stored(j)
    /\ StillThere(job[j].from, folder')
    /\ file' \in {NoFile, Torn}
    /\ Down

CrashInDelete(j) ==
    /\ job[j].kind = "delete"
    /\ folder' = Stored(j)
    /\ file' = NoFile
    /\ Down

\* initDatabase: a missing file is created, one that does not open throws
Startup ==
    /\ ~up
    /\ Opens(file) \/ file = NoFile
    /\ file' = IF file = NoFile THEN Fresh ELSE file
    /\ up' = TRUE
    /\ open' = TRUE
    /\ UNCHANGED <<folder, job, made, failures, crashes>>

-----------------------------------------------------------------------------
Start(j) == \/ StartBackup(j)
            \/ StartRestore(j)
            \/ StartDelete(j)

Finish(j) == \/ FinishBackup(j)
             \/ FinishRestore(j)
             \/ FinishDelete(j)
             \/ BackupFails(j)

Stop == \/ Crash
        \/ \E j \in Jobs : CrashInRestore(j) \/ CrashInDelete(j)

Next == \/ \E c \in Data : Write(c)
        \/ \E j \in Jobs : Start(j) \/ Finish(j)
        \/ Stop
        \/ Startup

Spec == Init /\ [][Next]_vars

-----------------------------------------------------------------------------
(* Properties *)

CopyOf(c, copies) == \E d \in Folders : \E b \in Range(copies[d]) : b.done /\ b.content = c

\* F-101, F-130.  When a handler replaces or removes the database, all that
\* was in it, also what was written while the copy was being made, is in a
\* finished backup that is still there: whatever was chosen, and wherever
\* the process stops.
ReplacedOnlyWithCopy ==
    [][file' # file /\ job' # job => CopyOf(file, folder')]_vars

\* F-100.  Unfinished backups, of crashes and failures, never push the last
\* usable one out of its folder.
KeepsACopy ==
    [][\A d \in Folders : (\E b \in Range(folder[d]) : b.done)
                           => \E b \in Range(folder'[d]) : b.done]_vars

\* ipc/index on restoring: the installation is never left without a database.
DatabaseOpen == up => open

=============================================================================
