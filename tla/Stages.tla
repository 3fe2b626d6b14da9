------------------------------- MODULE Stages -------------------------------
(***************************************************************************)
(* One named internal stage: its row, the files in its directory, uploads, *)
(* and COPY INTO.                                                          *)
(* Source: pkg/stage/manager.go, pkg/query/stage_processor.go and          *)
(* copy_processor.go, executeCopy in pkg/query/executor.go, the stages of  *)
(* pkg/metadata/repository.go and server/handlers/rest_api_v2.go.          *)
(*                                                                         *)
(* The row is in DuckDB, the files are in a directory named after schema   *)
(* and stage, and nothing holds the two together: every operation looks    *)
(* the row up by name and then works on paths.  An upload truncates the    *)
(* file and writes it bit by bit.  COPY lists the files, and then opens,   *)
(* loads (one INSERT for each record) and, with PURGE, removes one after   *)
(* the other.                                                              *)
(*                                                                         *)
(* A file is an inode, named by the upload that created it; it can be      *)
(* written after its name is gone.  Each part of it is one record, known   *)
(* by the upload that wrote it.  Listing, reading and removing a directory *)
(* are each one step.                                                      *)
(***************************************************************************)
EXTENDS Integers, FiniteSetsExt

CONSTANTS
    Clients,
    Files,       \* names
    Parts,       \* 1 .. Parts are the records of an upload
    MaxUpload,   \* bounds: uploads, and rows of the stage
    MaxStage

VARIABLES
    row,         \* the id of the row of _metadata_stages, or 0
    lastRow,
    disk,        \* the inode of each name in the directory, or 0
    content,     \* the upload that wrote each part of an inode, or 0
    lastUpload,
    loaded,      \* the target table: records <<upload, part>>
    pc, req,     \* the request of each client
    todo,        \* the files a COPY has listed and not opened
    got,         \* the records a COPY has read and not inserted
    purged,      \* history: records in files that PURGE has removed
    seen,        \* history: purged when the COPY listed the files
    stray        \* history: files of uploads that overlapped a DROP, and
                 \* those there when a CREATE deleted its row again

stageVars == <<row, lastRow>>
fileVars == <<disk, content, lastUpload>>
copyVars == <<todo, got, loaded>>
historyVars == <<purged, seen, stray>>
vars == <<stageVars, fileVars, copyVars, pc, req, historyVars>>
-----------------------------------------------------------------------------
Uploads == 1 .. MaxUpload
PartIds == 1 .. Parts
Records == Uploads \X PartIds
OnError == {"abort", "continue"}

ASSUME StagesAssumption == {Parts, MaxUpload, MaxStage} \subseteq Nat \ {0}

\* stage: the id of the row the request has looked up.  file, inode, upload:
\* of an upload, or the file a COPY is at; all: the records an upload has
\* written, or a COPY has read there.
NoRequest == [op |-> "none", stage |-> 0, file |-> 0, inode |-> 0, upload |-> 0,
              purge |-> FALSE, onError |-> "abort", all |-> {}]

\* The records that are in inode i.
RecordsOf(i) == {<<content[i][p], p>> : p \in {q \in PartIds : content[i][q] # 0}}

Go(c, next) == pc' = [pc EXCEPT ![c] = next]

End(c) ==
    /\ Go(c, "idle")
    /\ req' = [req EXCEPT ![c] = NoRequest]
    /\ todo' = [todo EXCEPT ![c] = {}]
    /\ got' = [got EXCEPT ![c] = {}]
    /\ seen' = [seen EXCEPT ![c] = {}]

\* A request finds the row of the stage.
LookUp(c, r, next) ==
    /\ pc[c] = "idle" /\ row # 0
    /\ req' = [req EXCEPT ![c] = [r EXCEPT !.stage = row]]
    /\ Go(c, next)
-----------------------------------------------------------------------------
\* CREATE and DROP STAGE

\* One INSERT; a second row of the name violates UNIQUE.  CREATE OR REPLACE
\* comes here after its DROP.
CreateStageRow(c) ==
    /\ pc[c] \in {"idle", "replace"}
    /\ row = 0 /\ lastRow < MaxStage
    /\ lastRow' = lastRow + 1
    /\ row' = lastRow'
    /\ req' = [req EXCEPT ![c] = [NoRequest EXCEPT !.op = "create", !.stage = row']]
    /\ Go(c, "mkdir")
    /\ UNCHANGED <<fileVars, copyVars, historyVars>>

\* The directory is made, or the row is deleted again.
MakeDirectory(c) ==
    /\ pc[c] = "mkdir"
    /\ \/ UNCHANGED <<row, stray>>
       \/ /\ row' = IF row = req[c].stage THEN 0 ELSE row
          /\ stray' = stray \cup ({disk[f] : f \in Files} \ {0})
    /\ End(c)
    /\ UNCHANGED <<lastRow, fileVars, loaded, purged>>

DropStage(c, replace) ==
    /\ LookUp(c, [NoRequest EXCEPT !.op = IF replace THEN "replace" ELSE "drop"], "rmdir")
    /\ UNCHANGED <<stageVars, fileVars, copyVars, historyVars>>

\* Mutant for RemoveDirectory: its error is not looked at.
RemoveOrNot(c) ==
    /\ pc[c] = "rmdir"
    /\ disk' \in {disk, [f \in Files |-> 0]}
    /\ Go(c, "delete")
    /\ UNCHANGED <<stageVars, content, lastUpload, copyVars, req, historyVars>>

\* os.RemoveAll.
RemoveDirectory(c) ==
    /\ pc[c] = "rmdir"
    /\ disk' = [f \in Files |-> 0]
    /\ Go(c, "delete")
    /\ UNCHANGED <<stageVars, content, lastUpload, copyVars, req, historyVars>>

\* By id: if that row is gone the request fails.
DeleteStageRow(c) ==
    /\ pc[c] = "delete" /\ row = req[c].stage
    /\ row' = 0
    /\ IF req[c].op = "replace"
       THEN Go(c, "replace") /\ UNCHANGED <<req, todo, got, seen>>
       ELSE End(c)
    /\ UNCHANGED <<lastRow, fileVars, loaded, purged, stray>>
-----------------------------------------------------------------------------
\* PutFile

PutFile(c, f) ==
    /\ LookUp(c, [NoRequest EXCEPT !.op = "put", !.file = f], "create")
    /\ UNCHANGED <<stageVars, fileVars, copyVars, historyVars>>

\* MkdirAll and os.Create, which truncates a file that is there.
CreateFile(c) ==
    LET f == req[c].file
        i == IF disk[f] = 0 THEN lastUpload + 1 ELSE disk[f]
    IN  /\ pc[c] = "create" /\ lastUpload < MaxUpload
        /\ lastUpload' = lastUpload + 1
        /\ disk' = [disk EXCEPT ![f] = i]
        /\ content' = [content EXCEPT ![i] = [p \in PartIds |-> 0]]
        /\ req' = [req EXCEPT ![c].inode = i, ![c].upload = lastUpload']
        /\ stray' = IF row # req[c].stage \/ \E d \in Clients : pc[d] = "delete"
                    THEN stray \cup {i} ELSE stray
        /\ Go(c, "write")
        /\ UNCHANGED <<stageVars, copyVars, purged, seen>>

\* io.Copy: the next part, to the inode that was opened.
WritePart(c, p) ==
    LET r == req[c] IN
    /\ pc[c] = "write"
    /\ r.all = {r.upload} \X (1 .. p - 1)
    /\ content' = [content EXCEPT ![r.inode][p] = r.upload]
    /\ IF p = Parts
       THEN End(c)
       ELSE /\ req' = [req EXCEPT ![c].all = @ \cup {<<r.upload, p>>}]
            /\ UNCHANGED <<pc, todo, got, seen>>
    /\ UNCHANGED <<stageVars, disk, lastUpload, loaded, purged, stray>>
-----------------------------------------------------------------------------
\* COPY INTO

\* ListFiles looks the row up once more and reads the directory.
CopyInto(c, purge, onError) ==
    /\ LookUp(c, [NoRequest EXCEPT !.op = "copy", !.purge = purge, !.onError = onError], "next")
    /\ todo' = [todo EXCEPT ![c] = {f \in Files : disk[f] # 0}]
    /\ seen' = [seen EXCEPT ![c] = purged]
    /\ UNCHANGED <<stageVars, fileVars, loaded, got, purged, stray>>

\* Mutant for NextFile: the records that were not inserted are kept.
NextFileKeepsRecords(c) ==
    /\ req' = [req EXCEPT ![c].all = {}]
    /\ Go(c, "next")
    /\ UNCHANGED <<todo, got, seen>>

\* What c keeps about the file it is at is dropped, and it goes on.
NextFile(c) ==
    /\ req' = [req EXCEPT ![c].all = {}]
    /\ got' = [got EXCEPT ![c] = {}]
    /\ Go(c, "next")
    /\ UNCHANGED <<todo, seen>>

\* Mutant for FileFailed: CONTINUE does not skip the purge.
FailedAndPurged(c) ==
    CASE req[c].onError = "abort" -> End(c)
      [] req[c].onError = "continue" /\ req[c].purge ->
             Go(c, "purge") /\ UNCHANGED <<req, todo, got, seen>>
      [] OTHER -> NextFile(c)

\* CONTINUE and SKIP_FILE go on with the next file; ABORT ends the statement.
\* The records inserted so far stay in either case.
FileFailed(c) == IF req[c].onError = "abort" THEN End(c) ELSE NextFile(c)

\* GetFile, and everything in the file is read and parsed.
OpenFile(c, f) ==
    /\ pc[c] = "next" /\ f \in todo[c]
    /\ row # 0 /\ disk[f] # 0
    /\ todo' = [todo EXCEPT ![c] = @ \ {f}]
    /\ req' = [req EXCEPT ![c].file = f, ![c].all = RecordsOf(disk[f])]
    /\ got' = [got EXCEPT ![c] = RecordsOf(disk[f])]
    /\ Go(c, "load")
    /\ UNCHANGED <<stageVars, fileVars, loaded, historyVars>>

\* The stage, the file or its syntax: nothing of it is loaded.
CannotOpen(c, f) ==
    /\ pc[c] = "next" /\ f \in todo[c]
    /\ IF req[c].onError = "abort"
       THEN End(c)
       ELSE /\ todo' = [todo EXCEPT ![c] = @ \ {f}]
            /\ UNCHANGED <<pc, req, got, seen>>
    /\ UNCHANGED <<stageVars, fileVars, loaded, purged, stray>>

\* One INSERT, committed on its own.
InsertRecord(c) ==
    /\ pc[c] = "load"
    /\ \E r \in got[c] :
          /\ \A s \in got[c] : r[2] <= s[2]
          /\ loaded' = loaded \cup {r}
          /\ got' = [got EXCEPT ![c] = @ \ {r}]
    /\ UNCHANGED <<stageVars, fileVars, todo, pc, req, historyVars>>

InsertFails(c) ==
    /\ pc[c] = "load" /\ got[c] # {}
    /\ FileFailed(c)
    /\ UNCHANGED <<stageVars, fileVars, loaded, purged, stray>>

FileLoaded(c) ==
    /\ pc[c] = "load" /\ got[c] = {}
    /\ IF req[c].purge THEN Go(c, "purge") /\ UNCHANGED <<req, got, todo, seen>> ELSE NextFile(c)
    /\ UNCHANGED <<stageVars, fileVars, loaded, purged, stray>>

\* Mutant for PurgeFile: a file that could not be removed counts as removed.
PurgeUnchecked(c) ==
    /\ pc[c] = "purge"
    /\ disk' \in {disk, [disk EXCEPT ![req[c].file] = 0]}
    /\ purged' = purged \cup req[c].all
    /\ NextFile(c)
    /\ UNCHANGED <<stageVars, content, lastUpload, loaded, stray>>

\* RemoveFile, by name.
PurgeFile(c) ==
    /\ pc[c] = "purge" /\ row # 0 /\ disk[req[c].file] # 0
    /\ disk' = [disk EXCEPT ![req[c].file] = 0]
    /\ purged' = purged \cup req[c].all
    /\ NextFile(c)
    /\ UNCHANGED <<stageVars, content, lastUpload, loaded, stray>>

\* The error is kept in the result; the statement goes on.
PurgeFails(c) ==
    /\ pc[c] = "purge"
    /\ NextFile(c)
    /\ UNCHANGED <<stageVars, fileVars, loaded, purged, stray>>

CopyEnds(c) ==
    /\ pc[c] = "next" /\ todo[c] = {}
    /\ End(c)
    /\ UNCHANGED <<stageVars, fileVars, loaded, purged, stray>>
-----------------------------------------------------------------------------
\* Any other call fails.  An upload leaves what it has written.
Fail(c) ==
    /\ pc[c] \in {"rmdir", "delete", "replace", "create", "write"}
    /\ End(c)
    /\ UNCHANGED <<stageVars, fileVars, loaded, purged, stray>>

\* The process dies.
Crash ==
    /\ pc' = [c \in Clients |-> "idle"]
    /\ req' = [c \in Clients |-> NoRequest]
    /\ todo' = [c \in Clients |-> {}]
    /\ got' = [c \in Clients |-> {}]
    /\ seen' = [c \in Clients |-> {}]
    /\ UNCHANGED <<stageVars, fileVars, loaded, purged, stray>>
-----------------------------------------------------------------------------
Init ==
    /\ row = 0 /\ lastRow = 0
    /\ disk = [f \in Files |-> 0]
    /\ content = [i \in Uploads |-> [p \in PartIds |-> 0]]
    /\ lastUpload = 0
    /\ loaded = {}
    /\ pc = [c \in Clients |-> "idle"]
    /\ req = [c \in Clients |-> NoRequest]
    /\ todo = [c \in Clients |-> {}]
    /\ got = [c \in Clients |-> {}]
    /\ purged = {} /\ stray = {}
    /\ seen = [c \in Clients |-> {}]

CopyStep(c) ==
    \/ \E purge \in BOOLEAN, onError \in OnError : CopyInto(c, purge, onError)
    \/ \E f \in Files : OpenFile(c, f) \/ CannotOpen(c, f)
    \/ InsertRecord(c) \/ InsertFails(c) \/ FileLoaded(c)
    \/ PurgeFile(c) \/ PurgeFails(c) \/ CopyEnds(c)

Next ==
    \/ Crash
    \/ \E c \in Clients :
          \/ CreateStageRow(c) \/ MakeDirectory(c)
          \/ \E replace \in BOOLEAN : DropStage(c, replace)
          \/ RemoveDirectory(c) \/ DeleteStageRow(c)
          \/ \E f \in Files : PutFile(c, f)
          \/ CreateFile(c) \/ \E p \in PartIds : WritePart(c, p)
          \/ CopyStep(c)
          \/ Fail(c)

Spec == Init /\ [][Next]_vars
-----------------------------------------------------------------------------
\* The types of the variables; a COPY inserts records of the file it is at, and
\* an upload writes an inode that was created.
TypeOK ==
    /\ lastRow \in 0 .. MaxStage /\ row \in {0, lastRow}
    /\ lastUpload \in 0 .. MaxUpload
    /\ disk \in [Files -> 0 .. lastUpload]
    /\ content \in [Uploads -> [PartIds -> 0 .. lastUpload]]
    /\ loaded \cup purged \subseteq Records /\ stray \subseteq Uploads
    /\ \A c \in Clients :
          /\ todo[c] \subseteq Files /\ got[c] \subseteq req[c].all
          /\ req[c].all \subseteq Records /\ seen[c] \subseteq purged
          /\ pc[c] = "write" => req[c].inode \in 1 .. lastUpload
          /\ pc[c] = "idle" => req[c] = NoRequest /\ todo[c] = {}

\* PURGE removes a file after loading it: what the COPY has read in it is in
\* the table by then, whatever ON_ERROR says and whatever fails.  (Not what was
\* written to it since: OnlyLoadedIsPurged.)
PurgedWasLoaded ==
    [][\A c \in Clients :
          LET f == req[c].file
          IN  pc[c] = "purge" /\ disk[f] # 0 /\ disk'[f] = 0 /\ row' = row
              => RecordsOf(disk[f]) \cap req[c].all \subseteq loaded]_vars

\* The same for all that is in the file.
OnlyLoadedIsPurged ==
    [][\A c \in Clients :
          PurgeFile(c) => RecordsOf(disk[req[c].file]) \subseteq loaded]_vars

\* "Running the same COPY INTO again loads the file again unless the first
\* command used PURGE = TRUE" (README.md:683-684): a COPY never reads records
\* of a file that had been purged before it began.
NotLoadedAgain == \A c \in Clients : got[c] \cap seen[c] = {}

\* "Drop an internal stage and its files" (README.md:537): a stage starts with
\* no files of an earlier one of its name, whatever fails in the middle of a
\* DROP, except those of an upload that overlapped it and those that were there
\* when a CREATE failed after its row was inserted (stray).
NewStageIsEmpty ==
    [][row = 0 /\ row' # 0 => \A f \in Files : disk[f] \in {0} \cup stray]_vars

\* The same without the exception.
OnlyOwnFiles ==
    [][row = 0 /\ row' # 0 => \A f \in Files : disk[f] = 0]_vars
=============================================================================
