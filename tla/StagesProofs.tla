---------------------------- MODULE StagesProofs ----------------------------
(***************************************************************************)
(* The safety of Stages for any clients and file names and any bounds: no  *)
(* COPY reads again what a PURGE had removed before it began, a purge      *)
(* removes what is loaded, and a new stage starts without the files of an  *)
(* earlier one.                                                            *)
(*                                                                         *)
(* The first is about names, the files are inodes: a record that a PURGE   *)
(* has removed may still be written to an inode whose name is gone.  What  *)
(* holds is that an upload writes one inode, that an inode has one name    *)
(* and does not get another, so that a record which is in no file and is   *)
(* not about to be written to one (OnDisk) never is again.                 *)
(***************************************************************************)
EXTENDS Stages, TLAPS

Places == {"idle", "mkdir", "rmdir", "delete", "replace", "create", "write", "next", "load", "purge"}
Requests == [op : {"none", "create", "drop", "replace", "put", "copy"}, stage : 0 .. MaxStage,
             file : Files \cup {0}, inode : 0 .. MaxUpload, upload : 0 .. MaxUpload,
             purge : BOOLEAN, onError : OnError, all : SUBSET Records]

\* Client c is writing inode i as upload u.
Writes(c, u, i) == pc[c] = "write" /\ req[c].upload = u /\ req[c].inode = i

\* Record r is in the file named g, or about to be written to it.
OnDisk(r, g) ==
    /\ disk[g] # 0
    /\ \/ content[disk[g]][r[2]] = r[1]
       \/ \E c \in Clients : Writes(c, r[1], disk[g])

RowsType == lastRow \in 0 .. MaxStage /\ row \in {0, lastRow}

FilesType ==
    /\ lastUpload \in 0 .. MaxUpload
    /\ disk \in [Files -> 0 .. lastUpload]
    /\ content \in [Uploads -> [PartIds -> 0 .. lastUpload]]
    /\ loaded \subseteq Records /\ purged \subseteq Records /\ stray \subseteq Uploads

\* An inode has one name, an upload one inode and one writer.
OneHome ==
    /\ \A f \in Files, g \in Files : disk[f] # 0 /\ disk[f] = disk[g] => f = g
    /\ \A i \in Uploads, j \in Uploads, p \in PartIds, q \in PartIds :
          content[i][p] # 0 /\ content[i][p] = content[j][q] => i = j
    /\ \A c \in Clients : pc[c] = "write" =>
          /\ \A i \in Uploads, p \in PartIds : content[i][p] = req[c].upload => i = req[c].inode
          /\ \A d \in Clients \ {c} : pc[d] = "write" => req[d].upload # req[c].upload

ClientsType ==
    /\ pc \in [Clients -> Places] /\ req \in [Clients -> Requests]
    /\ todo \in [Clients -> SUBSET Files]
    /\ got \in [Clients -> SUBSET Records] /\ seen \in [Clients -> SUBSET Records]

\* What client c holds where it is.
Holds(c) ==
    /\ got[c] \subseteq req[c].all /\ seen[c] \subseteq purged /\ got[c] \cap seen[c] = {}
    /\ pc[c] = "idle" => req[c] = NoRequest /\ todo[c] = {}
    /\ pc[c] \notin {"write", "load", "purge"} => req[c].all = {}
    /\ pc[c] \in {"create", "load", "purge"} => req[c].file \in Files
    /\ pc[c] = "create" => req[c].stage # 0
    /\ pc[c] = "write" => req[c].inode \in 1 .. lastUpload /\ req[c].upload \in 1 .. lastUpload

\* What a COPY has read was uploaded, is in no other file, and what it has no
\* more to insert is in the table.
Copies(c) ==
    /\ \A r \in req[c].all : r[1] <= lastUpload
    /\ pc[c] \in {"load", "purge"} =>
          \A r \in req[c].all, g \in Files : g # req[c].file => ~OnDisk(r, g)
    /\ pc[c] = "load" => req[c].all \subseteq loaded \cup got[c]
    /\ pc[c] = "purge" => req[c].all \subseteq loaded

PurgedGone == \A r \in purged : r[1] <= lastUpload /\ \A g \in Files : ~OnDisk(r, g)

\* Without a row, or while one is about to be deleted, the directory has only
\* files of uploads that overlapped a DROP.
DropEmpties ==
    row = 0 \/ (\E c \in Clients : pc[c] = "delete") => \A f \in Files : disk[f] \in {0} \cup stray

\* The inductive invariant.
GInv ==
    /\ RowsType /\ FilesType /\ ClientsType /\ OneHome
    /\ \A c \in Clients : Holds(c) /\ Copies(c)
    /\ PurgedGone /\ DropEmpties
-----------------------------------------------------------------------------
(***************************************************************************)
(* Types.                                                                  *)
(***************************************************************************)

\* What the steps need to know of the constants.
LEMMA ConstantsOK ==
    /\ Parts \in Nat \ {0} /\ MaxUpload \in Nat \ {0} /\ MaxStage \in Nat \ {0}
    /\ 0 \notin Uploads /\ 0 \notin PartIds /\ Uploads \subseteq Nat /\ PartIds \subseteq Nat
  BY StagesAssumption DEF Uploads, PartIds

LEMMA NoRequestOK == NoRequest \in Requests /\ NoRequest.all = {} /\ NoRequest.file = 0
<1>1. 0 \in 0 .. MaxStage /\ 0 \in 0 .. MaxUpload
  BY ConstantsOK
<1> QED
  BY <1>1 DEF NoRequest, Requests, OnError

\* A file has an inode that some upload created.
LEMMA InodesOK ==
    ASSUME FilesType
    PROVE  /\ lastUpload \in Nat
           /\ \A f \in Files : disk[f] # 0 => disk[f] \in Uploads /\ disk[f] \in 1 .. lastUpload
           /\ \A i \in 1 .. lastUpload : i \in Uploads
  BY ConstantsOK DEF FilesType, Uploads

\* The records of an inode are what its parts say.
LEMMA RecordsOfOK ==
    ASSUME FilesType, NEW i \in Uploads
    PROVE  /\ RecordsOf(i) \subseteq Records
           /\ \A r \in RecordsOf(i) : r[1] <= lastUpload /\ r[1] # 0 /\ r[2] \in PartIds /\ content[i][r[2]] = r[1]
<1>1. SUFFICES ASSUME NEW r \in RecordsOf(i)
               PROVE  /\ r \in Records /\ r[1] <= lastUpload /\ r[1] # 0 /\ r[2] \in PartIds
                      /\ content[i][r[2]] = r[1]
  OBVIOUS
<1>2. PICK p \in PartIds : content[i][p] # 0 /\ r = <<content[i][p], p>>
  BY <1>1 DEF RecordsOf
<1>3. content[i][p] \in 0 .. lastUpload /\ lastUpload \in 0 .. MaxUpload
  BY DEF FilesType
<1>4. content[i][p] \in Uploads /\ content[i][p] <= lastUpload
  BY <1>2, <1>3, ConstantsOK DEF Uploads
<1> QED
  BY <1>2, <1>4 DEF Records
-----------------------------------------------------------------------------
(***************************************************************************)
(* A step of a client that writes no file: it takes names away, and moves  *)
(* the client.                                                             *)
(***************************************************************************)

Others(c) == \A d \in Clients \ {c} :
    /\ pc'[d] = pc[d] /\ req'[d] = req[d]
    /\ todo'[d] = todo[d] /\ got'[d] = got[d] /\ seen'[d] = seen[d]

WritesNothing(c) ==
    /\ Others(c)
    /\ UNCHANGED <<content, lastUpload>>
    /\ \A f \in Files : disk'[f] \in {0, disk[f]}
    /\ loaded \subseteq loaded' /\ purged \subseteq purged'
    /\ pc'[c] = "write" => /\ pc[c] = "write"
                           /\ req'[c].inode = req[c].inode /\ req'[c].upload = req[c].upload

LEMMA NothingNew ==
    ASSUME GInv, NEW c \in Clients, FilesType', ClientsType', WritesNothing(c)
    PROVE  /\ OneHome'
           /\ \A r : \A g \in Files : OnDisk(r, g)' => OnDisk(r, g)
           /\ \A d \in Clients \ {c} : (Holds(d) /\ Copies(d))'
           /\ \A r \in purged : r[1] <= lastUpload' /\ \A g \in Files : ~OnDisk(r, g)'
<1>1. \A d \in Clients : pc'[d] = "write" => /\ pc[d] = "write" /\ req'[d].inode = req[d].inode
                                             /\ req'[d].upload = req[d].upload
  BY DEF WritesNothing, Others
<1>2. OneHome'
  <2>1. \A f \in Files, g \in Files : disk'[f] # 0 /\ disk'[f] = disk'[g] => f = g
    BY DEF GInv, OneHome, WritesNothing
  <2>2. UNCHANGED content
    BY DEF WritesNothing
  <2> QED
    BY <1>1, <2>1, <2>2 DEF GInv, OneHome
<1>3. \A r : \A g \in Files : OnDisk(r, g)' => OnDisk(r, g)
  <2>1. SUFFICES ASSUME NEW r, NEW g \in Files, OnDisk(r, g)'
                 PROVE  OnDisk(r, g)
    OBVIOUS
  <2>2. disk'[g] = disk[g] /\ disk[g] # 0 /\ UNCHANGED content
    BY <2>1 DEF OnDisk, WritesNothing
  <2> QED
    BY <1>1, <2>1, <2>2 DEF OnDisk, Writes
<1>4. \A d \in Clients \ {c} : (Holds(d) /\ Copies(d))'
  <2>1. SUFFICES ASSUME NEW d \in Clients \ {c}
                 PROVE  (Holds(d) /\ Copies(d))'
    OBVIOUS
  <2>2. /\ pc'[d] = pc[d] /\ req'[d] = req[d]
        /\ todo'[d] = todo[d] /\ got'[d] = got[d] /\ seen'[d] = seen[d]
        /\ lastUpload' = lastUpload /\ loaded \subseteq loaded' /\ purged \subseteq purged'
    BY DEF WritesNothing, Others
  <2>3. Holds(d)'
    BY <2>2 DEF GInv, Holds
  <2>4. Copies(d)'
    BY <1>3, <2>2 DEF GInv, Copies
  <2> QED
    BY <2>3, <2>4
<1>5. \A r \in purged : r[1] <= lastUpload' /\ \A g \in Files : ~OnDisk(r, g)'
  BY <1>3 DEF GInv, PurgedGone, WritesNothing
<1> QED
  BY <1>2, <1>3, <1>4, <1>5

\* The directory of a stage without row is as empty as before.
LEMMA NoRowNoFile ==
    ASSUME GInv, stray \subseteq stray', \A f \in Files : disk'[f] \in {0, disk[f]},
           row' = 0 => row = 0,
           \A c \in Clients : pc'[c] = "delete" => pc[c] = "delete"
    PROVE  DropEmpties'
  BY DEF GInv, DropEmpties

\* The step of one client, all together.
LEMMA OneStep ==
    ASSUME GInv, NEW c \in Clients, RowsType', FilesType', ClientsType', WritesNothing(c),
           (Holds(c) /\ Copies(c))', DropEmpties', purged' = purged
    PROVE  GInv'
<1>1. /\ OneHome' /\ \A d \in Clients \ {c} : (Holds(d) /\ Copies(d))'
      /\ \A r \in purged : r[1] <= lastUpload' /\ \A g \in Files : ~OnDisk(r, g)'
  BY NothingNew
<1>2. PurgedGone'
  BY <1>1 DEF PurgedGone
<1> QED
  BY <1>1, <1>2 DEF GInv

\* A request that ends.
LEMMA EndOK ==
    ASSUME GInv, NEW c \in Clients, End(c), purged \subseteq purged', UNCHANGED lastUpload
    PROVE  ClientsType' /\ Others(c) /\ (Holds(c) /\ Copies(c))' /\ pc'[c] = "idle"
<1>1. ClientsType'
  BY NoRequestOK DEF GInv, ClientsType, End, Go, Places
<1>2. Others(c)
  BY DEF GInv, ClientsType, Others, End, Go
<1>3. pc'[c] = "idle" /\ req'[c] = NoRequest /\ todo'[c] = {} /\ got'[c] = {} /\ seen'[c] = {}
  BY DEF GInv, ClientsType, End, Go
<1>4. (Holds(c) /\ Copies(c))'
  BY <1>3, NoRequestOK DEF Holds, Copies
<1> QED
  BY <1>1, <1>2, <1>3, <1>4

\* A step that does nothing but end its request.
LEMMA OnlyEnds ==
    ASSUME GInv, NEW c \in Clients, End(c), UNCHANGED <<stageVars, fileVars, loaded, purged, stray>>
    PROVE  GInv'
<1> USE DEF stageVars, fileVars
<1>1. ClientsType' /\ Others(c) /\ (Holds(c) /\ Copies(c))' /\ pc'[c] = "idle"
  BY EndOK
<1>2. WritesNothing(c)
  BY <1>1 DEF WritesNothing
<1>3. RowsType' /\ FilesType'
  BY DEF GInv, RowsType, FilesType
<1>4. DropEmpties'
  BY <1>1, NoRowNoFile DEF Others
<1> QED
  BY <1>1, <1>2, <1>3, <1>4, OneStep
-----------------------------------------------------------------------------
(***************************************************************************)
(* The row of the stage.                                                   *)
(***************************************************************************)

\* A client that is idle has read nothing.
LEMMA IdleHasNothing ==
    ASSUME GInv, NEW c \in Clients, pc[c] = "idle"
    PROVE  req[c] = NoRequest /\ todo[c] = {} /\ got[c] = {}
  BY NoRequestOK DEF GInv, Holds

\* What a request knows after it has found the row.
LEMMA LookUpOK ==
    ASSUME GInv, NEW c \in Clients, NEW r \in Requests, NEW next \in Places, LookUp(c, r, next)
    PROVE  /\ pc' \in [Clients -> Places] /\ req' \in [Clients -> Requests]
           /\ pc[c] = "idle" /\ pc'[c] = next /\ row # 0
           /\ req'[c].all = r.all /\ req'[c].file = r.file /\ req'[c].stage = row
           /\ \A d \in Clients \ {c} : pc'[d] = pc[d] /\ req'[d] = req[d]
<1>1. pc[c] = "idle" /\ row # 0 /\ Go(c, next) /\ req' = [req EXCEPT ![c] = [r EXCEPT !.stage = row]]
  BY DEF LookUp
<1>2. row \in 0 .. MaxStage
  BY ConstantsOK DEF GInv, RowsType
<1>3. PICK x : x = [r EXCEPT !.stage = row]
  OBVIOUS
<1>4. x \in Requests /\ x.all = r.all /\ x.file = r.file /\ x.stage = row
  BY <1>2, <1>3 DEF Requests
<1>5. req' = [req EXCEPT ![c] = x]
  BY <1>1, <1>3
<1> QED
  BY <1>1, <1>4, <1>5 DEF GInv, ClientsType, Go

LEMMA CreateStageRowOK ==
    ASSUME GInv, NEW c \in Clients, CreateStageRow(c)
    PROVE  GInv'
<1>1. /\ pc[c] \in {"idle", "replace"} /\ row = 0 /\ lastRow < MaxStage
      /\ lastRow' = lastRow + 1 /\ row' = lastRow + 1 /\ Go(c, "mkdir")
      /\ UNCHANGED <<disk, content, lastUpload, todo, got, loaded, purged, seen, stray>>
  BY DEF CreateStageRow, fileVars, copyVars, historyVars
<1>2. RowsType' /\ FilesType' /\ row' \in 0 .. MaxStage /\ row' # 0
  BY <1>1, ConstantsOK DEF GInv, RowsType, FilesType
<1>3. PICK x : x = [NoRequest EXCEPT !.op = "create", !.stage = row']
  OBVIOUS
<1>4. x \in Requests /\ x.all = {}
  BY <1>2, <1>3, NoRequestOK DEF Requests
<1>5. req' = [req EXCEPT ![c] = x]
  BY <1>3 DEF CreateStageRow
<1>6. ClientsType' /\ Others(c) /\ pc'[c] = "mkdir" /\ req'[c] = x
  BY <1>1, <1>4, <1>5 DEF GInv, ClientsType, Others, Go, Places
<1>7. WritesNothing(c)
  BY <1>1, <1>6 DEF WritesNothing
<1>8. got[c] = {}
  BY <1>1 DEF GInv, Holds
<1>9. (Holds(c) /\ Copies(c))'
  BY <1>1, <1>4, <1>6, <1>8 DEF GInv, Holds, Copies
<1>10. DropEmpties'
  BY <1>1 DEF GInv, DropEmpties
<1> QED
  BY <1>1, <1>2, <1>6, <1>7, <1>9, <1>10, OneStep

LEMMA MakeDirectoryOK ==
    ASSUME GInv, NEW c \in Clients, MakeDirectory(c)
    PROVE  GInv'
<1>1. /\ \/ UNCHANGED <<row, stray>>
         \/ /\ row' = IF row = req[c].stage THEN 0 ELSE row
            /\ stray' = stray \cup ({disk[f] : f \in Files} \ {0})
      /\ pc[c] = "mkdir" /\ End(c)
      /\ UNCHANGED <<lastRow, disk, content, lastUpload, loaded, purged>>
  BY DEF MakeDirectory, fileVars
<1>2. ClientsType' /\ Others(c) /\ (Holds(c) /\ Copies(c))' /\ pc'[c] = "idle"
  BY <1>1, EndOK
<1>3. WritesNothing(c)
  BY <1>1, <1>2 DEF WritesNothing
<1>4. row' \in {0, row} /\ RowsType'
  BY <1>1 DEF GInv, RowsType
<1>5. FilesType'
  <2>1. {disk[f] : f \in Files} \ {0} \subseteq Uploads
    BY InodesOK DEF GInv
  <2>2. stray' \subseteq Uploads
    BY <1>1, <2>1 DEF GInv, FilesType
  <2> QED
    BY <1>1, <2>2 DEF GInv, FilesType
<1>6. DropEmpties'
  <2>1. CASE UNCHANGED <<row, stray>>
    BY <1>1, <1>2, <2>1, NoRowNoFile DEF Others
  <2>2. CASE stray' = stray \cup ({disk[f] : f \in Files} \ {0})
    BY <1>1, <2>2 DEF DropEmpties
  <2> QED
    BY <1>1, <2>1, <2>2
<1> QED
  BY <1>1, <1>2, <1>3, <1>4, <1>5, <1>6, OneStep

\* A request that begins with no more than the row.
LEMMA BeginOK ==
    ASSUME GInv, NEW c \in Clients, NEW r \in Requests, NEW next \in {"rmdir", "create"},
           r.all = {}, next = "create" => r.file \in Files,
           LookUp(c, r, next), UNCHANGED <<stageVars, fileVars, copyVars, historyVars>>
    PROVE  GInv'
<1> USE DEF stageVars, fileVars, copyVars, historyVars
<1>1. /\ pc' \in [Clients -> Places] /\ req' \in [Clients -> Requests]
      /\ pc[c] = "idle" /\ pc'[c] = next /\ row # 0
      /\ req'[c].all = r.all /\ req'[c].file = r.file /\ req'[c].stage = row
      /\ \A d \in Clients \ {c} : pc'[d] = pc[d] /\ req'[d] = req[d]
  <2>1. next \in Places
    BY DEF Places
  <2> QED
    BY <2>1, LookUpOK
<1>2. RowsType' /\ FilesType' /\ ClientsType'
  BY <1>1 DEF GInv, RowsType, FilesType, ClientsType
<1>3. WritesNothing(c)
  BY <1>1 DEF WritesNothing, Others
<1>4. got[c] = {}
  BY <1>1, IdleHasNothing
<1>5. Holds(c)'
  BY <1>1, <1>4 DEF GInv, Holds
<1>6. Copies(c)'
  BY <1>1 DEF Copies
<1>7. DropEmpties'
  BY <1>1, NoRowNoFile
<1> QED
  BY <1>2, <1>3, <1>5, <1>6, <1>7, OneStep

LEMMA DropStageOK ==
    ASSUME GInv, NEW c \in Clients, NEW replace \in BOOLEAN, DropStage(c, replace)
    PROVE  GInv'
<1>1. PICK op \in {"drop", "replace"} : op = IF replace THEN "replace" ELSE "drop"
  OBVIOUS
<1>2. PICK r : r = [NoRequest EXCEPT !.op = op]
  OBVIOUS
<1>3. r \in Requests /\ r.all = {}
  BY <1>2, NoRequestOK DEF Requests
<1>4. LookUp(c, r, "rmdir") /\ UNCHANGED <<stageVars, fileVars, copyVars, historyVars>>
  BY <1>1, <1>2 DEF DropStage
<1> QED
  BY <1>3, <1>4, BeginOK

LEMMA PutFileOK ==
    ASSUME GInv, NEW c \in Clients, NEW f \in Files, PutFile(c, f)
    PROVE  GInv'
<1>1. PICK r : r = [NoRequest EXCEPT !.op = "put", !.file = f]
  OBVIOUS
<1>2. r \in Requests /\ r.all = {} /\ r.file = f
  BY <1>1, NoRequestOK DEF Requests
<1>3. LookUp(c, r, "create") /\ UNCHANGED <<stageVars, fileVars, copyVars, historyVars>>
  BY <1>1 DEF PutFile
<1> QED
  BY <1>2, <1>3, BeginOK

\* All names go.
LEMMA RemoveDirectoryOK ==
    ASSUME GInv, NEW c \in Clients, RemoveDirectory(c)
    PROVE  GInv'
<1>1. /\ pc[c] = "rmdir" /\ disk' = [f \in Files |-> 0] /\ Go(c, "delete")
      /\ UNCHANGED <<row, lastRow, content, lastUpload, todo, got, loaded, req, purged, seen, stray>>
  BY DEF RemoveDirectory, stageVars, copyVars, historyVars
<1>2. RowsType' /\ FilesType'
  BY <1>1, InodesOK DEF GInv, RowsType, FilesType
<1>3. ClientsType' /\ Others(c) /\ pc'[c] = "delete"
  BY <1>1 DEF GInv, ClientsType, Others, Go, Places
<1>4. WritesNothing(c)
  BY <1>1, <1>3 DEF WritesNothing
<1>5. (Holds(c) /\ Copies(c))'
  BY <1>1, <1>3 DEF GInv, Holds, Copies
<1>6. DropEmpties'
  BY <1>1 DEF DropEmpties
<1> QED
  BY <1>1, <1>2, <1>3, <1>4, <1>5, <1>6, OneStep

\* The row goes when the directory is gone.
LEMMA DeleteStageRowOK ==
    ASSUME GInv, NEW c \in Clients, DeleteStageRow(c)
    PROVE  GInv'
<1>1. /\ pc[c] = "delete" /\ row' = 0
      /\ UNCHANGED <<lastRow, disk, content, lastUpload, loaded, purged, stray>>
  BY DEF DeleteStageRow, fileVars
<1>2. /\ ClientsType' /\ Others(c) /\ (Holds(c) /\ Copies(c))' /\ pc'[c] # "write"
  <2>1. CASE End(c)
    BY <1>1, <2>1, EndOK
  <2>2. CASE Go(c, "replace") /\ UNCHANGED <<req, todo, got, seen>>
    <3>1. ClientsType' /\ Others(c) /\ pc'[c] = "replace"
      BY <2>2 DEF GInv, ClientsType, Others, Go, Places
    <3>2. (Holds(c) /\ Copies(c))'
      BY <1>1, <2>2, <3>1 DEF GInv, Holds, Copies
    <3> QED
      BY <3>1, <3>2
  <2> QED
    BY <2>1, <2>2 DEF DeleteStageRow
<1>3. WritesNothing(c)
  BY <1>1, <1>2 DEF WritesNothing
<1>4. RowsType' /\ FilesType'
  BY <1>1 DEF GInv, RowsType, FilesType
<1>5. DropEmpties'
  BY <1>1 DEF GInv, DropEmpties
<1> QED
  BY <1>1, <1>2, <1>3, <1>4, <1>5, OneStep
-----------------------------------------------------------------------------
(***************************************************************************)
(* COPY INTO.                                                              *)
(***************************************************************************)

\* A client that is at the next file has dropped the records of the last.
LEMMA NextFileOK ==
    ASSUME GInv, NEW c \in Clients, NextFile(c), purged \subseteq purged', UNCHANGED lastUpload
    PROVE  ClientsType' /\ Others(c) /\ (Holds(c) /\ Copies(c))' /\ pc'[c] = "next"
<1>1. /\ Go(c, "next") /\ got' = [got EXCEPT ![c] = {}] /\ UNCHANGED <<todo, seen>>
      /\ req' = [req EXCEPT ![c].all = {}]
  BY DEF NextFile
<1>2. PICK x : x = [req[c] EXCEPT !.all = {}]
  OBVIOUS
<1>3. x \in Requests /\ x.all = {}
  BY <1>2 DEF GInv, ClientsType, Requests
<1>4. req' = [req EXCEPT ![c] = x]
  BY <1>1, <1>2 DEF GInv, ClientsType
<1>5. ClientsType' /\ Others(c) /\ pc'[c] = "next" /\ req'[c] = x /\ got'[c] = {}
  BY <1>1, <1>3, <1>4 DEF GInv, ClientsType, Others, Go, Places
<1>6. (Holds(c) /\ Copies(c))'
  BY <1>1, <1>3, <1>5 DEF GInv, Holds, Copies
<1> QED
  BY <1>5, <1>6

LEMMA FileFailedOK ==
    ASSUME GInv, NEW c \in Clients, FileFailed(c), purged \subseteq purged', UNCHANGED lastUpload
    PROVE  ClientsType' /\ Others(c) /\ (Holds(c) /\ Copies(c))' /\ pc'[c] \in {"idle", "next"}
  BY NextFileOK, EndOK DEF FileFailed

\* A step that only moves its client.
LEMMA OnlyMoves ==
    ASSUME GInv, NEW c \in Clients, ClientsType', Others(c), (Holds(c) /\ Copies(c))',
           pc'[c] \notin {"write", "delete"}, UNCHANGED <<stageVars, fileVars, loaded, purged, stray>>
    PROVE  GInv'
<1> USE DEF stageVars, fileVars
<1>1. WritesNothing(c)
  BY DEF WritesNothing
<1>2. RowsType' /\ FilesType'
  BY DEF GInv, RowsType, FilesType
<1>3. DropEmpties'
  BY NoRowNoFile DEF Others
<1> QED
  BY <1>1, <1>2, <1>3, OneStep

LEMMA CopyIntoOK ==
    ASSUME GInv, NEW c \in Clients, NEW purge \in BOOLEAN, NEW onError \in OnError,
           CopyInto(c, purge, onError)
    PROVE  GInv'
<1>1. PICK r : r = [NoRequest EXCEPT !.op = "copy", !.purge = purge, !.onError = onError]
  OBVIOUS
<1>2. r \in Requests /\ r.all = {}
  BY <1>1, NoRequestOK DEF Requests
<1>3. /\ LookUp(c, r, "next")
      /\ todo' = [todo EXCEPT ![c] = {f \in Files : disk[f] # 0}]
      /\ seen' = [seen EXCEPT ![c] = purged]
      /\ UNCHANGED <<stageVars, fileVars, loaded, got, purged, stray>>
  BY <1>1 DEF CopyInto
<1>4. /\ pc' \in [Clients -> Places] /\ req' \in [Clients -> Requests]
      /\ pc[c] = "idle" /\ pc'[c] = "next" /\ req'[c].all = {}
      /\ \A d \in Clients \ {c} : pc'[d] = pc[d] /\ req'[d] = req[d]
  <2>1. "next" \in Places
    BY DEF Places
  <2> QED
    BY <1>2, <1>3, <2>1, LookUpOK
<1>5. ClientsType' /\ Others(c) /\ seen'[c] = purged
  BY <1>3, <1>4 DEF GInv, ClientsType, FilesType, Others
<1>6. got'[c] = {}
  BY <1>3, <1>4, IdleHasNothing
<1>7. (Holds(c) /\ Copies(c))'
  BY <1>3, <1>4, <1>5, <1>6 DEF Holds, Copies
<1> QED
  BY <1>3, <1>4, <1>5, <1>7, OnlyMoves

\* What is read from a file is in no other, and has not been purged.
LEMMA ReadHere ==
    ASSUME GInv, NEW f \in Files, disk[f] # 0, NEW r \in RecordsOf(disk[f])
    PROVE  /\ r \in Records /\ r[1] <= lastUpload /\ r \notin purged
           /\ \A g \in Files : g # f => ~OnDisk(r, g)
<1>1. disk[f] \in Uploads /\ r \in Records /\ r[1] <= lastUpload /\ r[1] # 0
      /\ r[2] \in PartIds /\ content[disk[f]][r[2]] = r[1]
  BY InodesOK, RecordsOfOK DEF GInv
<1>2. r \notin purged
  BY <1>1 DEF GInv, PurgedGone, OnDisk
<1>3. ASSUME NEW g \in Files, g # f, OnDisk(r, g)
      PROVE  FALSE
  <2>1. disk[g] # 0 /\ disk[g] \in Uploads
    BY <1>3, InodesOK DEF GInv, OnDisk
  <2>2. disk[g] # disk[f]
    BY <1>3, <2>1 DEF GInv, OneHome
  <2>3. CASE content[disk[g]][r[2]] = r[1]
    BY <1>1, <2>1, <2>2, <2>3 DEF GInv, OneHome
  <2>4. CASE \E d \in Clients : Writes(d, r[1], disk[g])
    BY <1>1, <2>2, <2>4 DEF GInv, OneHome, Writes
  <2> QED
    BY <1>3, <2>3, <2>4 DEF OnDisk
<1> QED
  BY <1>1, <1>2, <1>3

LEMMA OpenFileOK ==
    ASSUME GInv, NEW c \in Clients, NEW f \in Files, OpenFile(c, f)
    PROVE  GInv'
<1>1. /\ pc[c] = "next" /\ disk[f] # 0 /\ todo' = [todo EXCEPT ![c] = @ \ {f}]
      /\ req' = [req EXCEPT ![c].file = f, ![c].all = RecordsOf(disk[f])]
      /\ got' = [got EXCEPT ![c] = RecordsOf(disk[f])] /\ Go(c, "load")
      /\ UNCHANGED <<stageVars, fileVars, loaded, purged, seen, stray>>
  BY DEF OpenFile, historyVars
<1>2. PICK all : all = RecordsOf(disk[f])
  OBVIOUS
<1>3. \A r \in all : /\ r \in Records /\ r[1] <= lastUpload /\ r \notin purged
                     /\ \A g \in Files : g # f => ~OnDisk(r, g)
  BY <1>1, <1>2, ReadHere
<1>4. PICK x : x = [req[c] EXCEPT !.file = f, !.all = all]
  OBVIOUS
<1>5. x \in Requests /\ x.all = all /\ x.file = f
  BY <1>3, <1>4 DEF GInv, ClientsType, Requests
<1>6. req' = [req EXCEPT ![c] = x]
  BY <1>1, <1>2, <1>4 DEF GInv, ClientsType
<1>7. /\ ClientsType' /\ Others(c) /\ pc'[c] = "load" /\ req'[c] = x /\ got'[c] = all
      /\ seen'[c] = seen[c]
  <2>1. /\ todo[c] \ {f} \in SUBSET Files /\ all \in SUBSET Records
        /\ got' = [got EXCEPT ![c] = all]
    BY <1>1, <1>2, <1>3 DEF GInv, ClientsType
  <2>2. req' \in [Clients -> Requests] /\ req'[c] = x
    BY <1>5, <1>6 DEF GInv, ClientsType
  <2>3. pc' \in [Clients -> Places] /\ pc'[c] = "load"
    BY <1>1 DEF GInv, ClientsType, Go, Places
  <2>4. /\ todo' \in [Clients -> SUBSET Files] /\ got' \in [Clients -> SUBSET Records]
        /\ seen' \in [Clients -> SUBSET Records] /\ got'[c] = all
    BY <1>1, <2>1 DEF GInv, ClientsType
  <2>5. Others(c)
    BY <1>1, <1>6, <2>1 DEF GInv, ClientsType, Others, Go
  <2> QED
    BY <1>1, <2>2, <2>3, <2>4, <2>5 DEF ClientsType
<1>8. Holds(c)'
  BY <1>1, <1>3, <1>5, <1>7 DEF GInv, Holds
<1>9. Copies(c)'
  <2>1. WritesNothing(c) /\ FilesType'
    BY <1>1, <1>7 DEF WritesNothing, GInv, FilesType, fileVars
  <2>2. \A r : \A g \in Files : OnDisk(r, g)' => OnDisk(r, g)
    BY <1>7, <2>1, NothingNew
  <2> QED
    BY <1>1, <1>3, <1>5, <1>7, <2>2 DEF Copies, fileVars
<1> QED
  BY <1>1, <1>7, <1>8, <1>9, OnlyMoves

LEMMA CannotOpenOK ==
    ASSUME GInv, NEW c \in Clients, NEW f \in Files, CannotOpen(c, f)
    PROVE  GInv'
<1>1. pc[c] = "next" /\ UNCHANGED <<stageVars, fileVars, loaded, purged, stray>>
  BY DEF CannotOpen
<1>2. CASE End(c)
  BY <1>1, <1>2, OnlyEnds
<1>3. CASE todo' = [todo EXCEPT ![c] = @ \ {f}] /\ UNCHANGED <<pc, req, got, seen>>
  <2>1. ClientsType' /\ Others(c)
    BY <1>3 DEF GInv, ClientsType, Others
  <2>2. (Holds(c) /\ Copies(c))'
    BY <1>1, <1>3 DEF GInv, Holds, Copies, fileVars
  <2> QED
    BY <1>1, <1>3, <2>1, <2>2, OnlyMoves
<1> QED
  BY <1>2, <1>3 DEF CannotOpen

\* A record goes from the client to the table.
LEMMA InsertRecordOK ==
    ASSUME GInv, NEW c \in Clients, InsertRecord(c)
    PROVE  GInv'
<1>1. /\ pc[c] = "load"
      /\ UNCHANGED <<row, lastRow, disk, content, lastUpload, todo, pc, req, purged, seen, stray>>
  BY DEF InsertRecord, stageVars, fileVars, historyVars
<1>2. PICK r \in got[c] : loaded' = loaded \cup {r} /\ got' = [got EXCEPT ![c] = @ \ {r}]
  BY DEF InsertRecord
<1>3. RowsType' /\ FilesType' /\ ClientsType' /\ Others(c)
  BY <1>1, <1>2 DEF GInv, RowsType, FilesType, ClientsType, Others
<1>4. WritesNothing(c)
  BY <1>1, <1>2, <1>3 DEF WritesNothing
<1>5. got'[c] = got[c] \ {r}
  BY <1>2 DEF GInv, ClientsType
<1>6. Holds(c)'
  BY <1>1, <1>5 DEF GInv, Holds
<1>7. Copies(c)'
  <2>1. \A s : \A g \in Files : OnDisk(s, g)' => OnDisk(s, g)
    BY <1>3, <1>4, NothingNew
  <2> QED
    BY <1>1, <1>2, <1>5, <2>1 DEF GInv, Copies
<1>8. DropEmpties'
  BY <1>1, NoRowNoFile
<1> QED
  BY <1>1, <1>3, <1>4, <1>6, <1>7, <1>8, OneStep

LEMMA InsertFailsOK ==
    ASSUME GInv, NEW c \in Clients, InsertFails(c)
    PROVE  GInv'
<1>1. FileFailed(c) /\ UNCHANGED <<stageVars, fileVars, loaded, purged, stray>>
  BY DEF InsertFails
<1>2. ClientsType' /\ Others(c) /\ (Holds(c) /\ Copies(c))' /\ pc'[c] \in {"idle", "next"}
  BY <1>1, FileFailedOK DEF fileVars
<1> QED
  BY <1>1, <1>2, OnlyMoves

LEMMA FileLoadedOK ==
    ASSUME GInv, NEW c \in Clients, FileLoaded(c)
    PROVE  GInv'
<1>1. /\ pc[c] = "load" /\ got[c] = {} /\ UNCHANGED <<stageVars, fileVars, loaded, purged, stray>>
  BY DEF FileLoaded
<1>2. CASE Go(c, "purge") /\ UNCHANGED <<req, got, todo, seen>>
  <2>1. ClientsType' /\ Others(c) /\ pc'[c] = "purge"
    BY <1>2 DEF GInv, ClientsType, Others, Go, Places
  <2>2. WritesNothing(c) /\ FilesType'
    BY <1>1, <2>1 DEF WritesNothing, GInv, FilesType, fileVars
  <2>3. \A r : \A g \in Files : OnDisk(r, g)' => OnDisk(r, g)
    BY <2>1, <2>2, NothingNew
  <2>4. (Holds(c) /\ Copies(c))'
    BY <1>1, <1>2, <2>1, <2>3 DEF GInv, Holds, Copies, fileVars
  <2> QED
    BY <1>1, <2>1, <2>4, OnlyMoves
<1>3. CASE NextFile(c)
  <2>1. ClientsType' /\ Others(c) /\ (Holds(c) /\ Copies(c))' /\ pc'[c] = "next"
    BY <1>1, <1>3, NextFileOK DEF fileVars
  <2> QED
    BY <1>1, <2>1, OnlyMoves
<1> QED
  BY <1>2, <1>3 DEF FileLoaded

\* The file that is removed is the only one that had the records.
LEMMA PurgeFileOK ==
    ASSUME GInv, NEW c \in Clients, PurgeFile(c)
    PROVE  GInv'
<1>1. /\ pc[c] = "purge" /\ disk' = [disk EXCEPT ![req[c].file] = 0]
      /\ purged' = purged \cup req[c].all /\ NextFile(c)
      /\ UNCHANGED <<row, lastRow, content, lastUpload, loaded, stray>>
  BY DEF PurgeFile, stageVars
<1>2. PICK f \in Files : f = req[c].file
  BY <1>1 DEF GInv, Holds
<1>3. ClientsType' /\ Others(c) /\ (Holds(c) /\ Copies(c))' /\ pc'[c] = "next"
  BY <1>1, NextFileOK
<1>4. disk' \in [Files -> 0 .. lastUpload] /\ disk'[f] = 0 /\ \A g \in Files : disk'[g] \in {0, disk[g]}
  BY <1>1, <1>2, InodesOK DEF GInv, FilesType
<1>5. req[c].all \subseteq Records
  BY DEF GInv, ClientsType, Requests
<1>6. RowsType' /\ FilesType'
  BY <1>1, <1>4, <1>5 DEF GInv, RowsType, FilesType
<1>7. WritesNothing(c)
  BY <1>1, <1>3, <1>4 DEF WritesNothing
<1>8. /\ OneHome' /\ \A r : \A g \in Files : OnDisk(r, g)' => OnDisk(r, g)
      /\ \A d \in Clients \ {c} : (Holds(d) /\ Copies(d))'
      /\ \A r \in purged : r[1] <= lastUpload' /\ \A g \in Files : ~OnDisk(r, g)'
  BY <1>3, <1>6, <1>7, NothingNew
<1>9. \A r \in req[c].all : r[1] <= lastUpload' /\ \A g \in Files : ~OnDisk(r, g)'
  <2>1. \A r : ~OnDisk(r, f)'
    BY <1>4 DEF OnDisk
  <2> QED
    BY <1>1, <1>2, <1>8, <2>1 DEF GInv, Copies
<1>10. PurgedGone'
  BY <1>1, <1>8, <1>9 DEF PurgedGone
<1>11. DropEmpties'
  BY <1>1, <1>3, <1>4, NoRowNoFile DEF Others
<1> QED
  BY <1>3, <1>6, <1>8, <1>10, <1>11 DEF GInv

LEMMA PurgeFailsOK ==
    ASSUME GInv, NEW c \in Clients, PurgeFails(c)
    PROVE  GInv'
<1>1. NextFile(c) /\ UNCHANGED <<stageVars, fileVars, loaded, purged, stray>>
  BY DEF PurgeFails
<1>2. ClientsType' /\ Others(c) /\ (Holds(c) /\ Copies(c))' /\ pc'[c] = "next"
  BY <1>1, NextFileOK DEF fileVars
<1> QED
  BY <1>1, <1>2, OnlyMoves

LEMMA CopyStepOK ==
    ASSUME GInv, NEW c \in Clients, CopyStep(c)
    PROVE  GInv'
<1>1. CASE CopyEnds(c)
  BY <1>1, OnlyEnds DEF CopyEnds
<1> QED
  BY <1>1, CopyIntoOK, OpenFileOK, CannotOpenOK, InsertRecordOK, InsertFailsOK, FileLoadedOK,
     PurgeFileOK, PurgeFailsOK DEF CopyStep
-----------------------------------------------------------------------------
(***************************************************************************)
(* Uploads.                                                                *)
(***************************************************************************)

\* A step that puts no record in a file that was not about to be there.
LEMMA OthersHold ==
    ASSUME GInv, NEW c \in Clients, Others(c), lastUpload' \in Nat, lastUpload <= lastUpload',
           UNCHANGED <<loaded, purged>>,
           \A r \in Records : r[1] <= lastUpload => \A g \in Files : OnDisk(r, g)' => OnDisk(r, g)
    PROVE  (\A d \in Clients \ {c} : Holds(d) /\ Copies(d))' /\ PurgedGone'
<1>1. \A n \in Nat : n <= lastUpload => n <= lastUpload'
  BY InodesOK DEF GInv
<1>2. \A r \in Records : r[1] \in Nat
  BY ConstantsOK DEF Records
<1>3. \A d \in Clients : req[d].all \subseteq Records
  BY DEF GInv, ClientsType, Requests
<1>4. purged \subseteq Records
  BY DEF GInv, FilesType
<1>5. PurgedGone'
  BY <1>1, <1>2, <1>4 DEF GInv, PurgedGone
<1>6. ASSUME NEW d \in Clients \ {c}
      PROVE  (Holds(d) /\ Copies(d))'
  <2>1. /\ pc'[d] = pc[d] /\ req'[d] = req[d]
        /\ todo'[d] = todo[d] /\ got'[d] = got[d] /\ seen'[d] = seen[d]
    BY DEF Others
  <2>2. \A n \in 1 .. lastUpload : n \in 1 .. lastUpload'
    BY <1>1, InodesOK DEF GInv
  <2>3. Holds(d)'
    BY <2>1, <2>2 DEF GInv, Holds
  <2>4. Copies(d)'
    BY <1>1, <1>2, <1>3, <2>1 DEF GInv, Copies
  <2> QED
    BY <2>3, <2>4
<1> QED
  BY <1>5, <1>6

\* The inode of a new file is new, and one that is truncated keeps its name.
LEMMA CreateFileOK ==
    ASSUME GInv, NEW c \in Clients, CreateFile(c)
    PROVE  GInv'
<1>1. PICK f \in Files : f = req[c].file
  BY DEF GInv, Holds, CreateFile
<1>2. PICK i : i = IF disk[f] = 0 THEN lastUpload + 1 ELSE disk[f]
  OBVIOUS
<1>3. /\ pc[c] = "create" /\ lastUpload < MaxUpload /\ lastUpload' = lastUpload + 1
      /\ disk' = [disk EXCEPT ![f] = i] /\ content' = [content EXCEPT ![i] = [p \in PartIds |-> 0]]
      /\ req' = [req EXCEPT ![c].inode = i, ![c].upload = lastUpload']
      /\ stray' = IF row # req[c].stage \/ \E d \in Clients : pc[d] = "delete"
                  THEN stray \cup {i} ELSE stray
      /\ Go(c, "write") /\ UNCHANGED <<row, lastRow, todo, got, loaded, purged, seen>>
  BY <1>1, <1>2 DEF CreateFile, stageVars, copyVars
<1>4. /\ lastUpload \in Nat /\ lastUpload' \in Uploads /\ lastUpload' \in 0 .. MaxUpload
      /\ i \in Uploads /\ i \in 1 .. lastUpload'
  BY <1>2, <1>3, InodesOK, ConstantsOK DEF GInv, FilesType, Uploads
<1>5. /\ disk' \in [Files -> 0 .. lastUpload'] /\ disk'[f] = i
      /\ \A g \in Files \ {f} : disk'[g] = disk[g]
  <2>1. disk \in [Files -> 0 .. lastUpload']
    BY <1>3, <1>4 DEF GInv, FilesType
  <2> QED
    BY <1>3, <1>4, <2>1
<1>6. /\ content' \in [Uploads -> [PartIds -> 0 .. lastUpload']]
      /\ \A p \in PartIds : content'[i][p] = 0
      /\ \A j \in Uploads \ {i} : content'[j] = content[j]
  <2>1. content \in [Uploads -> [PartIds -> 0 .. lastUpload']]
    BY <1>3, <1>4 DEF GInv, FilesType
  <2>2. [p \in PartIds |-> 0] \in [PartIds -> 0 .. lastUpload']
    BY <1>4
  <2> QED
    BY <1>3, <1>4, <2>1, <2>2
<1>7. RowsType' /\ FilesType'
  BY <1>3, <1>4, <1>5, <1>6 DEF GInv, RowsType, FilesType
<1>8. PICK x : x = [req[c] EXCEPT !.inode = i, !.upload = lastUpload']
  OBVIOUS
<1>9. x \in Requests /\ x.all = req[c].all /\ x.inode = i /\ x.upload = lastUpload'
  <2>1. i \in 0 .. MaxUpload /\ req[c] \in Requests
    BY <1>4, ConstantsOK DEF GInv, ClientsType, Uploads
  <2> QED
    BY <1>4, <1>8, <2>1 DEF Requests
<1>10. req' = [req EXCEPT ![c] = x]
  BY <1>3, <1>8 DEF GInv, ClientsType
<1>11. req' \in [Clients -> Requests] /\ req'[c] = x /\ \A d \in Clients \ {c} : req'[d] = req[d]
  BY <1>9, <1>10 DEF GInv, ClientsType
<1>12. ClientsType' /\ Others(c) /\ pc'[c] = "write"
  BY <1>3, <1>11 DEF GInv, ClientsType, Others, Go, Places
<1>13. \A d \in Clients \ {c} : pc'[d] = "write" =>
          /\ pc[d] = "write" /\ req'[d] = req[d]
          /\ req[d].inode \in 1 .. lastUpload /\ req[d].upload \in 1 .. lastUpload
          /\ req[d].upload # 0 /\ req[d].upload # lastUpload' /\ req[d].inode # lastUpload'
  <2>1. \A n \in 1 .. lastUpload : n # 0 /\ n # lastUpload'
    BY <1>3, <1>4
  <2>2. SUFFICES ASSUME NEW d \in Clients \ {c}, pc'[d] = "write"
                 PROVE  /\ pc[d] = "write" /\ req'[d] = req[d]
                        /\ req[d].inode \in 1 .. lastUpload /\ req[d].upload \in 1 .. lastUpload
    BY <2>1
  <2>3. pc[d] = "write" /\ req'[d] = req[d]
    BY <1>12, <2>2 DEF Others
  <2> QED
    BY <2>3 DEF GInv, Holds
\* No record that is there is of the new upload.
<1>14. \A j \in Uploads, p \in PartIds :
          /\ content'[j][p] # lastUpload'
          /\ content'[j][p] # 0 => j # i /\ content'[j][p] = content[j][p]
  <2>1. SUFFICES ASSUME NEW j \in Uploads, NEW p \in PartIds
                 PROVE  /\ content'[j][p] # lastUpload'
                        /\ content'[j][p] # 0 => j # i /\ content'[j][p] = content[j][p]
    OBVIOUS
  <2>2. content[j][p] \in 0 .. lastUpload
    BY DEF GInv, FilesType
  <2>3. CASE j = i
    BY <1>3, <1>4, <1>6, <2>3
  <2>4. CASE j # i
    BY <1>3, <1>4, <1>6, <2>2, <2>4
  <2> QED
    BY <2>3, <2>4
<1>15. OneHome'
  <2>1. \A g \in Files, h \in Files : disk'[g] # 0 /\ disk'[g] = disk'[h] => g = h
    <3>1. \A g \in Files \ {f} : disk[g] # i
      <4>1. CASE disk[f] = 0
        BY <1>2, <1>3, <1>4, <4>1 DEF GInv, FilesType
      <4>2. CASE disk[f] # 0
        BY <1>2, <4>2 DEF GInv, OneHome
      <4> QED
        BY <4>1, <4>2
    <3> QED
      BY <1>5, <3>1 DEF GInv, OneHome
  <2>2. \A j \in Uploads, k \in Uploads, p \in PartIds, q \in PartIds :
           content'[j][p] # 0 /\ content'[j][p] = content'[k][q] => j = k
    BY <1>14 DEF GInv, OneHome
  <2>3. ASSUME NEW d \in Clients, pc'[d] = "write"
        PROVE  /\ \A j \in Uploads, p \in PartIds : content'[j][p] = req'[d].upload => j = req'[d].inode
               /\ \A e \in Clients \ {d} : pc'[e] = "write" => req'[e].upload # req'[d].upload
    <3>1. CASE d = c
      BY <1>9, <1>11, <1>13, <1>14, <3>1
    <3>2. CASE d # c
      BY <1>9, <1>11, <1>13, <1>14, <2>3, <3>2 DEF GInv, OneHome
    <3> QED
      BY <3>1, <3>2
  <2> QED
    BY <2>1, <2>2, <2>3 DEF OneHome
<1>16. \A r \in Records : r[1] <= lastUpload => \A g \in Files : OnDisk(r, g)' => OnDisk(r, g)
  <2>1. SUFFICES ASSUME NEW r \in Records, r[1] <= lastUpload, NEW g \in Files, OnDisk(r, g)'
                 PROVE  OnDisk(r, g)
    OBVIOUS
  <2>2. r[1] \in Nat /\ r[1] # 0 /\ r[1] # lastUpload' /\ r[2] \in PartIds
    BY <1>3, <1>4, <2>1, ConstantsOK DEF Records
  <2>3. disk'[g] # 0 /\ disk'[g] \in Uploads
    BY <1>4, <1>5, <2>1, InodesOK DEF OnDisk, GInv
  <2>4. PICK j \in Uploads : j = disk'[g]
    BY <2>3
  <2>5. CASE content'[j][r[2]] = r[1]
    BY <1>5, <1>14, <2>2, <2>3, <2>4, <2>5 DEF OnDisk
  <2>6. CASE \E d \in Clients : Writes(d, r[1], j)'
    <3>1. PICK d \in Clients \ {c} : /\ pc[d] = "write" /\ req[d].upload = r[1] /\ req[d].inode = j
                                     /\ j # lastUpload'
      BY <1>9, <1>11, <1>13, <2>2, <2>6 DEF Writes
    <3>2. j = disk[g]
      BY <1>2, <1>3, <1>5, <2>4, <3>1
    <3> QED
      BY <2>3, <2>4, <3>1, <3>2 DEF OnDisk, Writes
  <2>7. content'[j][r[2]] = r[1] \/ \E d \in Clients : Writes(d, r[1], j)'
    BY <2>1, <2>4 DEF OnDisk, Writes
  <2> QED
    BY <2>5, <2>6, <2>7
<1>17. (\A d \in Clients \ {c} : Holds(d) /\ Copies(d))' /\ PurgedGone'
  BY <1>3, <1>4, <1>12, <1>16, OthersHold
<1>18. req[c].all = {} /\ got[c] = {} /\ req[c].stage # 0
  BY <1>3 DEF GInv, Holds
<1>19. (Holds(c) /\ Copies(c))'
  <2>1. lastUpload' \in 1 .. lastUpload'
    BY <1>3, <1>4
  <2> QED
    BY <1>3, <1>4, <1>9, <1>11, <1>12, <1>18, <2>1 DEF GInv, Holds, Copies
<1>20. DropEmpties'
  <2>1. SUFFICES ASSUME row = 0 \/ \E d \in Clients : pc[d] = "delete"
                 PROVE  \A g \in Files : disk'[g] \in {0} \cup stray'
    BY <1>3, <1>12 DEF DropEmpties, Others
  <2>2. stray' = stray \cup {i}
    BY <1>3, <1>18, <2>1
  <2> QED
    BY <1>5, <2>1, <2>2 DEF GInv, DropEmpties
<1> QED
  BY <1>7, <1>12, <1>15, <1>17, <1>19, <1>20 DEF GInv

\* A part goes where its upload was about to write it.
LEMMA WritePartOK ==
    ASSUME GInv, NEW c \in Clients, NEW p \in PartIds, WritePart(c, p)
    PROVE  GInv'
<1>1. PICK i : i = req[c].inode
  OBVIOUS
<1>2. PICK u : u = req[c].upload
  OBVIOUS
<1>3. /\ pc[c] = "write" /\ content' = [content EXCEPT ![i][p] = u]
      /\ UNCHANGED <<row, lastRow, disk, lastUpload, loaded, purged, stray>>
  BY <1>1, <1>2 DEF WritePart, stageVars
<1>4. i \in 1 .. lastUpload /\ i \in Uploads /\ u \in 1 .. lastUpload /\ u \in Uploads /\ u # 0
      /\ u <= lastUpload
  BY <1>1, <1>2, <1>3, InodesOK DEF GInv, Holds
<1>5. /\ content' \in [Uploads -> [PartIds -> 0 .. lastUpload]] /\ content'[i][p] = u
      /\ \A j \in Uploads, q \in PartIds : <<j, q>> # <<i, p>> => content'[j][q] = content[j][q]
  <2>1. PICK y : y = [content[i] EXCEPT ![p] = u]
    OBVIOUS
  <2>2. /\ y \in [PartIds -> 0 .. lastUpload] /\ y[p] = u
        /\ \A q \in PartIds \ {p} : y[q] = content[i][q]
    BY <1>4, <2>1 DEF GInv, FilesType
  <2>3. content' = [content EXCEPT ![i] = y]
    BY <1>3, <1>4, <2>1 DEF GInv, FilesType
  <2> QED
    BY <1>4, <2>2, <2>3 DEF GInv, FilesType
<1>6. RowsType' /\ FilesType'
  BY <1>3, <1>5 DEF GInv, RowsType, FilesType
<1>7. ClientsType' /\ Others(c) /\ (Holds(c) /\ Copies(c))' /\ pc'[c] \in {"idle", "write"}
      /\ (pc'[c] = "write" => req'[c].upload = u /\ req'[c].inode = i)
  <2>1. CASE End(c)
    BY <1>3, <2>1, EndOK
  <2>2. CASE /\ req' = [req EXCEPT ![c].all = @ \cup {<<u, p>>}]
             /\ UNCHANGED <<pc, todo, got, seen>>
    <3>1. PICK x : x = [req[c] EXCEPT !.all = @ \cup {<<u, p>>}]
      OBVIOUS
    <3>2. <<u, p>> \in Records
      BY <1>4 DEF Records
    <3>3. x \in Requests /\ x.all = req[c].all \cup {<<u, p>>} /\ x.upload = u /\ x.inode = i
      BY <1>1, <1>2, <3>1, <3>2 DEF GInv, ClientsType, Requests
    <3>4. req' = [req EXCEPT ![c] = x]
      BY <2>2, <3>1 DEF GInv, ClientsType
    <3>5. req' \in [Clients -> Requests] /\ req'[c] = x /\ \A d \in Clients \ {c} : req'[d] = req[d]
      BY <3>3, <3>4 DEF GInv, ClientsType
    <3>6. ClientsType' /\ Others(c)
      BY <2>2, <3>5 DEF GInv, ClientsType, Others
    <3>7. Holds(c)'
      BY <1>3, <1>4, <2>2, <3>3, <3>5 DEF GInv, Holds
    <3>8. Copies(c)'
      BY <1>3, <1>4, <2>2, <3>3, <3>5 DEF GInv, Copies
    <3> QED
      BY <1>3, <2>2, <3>3, <3>5, <3>6, <3>7, <3>8
  <2> QED
    BY <1>2, <2>1, <2>2 DEF WritePart
<1>8. \A d \in Clients : pc'[d] = "write" =>
         pc[d] = "write" /\ req'[d].upload = req[d].upload /\ req'[d].inode = req[d].inode
  BY <1>1, <1>2, <1>3, <1>7 DEF Others
\* The part has the name of an upload that writes this inode only.
<1>9. \A j \in Uploads, q \in PartIds : content'[j][q] = u => j = i
  BY <1>1, <1>2, <1>3, <1>5 DEF GInv, OneHome
<1>10. \A j \in Uploads, q \in PartIds : content'[j][q] # u => content'[j][q] = content[j][q]
  BY <1>5
<1>11. OneHome'
  <2>1. \A f \in Files, g \in Files : disk'[f] # 0 /\ disk'[f] = disk'[g] => f = g
    BY <1>3 DEF GInv, OneHome
  <2>2. \A j \in Uploads, k \in Uploads, s \in PartIds, q \in PartIds :
           content'[j][s] # 0 /\ content'[j][s] = content'[k][q] => j = k
    BY <1>9, <1>10 DEF GInv, OneHome
  <2>3. ASSUME NEW d \in Clients, pc'[d] = "write"
        PROVE  /\ \A j \in Uploads, q \in PartIds : content'[j][q] = req'[d].upload => j = req'[d].inode
               /\ \A e \in Clients \ {d} : pc'[e] = "write" => req'[e].upload # req'[d].upload
    <3>1. CASE d = c
      BY <1>1, <1>2, <1>3, <1>8, <1>9, <2>3, <3>1 DEF GInv, OneHome
    <3>2. CASE d # c
      BY <1>2, <1>3, <1>8, <1>10, <2>3, <3>2 DEF GInv, OneHome
    <3> QED
      BY <3>1, <3>2
  <2> QED
    BY <2>1, <2>2, <2>3 DEF OneHome
<1>12. \A r \in Records : \A g \in Files : OnDisk(r, g)' => OnDisk(r, g)
  <2>1. SUFFICES ASSUME NEW r \in Records, NEW g \in Files, OnDisk(r, g)'
                 PROVE  OnDisk(r, g)
    OBVIOUS
  <2>2. r[2] \in PartIds /\ disk'[g] = disk[g] /\ disk[g] # 0 /\ disk[g] \in Uploads
    BY <1>3, <2>1, InodesOK DEF OnDisk, Records, GInv
  <2>3. CASE content'[disk[g]][r[2]] = r[1]
    <3>1. CASE r[1] = u
      BY <1>1, <1>2, <1>3, <1>9, <2>2, <2>3, <3>1 DEF OnDisk, Writes
    <3>2. CASE r[1] # u
      BY <1>10, <2>2, <2>3, <3>2 DEF OnDisk
    <3> QED
      BY <3>1, <3>2
  <2>4. CASE \E d \in Clients : Writes(d, r[1], disk[g])'
    BY <1>3, <1>8, <2>2, <2>4 DEF OnDisk, Writes
  <2> QED
    BY <2>1, <2>2, <2>3, <2>4, <1>3 DEF OnDisk, Writes
<1>13. (\A d \in Clients \ {c} : Holds(d) /\ Copies(d))' /\ PurgedGone'
  <2>1. lastUpload' \in Nat /\ lastUpload <= lastUpload'
    BY <1>3, InodesOK DEF GInv
  <2> QED
    BY <1>3, <1>7, <1>12, <2>1, OthersHold
<1>14. DropEmpties'
  BY <1>3, <1>7, NoRowNoFile DEF Others
<1> QED
  BY <1>6, <1>7, <1>11, <1>13, <1>14 DEF GInv

\* After a crash nobody writes and nobody has read anything.
LEMMA CrashOK ==
    ASSUME GInv, Crash
    PROVE  GInv'
<1> USE DEF Crash, stageVars, fileVars
<1>1. RowsType' /\ FilesType'
  BY DEF GInv, RowsType, FilesType
<1>2. ClientsType'
  BY NoRequestOK DEF ClientsType, Places
<1>3. \A c \in Clients : /\ pc'[c] = "idle" /\ req'[c] = NoRequest /\ todo'[c] = {}
                         /\ got'[c] = {} /\ seen'[c] = {}
  OBVIOUS
<1>4. OneHome'
  BY <1>3 DEF GInv, OneHome
<1>5. \A c \in Clients : (Holds(c) /\ Copies(c))'
  BY <1>3, NoRequestOK DEF Holds, Copies
<1>6. PurgedGone'
  BY <1>3 DEF GInv, PurgedGone, OnDisk, Writes
<1>7. DropEmpties'
  BY <1>3, NoRowNoFile
<1> QED
  BY <1>1, <1>2, <1>4, <1>5, <1>6, <1>7 DEF GInv
-----------------------------------------------------------------------------
(***************************************************************************)
(* The theorems.                                                           *)
(***************************************************************************)

LEMMA InitOK == Init => GInv
<1>1. SUFFICES ASSUME Init PROVE GInv
  OBVIOUS
<1> USE DEF Init
<1>2. RowsType
  BY <1>1, ConstantsOK DEF RowsType
<1>3. FilesType
  <2>1. 0 \in 0 .. MaxUpload /\ 0 \in 0 .. 0
    BY ConstantsOK
  <2> QED
    BY <1>1, <2>1 DEF FilesType
<1>4. ClientsType
  BY <1>1, NoRequestOK DEF ClientsType, Places
<1>5. OneHome
  BY <1>1 DEF OneHome
<1>6. \A c \in Clients : Holds(c) /\ Copies(c)
  BY <1>1, NoRequestOK DEF Holds, Copies
<1>7. PurgedGone /\ DropEmpties
  BY <1>1 DEF PurgedGone, DropEmpties
<1> QED
  BY <1>2, <1>3, <1>4, <1>5, <1>6, <1>7 DEF GInv

LEMMA StutterOK ==
    ASSUME GInv, UNCHANGED vars
    PROVE  GInv'
<1> USE DEF vars, stageVars, fileVars, copyVars, historyVars
<1>1. RowsType' /\ FilesType' /\ ClientsType' /\ OneHome'
  BY DEF GInv, RowsType, FilesType, ClientsType, OneHome
<1>2. (\A c \in Clients : Holds(c) /\ Copies(c))'
  BY DEF GInv, Holds, Copies, OnDisk, Writes
<1>3. PurgedGone' /\ DropEmpties'
  BY DEF GInv, PurgedGone, DropEmpties, OnDisk, Writes
<1> QED
  BY <1>1, <1>2, <1>3 DEF GInv

\* Names, inodes, uploads and what each client holds of them agree at all times.
THEOREM StagesInvariant == Spec => []GInv
<1>1. Init => GInv
  BY InitOK
<1>2. GInv /\ [Next]_vars => GInv'
  <2>1. SUFFICES ASSUME GInv, [Next]_vars PROVE GInv'
    OBVIOUS
  <2>2. CASE Crash
    BY <2>1, <2>2, CrashOK
  <2>3. ASSUME NEW c \in Clients,
               \/ CreateStageRow(c) \/ MakeDirectory(c)
               \/ \E replace \in BOOLEAN : DropStage(c, replace)
               \/ RemoveDirectory(c) \/ DeleteStageRow(c)
               \/ \E f \in Files : PutFile(c, f)
               \/ CreateFile(c) \/ \E p \in PartIds : WritePart(c, p)
               \/ CopyStep(c)
        PROVE  GInv'
    BY <2>1, <2>3, CreateStageRowOK, MakeDirectoryOK, DropStageOK, RemoveDirectoryOK,
       DeleteStageRowOK, PutFileOK, CreateFileOK, WritePartOK, CopyStepOK
  <2>4. ASSUME NEW c \in Clients, Fail(c)
        PROVE  GInv'
    BY <2>1, <2>4, OnlyEnds DEF Fail
  <2>5. CASE UNCHANGED vars
    BY <2>1, <2>5, StutterOK
  <2> QED
    BY <2>1, <2>2, <2>3, <2>4, <2>5 DEF Next
<1> QED
  BY <1>1, <1>2, PTL DEF Spec

\* The variables have their types; a COPY inserts only what it has read in the
\* file it is at, and an upload writes an inode that an upload has created.
THEOREM StagesTypeOK == Spec => []TypeOK
<1>1. GInv => TypeOK
  <2>1. SUFFICES ASSUME GInv PROVE TypeOK
    OBVIOUS
  <2>2. /\ lastRow \in 0 .. MaxStage /\ row \in {0, lastRow}
        /\ lastUpload \in 0 .. MaxUpload
        /\ disk \in [Files -> 0 .. lastUpload]
        /\ content \in [Uploads -> [PartIds -> 0 .. lastUpload]]
        /\ loaded \cup purged \subseteq Records /\ stray \subseteq Uploads
    BY <2>1 DEF GInv, RowsType, FilesType
  <2>3. ASSUME NEW c \in Clients
        PROVE  /\ todo[c] \subseteq Files /\ got[c] \subseteq req[c].all
               /\ req[c].all \subseteq Records /\ seen[c] \subseteq purged
               /\ pc[c] = "write" => req[c].inode \in 1 .. lastUpload
               /\ pc[c] = "idle" => req[c] = NoRequest /\ todo[c] = {}
    <3>1. todo[c] \subseteq Files /\ req[c].all \subseteq Records
      BY <2>1 DEF GInv, ClientsType, Requests
    <3> QED
      BY <2>1, <3>1 DEF GInv, Holds
  <2> QED
    BY <2>2, <2>3 DEF TypeOK
<1> QED
  BY <1>1, StagesInvariant, PTL

\* A COPY never reads records of a file that a PURGE had removed before the
\* COPY began, though the upload of that file may still be writing.
THEOREM StagesNotLoadedAgain == Spec => []NotLoadedAgain
<1>1. GInv => NotLoadedAgain
  BY DEF GInv, Holds, NotLoadedAgain
<1> QED
  BY <1>1, StagesInvariant, PTL

\* What a PURGE removes is in the table, as far as the COPY has read it, whatever
\* failed before.
THEOREM StagesPurgedWasLoaded == Spec => PurgedWasLoaded
<1>1. GInv /\ [Next]_vars =>
         [\A c \in Clients :
             LET f == req[c].file
             IN  pc[c] = "purge" /\ disk[f] # 0 /\ disk'[f] = 0 /\ row' = row
                 => RecordsOf(disk[f]) \cap req[c].all \subseteq loaded]_vars
  BY DEF GInv, Copies
<1> QED
  BY <1>1, StagesInvariant, PTL DEF Spec, PurgedWasLoaded

\* A stage starts with no file but those of uploads that overlapped a DROP of
\* its name, and those that were there when a CREATE of it deleted its row again.
THEOREM StagesNewStageIsEmpty == Spec => NewStageIsEmpty
<1>1. GInv /\ [Next]_vars =>
         [row = 0 /\ row' # 0 => \A f \in Files : disk[f] \in {0} \cup stray]_vars
  BY DEF GInv, DropEmpties
<1> QED
  BY <1>1, StagesInvariant, PTL DEF Spec, NewStageIsEmpty
=============================================================================
