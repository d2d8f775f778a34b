--------------------------- MODULE WatchlistTool ----------------------------
(***************************************************************************)
(* The watchlist builder (swing_watchlist_tool.py): its window creates an  *)
(* import file from validated rows, in the watched folder itself or in one *)
(* from which it is uploaded.  One worker thread and modal dialogs: one    *)
(* operation at a time; a failed one leaves the window as it was.          *)
(*                                                                         *)
(* The table is any choice of validated rows: adding and removing rows     *)
(* matters here for what it does to saved only.  A file is shorter than    *)
(* the buffer it is written through, and so empty until it is closed.      *)
(***************************************************************************)
EXTENDS SwingImport

CONSTANT Tables  \* what the window's table may hold, as rows of a file

ASSUME WatchlistToolAssumption == Tables \subseteq Seq(Row)

VARIABLES
  window, \* what the window does, see Windows
  saved,  \* WatchlistWindow.saved: the stamp of its file as {n}, or {}
  bytes,  \* WatchlistWindow.saved_bytes; until "written", what is being written
  disk,   \* the file at path saved (while "writing", to be saved), in another folder: {} or {file}
  upload  \* the remote file of the upload, under its temporary name

tool == <<window, saved, bytes, disk, upload>>

(* "written": the worker has closed the file, saved() has not yet run.     *)
Windows == {"idle", "writing", "written", "confirmed", "copied"}

ToolInit ==
  /\ window = "idle" /\ saved = {} /\ bytes = EmptyFile
  /\ disk = {} /\ upload = EmptyFile

With(n, file) == [x \in DOMAIN folder \cup {n} |-> IF x = n THEN file ELSE folder[x]]

(* add() and remove(): the saved file is no longer what the table shows.   *)
ChangeTable ==
  /\ window = "idle" /\ saved # {}
  /\ saved' = {} /\ bytes' = EmptyFile /\ disk' = {}
  /\ UNCHANGED <<window, upload, folder>>

(* create(): rows are validated again, the file is opened under its final  *)
(* name - in the watched folder (here) or elsewhere.                       *)
CreateFile(n, here, table) ==
  /\ window = "idle" /\ table # <<>>
  /\ window' = "writing"
  /\ saved' = {n}
  /\ bytes' = [header |-> TRUE, rows |-> table]
  /\ disk' = IF here THEN {} ELSE {EmptyFile}
  /\ folder' = IF here THEN With(n, EmptyFile) ELSE folder
  /\ UNCHANGED upload

CloseFile ==
  /\ window = "writing"
  /\ window' = "written"
  /\ IF disk = {}
     THEN \E n \in saved : folder' = With(n, bytes) /\ UNCHANGED disk
     ELSE disk' = {bytes} /\ UNCHANGED folder
  /\ UNCHANGED <<saved, bytes, upload>>

(* saved() of create() reads the file again, an edit made in between is    *)
(* what uploads are compared with.  (No upload is made of a file that is   *)
(* in the watched folder already.)                                         *)
ReadBack ==
  /\ window = "written"
  /\ window' = "idle"
  /\ IF disk = {} THEN UNCHANGED bytes ELSE bytes' \in disk
  /\ UNCHANGED <<saved, disk, upload, folder>>

(* An error while writing removes the file; a kill of the tool does not.   *)
WriteFails ==
  /\ window = "writing"
  /\ window' = "idle"
  /\ \/ /\ disk = {}
        /\ folder' = [n \in DOMAIN folder \ saved |-> folder[n]]
     \/ UNCHANGED folder
  /\ saved' = {} /\ bytes' = EmptyFile /\ disk' = {}
  /\ UNCHANGED upload

(* The saved file is edited by hand, at any time.                          *)
EditFile(file) ==
  /\ window # "writing" /\ disk # {} /\ disk # {file}
  /\ disk' = {file}
  /\ UNCHANGED <<window, saved, bytes, upload, folder>>

(* upload(): the bytes are compared, then come the questions, then scp to  *)
(* a temporary name and mv.                                                *)
ConfirmUpload ==
  /\ window = "idle"
  /\ disk = {bytes}
  /\ window' = "confirmed"
  /\ UNCHANGED <<saved, bytes, disk, upload, folder>>

CopyUpload ==
  /\ window = "confirmed"
  /\ window' = "copied"
  /\ upload' \in disk
  /\ UNCHANGED <<saved, bytes, disk, folder>>

RenameUpload ==
  /\ window = "copied"
  /\ window' = "idle"
  /\ \E n \in saved : folder' = With(n, upload)
  /\ upload' = EmptyFile
  /\ UNCHANGED <<saved, bytes, disk>>

UploadFails ==
  /\ window \in {"confirmed", "copied"}
  /\ window' = "idle"
  /\ upload' = EmptyFile
  /\ UNCHANGED <<saved, bytes, disk, folder>>

=============================================================================
