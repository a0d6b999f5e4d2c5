---- MODULE Files ----
(***************************************************************************)
(* Uploaded files: their bytes on the worker's disk and their rows in      *)
(* files.  An upload writes the bytes first, a removal unlinks them first, *)
(* and the deletion of a project does both for all of its files and        *)
(* removes their directory at the very end.                                *)
(***************************************************************************)
EXTENDS ControlBase

CONSTANT Files  \* names of stored files; each upload makes up a new one

ASSUME FilesAssumption == \A s \in Scenarios : s.files \subseteq Files

VARIABLES
    disk,     \* files in ./uploads/<project>
    fileRows  \* those with a row in files

fileVars == <<disk, fileRows>>

FileObject(f) == <<"file", f>>
FileObjects == {FileObject(f) : f \in Files}

FilesInit(s) ==
    /\ disk = s.files
    /\ fileRows = s.files

----------------------------------------------------------------------------
\* POST files/upload.
Upload(h) ==
    \E f \in Files \ (disk \cup fileRows) :
        /\ Idle(FileObject(f))
        /\ BeginIn("projects", h, "upload file", {FileObject(f)}, "write", [f |-> f])
        /\ UNCHANGED fileVars

WriteFile(h) ==
    /\ At(h, "upload file", "write")
    /\ disk' = disk \cup {req[h].data.f}
    /\ GoOn(h, "insert")
    /\ UNCHANGED fileRows

InsertFile(h) ==
    /\ At(h, "upload file", "insert")
    /\ fileRows' = fileRows \cup {req[h].data.f}
    /\ Finish(h, {FileObject(req[h].data.f)})
    /\ UNCHANGED disk

\* Nothing takes the bytes back when the row cannot be inserted.
UploadFails(h) ==
    /\ req[h] # NoReq /\ req[h].op = "upload file"
    /\ LET f == req[h].data.f IN
        /\ disk' \in {disk, disk \cup {f}}
        /\ fileRows' \in {fileRows, IF req[h].at = "insert" THEN fileRows \cup {f} ELSE fileRows}
        /\ Fail(h, {FileObject(f)})

----------------------------------------------------------------------------
\* DELETE files/:id.
RemoveFile(h) ==
    \E f \in Files :
        /\ BeginIn("projects", h, "remove file", {FileObject(f)}, "find", [f |-> f, unlinked |-> FALSE])
        /\ UNCHANGED fileVars

FindFile(h) ==
    /\ At(h, "remove file", "find")
    /\ IF req[h].data.f \in fileRows THEN GoOn(h, "unlink") ELSE Finish(h, {})
    /\ UNCHANGED fileVars

Unlink(h) ==
    /\ At(h, "remove file", "unlink")
    /\ disk' = disk \ {req[h].data.f}
    /\ Go(h, "row", [req[h].data EXCEPT !.unlinked = TRUE])
    /\ UNCHANGED fileRows

\* A failure to unlink is swallowed, and the row goes all the same.
UnlinkFails(h) ==
    /\ At(h, "remove file", "unlink")
    /\ Swallow(h, "row", req[h].data, {FileObject(req[h].data.f)})
    /\ UNCHANGED fileVars

DeleteFile(h) ==
    /\ At(h, "remove file", "row")
    /\ fileRows' = fileRows \ {req[h].data.f}
    /\ Finish(h, IF req[h].data.unlinked THEN {FileObject(req[h].data.f)} ELSE {})
    /\ UNCHANGED disk

RemoveFileFails(h) ==
    /\ At(h, "remove file", "find") \/ At(h, "remove file", "row")
    /\ fileRows' \in {fileRows, IF req[h].at = "row" THEN fileRows \ {req[h].data.f} ELSE fileRows}
    /\ Fail(h, IF req[h].at = "row" THEN {FileObject(req[h].data.f)} ELSE {})
    /\ UNCHANGED disk

FileStep(h) ==
    \/ Upload(h) \/ WriteFile(h) \/ InsertFile(h) \/ UploadFails(h)
    \/ RemoveFile(h) \/ FindFile(h) \/ Unlink(h) \/ UnlinkFails(h) \/ DeleteFile(h) \/ RemoveFileFails(h)

----------------------------------------------------------------------------
\* The files' part of a project's deletion: those that have a row are unlinked.
DropFiles == disk' = disk \ fileRows /\ UNCHANGED fileRows
DropFileRows == fileRows' = {} /\ UNCHANGED disk
DropUploads == disk' = {} /\ UNCHANGED fileRows
====
