---------------------------- MODULE ProjectSaving ----------------------------
(***************************************************************************)
(* Saving and loading of archived projects: DefaultFileManager.cc,          *)
(* FileUtils.cc, internal/project/Archive.cc.  An archive is written to     *)
(* <path>.tmp and renamed.  What a drawable needs beside its own data (its  *)
(* texture here) is copied from where it was loaded: a file on the disk, or *)
(* the archive, at the entry it had when it was loaded.  So that the        *)
(* archive is still there when the project is saved again the project       *)
(* keeps a hard link to it, the transient file.                             *)
(*                                                                         *)
(* A published file is never changed in place (a rename replaces it), so a  *)
(* hard link is as good as a copy of its content.  Textures on the disk     *)
(* and in zip files stay where they are.                                    *)
(***************************************************************************)
EXTENDS Integers, Sequences, SequencesExt, FiniteSets

CONSTANTS
  Models, Accessories,  (* the drawables; each has one texture *)
  Paths,                (* of archived projects *)
  Names,                (* the names drawables can have *)
  GivenNames,           (* those they have in the files they are opened from *)
  Operations,           (* "import": drawables from zip files; what may fail: "fail" (to open
                           or write), "rename", "link" (to make the transient file) *)
  Writers,              (* "posix", "win32": the file writers of the platforms considered *)
  MaxSaves,             (* bound: how often the user saves *)
  ZIP,                  (* a zip file drawables are imported from, and their entries in it *)
  NULL                  (* no file, no value *)

ASSUME PathsAssumption == NULL \notin Paths /\ ZIP \notin Paths /\ NULL # ZIP
ASSUME NamesAssumption == GivenNames \subseteq Names
ASSUME WritersAssumption == Writers \subseteq {"posix", "win32"}
ASSUME SavesAssumption == MaxSaves \in Nat

Drawables == Models \cup Accessories
KindOf(d) == IF d \in Models THEN "Model" ELSE "Accessory"
Entries == {"Model", "Accessory"} \X Names

VARIABLES
  writer,     (* the file writer of the platform, which never changes *)
  files,      (* the project files on the disk *)
  tmp,        (* the temporary file of each path *)
  drawables,  (* the drawables of the project, the models first *)
  fileURI,    (* Project::m_fileURI.first *)
  transient,  (* the content of the transient file, or NULL *)
  phase,      (* of saveProject *)
  dest,       (* the file saveProject writes *)
  links,      (* the number of transient files this process has left on the disk *)
  saves,      (* bound: the number of saves so far *)
  origin,     (* ghost: the file last loaded or saved *)
  missed,     (* ghost: what has failed since the project was created *)
  abandoned   (* ghost: the paths whose temporary file nobody is going to remove *)

disk == <<files, tmp>>
project == <<drawables, fileURI, transient>>
ghosts == <<origin, missed, abandoned>>
vars == <<writer, disk, project, phase, dest, links, saves, ghosts>>

Idle == phase = "idle"

(* What is on the disk while an archive is being written.                   *)
Unfinished == [complete |-> FALSE]

Readable(file) == file # NULL /\ file.complete

-----------------------------------------------------------------------------
(* Where an attachment is found.                                           *)

(* Mutant of Source: the archive the project is saved to now is read.       *)
SourceIsDestination(d) == IF phase = "writing" THEN files[dest] ELSE transient

(* Project::resolveFileURI, applied to any archive a drawable comes from.   *)
Source(d) == IF transient # NULL THEN transient
             ELSE IF d.archive \in Paths THEN files[d.archive]
             ELSE [complete |-> TRUE, items |-> <<>>, textures |-> [e \in {ZIP} |-> d.id]]

(* The drawables whose source cannot be opened make the whole save fail.    *)
CanRead(d) == d.archive = NULL \/ Readable(Source(d))

(* An entry that is not in the source is left out without an error.         *)
Copied(d) == \/ d.archive = NULL
             \/ d.entry \in DOMAIN Source(d).textures /\ Source(d).textures[d.entry] = d.id

-----------------------------------------------------------------------------
(* What a save writes.                                                     *)

(* Project::resolveNameConfliction: a drawable keeps its name unless an      *)
(* earlier one has it, and gets one that is not taken then.                 *)
Resolved(seq, names) ==
  \A i \in 1 .. Len(seq) :
    LET taken == {names[j] : j \in 1 .. i - 1}
    IN IF seq[i].name \in taken THEN names[i] \notin taken ELSE names[i] = seq[i].name

(* The drawables with their names resolved up to the k-th.                  *)
Renamed(seq, names, k) ==
  [i \in 1 .. Len(seq) |-> IF i <= k THEN [seq[i] EXCEPT !.name = names[i]] ELSE seq[i]]

EntryOf(d) == <<KindOf(d.id), d.name>>

ArchiveOf(seq) ==
  [complete |-> TRUE,
   items |-> [i \in 1 .. Len(seq) |-> [id |-> seq[i].id, name |-> seq[i].name]],
   textures |-> [e \in {EntryOf(seq[i]) : i \in {j \in 1 .. Len(seq) : Copied(seq[j])}} |->
                  seq[CHOOSE i \in 1 .. Len(seq) : EntryOf(seq[i]) = e].id]]

(* The drawables as loaded from the archive at path p.                      *)
LoadedFrom(p) ==
  [i \in 1 .. Len(files[p].items) |->
    LET item == files[p].items[i]
        entry == <<KindOf(item.id), item.name>>
    IN [id |-> item.id, name |-> item.name, archive |-> p, entry |-> entry,
        textured |-> entry \in DOMAIN files[p].textures /\ files[p].textures[entry] = item.id]]

-----------------------------------------------------------------------------
Init ==
  /\ writer \in Writers
  /\ files = [p \in Paths |-> NULL] /\ tmp = [p \in Paths |-> NULL]
  /\ drawables = <<>> /\ fileURI = NULL /\ transient = NULL
  /\ phase = "idle" /\ dest = NULL /\ links = 0 /\ saves = 0
  /\ origin = NULL /\ missed = {} /\ abandoned = {}

InProject(d) == \E i \in 1 .. Len(drawables) : drawables[i].id = d

(* The project lists its models apart from its accessories, and the archive *)
(* visits the models first: the place of a new drawable is after the k-th.  *)
IsPlace(d, k) ==
  IF d \in Models
    THEN \A i \in 1 .. Len(drawables) : drawables[i].id \in Models <=> i <= k
    ELSE k = Len(drawables)

(* A drawable is opened from a file, or from a zip file.                    *)
AddDrawable(d, n, archive) ==
  /\ Idle /\ ~InProject(d)
  /\ \E k \in 0 .. Len(drawables) :
       /\ IsPlace(d, k)
       /\ drawables' = InsertAt(drawables, k + 1,
            [id |-> d, name |-> n, archive |-> archive, textured |-> TRUE,
             entry |-> IF archive = NULL THEN NULL ELSE ZIP])
  /\ UNCHANGED <<disk, fileURI, transient, phase, dest, links, saves, ghosts>>

RemoveDrawable(i) ==
  /\ Idle
  /\ drawables' = RemoveAt(drawables, i)
  /\ UNCHANGED <<disk, fileURI, transient, phase, dest, links, saves, ghosts>>

(* Project::hasTransientPath.                                              *)
Held == IF transient = NULL THEN 0 ELSE 1

(* Mutant of NewProject: a link is taken to exist.                          *)
NewProjectUnlinking ==
  /\ Idle
  /\ drawables' = <<>> /\ fileURI' = NULL /\ transient' = NULL
  /\ links' = links - 1
  /\ origin' = NULL /\ missed' = {}
  /\ UNCHANGED <<disk, phase, dest, saves, abandoned>>

(* BaseApplicationService::destroyProject for the last one.                 *)
NewProject ==
  /\ Idle
  /\ drawables' = <<>> /\ fileURI' = NULL /\ transient' = NULL
  /\ links' = links - Held
  /\ origin' = NULL /\ missed' = {}
  /\ UNCHANGED <<disk, phase, dest, saves, abandoned>>

(* Mutant of LoadProject: no hard link is made.                             *)
LoadWithoutLink(p) ==
  /\ Idle /\ Readable(files[p])
  /\ drawables' = LoadedFrom(p) /\ fileURI' = p /\ transient' = NULL
  /\ links' = links - Held
  /\ origin' = p /\ missed' = {}
  /\ UNCHANGED <<disk, phase, dest, saves, abandoned>>

(* DefaultFileManager::loadProject into a new project, which replaces the   *)
(* last one.                                                               *)
LoadProject(p) ==
  /\ Idle /\ Readable(files[p])
  /\ drawables' = LoadedFrom(p) /\ fileURI' = p
  /\ \E created \in {TRUE, "link" \notin Operations} :
       /\ transient' = IF created THEN files[p] ELSE NULL
       /\ links' = links - Held + (IF created THEN 1 ELSE 0)
       /\ missed' = IF created THEN {} ELSE {"link"}
  /\ origin' = p
  /\ UNCHANGED <<disk, phase, dest, saves, abandoned>>

-----------------------------------------------------------------------------
(* DefaultFileManager::saveProject, between two accesses to the disk.       *)

(* Mutant of OpenWriter: the destination is written in place.               *)
OpenWriterInPlace(p) ==
  /\ Idle /\ saves < MaxSaves
  /\ phase' = "writing" /\ dest' = p /\ saves' = saves + 1
  /\ files' = [files EXCEPT ![p] = Unfinished] /\ tmp' = [tmp EXCEPT ![p] = Unfinished]
  /\ UNCHANGED <<project, links, ghosts>>

(* FileWriterScope::open.                                                  *)
OpenWriter(p) ==
  /\ Idle /\ saves < MaxSaves
  /\ phase' = "writing" /\ dest' = p /\ saves' = saves + 1
  /\ tmp' = [tmp EXCEPT ![p] = Unfinished]
  /\ UNCHANGED <<files, project, links, ghosts>>

OpenWriterFails(p) ==
  /\ "fail" \in Operations
  /\ Idle /\ saves < MaxSaves
  /\ phase' = "linking" /\ dest' = p /\ saves' = saves + 1
  /\ missed' = missed \cup {"fail"}
  /\ UNCHANGED <<disk, project, links, origin, abandoned>>

(* setFileURI and saveAsArchive.                                           *)
WriteArchive ==
  /\ phase = "writing"
  /\ \A i \in 1 .. Len(drawables) : CanRead(drawables[i])
  /\ \E names \in [1 .. Len(drawables) -> Names] :
       /\ Resolved(drawables, names)
       /\ drawables' = Renamed(drawables, names, Len(drawables))
  /\ tmp' = [tmp EXCEPT ![dest] = ArchiveOf(drawables')]
  /\ fileURI' = dest
  /\ phase' = "written"
  /\ UNCHANGED <<files, transient, dest, links, saves, ghosts>>

(* PosixFileWriter removes the temporary file when it is rolled back.       *)
PosixRollback == tmp' = [tmp EXCEPT ![dest] = NULL] /\ abandoned' = abandoned \ {dest}

(* Win32FileWriter adds ".tmp" to the name of the temporary file and        *)
(* deletes that: the temporary file stays.                                 *)
Win32Rollback == UNCHANGED tmp /\ abandoned' = abandoned \cup {dest}

Rollback == IF writer = "posix" THEN PosixRollback ELSE Win32Rollback

(* Mutant of WriteArchiveFails: the project keeps the new name.             *)
WriteArchiveFailsRenamed ==
  /\ phase = "writing"
  /\ "fail" \in Operations \/ \E i \in 1 .. Len(drawables) : ~CanRead(drawables[i])
  /\ Rollback
  /\ fileURI' = dest
  /\ phase' = "linking"
  /\ missed' = missed \cup {"fail"}
  /\ UNCHANGED <<files, drawables, transient, dest, links, saves, origin>>

(* The file name is put back and the file writer rolled back; the names     *)
(* that were resolved before the failure stay.                             *)
WriteArchiveFails ==
  /\ phase = "writing"
  /\ "fail" \in Operations \/ \E i \in 1 .. Len(drawables) : ~CanRead(drawables[i])
  /\ \E k \in 0 .. Len(drawables), names \in [1 .. Len(drawables) -> Names] :
       /\ Resolved(drawables, names)
       /\ drawables' = Renamed(drawables, names, k)
  /\ Rollback
  /\ phase' = "linking"
  /\ missed' = missed \cup {"fail"}
  /\ UNCHANGED <<files, fileURI, transient, dest, links, saves, origin>>

(* FileWriterScope::commit.                                                *)
Commit ==
  /\ phase = "written"
  /\ files' = [files EXCEPT ![dest] = tmp[dest]] /\ tmp' = [tmp EXCEPT ![dest] = NULL]
  /\ phase' = "linking"
  /\ origin' = dest /\ abandoned' = abandoned \ {dest}
  /\ UNCHANGED <<project, dest, links, saves, missed>>

(* The destructor of PosixFileWriter rolls back, that of Win32FileWriter     *)
(* does nothing; the file name is not put back.                            *)
CommitFails ==
  /\ "rename" \in Operations
  /\ phase = "written"
  /\ Rollback
  /\ phase' = "linking"
  /\ missed' = missed \cup {"rename"}
  /\ UNCHANGED <<files, project, dest, links, saves, origin>>

(* Mutant of Relink: the last transient file is not deleted.                *)
RelinkKeepingLast ==
  /\ phase = "linking"
  /\ transient' = files[dest]
  /\ links' = links + (IF files[dest] # NULL THEN 1 ELSE 0)
  /\ missed' = IF files[dest] # NULL THEN missed ELSE missed \cup {"link"}
  /\ phase' = "idle" /\ dest' = NULL
  /\ UNCHANGED <<disk, drawables, fileURI, saves, origin, abandoned>>

(* The end of saveProject, after a failure too: whatever is at the          *)
(* destination becomes the transient file, and the last one is deleted.     *)
Relink ==
  /\ phase = "linking"
  /\ \E created \in {files[dest] # NULL, files[dest] # NULL /\ "link" \notin Operations} :
       /\ transient' = IF created THEN files[dest] ELSE NULL
       /\ links' = links - Held + (IF created THEN 1 ELSE 0)
       /\ missed' = IF created THEN missed ELSE missed \cup {"link"}
  /\ phase' = "idle" /\ dest' = NULL
  /\ UNCHANGED <<disk, drawables, fileURI, saves, origin, abandoned>>

-----------------------------------------------------------------------------
(* The user deletes a file with another program.                           *)
DeleteFile(p) ==
  /\ files[p] # NULL
  /\ files' = [files EXCEPT ![p] = NULL]
  /\ UNCHANGED <<tmp, project, phase, dest, links, saves, ghosts>>

(* The program dies and is started again.  Its transient file stays on the  *)
(* disk under a name nobody knows.                                         *)
Crash ==
  /\ drawables' = <<>> /\ fileURI' = NULL /\ transient' = NULL
  /\ phase' = "idle" /\ dest' = NULL /\ links' = 0
  /\ origin' = NULL /\ missed' = {}
  /\ abandoned' = abandoned \cup {p \in Paths : tmp[p] # NULL}
  /\ UNCHANGED <<disk, saves>>

Save ==
  \/ \E p \in Paths : OpenWriter(p) \/ OpenWriterFails(p)
  \/ WriteArchive \/ WriteArchiveFails
  \/ Commit \/ CommitFails
  \/ Relink

Next ==
  /\ UNCHANGED writer
  /\ \/ \E d \in Drawables, n \in GivenNames : AddDrawable(d, n, NULL)
     \/ /\ "import" \in Operations
        /\ \E d \in Drawables, n \in GivenNames : AddDrawable(d, n, ZIP)
     \/ \E i \in 1 .. Len(drawables) : RemoveDrawable(i)
     \/ NewProject
     \/ \E p \in Paths : LoadProject(p) \/ DeleteFile(p)
     \/ Save
     \/ Crash

Spec == Init /\ [][Next]_vars

-----------------------------------------------------------------------------
TypeOK ==
  /\ writer \in Writers
  /\ \A p \in Paths :
       ~Readable(files[p]) \/ files[p].textures \in [DOMAIN files[p].textures -> Drawables]
  /\ DOMAIN files = Paths /\ DOMAIN tmp = Paths
  /\ \A i \in 1 .. Len(drawables) :
       /\ drawables[i].id \in Drawables /\ drawables[i].name \in Names
       /\ drawables[i].archive \in Paths \cup {NULL, ZIP}
       /\ drawables[i].entry \in Entries \cup {NULL, ZIP}
  /\ fileURI \in Paths \cup {NULL} /\ origin \in Paths \cup {NULL}
  /\ phase \in {"idle", "writing", "written", "linking"}
  /\ dest \in Paths \cup {NULL} /\ (dest = NULL) = Idle
  /\ links \in Nat /\ saves \in 0 .. MaxSaves /\ missed \in SUBSET {"fail", "rename", "link"} /\ abandoned \in SUBSET Paths

(* A project file is complete at any time, also after a failed save or a    *)
(* crash in the middle of one: saveProject writes beside it and renames.    *)
FilesAreComplete == \A p \in Paths : files[p] # NULL => files[p].complete

(* When no save is under way the process has left no file behind except the *)
(* one transient file the project refers to, and the temporary file of a    *)
(* save that crashed or, on Windows, failed, until the next save of that     *)
(* file succeeds.                                                          *)
NoLeftovers ==
  Idle => /\ links = Held
          /\ \A p \in Paths : tmp[p] # NULL => p \in abandoned

(* The next plain save goes to the file that was last loaded or saved, also *)
(* after a failed "save as" (a failed rename excepted: see README.md).       *)
FileURIIsTheOrigin == Idle /\ "rename" \notin missed => fileURI = origin

(* Unless a save or a hard link has failed before, what every drawable of a *)
(* project file needs can be found when the project is saved, although the  *)
(* file it was loaded from was deleted or replaced.                         *)
SourcesSurvive ==
  Idle /\ missed = {} => \A i \in 1 .. Len(drawables) :
    drawables[i].textured /\ drawables[i].archive # ZIP =>
      CanRead(drawables[i]) /\ Copied(drawables[i])

(* The archive has drawable d with its texture.                             *)
TextureOf(archive, d) ==
  \E j \in 1 .. Len(archive.items) :
    /\ archive.items[j].id = d
    /\ LET entry == <<KindOf(d), archive.items[j].name>>
       IN entry \in DOMAIN archive.textures /\ archive.textures[entry] = d

Saves == phase = "written" /\ files' # files /\ tmp' # tmp /\ missed = {}

(* A save that succeeds writes every texture the project has, under the     *)
(* name its drawable is saved with, and gives no two drawables one name.    *)
SavesEveryTexture ==
  [][Saves => \A i \in 1 .. Len(drawables) :
       drawables[i].textured /\ drawables[i].archive # ZIP =>
         TextureOf(files'[dest], drawables[i].id)]_vars

(* The same for what was imported from a zip file, however often the        *)
(* project is saved.                                                       *)
SavesImportedTextures ==
  [][Saves => \A i \in 1 .. Len(drawables) :
       drawables[i].archive = ZIP => TextureOf(files'[dest], drawables[i].id)]_vars
=============================================================================
