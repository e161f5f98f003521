------------------------- MODULE ProjectSavingProofs -------------------------
(***************************************************************************)
(* What ProjectSaving keeps for any drawables, files, names and operations, *)
(* and for any number of saves.                                            *)
(***************************************************************************)
EXTENDS ProjectSaving, SequenceTheorems, WellFoundedInduction, TLAPS

(* The files that are written: which there are, when, and what is in them.  *)
DiskInv ==
  /\ DOMAIN files = Paths /\ DOMAIN tmp = Paths
  /\ phase \in {"idle", "writing", "written", "linking"}
  /\ phase # "idle" => dest \in Paths
  /\ phase = "written" => tmp[dest].complete
  /\ FilesAreComplete

(* The files that will be removed: one link while there is a transient      *)
(* file, one temporary file while the destination is being written.         *)
LeftInv ==
  /\ links = Held
  /\ \A p \in Paths : \/ tmp[p] = NULL
                      \/ p \in abandoned
                      \/ phase \in {"writing", "written"} /\ p = dest

(* The name of the project's file is ahead of what was saved only between   *)
(* the writing and the rename.                                             *)
NameInv ==
  /\ phase = "written" => fileURI = dest
  /\ phase # "written" /\ "rename" \notin missed => fileURI = origin

Inv == DiskInv /\ LeftInv /\ NameInv

-----------------------------------------------------------------------------
LEMMA InitInv == Init => Inv
BY DEF Init, Inv, DiskInv, LeftInv, NameInv, FilesAreComplete, Held

LEMMA DiskInvStep == DiskInv /\ [Next]_vars => DiskInv'
<1> SUFFICES ASSUME DiskInv, [Next]_vars PROVE DiskInv'
  OBVIOUS
<1> USE DEF DiskInv, FilesAreComplete, Idle, disk, project, ghosts
<1>1. CASE \E d \in Drawables, n \in GivenNames :
             AddDrawable(d, n, NULL) \/ AddDrawable(d, n, ZIP)
  BY <1>1 DEF AddDrawable
<1>2. CASE \E i \in 1 .. Len(drawables) : RemoveDrawable(i)
  BY <1>2 DEF RemoveDrawable
<1>3. CASE NewProject
  BY <1>3 DEF NewProject
<1>4. ASSUME NEW p \in Paths, LoadProject(p) PROVE DiskInv'
  BY <1>4 DEF LoadProject
<1>5. ASSUME NEW p \in Paths, OpenWriter(p) \/ OpenWriterFails(p) PROVE DiskInv'
  BY <1>5 DEF OpenWriter, OpenWriterFails
<1>6. CASE WriteArchive
  <2>1. ArchiveOf(drawables').complete
    BY DEF ArchiveOf
  <2> QED BY <1>6, <2>1 DEF WriteArchive
<1>7. CASE WriteArchiveFails
  BY <1>7 DEF WriteArchiveFails, Rollback, PosixRollback, Win32Rollback
<1>8. CASE Commit
  BY <1>8 DEF Commit
<1>9. CASE CommitFails
  BY <1>9 DEF CommitFails, Rollback, PosixRollback, Win32Rollback
<1>10. CASE Relink
  BY <1>10 DEF Relink
<1>11. ASSUME NEW p \in Paths, DeleteFile(p) PROVE DiskInv'
  BY <1>11 DEF DeleteFile
<1>12. CASE Crash
  BY <1>12 DEF Crash
<1>13. CASE UNCHANGED vars
  BY <1>13 DEF vars
<1> QED
  BY <1>1, <1>2, <1>3, <1>4, <1>5, <1>6, <1>7, <1>8, <1>9, <1>10, <1>11, <1>12, <1>13 DEF Next, Save

LEMMA LeftInvStep == DiskInv /\ LeftInv /\ [Next]_vars => LeftInv'
<1> SUFFICES ASSUME DiskInv, LeftInv, [Next]_vars PROVE LeftInv'
  OBVIOUS
<1> USE DEF DiskInv, LeftInv, Held, Idle, disk, project, ghosts
<1>1. CASE \E d \in Drawables, n \in GivenNames :
             AddDrawable(d, n, NULL) \/ AddDrawable(d, n, ZIP)
  BY <1>1 DEF AddDrawable
<1>2. CASE \E i \in 1 .. Len(drawables) : RemoveDrawable(i)
  BY <1>2 DEF RemoveDrawable
<1>3. CASE NewProject
  BY <1>3 DEF NewProject
<1>4. ASSUME NEW p \in Paths, LoadProject(p) PROVE LeftInv'
  BY <1>4 DEF LoadProject, Readable
<1>5. ASSUME NEW p \in Paths, OpenWriter(p) \/ OpenWriterFails(p) PROVE LeftInv'
  BY <1>5 DEF OpenWriter, OpenWriterFails
<1>6. CASE WriteArchive
  BY <1>6 DEF WriteArchive
<1>7. CASE WriteArchiveFails
  BY <1>7 DEF WriteArchiveFails, Rollback, PosixRollback, Win32Rollback
<1>8. CASE Commit
  BY <1>8 DEF Commit
<1>9. CASE CommitFails
  BY <1>9 DEF CommitFails, Rollback, PosixRollback, Win32Rollback
<1>10. CASE Relink
  <2>1. PICK created \in {files[dest] # NULL, files[dest] # NULL /\ "link" \notin Operations} :
          /\ transient' = IF created THEN files[dest] ELSE NULL
          /\ links' = links - Held + (IF created THEN 1 ELSE 0)
    BY <1>10 DEF Relink
  <2>2. links' = Held'
    <3>1. CASE created
      <4>1. files[dest] # NULL
        BY <2>1, <3>1, Zenon
      <4> QED BY <2>1, <3>1, <4>1
    <3>2. CASE ~created
      <4>1. transient' = NULL /\ links' = links - Held + 0
        BY <2>1, <3>2, Zenon
      <4> QED BY <4>1
    <3> QED BY <3>1, <3>2
  <2>3. phase = "linking" /\ phase' = "idle" /\ UNCHANGED <<tmp, abandoned>>
    BY <1>10 DEF Relink
  <2> QED BY <2>2, <2>3
<1>11. ASSUME NEW p \in Paths, DeleteFile(p) PROVE LeftInv'
  BY <1>11 DEF DeleteFile
<1>12. CASE Crash
  BY <1>12 DEF Crash
<1>13. CASE UNCHANGED vars
  BY <1>13 DEF vars
<1> QED
  BY <1>1, <1>2, <1>3, <1>4, <1>5, <1>6, <1>7, <1>8, <1>9, <1>10, <1>11, <1>12, <1>13 DEF Next, Save

LEMMA NameInvStep == DiskInv /\ NameInv /\ [Next]_vars => NameInv'
<1> SUFFICES ASSUME DiskInv, NameInv, [Next]_vars PROVE NameInv'
  OBVIOUS
<1> USE DEF DiskInv, NameInv, Idle, disk, project, ghosts
<1>1. CASE \E d \in Drawables, n \in GivenNames :
             AddDrawable(d, n, NULL) \/ AddDrawable(d, n, ZIP)
  BY <1>1 DEF AddDrawable
<1>2. CASE \E i \in 1 .. Len(drawables) : RemoveDrawable(i)
  BY <1>2 DEF RemoveDrawable
<1>3. CASE NewProject
  BY <1>3 DEF NewProject
<1>4. ASSUME NEW p \in Paths, LoadProject(p) PROVE NameInv'
  BY <1>4 DEF LoadProject
<1>5. ASSUME NEW p \in Paths, OpenWriter(p) \/ OpenWriterFails(p) PROVE NameInv'
  BY <1>5 DEF OpenWriter, OpenWriterFails
<1>6. CASE WriteArchive
  BY <1>6 DEF WriteArchive
<1>7. CASE WriteArchiveFails
  BY <1>7 DEF WriteArchiveFails, Rollback, PosixRollback, Win32Rollback
<1>8. CASE Commit
  BY <1>8 DEF Commit
<1>9. CASE CommitFails
  BY <1>9 DEF CommitFails, Rollback, PosixRollback, Win32Rollback
<1>10. CASE Relink
  BY <1>10 DEF Relink
<1>11. ASSUME NEW p \in Paths, DeleteFile(p) PROVE NameInv'
  BY <1>11 DEF DeleteFile
<1>12. CASE Crash
  BY <1>12 DEF Crash
<1>13. CASE UNCHANGED vars
  BY <1>13 DEF vars
<1> QED
  BY <1>1, <1>2, <1>3, <1>4, <1>5, <1>6, <1>7, <1>8, <1>9, <1>10, <1>11, <1>12, <1>13 DEF Next, Save

LEMMA InvHolds == Spec => []Inv
<1>1. Inv /\ [Next]_vars => Inv'
  BY DiskInvStep, LeftInvStep, NameInvStep DEF Inv
<1> QED
  BY InitInv, <1>1, PTL DEF Spec

-----------------------------------------------------------------------------
(* No crash, failure or interrupted save ever leaves a project file that is *)
(* not complete.                                                           *)
THEOREM FilesAreCompleteHolds == Spec => []FilesAreComplete
<1>1. Inv => FilesAreComplete
  BY DEF Inv, DiskInv
<1> QED
  BY <1>1, InvHolds, PTL

(* However saves end, none leaves an old transient file behind, and none    *)
(* its temporary file, but for a crash and a failed save on Windows, until   *)
(* the next save of the same file succeeds.                                 *)
THEOREM NoLeftoversHolds == Spec => []NoLeftovers
<1>1. Inv => NoLeftovers
  BY DEF Inv, LeftInv, NoLeftovers, Idle
<1> QED
  BY <1>1, InvHolds, PTL

(* Unless a rename failed, the project is named after what was last loaded  *)
(* or saved.                                                               *)
THEOREM FileURIIsTheOriginHolds == Spec => []FileURIIsTheOrigin
<1>1. Inv => FileURIIsTheOrigin
  BY DEF Inv, NameInv, FileURIIsTheOrigin, Idle
<1> QED
  BY <1>1, InvHolds, PTL

-----------------------------------------------------------------------------
(* The types of what is saved, loaded and in use.                           *)

Item == [id : Drawables, name : Names]

Drawable == [id : Drawables, name : Names, archive : Paths \cup {NULL, ZIP},
             textured : BOOLEAN, entry : Entries \cup {NULL, ZIP}]

(* An archive that can be read has its textures under the names of its      *)
(* drawables, which differ.                                                *)
GoodFile(file) ==
  Readable(file) =>
    /\ file.items \in Seq(Item)
    /\ file.textures \in [DOMAIN file.textures -> Drawables]
    /\ \A i, j \in 1 .. Len(file.items) : file.items[i].name = file.items[j].name => i = j

GoodFiles == GoodFile(transient) /\ \A p \in Paths : GoodFile(files[p]) /\ GoodFile(tmp[p])

Typed ==
  /\ GoodFiles
  /\ drawables \in Seq(Drawable)
  /\ fileURI \in Paths \cup {NULL} /\ origin \in Paths \cup {NULL}
  /\ writer \in Writers
  /\ dest \in Paths \cup {NULL} /\ (dest = NULL) = Idle
  /\ saves \in 0 .. MaxSaves /\ missed \in SUBSET {"fail", "rename", "link"}
  /\ abandoned \in SUBSET Paths

LEMMA Insertion ==
  ASSUME NEW S, NEW s \in Seq(S), NEW k \in 0 .. Len(s), NEW x \in S
  PROVE  InsertAt(s, k + 1, x) \in Seq(S)
<1>1. SubSeq(s, 1, (k + 1) - 1) \in Seq(S) /\ SubSeq(s, k + 1, Len(s)) \in Seq(S)
  BY SubSeqProperties
<1>2. <<x>> \in Seq(S)
  OBVIOUS
<1> QED BY <1>1, <1>2, ConcatProperties DEF InsertAt

LEMMA InsertionAtEnd ==
  ASSUME NEW S, NEW s \in Seq(S), NEW x \in S
  PROVE  /\ Len(InsertAt(s, Len(s) + 1, x)) = Len(s) + 1
         /\ \A i \in 1 .. Len(s) : InsertAt(s, Len(s) + 1, x)[i] = s[i]
         /\ InsertAt(s, Len(s) + 1, x)[Len(s) + 1] = x
<1>1. SubSeq(s, 1, (Len(s) + 1) - 1) = s /\ SubSeq(s, Len(s) + 1, Len(s)) = << >>
  BY SubSeqFull, SubSeqEmpty
<1>2. InsertAt(s, Len(s) + 1, x) = s \o <<x>> \o << >>
  BY <1>1 DEF InsertAt
<1>3. s \o <<x>> \o << >> = Append(s, x)
  BY AppendIsConcat, ConcatEmptySeq, AppendProperties
<1> QED BY <1>2, <1>3, AppendProperties

LEMMA Removal ==
  ASSUME NEW S, NEW s \in Seq(S), NEW i \in 1 .. Len(s)
  PROVE  /\ RemoveAt(s, i) \in Seq(S)
         /\ Len(RemoveAt(s, i)) = Len(s) - 1
         /\ \A j \in 1 .. Len(s) - 1 : RemoveAt(s, i)[j] = IF j < i THEN s[j] ELSE s[j + 1]
<1> DEFINE a == SubSeq(s, 1, i - 1)
           b == SubSeq(s, i + 1, Len(s))
<1>1. /\ a \in Seq(S) /\ Len(a) = i - 1 /\ b \in Seq(S) /\ Len(b) = Len(s) - i
      /\ \A j \in 1 .. i - 1 : a[j] = s[j]
      /\ \A j \in 1 .. Len(s) - i : b[j] = s[j + i]
  OBVIOUS
<1>2. RemoveAt(s, i) = a \o b
  BY DEF RemoveAt
<1> HIDE DEF a, b
<1>3. /\ a \o b \in Seq(S) /\ Len(a \o b) = Len(s) - 1
      /\ \A j \in 1 .. Len(s) - 1 : (a \o b)[j] = IF j < i THEN a[j] ELSE b[j - (i - 1)]
  <2>1. Len(a) + Len(b) = Len(s) - 1 /\ \A j \in 1 .. Len(s) - 1 : j <= Len(a) <=> j < i
    BY <1>1
  <2>2. /\ a \o b \in Seq(S) /\ Len(a \o b) = Len(a) + Len(b)
        /\ \A j \in 1 .. Len(a) + Len(b) : (a \o b)[j] = IF j <= Len(a) THEN a[j] ELSE b[j - Len(a)]
    BY <1>1, ConcatProperties
  <2>3. ASSUME NEW j \in 1 .. Len(s) - 1 PROVE (a \o b)[j] = IF j < i THEN a[j] ELSE b[j - (i - 1)]
    BY <1>1, <2>1, <2>2
  <2> QED BY <2>1, <2>2, <2>3
<1> QED BY <1>1, <1>2, <1>3

(* What names a save gives: they are told apart, and nothing else of a      *)
(* drawable changes.                                                       *)
LEMMA ResolvedDiffer ==
  ASSUME NEW seq \in Seq(Drawable), NEW names \in [1 .. Len(seq) -> Names],
         Resolved(seq, names)
  PROVE  \A i, j \in 1 .. Len(seq) : names[i] = names[j] => i = j
<1>1. ASSUME NEW i \in 1 .. Len(seq), NEW j \in 1 .. i - 1 PROVE names[i] # names[j]
  <2> DEFINE taken == {names[m] : m \in 1 .. i - 1}
  <2>1. names[j] \in taken
    OBVIOUS
  <2>2. IF seq[i].name \in taken THEN names[i] \notin taken ELSE names[i] = seq[i].name
    BY DEF Resolved
  <2> QED BY <2>1, <2>2
<1> QED BY <1>1

LEMMA RenamedParts ==
  ASSUME NEW seq \in Seq(Drawable), NEW names \in [1 .. Len(seq) -> Names],
         NEW k \in 0 .. Len(seq)
  PROVE  /\ Renamed(seq, names, k) \in Seq(Drawable)
         /\ Len(Renamed(seq, names, k)) = Len(seq)
         /\ \A i \in 1 .. Len(seq) :
              LET d == Renamed(seq, names, k)[i]
              IN /\ d.id = seq[i].id /\ d.archive = seq[i].archive
                 /\ d.textured = seq[i].textured /\ d.entry = seq[i].entry
                 /\ d.name = IF i <= k THEN names[i] ELSE seq[i].name
<1> DEFINE new(i) == IF i <= k THEN [seq[i] EXCEPT !.name = names[i]] ELSE seq[i]
<1>1. ASSUME NEW i \in 1 .. Len(seq)
      PROVE  /\ new(i) \in Drawable
             /\ new(i).id = seq[i].id /\ new(i).archive = seq[i].archive
             /\ new(i).textured = seq[i].textured /\ new(i).entry = seq[i].entry
             /\ new(i).name = IF i <= k THEN names[i] ELSE seq[i].name
  <2>1. seq[i] \in Drawable /\ names[i] \in Names
    OBVIOUS
  <2> QED BY <2>1 DEF Drawable
<1>2. Renamed(seq, names, k) = [i \in 1 .. Len(seq) |-> new(i)]
  BY DEF Renamed
<1> HIDE DEF new
<1> QED BY <1>1, <1>2

(* What is written is a good archive.                                       *)
LEMMA ArchiveIsGood ==
  ASSUME NEW seq \in Seq(Drawable),
         \A i, j \in 1 .. Len(seq) : seq[i].name = seq[j].name => i = j
  PROVE  /\ GoodFile(ArchiveOf(seq))
         /\ \A i \in 1 .. Len(seq) :
              /\ ArchiveOf(seq).items[i].id = seq[i].id
              /\ ArchiveOf(seq).items[i].name = seq[i].name
              /\ Copied(seq[i]) =>
                   /\ EntryOf(seq[i]) \in DOMAIN ArchiveOf(seq).textures
                   /\ ArchiveOf(seq).textures[EntryOf(seq[i])] = seq[i].id
         /\ Len(ArchiveOf(seq).items) = Len(seq) /\ ArchiveOf(seq).complete
<1> DEFINE its == [i \in 1 .. Len(seq) |-> [id |-> seq[i].id, name |-> seq[i].name]]
           dom == {EntryOf(seq[i]) : i \in {j \in 1 .. Len(seq) : Copied(seq[j])}}
           tex == [e \in dom |-> seq[CHOOSE i \in 1 .. Len(seq) : EntryOf(seq[i]) = e].id]
<1>1. ArchiveOf(seq) = [complete |-> TRUE, items |-> its, textures |-> tex]
  BY DEF ArchiveOf
<1>2. /\ its \in Seq(Item) /\ Len(its) = Len(seq)
      /\ \A i \in 1 .. Len(seq) : its[i].id = seq[i].id /\ its[i].name = seq[i].name
  <2>1. ASSUME NEW i \in 1 .. Len(seq) PROVE [id |-> seq[i].id, name |-> seq[i].name] \in Item
    <3>1. seq[i] \in Drawable
      OBVIOUS
    <3> QED BY <3>1 DEF Drawable, Item
  <2> QED BY <2>1
<1>3. ASSUME NEW i \in 1 .. Len(seq)
      PROVE  (CHOOSE m \in 1 .. Len(seq) : EntryOf(seq[m]) = EntryOf(seq[i])) = i
  BY DEF EntryOf
<1>4. tex \in [dom -> Drawables] /\ DOMAIN tex = dom
  <2>1. ASSUME NEW e \in dom
        PROVE  seq[CHOOSE i \in 1 .. Len(seq) : EntryOf(seq[i]) = e].id \in Drawables
    <3>1. PICK i \in 1 .. Len(seq) : e = EntryOf(seq[i])
      OBVIOUS
    <3>2. seq[i] \in Drawable
      OBVIOUS
    <3>3. (CHOOSE m \in 1 .. Len(seq) : EntryOf(seq[m]) = e) = i
      BY <3>1, <1>3
    <3>4. seq[i].id \in Drawables
      BY <3>2 DEF Drawable
    <3> QED BY <3>3, <3>4
  <2> QED BY <2>1
<1>5. ASSUME NEW i \in 1 .. Len(seq), Copied(seq[i])
      PROVE  EntryOf(seq[i]) \in dom /\ tex[EntryOf(seq[i])] = seq[i].id
  BY <1>3, <1>5
<1> HIDE DEF its, dom, tex
<1>6. GoodFile(ArchiveOf(seq))
  BY <1>1, <1>2, <1>4 DEF GoodFile
<1> QED BY <1>1, <1>2, <1>4, <1>5, <1>6

(* What is loaded from a good archive.                                      *)
LEMMA LoadedParts ==
  ASSUME NEW p \in Paths, files[p].items \in Seq(Item)
  PROVE  /\ LoadedFrom(p) \in Seq(Drawable) /\ Len(LoadedFrom(p)) = Len(files[p].items)
         /\ \A i \in 1 .. Len(LoadedFrom(p)) :
              LET d == LoadedFrom(p)[i]
              IN /\ d.id = files[p].items[i].id /\ d.name = files[p].items[i].name
                 /\ d.archive = p /\ d.entry = EntryOf(d)
                 /\ d.textured =
                      (d.entry \in DOMAIN files[p].textures /\ files[p].textures[d.entry] = d.id)
<1> DEFINE its == files[p].items
           entry(i) == <<KindOf(its[i].id), its[i].name>>
           new(i) == [id |-> its[i].id, name |-> its[i].name, archive |-> p, entry |-> entry(i),
                      textured |-> entry(i) \in DOMAIN files[p].textures
                                     /\ files[p].textures[entry(i)] = its[i].id]
<1>1. LoadedFrom(p) = [i \in 1 .. Len(its) |-> new(i)]
  BY DEF LoadedFrom
<1>2. ASSUME NEW i \in 1 .. Len(its) PROVE new(i) \in Drawable
  <2>1. its[i] \in Item
    OBVIOUS
  <2>2. entry(i) \in Entries
    BY <2>1 DEF Item, Entries, KindOf
  <2> HIDE DEF entry, its
  <2> QED BY <2>1, <2>2 DEF Drawable, Item
<1>3. \A i \in 1 .. Len(its) :
        /\ new(i).id = its[i].id /\ new(i).name = its[i].name /\ new(i).archive = p
        /\ new(i).entry = entry(i) /\ entry(i) = EntryOf(new(i))
        /\ new(i).textured = (entry(i) \in DOMAIN files[p].textures
                                /\ files[p].textures[entry(i)] = its[i].id)
  BY DEF EntryOf
<1>4. Len(its) \in Nat
  OBVIOUS
<1> HIDE DEF new, entry, its
<1>5. LoadedFrom(p) \in Seq(Drawable) /\ Len(LoadedFrom(p)) = Len(its)
  BY <1>1, <1>2, <1>4
<1>6. \A i \in 1 .. Len(its) : LoadedFrom(p)[i] = new(i)
  BY <1>1
<1> QED BY <1>3, <1>5, <1>6 DEF its

-----------------------------------------------------------------------------
(* The steps keep the types.                                               *)

LEMMA TypedStep == DiskInv /\ Typed /\ [Next]_vars => Typed'
<1> SUFFICES ASSUME DiskInv, Typed, [Next]_vars PROVE Typed'
  OBVIOUS
<1>t. drawables \in Seq(Drawable) /\ GoodFiles
  BY DEF Typed
<1>n. NULL \notin Paths /\ ZIP \notin Paths /\ GoodFile(NULL) /\ GoodFile(Unfinished) /\ MaxSaves \in Nat
  BY PathsAssumption, SavesAssumption DEF GoodFile, Readable, Unfinished
<1>w. writer' \in Writers
  BY DEF Typed, Next, vars
<1>e. <<>> \in Seq(Drawable)
  OBVIOUS
<1> USE DEF Typed, disk, project, ghosts
<1>1. ASSUME NEW d \in Drawables, NEW n \in GivenNames, NEW a \in {NULL, ZIP}, AddDrawable(d, n, a)
      PROVE  Typed'
  <2>1. [id |-> d, name |-> n, archive |-> a, textured |-> TRUE,
         entry |-> IF a = NULL THEN NULL ELSE ZIP] \in Drawable
    BY NamesAssumption DEF Drawable
  <2>2. drawables' \in Seq(Drawable)
    BY <1>1, <1>t, <2>1, Insertion DEF AddDrawable
  <2> QED BY <1>1, <2>2, <1>w DEF AddDrawable, GoodFiles, Idle
<1>2. ASSUME NEW i \in 1 .. Len(drawables), RemoveDrawable(i) PROVE Typed'
  <2>1. drawables' \in Seq(Drawable)
    BY <1>2, <1>t, Removal DEF RemoveDrawable
  <2> QED BY <1>2, <2>1, <1>w DEF RemoveDrawable, GoodFiles, Idle
<1>3. CASE NewProject
  BY <1>3, <1>n, <1>e, <1>w DEF NewProject, GoodFiles, Idle
<1>4. ASSUME NEW p \in Paths, LoadProject(p) PROVE Typed'
  <2>1. Readable(files[p]) /\ files[p].items \in Seq(Item)
    BY <1>4, <1>t DEF LoadProject, GoodFiles, GoodFile
  <2>2. LoadedFrom(p) \in Seq(Drawable)
    BY <2>1, LoadedParts
  <2>3. transient' \in {files[p], NULL} /\ missed' \in {{}, {"link"}}
    BY <1>4 DEF LoadProject
  <2>4. GoodFiles'
    BY <1>4, <1>n, <1>t, <2>3 DEF LoadProject, GoodFiles
  <2> QED BY <1>4, <2>2, <2>3, <2>4, <1>w DEF LoadProject, Idle
<1>5. ASSUME NEW p \in Paths, OpenWriter(p) \/ OpenWriterFails(p) PROVE Typed'
  <2>1. GoodFiles'
    BY <1>5, <1>n, <1>t DEF OpenWriter, OpenWriterFails, GoodFiles, DiskInv
  <2>2. /\ phase' # "idle" /\ dest' = p /\ saves' = saves + 1 /\ saves < MaxSaves
        /\ missed' \in {missed, missed \cup {"fail"}}
        /\ UNCHANGED <<drawables, fileURI, origin, abandoned>>
    BY <1>5 DEF OpenWriter, OpenWriterFails
  <2>3. saves' \in 0 .. MaxSaves /\ dest' # NULL
    BY <1>n, <2>2
  <2> QED BY <2>1, <2>2, <2>3, <1>w DEF Idle
<1>6. CASE WriteArchive
  <2>1. PICK names \in [1 .. Len(drawables) -> Names] :
          Resolved(drawables, names) /\ drawables' = Renamed(drawables, names, Len(drawables))
    BY <1>6 DEF WriteArchive
  <2>2. /\ drawables' \in Seq(Drawable)
        /\ \A i, j \in 1 .. Len(drawables') : drawables'[i].name = drawables'[j].name => i = j
    BY <1>t, <2>1, ResolvedDiffer, RenamedParts
  <2>3. GoodFile(ArchiveOf(drawables'))
    BY <2>2, ArchiveIsGood
  <2>4. GoodFiles'
    BY <1>6, <1>t, <2>3 DEF WriteArchive, GoodFiles, DiskInv
  <2> QED BY <1>6, <2>2, <2>4, <1>n, <1>w DEF WriteArchive, DiskInv, Idle
<1>7. CASE WriteArchiveFails
  <2>1. PICK k \in 0 .. Len(drawables), names \in [1 .. Len(drawables) -> Names] :
          drawables' = Renamed(drawables, names, k)
    BY <1>7 DEF WriteArchiveFails, Rollback, PosixRollback, Win32Rollback
  <2>2. drawables' \in Seq(Drawable)
    BY <1>t, <2>1, RenamedParts
  <2>3. GoodFiles'
    BY <1>7, <1>t, <1>n DEF WriteArchiveFails, GoodFiles, DiskInv, Rollback, PosixRollback, Win32Rollback
  <2> QED BY <1>7, <2>2, <2>3, <1>n, <1>w DEF WriteArchiveFails, DiskInv, Idle, Rollback, PosixRollback, Win32Rollback
<1>8. CASE Commit \/ CommitFails
  <2>1. GoodFiles'
    BY <1>8, <1>t, <1>n DEF Commit, CommitFails, GoodFiles, DiskInv, Rollback, PosixRollback, Win32Rollback
  <2> QED BY <1>8, <2>1, <1>n, <1>w DEF Commit, CommitFails, DiskInv, Idle, Rollback, PosixRollback, Win32Rollback
<1>9. CASE Relink
  <2>1. dest \in Paths /\ transient' \in {files[dest], NULL}
    BY <1>9 DEF Relink, DiskInv
  <2>2. GoodFiles'
    BY <1>9, <1>t, <1>n, <2>1 DEF Relink, GoodFiles
  <2>3. missed' \in {missed, missed \cup {"link"}}
    BY <1>9 DEF Relink
  <2> QED BY <1>9, <2>2, <2>3, <1>w DEF Relink, Idle
<1>10. ASSUME NEW p \in Paths, DeleteFile(p) PROVE Typed'
  BY <1>10, <1>n, <1>w DEF DeleteFile, GoodFiles, DiskInv, Idle
<1>11. CASE Crash
  BY <1>11, <1>n, <1>e, <1>w DEF Crash, GoodFiles, Idle
<1>12. CASE UNCHANGED vars
  BY <1>12 DEF vars, GoodFiles, Idle
<1> QED
  BY <1>1, <1>2, <1>3, <1>4, <1>5, <1>6, <1>7, <1>8, <1>9, <1>10, <1>11, <1>12 DEF Next, Save

LEMMA TypedHolds == Spec => []Typed
<1>1. Init => Typed
  <2> SUFFICES ASSUME Init PROVE Typed
    OBVIOUS
  <2>1. GoodFile(NULL)
    BY DEF GoodFile, Readable
  <2>2. drawables \in Seq(Drawable)
    BY DEF Init
  <2> QED BY <2>1, <2>2, SavesAssumption DEF Init, Typed, GoodFiles, Idle
<1>2. Inv => DiskInv
  BY DEF Inv
<1> QED BY <1>1, <1>2, InvHolds, TypedStep, PTL DEF Spec

(* Whatever is saved, loaded, deleted or fails, what is on the disk, in the *)
(* transient file and in the project is well-formed, for every set of       *)
(* drawables, files and names.                                             *)
THEOREM TypeCorrectness == Spec => []TypeOK
<1>1. Inv /\ Typed => TypeOK
  <2> SUFFICES ASSUME Inv, Typed PROVE TypeOK
    OBVIOUS
  <2>1. ASSUME NEW i \in 1 .. Len(drawables)
        PROVE  /\ drawables[i].id \in Drawables /\ drawables[i].name \in Names
               /\ drawables[i].archive \in Paths \cup {NULL, ZIP}
               /\ drawables[i].entry \in Entries \cup {NULL, ZIP}
    <3>1. drawables[i] \in Drawable
      BY DEF Typed
    <3> QED BY <3>1 DEF Drawable
  <2>2. links \in Nat
    BY DEF Inv, LeftInv, Held
  <2>3. ASSUME NEW p \in Paths
        PROVE  ~Readable(files[p]) \/ files[p].textures \in [DOMAIN files[p].textures -> Drawables]
    BY DEF Typed, GoodFiles, GoodFile
  <2> QED BY <2>1, <2>2, <2>3 DEF Inv, DiskInv, Typed, TypeOK
<1> QED BY <1>1, InvHolds, TypedHolds, PTL

-----------------------------------------------------------------------------
(* Textures.  A drawable that was loaded is looked up in the transient file *)
(* at the entry it was loaded from, so it must be saved again under the     *)
(* name it has: what was loaded comes first and keeps its name.  This holds *)
(* for drawables of one kind, since models come before accessories.         *)

OneKind == Models = {} \/ Accessories = {}

Loaded(d) == d.archive \in Paths
Needed(d) == d.textured /\ d.archive # ZIP
Has(file, entry, id) ==
  file.complete /\ entry \in DOMAIN file.textures /\ file.textures[entry] = id

HasAll(file) ==
  \A i \in 1 .. Len(drawables) : Needed(drawables[i]) =>
    /\ Has(file, EntryOf(drawables[i]), drawables[i].id)
    /\ TextureOf(file, drawables[i].id)

LoadedFirst ==
  \A i \in 1 .. Len(drawables) : Loaded(drawables[i]) =>
    /\ drawables[i].entry = EntryOf(drawables[i])
    /\ \A j \in 1 .. i - 1 :
         Loaded(drawables[j]) /\ drawables[j].name # drawables[i].name

LoadedKept ==
  \A i \in 1 .. Len(drawables) : Needed(drawables[i]) /\ Loaded(drawables[i]) =>
    transient # NULL /\ Has(transient, drawables[i].entry, drawables[i].id)

Kept ==
  missed = {} =>
    /\ LoadedFirst
    /\ phase # "linking" => LoadedKept
    /\ phase = "written" => HasAll(tmp[dest])
    /\ phase = "linking" => files[dest] = NULL \/ HasAll(files[dest])

(* The least element of a set of numbers: induction over a sequence.        *)
LEMMA Least ==
  ASSUME NEW T, T \subseteq Nat, T # {}
  PROVE  \E n \in T : \A m \in T : n <= m
<1>1. IsWellFoundedOn(OpToRel(<, Nat), Nat)
  BY NatLessThanWellFounded
<1>2. PICK n \in T : \A m \in T : ~(<<m, n>> \in OpToRel(<, Nat))
  BY <1>1, WFMin
<1>3. ASSUME NEW m \in T PROVE n <= m
  <2>1. ~(<<m, n>> \in OpToRel(<, Nat))
    BY <1>2, <1>3
  <2>2. m \in Nat /\ n \in Nat
    BY <1>2, <1>3
  <2>3. ~(m < n)
    BY <2>1, <2>2 DEF OpToRel
  <2> QED BY <2>2, <2>3
<1> QED BY <1>2, <1>3

(* A save does not rename what was loaded: the first that it renamed would  *)
(* have the name of an earlier one, which has kept its own.                 *)
LEMMA LoadedKeepNames ==
  ASSUME drawables \in Seq(Drawable), LoadedFirst,
         NEW names \in [1 .. Len(drawables) -> Names], Resolved(drawables, names)
  PROVE  \A i \in 1 .. Len(drawables) : Loaded(drawables[i]) => names[i] = drawables[i].name
<1> DEFINE T == {i \in 1 .. Len(drawables) : Loaded(drawables[i]) /\ names[i] # drawables[i].name}
<1> SUFFICES ASSUME T # {} PROVE FALSE
  OBVIOUS
<1>1. T \subseteq Nat
  OBVIOUS
<1>2. PICK i \in T : \A m \in T : i <= m
  BY <1>1, Least
<1>3. PICK j \in 1 .. i - 1 : names[j] = drawables[i].name
  <2> DEFINE taken == {names[m] : m \in 1 .. i - 1}
  <2>1. IF drawables[i].name \in taken THEN names[i] \notin taken ELSE names[i] = drawables[i].name
    BY DEF Resolved
  <2>2. drawables[i].name \in taken
    BY <2>1
  <2> QED BY <2>2
<1>4. j \in 1 .. Len(drawables) /\ j < i /\ Loaded(drawables[i])
  OBVIOUS
<1>5. Loaded(drawables[j]) /\ drawables[j].name # drawables[i].name
  BY <1>4 DEF LoadedFirst
<1>6. j \notin T
  BY <1>2, <1>4
<1> QED BY <1>3, <1>4, <1>5, <1>6

(* With one kind of drawables a new one comes last.                         *)
LEMMA PlaceIsLast ==
  ASSUME OneKind, drawables \in Seq(Drawable), NEW d \in Drawables,
         NEW k \in 0 .. Len(drawables), IsPlace(d, k)
  PROVE  k = Len(drawables)
<1>1. CASE d \in Models
  <2>1. \A i \in 1 .. Len(drawables) : drawables[i].id \in Models
    <3>1. Accessories = {}
      BY <1>1 DEF OneKind
    <3>2. \A i \in 1 .. Len(drawables) : drawables[i] \in Drawable
      OBVIOUS
    <3> QED BY <3>1, <3>2 DEF Drawable, Drawables
  <2>2. \A i \in 1 .. Len(drawables) : i <= k
    BY <1>1, <2>1 DEF IsPlace
  <2>3. Len(drawables) \in Nat
    OBVIOUS
  <2> QED BY <2>2, <2>3
<1>2. CASE d \notin Models
  BY <1>2 DEF IsPlace
<1> QED BY <1>1, <1>2

LEMMA AddKeeps ==
  ASSUME OneKind, Typed, Kept, NEW d \in Drawables, NEW n \in GivenNames, NEW a \in {NULL, ZIP},
         AddDrawable(d, n, a)
  PROVE  Kept'
<1> DEFINE x == [id |-> d, name |-> n, archive |-> a, textured |-> TRUE,
                 entry |-> IF a = NULL THEN NULL ELSE ZIP]
<1>t. drawables \in Seq(Drawable)
  BY DEF Typed
<1>1. x \in Drawable /\ ~Loaded(x)
  BY NamesAssumption, PathsAssumption DEF Drawable, Loaded
<1>2. PICK k \in 0 .. Len(drawables) : IsPlace(d, k) /\ drawables' = InsertAt(drawables, k + 1, x)
  BY DEF AddDrawable
<1>3. drawables' = InsertAt(drawables, Len(drawables) + 1, x)
  BY <1>t, <1>2, PlaceIsLast
<1> HIDE DEF x
<1>4. /\ Len(drawables') = Len(drawables) + 1 /\ Len(drawables) \in Nat
      /\ \A i \in 1 .. Len(drawables) : drawables'[i] = drawables[i]
      /\ drawables'[Len(drawables) + 1] = x
  BY <1>t, <1>1, <1>3, InsertionAtEnd
<1>5. phase = "idle" /\ phase' = "idle" /\ UNCHANGED <<transient, missed>>
  BY DEF AddDrawable, Idle, project, ghosts
<1>6. ASSUME missed = {} PROVE LoadedFirst'
  BY <1>1, <1>4, <1>6 DEF Kept, LoadedFirst, Loaded, EntryOf
<1>7. ASSUME missed = {} PROVE LoadedKept'
  BY <1>1, <1>4, <1>5, <1>7 DEF Kept, LoadedKept, Loaded, Needed
<1> QED BY <1>5, <1>6, <1>7 DEF Kept

LEMMA RemoveKeeps ==
  ASSUME Typed, Kept, NEW i \in 1 .. Len(drawables), RemoveDrawable(i)
  PROVE  Kept'
<1>1. /\ Len(drawables') = Len(drawables) - 1 /\ Len(drawables) \in Nat
      /\ \A j \in 1 .. Len(drawables) - 1 :
           drawables'[j] = IF j < i THEN drawables[j] ELSE drawables[j + 1]
  <2>1. drawables \in Seq(Drawable) /\ drawables' = RemoveAt(drawables, i)
    BY DEF RemoveDrawable, Typed
  <2>2. Len(drawables) \in Nat
    BY <2>1
  <2> QED BY <2>1, <2>2, Removal
<1>2. phase = "idle" /\ phase' = "idle" /\ UNCHANGED <<transient, missed>>
  BY DEF RemoveDrawable, Idle, project, ghosts
<1>3. ASSUME missed = {} PROVE LoadedFirst'
  <2> SUFFICES ASSUME NEW j \in 1 .. Len(drawables'), Loaded(drawables'[j])
               PROVE  /\ drawables'[j].entry = EntryOf(drawables'[j])
                      /\ \A m \in 1 .. j - 1 : Loaded(drawables'[m])
                           /\ drawables'[m].name # drawables'[j].name
    BY DEF LoadedFirst, Loaded, EntryOf
  <2>1. LoadedFirst
    BY <1>2, <1>3 DEF Kept
  <2>2. CASE j < i
    <3>1. drawables'[j] = drawables[j] /\ j \in 1 .. Len(drawables)
      BY <1>1, <2>2
    <3>2. \A m \in 1 .. j - 1 : drawables'[m] = drawables[m]
      BY <1>1, <2>2
    <3> QED BY <2>1, <3>1, <3>2 DEF LoadedFirst
  <2>3. CASE j >= i
    <3>1. drawables'[j] = drawables[j + 1] /\ j + 1 \in 1 .. Len(drawables)
      BY <1>1, <2>3
    <3>2. \A m \in 1 .. j - 1 : \E l \in 1 .. (j + 1) - 1 : drawables'[m] = drawables[l]
      <4> SUFFICES ASSUME NEW m \in 1 .. j - 1
                   PROVE  \E l \in 1 .. (j + 1) - 1 : drawables'[m] = drawables[l]
        OBVIOUS
      <4>1. CASE m < i
        BY <1>1, <4>1
      <4>2. CASE m >= i
        <5>1. drawables'[m] = drawables[m + 1] /\ m + 1 \in 1 .. (j + 1) - 1
          BY <1>1, <4>2
        <5> QED BY <5>1
      <4> QED BY <4>1, <4>2, <1>1
    <3> QED BY <2>1, <3>1, <3>2 DEF LoadedFirst
  <2> QED BY <2>2, <2>3, <1>1
<1>4. ASSUME missed = {} PROVE LoadedKept'
  <2>1. \A j \in 1 .. Len(drawables') : \E l \in 1 .. Len(drawables) : drawables'[j] = drawables[l]
    BY <1>1
  <2> QED BY <1>2, <1>4, <2>1 DEF Kept, LoadedKept, Loaded, Needed
<1> QED BY <1>2, <1>3, <1>4 DEF Kept

LEMMA LoadKeeps ==
  ASSUME Typed, NEW p \in Paths, LoadProject(p)
  PROVE  Kept'
<1>1. /\ Readable(files[p]) /\ files[p].items \in Seq(Item)
      /\ \A i, j \in 1 .. Len(files[p].items) :
           files[p].items[i].name = files[p].items[j].name => i = j
  BY DEF LoadProject, Typed, GoodFiles, GoodFile
<1>2. phase' = "idle" /\ drawables' = LoadedFrom(p)
  BY DEF LoadProject, Idle
<1>3. /\ Len(drawables') = Len(files[p].items) /\ Len(drawables') \in Nat
      /\ \A i \in 1 .. Len(drawables') :
           /\ drawables'[i].name = files[p].items[i].name
           /\ drawables'[i].archive = p /\ drawables'[i].entry = EntryOf(drawables'[i])
           /\ drawables'[i].textured =
                (drawables'[i].entry \in DOMAIN files[p].textures
                   /\ files[p].textures[drawables'[i].entry] = drawables'[i].id)
  BY <1>1, <1>2, LoadedParts
<1>4. LoadedFirst'
  <2> SUFFICES ASSUME NEW i \in 1 .. Len(drawables'), Loaded(drawables'[i])
               PROVE  /\ drawables'[i].entry = EntryOf(drawables'[i])
                      /\ \A j \in 1 .. i - 1 : Loaded(drawables'[j])
                           /\ drawables'[j].name # drawables'[i].name
    BY DEF LoadedFirst, Loaded, EntryOf
  <2>1. drawables'[i].entry = EntryOf(drawables'[i])
    BY <1>3
  <2>2. ASSUME NEW j \in 1 .. i - 1
        PROVE  Loaded(drawables'[j]) /\ drawables'[j].name # drawables'[i].name
    <3>1. j \in 1 .. Len(drawables') /\ j # i
      BY <1>3
    <3>2. /\ drawables'[i].name = files[p].items[i].name
          /\ drawables'[j].name = files[p].items[j].name
          /\ drawables'[j].archive = p
          /\ i \in 1 .. Len(files[p].items) /\ j \in 1 .. Len(files[p].items)
      BY <1>3, <3>1
    <3>3. files[p].items[j].name # files[p].items[i].name
      BY <1>1, <3>1, <3>2
    <3> QED BY <3>2, <3>3 DEF Loaded
  <2> QED BY <2>1, <2>2
<1>5. ASSUME missed' = {} PROVE LoadedKept'
  <2>1. transient' = files[p]
    BY <1>5 DEF LoadProject
  <2> QED BY <1>1, <1>3, <2>1 DEF LoadedKept, Needed, Has, Readable
<1> QED BY <1>2, <1>4, <1>5 DEF Kept

(* The archive that is written has what every drawable needs.               *)
LEMMA WriteKeeps ==
  ASSUME DiskInv, Typed, Kept, WriteArchive
  PROVE  Kept'
<1> SUFFICES ASSUME missed = {} PROVE LoadedFirst' /\ LoadedKept' /\ HasAll(tmp[dest])'
  BY DEF Kept, WriteArchive, ghosts
<1>t. drawables \in Seq(Drawable) /\ LoadedFirst /\ LoadedKept /\ dest \in Paths
  BY DEF Typed, Kept, WriteArchive, DiskInv
<1>1. PICK names \in [1 .. Len(drawables) -> Names] :
        Resolved(drawables, names) /\ drawables' = Renamed(drawables, names, Len(drawables))
  BY DEF WriteArchive
<1>2. /\ drawables' \in Seq(Drawable) /\ Len(drawables') = Len(drawables) /\ Len(drawables) \in Nat
      /\ \A i \in 1 .. Len(drawables) :
           /\ drawables'[i].id = drawables[i].id /\ drawables'[i].archive = drawables[i].archive
           /\ drawables'[i].textured = drawables[i].textured
           /\ drawables'[i].entry = drawables[i].entry /\ drawables'[i].name = names[i]
  BY <1>t, <1>1, RenamedParts
<1>3. \A i, j \in 1 .. Len(drawables') : drawables'[i].name = drawables'[j].name => i = j
  BY <1>t, <1>1, <1>2, ResolvedDiffer
<1>4. \A i \in 1 .. Len(drawables) : Loaded(drawables[i]) => drawables'[i].name = drawables[i].name
  BY <1>t, <1>1, <1>2, LoadedKeepNames
<1>5. LoadedFirst'
  BY <1>t, <1>2, <1>4 DEF LoadedFirst, Loaded, EntryOf
<1>6. LoadedKept'
  BY <1>t, <1>2 DEF LoadedKept, Loaded, Needed, WriteArchive
<1>7. tmp'[dest'] = ArchiveOf(drawables')
  BY <1>t DEF WriteArchive, DiskInv
<1>8. ASSUME NEW i \in 1 .. Len(drawables'), Needed(drawables'[i]) PROVE Copied(drawables'[i])
  <2>1. drawables[i] \in Drawable /\ Needed(drawables[i])
    BY <1>t, <1>2, <1>8 DEF Needed
  <2>2. CASE drawables[i].archive = NULL
    BY <1>2, <2>2 DEF Copied
  <2>3. CASE Loaded(drawables[i])
    <3>1. transient # NULL /\ Has(transient, drawables[i].entry, drawables[i].id)
      BY <1>t, <1>2, <2>1, <2>3 DEF LoadedKept
    <3>2. Source(drawables'[i]) = transient
      BY <3>1 DEF Source
    <3> QED BY <1>2, <3>1, <3>2 DEF Copied, Has
  <2> QED BY <2>1, <2>2, <2>3 DEF Drawable, Needed, Loaded
<1>9. ASSUME NEW i \in 1 .. Len(drawables'), Needed(drawables'[i])
      PROVE  /\ Has(ArchiveOf(drawables'), EntryOf(drawables'[i]), drawables'[i].id)
             /\ TextureOf(ArchiveOf(drawables'), drawables'[i].id)
  BY <1>2, <1>3, <1>8, <1>9, ArchiveIsGood DEF Has, TextureOf, EntryOf
<1> QED BY <1>5, <1>6, <1>7, <1>9 DEF HasAll

(* After the rename the transient file is what was written.                 *)
LEMMA RelinkKeeps ==
  ASSUME Typed, Kept, Relink
  PROVE  Kept'
<1> SUFFICES ASSUME missed' = {} PROVE LoadedFirst' /\ LoadedKept'
  BY DEF Kept, Relink
<1>1. /\ transient' = files[dest] /\ files[dest] # NULL /\ missed = {} /\ drawables' = drawables
      /\ phase = "linking"
  BY DEF Relink
<1>2. LoadedFirst /\ HasAll(files[dest])
  BY <1>1 DEF Kept
<1> QED BY <1>1, <1>2 DEF LoadedFirst, LoadedKept, HasAll

LEMMA KeptStep == OneKind /\ DiskInv /\ Typed /\ Kept /\ [Next]_vars => Kept'
<1> SUFFICES ASSUME OneKind, DiskInv, Typed, Kept, [Next]_vars PROVE Kept'
  OBVIOUS
<1>1. CASE NewProject \/ Crash
  BY <1>1 DEF NewProject, Crash, Kept, LoadedFirst, LoadedKept, Idle, ghosts
<1>2. ASSUME NEW p \in Paths, OpenWriter(p) PROVE Kept'
  BY <1>2 DEF OpenWriter, Kept, LoadedFirst, LoadedKept, Idle, project, ghosts
<1>3. CASE WriteArchiveFails \/ CommitFails \/ \E p \in Paths : OpenWriterFails(p)
  <2>1. missed' # {}
    BY <1>3 DEF WriteArchiveFails, CommitFails, OpenWriterFails
  <2> QED BY <2>1 DEF Kept
<1>4. CASE Commit
  <2>1. /\ files'[dest] = tmp[dest] /\ phase = "written" /\ phase' = "linking"
        /\ UNCHANGED <<drawables, transient, dest, missed>>
    BY <1>4 DEF Commit, DiskInv, project
  <2> QED BY <2>1 DEF Kept, LoadedFirst, HasAll
<1>5. ASSUME NEW p \in Paths, DeleteFile(p) PROVE Kept'
  <2>1. /\ UNCHANGED <<tmp, drawables, transient, dest, missed, phase>>
        /\ files'[dest] \in {files[dest], NULL} \/ dest \notin Paths
    BY <1>5 DEF DeleteFile, DiskInv, project, ghosts
  <2>2. phase = "linking" => dest \in Paths
    BY DEF DiskInv
  <2> QED BY <2>1, <2>2 DEF Kept, LoadedFirst, LoadedKept, HasAll
<1>6. CASE UNCHANGED vars
  BY <1>6 DEF vars, disk, project, ghosts, Kept, LoadedFirst, LoadedKept, HasAll
<1> QED BY <1>1, <1>2, <1>3, <1>4, <1>5, <1>6, AddKeeps, RemoveKeeps, LoadKeeps, WriteKeeps,
           RelinkKeeps DEF Next, Save

LEMMA KeptHolds == ASSUME OneKind PROVE Spec => []Kept
<1>1. Init => Kept
  BY DEF Init, Kept, LoadedFirst, LoadedKept
<1>2. Inv => DiskInv
  BY DEF Inv
<1>3. OneKind
  OBVIOUS
<1> QED BY <1>1, <1>2, <1>3, InvHolds, TypedHolds, KeptStep, PTL DEF Spec

(* As long as drawables are of one kind and nothing has failed, everything  *)
(* a drawable needs is found when the project is saved, whatever happened   *)
(* to the file it was loaded from and however often it was saved since.     *)
THEOREM SourcesSurviveHolds == ASSUME OneKind PROVE Spec => []SourcesSurvive
<1>1. Typed /\ Kept => SourcesSurvive
  <2> SUFFICES ASSUME Typed, Kept, phase = "idle", missed = {},
                      NEW i \in 1 .. Len(drawables), Needed(drawables[i])
               PROVE  CanRead(drawables[i]) /\ Copied(drawables[i])
    BY DEF SourcesSurvive, Needed, Idle
  <2>1. drawables[i] \in Drawable /\ LoadedKept
    BY DEF Typed, Kept
  <2>2. CASE drawables[i].archive = NULL
    BY <2>2 DEF CanRead, Copied
  <2>3. CASE Loaded(drawables[i])
    BY <2>1, <2>3 DEF LoadedKept, Has, Source, CanRead, Copied, Readable
  <2> QED BY <2>1, <2>2, <2>3 DEF Drawable, Needed, Loaded
<1> QED BY <1>1, TypedHolds, KeptHolds, PTL

(* Every save then writes all of it, under the names the drawables have.    *)
THEOREM SavesEveryTextureHolds == ASSUME OneKind PROVE Spec => SavesEveryTexture
<1> DEFINE Written == Saves => \A i \in 1 .. Len(drawables) :
             drawables[i].textured /\ drawables[i].archive # ZIP =>
               TextureOf(files'[dest], drawables[i].id)
<1>1. ASSUME Inv, Typed, Kept, [Next]_vars PROVE [Written]_vars
  <2> SUFFICES ASSUME Next, phase = "written", files' # files, tmp' # tmp, missed = {},
                      NEW i \in 1 .. Len(drawables), Needed(drawables[i])
               PROVE  TextureOf(files'[dest], drawables[i].id)
    BY <1>1 DEF Saves, Needed
  <2>1. Commit
    BY DEF Next, Save, AddDrawable, RemoveDrawable, NewProject, LoadProject, OpenWriter, OpenWriterFails,
           DeleteFile, WriteArchive, WriteArchiveFails, CommitFails, Relink, Crash, Idle, disk
  <2>2. files'[dest] = tmp[dest]
    BY <1>1, <2>1 DEF Commit, Inv, DiskInv
  <2> QED BY <1>1, <2>2 DEF Kept, HasAll
<1> QED BY <1>1, InvHolds, TypedHolds, KeptHolds, PTL DEF Spec, SavesEveryTexture
=============================================================================
