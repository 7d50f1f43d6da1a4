-------------------------- MODULE Workspace_proofs --------------------------
(***************************************************************************)
(* Theorems about Workspace, for every set of exports and every number of  *)
(* deliverables and of files in a bundle.                                  *)
(***************************************************************************)
EXTENDS Workspace, FiniteSetTheorems, TLAPS

\* createPlanWorkspace makes finitely many directories, at least one.
LEMMA DirectoriesPositive == Directories \in Nat \ {0}
<1>1. IsFiniteSet({"brief"} \cup {"briefs"})
  BY FS_Singleton, FS_Union
<1>2. IsFiniteSet({"scripts"} \cup {"shotlist"})
  BY FS_Singleton, FS_Union
<1>3. IsFiniteSet({"recordings"} \cup {"assets"})
  BY FS_Singleton, FS_Union
<1>4. IsFiniteSet(({"brief"} \cup {"briefs"}) \cup ({"scripts"} \cup {"shotlist"}))
  BY <1>1, <1>2, FS_Union
<1>5. IsFiniteSet(({"recordings"} \cup {"assets"}) \cup {"exports"})
  BY <1>3, FS_Singleton, FS_Union
<1>6. AllowedSubdirs = (({"brief"} \cup {"briefs"}) \cup ({"scripts"} \cup {"shotlist"}))
                        \cup (({"recordings"} \cup {"assets"}) \cup {"exports"})
  BY DEF AllowedSubdirs
<1>7. IsFiniteSet(AllowedSubdirs)
  BY <1>4, <1>5, <1>6, FS_Union
<1>8. Cardinality(AllowedSubdirs) \in Nat
  BY <1>7, FS_CardinalityType
<1> QED BY <1>8 DEF Directories

\* The facts that hold at the start.
LEMMA WorkspaceInvInit == WorkspaceInit => WorkspaceInv
<1> SUFFICES ASSUME WorkspaceInit PROVE WorkspaceInv
  OBVIOUS
<1> USE WorkspaceAssumption, DirectoriesPositive DEF WorkspaceInit, Stands, Underway, Ran
<1>1. WorkspaceTypeOK
  <2>1. NoExport \in [pc : {"idle", "load", "open", "write", "rename", "done", "dead"},
                     del : 0 .. Deliverables + 1, file : 0 .. BundleFiles,
                     done : SUBSET Dels, alone : BOOLEAN]
    BY DEF NoExport
  <2>2. Absent \in [by : Exports \cup {"none"}, whole : BOOLEAN]
    BY DEF Absent
  <2>3. export \in [Exports -> [pc : {"idle", "load", "open", "write", "rename", "done", "dead"},
                     del : 0 .. Deliverables + 1, file : 0 .. BundleFiles,
                     done : SUBSET Dels, alone : BOOLEAN]]
    BY <2>1
  <2>4. files \in [InPlace -> [by : Exports \cup {"none"}, whole : BOOLEAN]]
    BY <2>2
  <2>5. dirs \in 0 .. Directories
    OBVIOUS
  <2>8. recorded \in BOOLEAN /\ metadata \subseteq Dels
    OBVIOUS
  <2>6. title \in Titles /\ maker \in {"new", "making", "patching", "over"}
    OBVIOUS
  <2>7. temps \subseteq [name : Exports \X InPlace, by : Exports, whole : BOOLEAN]
    OBVIOUS
  <2> QED BY <2>3, <2>4, <2>5, <2>6, <2>7, <2>8 DEF WorkspaceTypeOK
<1>2. FolderFirst
  BY DEF FolderFirst
<1>3. OwnTemps /\ FilesWhole
  BY DEF OwnTemps, FilesWhole, NoExport
<1>4. InLoop /\ Apart /\ OwnBundles
  BY DEF InLoop, Apart, OwnBundles, NoExport
<1> QED BY <1>1, <1>2, <1>3, <1>4 DEF WorkspaceInv

\* Making the folder touches no export, and the other way round.
LEMMA FolderStep ==
  ASSUME WorkspaceInv, CreatePlanWorkspaceForPlan
  PROVE  WorkspaceInv'
<1> USE DEF WorkspaceInv, CreatePlanWorkspaceForPlan
<1>1. /\ title' \in Titles /\ dirs' \in 0 .. Directories /\ recorded' \in BOOLEAN
      /\ maker' \in {"new", "making", "patching", "over"} /\ FolderFirst'
  <2> USE DirectoriesPositive DEF WorkspaceTypeOK, FolderFirst
  <2>1. CASE ResolvePlanWorkspacePath BY <2>1 DEF ResolvePlanWorkspacePath
  <2>2. CASE MakeDirectory BY <2>2 DEF MakeDirectory
  <2>3. CASE RecordPath BY <2>3 DEF RecordPath
  <2>4. CASE GiveUpFolder BY <2>4 DEF GiveUpFolder
  <2> QED BY <2>1, <2>2, <2>3, <2>4
<1>2. WorkspaceTypeOK'
  BY <1>1 DEF WorkspaceTypeOK
<1>3. OwnTemps' /\ FilesWhole' /\ InLoop' /\ Apart' /\ OwnBundles'
  BY DEF OwnTemps, FilesWhole, InLoop, Apart, OwnBundles, Ran, Underway, Stands, TmpName, Target
<1> QED BY <1>1, <1>2, <1>3

\* Every step of an export keeps the types.
LEMMA ExportTypeOK ==
  ASSUME WorkspaceInv, NEW e \in Exports, ExportWork(e)
  PROVE  WorkspaceTypeOK'
<1> DEFINE Pcs == {"idle", "load", "open", "write", "rename", "done", "dead"}
           Rec == [pc : Pcs, del : 0 .. Deliverables + 1, file : 0 .. BundleFiles,
                   done : SUBSET Dels, alone : BOOLEAN]
           Tmp == [name : Exports \X InPlace, by : Exports, whole : BOOLEAN]
           Fil == [by : Exports \cup {"none"}, whole : BOOLEAN]
<1>1. export \in [Exports -> Rec] /\ export[e] \in Rec /\ temps \subseteq Tmp /\ files \in [InPlace -> Fil]
  BY DEF WorkspaceInv, WorkspaceTypeOK
<1>2. ASSUME export' \in [Exports -> Rec], temps' \subseteq Tmp, files' \in [InPlace -> Fil], Only(e)
      PROVE  WorkspaceTypeOK'
  BY <1>2 DEF WorkspaceInv, WorkspaceTypeOK, Only, folderVars
<1>3. ASSUME NEW done \in SUBSET Dels, export[e].del \in Dels
      PROVE  NextDeliverable(e, done) \in Rec
  <2>1. export[e].del # Deliverables => export[e].del + 1 \in 0 .. Deliverables + 1
    BY <1>3, WorkspaceAssumption DEF Dels
  <2> HIDE DEF Dels
  <2> QED BY <1>1, <1>3, <2>1 DEF NextDeliverable
<1>4. export[e].pc \in {"load", "open", "write", "rename"} => export[e].del \in Dels
  BY DEF WorkspaceInv, InLoop, Underway
<1>5. export[e].pc \in {"open", "write", "rename"} => export[e].file \in 1 .. BundleFiles /\ Target(e) \in InPlace
  BY <1>4 DEF WorkspaceInv, InLoop, Target, InPlace
<1>6. ASSUME export[e].pc \in {"open", "write", "rename"}, NEW whole \in BOOLEAN
      PROVE  Temp(e, whole) \in Tmp
  <2>1. TmpName(e) \in Exports \X InPlace
    BY <1>5, <1>6 DEF TmpName
  <2> QED BY <2>1 DEF Temp
<1>7. Other(e) \subseteq Tmp
  BY <1>1 DEF Other
<1>8. CASE PostExportAll(e)
  <2>1. [NoExport EXCEPT !.pc = IF Deliverables = 0 THEN "done" ELSE "load",
                         !.del = 1, !.alone = \A y \in Exports : ~Underway(y)] \in Rec
    <3> DEFINE pc == IF Deliverables = 0 THEN "done" ELSE "load"
               alone == \A y \in Exports : ~Underway(y)
    <3>1. pc \in Pcs /\ alone \in BOOLEAN /\ 1 \in 0 .. Deliverables + 1
      BY WorkspaceAssumption
    <3>2. 0 \in 0 .. BundleFiles
      BY WorkspaceAssumption
    <3> HIDE DEF pc, alone, Pcs
    <3>3. [NoExport EXCEPT !.pc = pc, !.del = 1, !.alone = alone] \in Rec
      BY <3>1, <3>2 DEF NoExport
    <3> QED BY <3>3 DEF pc, alone, Pcs
  <2>2. \A x \in Exports :
          [export[x] EXCEPT !.alone = export[x].alone /\ Stands(x, "idle")] \in Rec
    BY <1>1 DEF Stands
  <2>3. export' \in [Exports -> Rec]
    BY <1>8, <2>1, <2>2 DEF PostExportAll
  <2> QED BY <1>8, <1>1, <1>2, <2>3 DEF PostExportAll
<1>9. CASE LoadMetadata(e)
  <2>1. export[e].del \in Dels /\ export[e].done \in SUBSET Dels
    BY <1>9, <1>1, <1>4 DEF LoadMetadata, Stands
  <2>2. NextDeliverable(e, export[e].done) \in Rec
    BY <1>3, <2>1
  <2>3. [export[e] EXCEPT !.pc = "open", !.file = 1] \in Rec
    <3>1. 1 \in 0 .. BundleFiles /\ "open" \in Pcs
      BY WorkspaceAssumption
    <3> HIDE DEF Pcs
    <3> QED BY <1>1, <3>1
  <2>4. export' \in [Exports -> Rec]
    BY <1>9, <1>1, <2>2, <2>3 DEF LoadMetadata
  <2> QED BY <1>9, <1>1, <1>2, <2>4 DEF LoadMetadata
<1>10. CASE OpenTemp(e)
  <2>1. export' \in [Exports -> Rec]
    BY <1>10, <1>1 DEF OpenTemp
  <2>2. temps' \subseteq Tmp
    BY <1>10, <1>6, <1>7 DEF OpenTemp, Stands
  <2> QED BY <1>10, <1>1, <1>2, <2>1, <2>2 DEF OpenTemp
<1>11. CASE FillTemp(e)
  <2>1. export' \in [Exports -> Rec]
    BY <1>11, <1>1 DEF FillTemp
  <2>2. temps' \subseteq Tmp
    BY <1>11, <1>6, <1>7 DEF FillTemp, Stands
  <2> QED BY <1>11, <1>1, <1>2, <2>1, <2>2 DEF FillTemp
<1>12. CASE RenameTemp(e)
  <2>1. /\ export[e].del \in Dels /\ export[e].file \in 1 .. BundleFiles /\ Target(e) \in InPlace
        /\ export[e].done \cup {export[e].del} \in SUBSET Dels
    BY <1>12, <1>1, <1>4, <1>5 DEF RenameTemp, Stands
  <2>2. NextDeliverable(e, export[e].done \cup {export[e].del}) \in Rec
    BY <1>3, <2>1
  <2>3. export[e].file # BundleFiles => NextFile(e) \in Rec
    <3>1. export[e].file # BundleFiles => export[e].file + 1 \in 0 .. BundleFiles
      BY <2>1, WorkspaceAssumption
    <3> QED BY <3>1, <1>1 DEF NextFile
  <2>4. files' \in [InPlace -> Fil]
    <3>1. PICK t \in temps : files' = [files EXCEPT ![Target(e)] = [by |-> t.by, whole |-> t.whole]]
      BY <1>12 DEF RenameTemp
    <3>2. [by |-> t.by, whole |-> t.whole] \in Fil
      BY <1>1
    <3> QED BY <3>1, <3>2, <2>1, <1>1
  <2>5. export' \in [Exports -> Rec]
    BY <1>12, <1>1, <2>2, <2>3 DEF RenameTemp
  <2> QED BY <1>12, <1>2, <1>7, <2>4, <2>5 DEF RenameTemp
<1>13. CASE ExportFails(e)
  <2>1. export[e].del \in Dels /\ export[e].done \in SUBSET Dels
    BY <1>13, <1>1, <1>4 DEF ExportFails
  <2>2. NextDeliverable(e, export[e].done) \in Rec
    BY <1>3, <2>1
  <2>3. export' \in [Exports -> Rec]
    BY <1>13, <1>1, <2>2 DEF ExportFails
  <2> QED BY <1>13, <1>1, <1>2, <1>7, <2>3 DEF ExportFails
<1> QED BY <1>8, <1>9, <1>10, <1>11, <1>12, <1>13 DEF ExportWork

\* A new request starts at the first deliverable, and those that are not
\* over are no longer alone.
LEMMA Posted ==
  ASSUME WorkspaceInv, NEW e \in Exports, PostExportAll(e)
  PROVE  /\ export'[e].pc = IF Deliverables = 0 THEN "done" ELSE "load"
         /\ export'[e].del = 1 /\ export'[e].done = {}
         /\ export'[e].alone => \A y \in Exports : ~Underway(y)
         /\ \A x \in Exports \ {e} :
              /\ export'[x].pc = export[x].pc /\ export'[x].del = export[x].del
              /\ export'[x].file = export[x].file /\ export'[x].done = export[x].done
              /\ export'[x].alone => export[x].pc = "idle"
<1> DEFINE lone == \A y \in Exports : ~Underway(y)
           first == IF Deliverables = 0 THEN "done" ELSE "load"
           kept(x) == export[x].alone /\ Stands(x, "idle")
<1>1. /\ export'[e] = [NoExport EXCEPT !.pc = first, !.del = 1, !.alone = lone]
      /\ \A x \in Exports \ {e} : export'[x] = [export[x] EXCEPT !.alone = kept(x)]
  BY DEF PostExportAll
<1>2. \A x \in Exports : kept(x) => export[x].pc = "idle"
  BY DEF Stands
<1>3. \A x \in Exports : DOMAIN export[x] = {"pc", "del", "file", "done", "alone"}
  BY DEF WorkspaceInv, WorkspaceTypeOK
<1> HIDE DEF lone, first, kept
<1>4. export'[e].pc = first /\ export'[e].del = 1 /\ export'[e].done = {} /\ export'[e].alone = lone
  BY <1>1 DEF NoExport
<1>5. ASSUME NEW x \in Exports \ {e}
      PROVE  /\ export'[x].pc = export[x].pc /\ export'[x].del = export[x].del
             /\ export'[x].file = export[x].file /\ export'[x].done = export[x].done
             /\ export'[x].alone = kept(x)
  BY <1>1, <1>3
<1>6. \A x \in Exports \ {e} :
              /\ export'[x].pc = export[x].pc /\ export'[x].del = export[x].del
              /\ export'[x].file = export[x].file /\ export'[x].done = export[x].done
              /\ export'[x].alone => export[x].pc = "idle"
  BY <1>2, <1>5
<1>7. export'[e].alone => \A y \in Exports : ~Underway(y)
  BY <1>4 DEF lone
<1> QED BY <1>4, <1>6, <1>7 DEF first

\* Temporary files have the names of their writers, so no other export can
\* empty one that is about to be renamed.
LEMMA ExportOwnTemps ==
  ASSUME WorkspaceInv, NEW e \in Exports, ExportWork(e)
  PROVE  OwnTemps' /\ FilesWhole'
<1> USE DEF WorkspaceInv, WorkspaceTypeOK, OwnTemps, FilesWhole
<1>1. ASSUME UNCHANGED temps, \A x \in Exports : Stands(x, "rename")' => Stands(x, "rename") /\ UNCHANGED Target(x)
      PROVE  OwnTemps'
  BY <1>1 DEF TmpName, Stands, Target
<1>3. CASE PostExportAll(e)
  <2>1. UNCHANGED <<files, temps>>
    BY <1>3 DEF PostExportAll
  <2>2. export'[e].pc # "rename"
    BY <1>3, Posted
  <2>3. \A x \in Exports \ {e} : Stands(x, "rename")' => Stands(x, "rename") /\ UNCHANGED Target(x)
    BY <1>3, Posted DEF Stands, Target
  <2> HIDE DEF WorkspaceInv, WorkspaceTypeOK, OwnTemps
  <2>4. OwnTemps'
    BY <2>1, <2>2, <2>3, <1>1 DEF Stands
  <2> QED BY <2>1, <2>4 DEF WorkspaceInv
<1>4. CASE LoadMetadata(e)
  BY <1>4, <1>1 DEF LoadMetadata, NextDeliverable, Stands, Target
<1>5. CASE OpenTemp(e)
  <2>1. \A t \in temps' : t.name[1] = t.by
    BY <1>5 DEF OpenTemp, Other, Temp, TmpName
  <2>2. ASSUME NEW x \in Exports, Stands(x, "rename")', NEW t \in temps', t.name = TmpName(x)'
        PROVE  t.whole
    <3>1. x # e /\ Stands(x, "rename") /\ TmpName(x)' = TmpName(x)
      BY <1>5, <2>2 DEF OpenTemp, Stands, TmpName, Target
    <3>2. t \in temps
      BY <1>5, <2>2, <3>1 DEF OpenTemp, Other, Temp, TmpName
    <3> QED BY <3>1, <3>2, <2>2
  <2> QED BY <2>1, <2>2, <1>5 DEF OpenTemp
<1>6. CASE FillTemp(e)
  <2>1. \A t \in temps' : t.name[1] = t.by
    BY <1>6 DEF FillTemp, Other, Temp, TmpName
  <2>2. ASSUME NEW x \in Exports, Stands(x, "rename")', NEW t \in temps', t.name = TmpName(x)'
        PROVE  t.whole
    <3>1. TmpName(x)' = TmpName(x) /\ (x # e => Stands(x, "rename"))
      BY <1>6, <2>2 DEF FillTemp, Stands, TmpName, Target
    <3>2. CASE t = Temp(e, TRUE)
      BY <3>2 DEF Temp
    <3>3. CASE t \in Other(e)
      BY <3>1, <3>3, <2>2 DEF Other
    <3> QED BY <3>2, <3>3, <1>6 DEF FillTemp
  <2> QED BY <2>1, <2>2, <1>6 DEF FillTemp
<1>7. CASE RenameTemp(e)
  <2>1. OwnTemps'
    <3>1. ASSUME NEW x \in Exports, Stands(x, "rename")' PROVE Stands(x, "rename") /\ TmpName(x)' = TmpName(x)
      BY <1>7, <3>1 DEF RenameTemp, Stands, TmpName, Target, NextFile, NextDeliverable
    <3>2. temps' \subseteq temps
      BY <1>7 DEF RenameTemp, Other
    <3> QED BY <3>1, <3>2
  <2>2. FilesWhole'
    BY <1>7 DEF RenameTemp
  <2> QED BY <2>1, <2>2
<1>8. CASE ExportFails(e)
  <2>1. ASSUME NEW x \in Exports, Stands(x, "rename")' PROVE Stands(x, "rename") /\ TmpName(x)' = TmpName(x)
    BY <1>8, <2>1 DEF ExportFails, Stands, TmpName, Target, NextDeliverable
  <2>2. temps' \subseteq temps
    BY <1>8 DEF ExportFails, Other
  <2> QED BY <1>8, <2>1, <2>2 DEF ExportFails
<1> QED BY <1>3, <1>4, <1>5, <1>6, <1>7, <1>8 DEF ExportWork, PostExportAll, LoadMetadata, OpenTemp, FillTemp

\* The two loops move on in order, and the request of a new export meets
\* every other that has not ended.
LEMMA ExportInLoop ==
  ASSUME WorkspaceInv, NEW e \in Exports, ExportWork(e)
  PROVE  InLoop' /\ Apart'
<1> USE WorkspaceAssumption DEF WorkspaceInv, WorkspaceTypeOK, InLoop, Apart, Ran, Underway, Stands, Dels
<1>1. CASE PostExportAll(e)
  BY <1>1, Posted
<1>2. CASE LoadMetadata(e)
  BY <1>2 DEF LoadMetadata, NextDeliverable
<1>3. CASE OpenTemp(e)
  BY <1>3 DEF OpenTemp
<1>4. CASE FillTemp(e)
  BY <1>4 DEF FillTemp
<1>5. CASE RenameTemp(e)
  BY <1>5 DEF RenameTemp, NextDeliverable, NextFile
<1>6. CASE ExportFails(e)
  <2>1. InLoop'
    BY <1>6 DEF ExportFails, NextDeliverable
  <2>2. Apart'
    BY <1>6 DEF ExportFails, NextDeliverable
  <2> QED BY <2>1, <2>2
<1> QED BY <1>1, <1>2, <1>3, <1>4, <1>5, <1>6 DEF ExportWork

\* What a lone export has put in place is replaced by no other.
LEMMA ExportOwnBundles ==
  ASSUME WorkspaceInv, NEW e \in Exports, ExportWork(e)
  PROVE  OwnBundles'
<1> USE WorkspaceAssumption DEF WorkspaceInv, WorkspaceTypeOK, InLoop, Apart, OwnBundles, Ran, Underway, Stands, Dels
<1>1. CASE PostExportAll(e)
  <2>1. UNCHANGED files
    BY <1>1 DEF PostExportAll
  <2>2. export'[e].pc \notin {"open", "write", "rename"} /\ export'[e].done = {}
    BY <1>1, Posted
  <2>3. \A x \in Exports \ {e} : Ran(x)' => ~export'[x].alone
    BY <1>1, Posted
  <2> QED BY <2>1, <2>2, <2>3
<1>2. CASE LoadMetadata(e)
  BY <1>2 DEF LoadMetadata, NextDeliverable
<1>3. CASE OpenTemp(e)
  BY <1>3 DEF OpenTemp
<1>4. CASE FillTemp(e)
  BY <1>4 DEF FillTemp
<1>5. CASE RenameTemp(e)
  <2> SUFFICES ASSUME NEW x \in Exports, Ran(x)', export'[x].alone
               PROVE  /\ \A d \in export'[x].done : \A n \in 1 .. BundleFiles : files'[<<d, n>>].by = x
                      /\ export'[x].pc \in {"open", "write", "rename"} =>
                           \A n \in 1 .. (export'[x].file - 1) : files'[<<export'[x].del, n>>].by = x
    OBVIOUS
  <2>1. x = e
    BY <1>5 DEF RenameTemp
  <2>2. /\ files'[Target(e)].by = e
        /\ \A f \in InPlace \ {Target(e)} : files'[f] = files[f]
        /\ Target(e) \in InPlace
    <3>1. PICK t \in temps : /\ t.name = TmpName(e)
                            /\ files' = [files EXCEPT ![Target(e)] = [by |-> t.by, whole |-> t.whole]]
      BY <1>5 DEF RenameTemp
    <3>2. t.by = e
      BY <3>1 DEF OwnTemps, TmpName
    <3>3. Target(e) \in InPlace
      BY <1>5 DEF RenameTemp, Target, InPlace
    <3> QED BY <3>1, <3>2, <3>3
  <2>3. \A d \in export[e].done : \A n \in 1 .. BundleFiles : files'[<<d, n>>].by = e
    <3>1. \A d \in export[e].done : d \in Dels /\ d # export[e].del
      BY <1>5 DEF RenameTemp
    <3>2. \A d \in export[e].done : \A n \in 1 .. BundleFiles : files[<<d, n>>].by = e
      <4>1. export[e].pc = "rename" /\ export[e].alone
        BY <1>5, <2>1 DEF RenameTemp, NextDeliverable, NextFile
      <4> QED BY <4>1
    <3>3. \A d \in export[e].done : \A n \in 1 .. BundleFiles : <<d, n>> \in InPlace \ {Target(e)}
      BY <3>1 DEF Target, InPlace
    <3> HIDE DEF WorkspaceInv, InPlace
    <3> QED BY <3>2, <3>3, <2>2
  <2>4. \A n \in 1 .. export[e].file : files'[<<export[e].del, n>>].by = e
    BY <1>5, <2>1, <2>2 DEF RenameTemp, Target, InPlace, NextDeliverable, NextFile
  <2> QED BY <1>5, <2>1, <2>3, <2>4 DEF RenameTemp, NextDeliverable, NextFile
<1>6. CASE ExportFails(e)
  BY <1>6 DEF ExportFails, NextDeliverable
<1> QED BY <1>1, <1>2, <1>3, <1>4, <1>5, <1>6 DEF ExportWork

\* Every step keeps the invariant.
LEMMA WorkspaceInvStep ==
  ASSUME WorkspaceInv, [WorkspaceNext]_workspaceVars
  PROVE  WorkspaceInv'
<1>1. CASE CreatePlanWorkspaceForPlan
  BY <1>1, FolderStep
<1>2. ASSUME NEW e \in Exports, ExportWork(e) PROVE WorkspaceInv'
  <2>1. UNCHANGED <<dirs, maker, recorded>>
    BY <1>2 DEF ExportWork, PostExportAll, LoadMetadata, OpenTemp, FillTemp, RenameTemp, ExportFails,
                Only, folderVars
  <2>2. FolderFirst'
    BY <2>1 DEF WorkspaceInv, FolderFirst
  <2> QED BY <1>2, <2>2, ExportTypeOK, ExportOwnTemps, ExportInLoop, ExportOwnBundles DEF WorkspaceInv
<1>3. ASSUME NEW d \in Dels, GeneratesMetadata(d) PROVE WorkspaceInv'
  BY <1>3 DEF WorkspaceInv, GeneratesMetadata, folderVars, WorkspaceTypeOK, FolderFirst, OwnTemps, FilesWhole,
              InLoop, Apart, OwnBundles, Ran, Underway, Stands, TmpName, Target
<1>4. CASE WorkspaceCrash
  <2> USE <1>4 DEF WorkspaceCrash, WorkspaceInv
  <2>1. /\ \A e \in Exports : Underway(e) => export'[e] = [export[e] EXCEPT !.pc = "dead"]
        /\ \A e \in Exports : ~Underway(e) => export'[e] = export[e]
    OBVIOUS
  <2>2. WorkspaceTypeOK'
    BY <2>1 DEF WorkspaceTypeOK
  <2>3. FolderFirst'
    BY DEF FolderFirst
  <2>4. OwnTemps' /\ FilesWhole'
    BY <2>1 DEF OwnTemps, FilesWhole, Stands, Underway, TmpName, Target, WorkspaceTypeOK
  <2>5. InLoop' /\ Apart' /\ OwnBundles'
    BY <2>1 DEF InLoop, Apart, OwnBundles, Ran, Underway, Stands, WorkspaceTypeOK
  <2> QED BY <2>2, <2>3, <2>4, <2>5
<1>5. CASE UNCHANGED workspaceVars
  BY <1>5 DEF workspaceVars, folderVars, WorkspaceInv, WorkspaceTypeOK, FolderFirst, OwnTemps, FilesWhole,
              InLoop, Apart, OwnBundles, Ran, Underway, Stands, TmpName, Target
<1> QED BY <1>1, <1>2, <1>3, <1>4, <1>5 DEF WorkspaceNext

\* The invariant holds throughout.
LEMMA WorkspaceInvariance == WorkspaceSpec => []WorkspaceInv
<1> QED BY WorkspaceInvInit, WorkspaceInvStep, PTL DEF WorkspaceSpec

\* Every variable keeps its type.
THEOREM WorkspaceTypes == WorkspaceSpec => []WorkspaceTypeOK
<1>1. WorkspaceInv => WorkspaceTypeOK
  BY DEF WorkspaceInv
<1> QED BY WorkspaceInvariance, <1>1, PTL

\* A recorded folder is complete, exports/ never shows half a file, and a
\* lone export's bundles are its own (exportToWorkspace's temporary file and
\* rename).
THEOREM BundlesStayWhole == WorkspaceSpec => []BundlesWhole
<1>1. WorkspaceInv => BundlesWhole
  BY DEF WorkspaceInv, FolderFirst, FilesWhole, OwnBundles, BundlesWhole, Ran
<1> QED BY WorkspaceInvariance, <1>1, PTL
=============================================================================
