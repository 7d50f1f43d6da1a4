----------------------------- MODULE Workspace ------------------------------
(***************************************************************************)
(* A plan's folder on disk (src/workspace/): made once when the plan is    *)
(* created, written by the bundle exports of its deliverables              *)
(* (POST /plans/:id/deliverables/export-all), several of which may run at  *)
(* the same time and break off anywhere.                                   *)
(***************************************************************************)
EXTENDS Naturals, Sequences, FiniteSets

CONSTANTS
  Exports,       \* requests to export everything, each made at most once
  Deliverables,  \* number of deliverables of the plan
  BundleFiles    \* files exportSingleDeliverable writes for one of them

ASSUME WorkspaceAssumption == Deliverables \in Nat /\ BundleFiles \in Nat \ {0}

VARIABLES
  title,      \* what the plan's title is like
  dirs,       \* how many of the folder's directories exist
  maker,      \* createPlanWorkspaceForPlan: "new", "making", "patching" or "over"
  recorded,   \* plan.workspacePath is set
  metadata,   \* deliverables that have publish metadata
  files,      \* what is in place in exports/
  temps,      \* temporary files in exports/
  export      \* the requests

folderVars == <<title, dirs, maker, recorded>>
workspaceVars == <<folderVars, metadata, files, temps, export>>

AllowedSubdirs == {"brief", "briefs", "scripts", "shotlist", "recordings", "assets", "exports"}
Directories == 1 + Cardinality(AllowedSubdirs)

\* Titles whose slug is fine, ends in a hyphen once it is cut to 80
\* characters, or is a reserved name of Windows.
Titles == {"plain", "cut_at_hyphen", "device_name"}
SlugValid == title = "plain"

Dels == 1 .. Deliverables
InPlace == Dels \X (1 .. BundleFiles)
Absent == [by |-> "none", whole |-> FALSE]
NoExport == [pc |-> "idle", del |-> 0, file |-> 0, done |-> {}, alone |-> TRUE]

WorkspaceInit ==
  /\ title \in Titles
  /\ dirs = 0 /\ maker = "new" /\ recorded = FALSE
  /\ metadata = {}
  /\ files = [f \in InPlace |-> Absent] /\ temps = {}
  /\ export = [e \in Exports |-> NoExport]

---------------------------------------------------------------------------
(* Making the folder: one attempt per plan, by promoteBriefToPlan or        *)
(* createYoutubeAdvancedPlanDirect                                         *)

ResolvePlanWorkspacePath ==
  /\ maker = "new"
  /\ maker' = IF SlugValid THEN "making" ELSE "over"
  /\ UNCHANGED <<title, dirs, recorded>>

MakeDirectory ==
  /\ maker = "making"
  /\ dirs' = dirs + 1
  /\ maker' = IF dirs' = Directories THEN "patching" ELSE maker
  /\ UNCHANGED <<title, recorded>>

RecordPath ==
  /\ maker = "patching"
  /\ recorded' = TRUE /\ maker' = "over"
  /\ UNCHANGED <<title, dirs>>

\* WORKSPACE_ROOT unset, mkdir or the patch failing: logged, never retried.
GiveUpFolder ==
  /\ maker # "over" /\ maker' = "over"
  /\ UNCHANGED <<title, dirs, recorded>>

CreatePlanWorkspaceForPlan ==
  /\ ResolvePlanWorkspacePath \/ MakeDirectory \/ RecordPath \/ GiveUpFolder
  /\ UNCHANGED <<metadata, files, temps, export>>

---------------------------------------------------------------------------
(* Exporting                                                               *)

Stands(e, pc) == export[e].pc = pc
Underway(e) == export[e].pc \notin {"idle", "done", "dead"}
Only(e) == UNCHANGED <<folderVars, metadata>>
Target(e) == <<export[e].del, export[e].file>>

\* Mutant: a fixed name beside the target.
TmpNameShared(e) == Target(e)

\* A temporary name of its own for each write: eight random bytes.
TmpName(e) == <<e, Target(e)>>

Other(e) == {t \in temps : t.name # TmpName(e)}
Temp(e, whole) == [name |-> TmpName(e), by |-> e, whole |-> whole]

\* The loop over the deliverables goes on to the next, or ends.
NextDeliverable(e, done) ==
  LET x == export[e] IN
  IF x.del = Deliverables
  THEN [x EXCEPT !.pc = "done", !.done = done]
  ELSE [x EXCEPT !.pc = "load", !.del = x.del + 1, !.done = done]

NextFile(e) == [export[e] EXCEPT !.pc = "open", !.file = export[e].file + 1]

\* The request overlaps every other that has not ended.
PostExportAll(e) ==
  /\ recorded /\ Stands(e, "idle")
  /\ export' = [x \in Exports |->
        IF x = e THEN [NoExport EXCEPT !.pc = IF Deliverables = 0 THEN "done" ELSE "load",
                                    !.del = 1, !.alone = \A y \in Exports : ~Underway(y)]
        ELSE [export[x] EXCEPT !.alone = export[x].alone /\ Stands(x, "idle")]]
  /\ UNCHANGED <<files, temps>> /\ Only(e)

LoadMetadata(e) ==
  /\ Stands(e, "load")
  /\ export' = [export EXCEPT ![e] = IF export[e].del \in metadata
                                     THEN [export[e] EXCEPT !.pc = "open", !.file = 1]
                                     ELSE NextDeliverable(e, export[e].done)]
  /\ UNCHANGED <<files, temps>> /\ Only(e)

\* writeFile creates or empties the temporary file ...
OpenTemp(e) ==
  /\ Stands(e, "open")
  /\ temps' = Other(e) \cup {Temp(e, FALSE)}
  /\ export' = [export EXCEPT ![e].pc = "write"]
  /\ UNCHANGED files /\ Only(e)

\* ... and fills it.
FillTemp(e) ==
  /\ Stands(e, "write")
  /\ temps' = Other(e) \cup {Temp(e, TRUE)}
  /\ export' = [export EXCEPT ![e].pc = "rename"]
  /\ UNCHANGED files /\ Only(e)

RenameTemp(e) ==
  /\ Stands(e, "rename")
  /\ \E t \in temps : t.name = TmpName(e)
                      /\ files' = [files EXCEPT ![Target(e)] = [by |-> t.by, whole |-> t.whole]]
  /\ temps' = Other(e)
  /\ export' = [export EXCEPT ![e] = IF export[e].file = BundleFiles
                                     THEN NextDeliverable(e, export[e].done \cup {export[e].del})
                                     ELSE NextFile(e)]
  /\ Only(e)

\* A write that fails takes its temporary file along if it can, and the rest
\* of its deliverable's bundle is not written.
ExportFails(e) ==
  /\ export[e].pc \in {"load", "open", "write", "rename"}
  /\ temps' \in {temps, Other(e)}
  /\ export' = [export EXCEPT ![e] = NextDeliverable(e, export[e].done)]
  /\ UNCHANGED files /\ Only(e)

GeneratesMetadata(d) ==
  /\ d \notin metadata /\ metadata' = metadata \cup {d}
  /\ UNCHANGED <<folderVars, files, temps, export>>

\* The process ends: what is on disk and in the store stays as it is.
WorkspaceCrash ==
  /\ maker' = "over"
  /\ export' = [e \in Exports |-> IF Underway(e) THEN [export[e] EXCEPT !.pc = "dead"] ELSE export[e]]
  /\ UNCHANGED <<title, dirs, recorded, metadata, files, temps>>

ExportWork(e) ==
  \/ PostExportAll(e) \/ LoadMetadata(e) \/ OpenTemp(e) \/ FillTemp(e) \/ RenameTemp(e)
  \/ ExportFails(e)

WorkspaceNext ==
  \/ CreatePlanWorkspaceForPlan
  \/ \E e \in Exports : ExportWork(e)
  \/ \E d \in Dels : GeneratesMetadata(d)
  \/ WorkspaceCrash

WorkspaceSpec == WorkspaceInit /\ [][WorkspaceNext]_workspaceVars

---------------------------------------------------------------------------
(* Properties *)

\* Every variable keeps its type.
WorkspaceTypeOK ==
  /\ title \in Titles /\ dirs \in 0 .. Directories /\ recorded \in BOOLEAN
  /\ maker \in {"new", "making", "patching", "over"}
  /\ metadata \subseteq Dels
  /\ files \in [InPlace -> [by : Exports \cup {"none"}, whole : BOOLEAN]]
  /\ temps \subseteq [name : Exports \X InPlace, by : Exports, whole : BOOLEAN]
  /\ export \in [Exports -> [pc : {"idle", "load", "open", "write", "rename", "done", "dead"},
                             del : 0 .. Deliverables + 1, file : 0 .. BundleFiles,
                             done : SUBSET Dels, alone : BOOLEAN]]

\* A recorded folder is complete. However exports overlap, fail and break
\* off, a reader of exports/ never finds half a file, and the bundles an
\* export that met no other reports as written are all its own.
BundlesWhole ==
  /\ recorded => dirs = Directories
  /\ \A f \in InPlace : files[f] # Absent => files[f].whole
  /\ \A e \in Exports : Stands(e, "done") /\ export[e].alone =>
       \A d \in export[e].done : \A n \in 1 .. BundleFiles : files[<<d, n>>].by = e

---------------------------------------------------------------------------
(* The inductive invariant behind BundlesWhole                             *)

\* The path is recorded after the last directory.
FolderFirst ==
  /\ maker = "new" => dirs = 0
  /\ maker = "making" => dirs < Directories
  /\ maker = "patching" \/ recorded => dirs = Directories

\* A temporary file is its writer's, and full when it is to be renamed.
OwnTemps ==
  /\ \A t \in temps : t.name[1] = t.by
  /\ \A e \in Exports : Stands(e, "rename") => \A t \in temps : t.name = TmpName(e) => t.whole

FilesWhole == \A f \in InPlace : files[f] # Absent => files[f].whole

Ran(e) == Underway(e) \/ Stands(e, "done")

\* Where an export is in its two loops.
InLoop ==
  \A e \in Exports :
    /\ Underway(e) => export[e].del \in Dels /\ \A d \in export[e].done : d < export[e].del
    /\ export[e].pc \in {"open", "write", "rename"} => export[e].file \in 1 .. BundleFiles

\* An export that met no other is the only one under way.
Apart ==
  \A e, x \in Exports : e # x /\ Ran(e) /\ export[e].alone => ~Underway(x)

\* What it has written so far is its own.
OwnBundles ==
  \A e \in Exports : Ran(e) /\ export[e].alone =>
    /\ \A d \in export[e].done : \A n \in 1 .. BundleFiles : files[<<d, n>>].by = e
    /\ export[e].pc \in {"open", "write", "rename"} =>
         \A n \in 1 .. (export[e].file - 1) : files[<<export[e].del, n>>].by = e

WorkspaceInv ==
  /\ WorkspaceTypeOK /\ FolderFirst /\ OwnTemps /\ FilesWhole /\ InLoop /\ Apart /\ OwnBundles
=============================================================================
