----------------------------- MODULE ResultFiles -----------------------------
(***************************************************************************)
(* The files of the discovery pipeline (serve/hierarchical_discovery).  A  *)
(* run writes its table, draws up to three dendrograms, makes a page that  *)
(* embeds them, and writes its report.  A failure of the table or of the   *)
(* report ends the run, one of the dendrograms or of the page does not.    *)
(* Runs follow one another in the same directories; the page takes the     *)
(* images it finds there, whichever run drew them.                         *)
(***************************************************************************)
EXTENDS Integers, FiniteSets, FiniteSetsExt

CONSTANT MaxFileRuns   \* bound: runs in the directory

ASSUME FilesAssumption == MaxFileRuns \in Nat \ {0}

VARIABLES
  filesAt,   \* the run and the step it is at
  tables,    \* the runs whose table is there
  images,    \* the runs that drew an image of each kind
  temps,     \* the runs whose temporary result is there
  pages,     \* for each run with a page, the run of each image in it, or 0
  reports    \* the runs whose report is there

filesVars == <<filesAt, tables, images, temps, pages, reports>>

Image == 1 .. 3   \* basic, colored, cluster sizes: in this order
FileRun == 1 .. MaxFileRuns
Step == {"table", "images", "page", "report"}
NoImage == 0

FilesInit ==
  /\ filesAt = [run |-> 1, step |-> "table"]
  /\ tables = {} /\ temps = {} /\ reports = {}
  /\ images = [i \in Image |-> {}]
  /\ pages = [r \in {} |-> [i \in Image |-> NoImage]]

fileRun == filesAt.run
StepIs(s) == filesAt.step = s /\ fileRun \in FileRun
ToStep(s) == filesAt' = [filesAt EXCEPT !.step = s]
FollowingRun == filesAt' = [run |-> fileRun + 1, step |-> "table"]

(* The table; without vectors there is nothing to draw.                    *)
WriteTable ==
  /\ StepIs("table")
  /\ tables' = tables \cup {fileRun}
  /\ ToStep("images") \/ ToStep("report")
  /\ UNCHANGED <<images, temps, pages, reports>>

(* The images come one after another, and an error ends the drawing.       *)
DrawImages ==
  /\ StepIs("images")
  /\ \E n \in 0 .. 3 : images' = [i \in Image |-> IF i <= n THEN images[i] \cup {fileRun} ELSE images[i]]
  /\ ToStep("page")
  /\ UNCHANGED <<tables, temps, pages, reports>>

(* Variant: the oldest file of the kind.                                   *)
FoundOldest(i) == IF images[i] = {} THEN NoImage ELSE Min(images[i])

(* find_dendrogram_images: the newest file of the kind, of any data set.   *)
Found(i) == IF images[i] = {} THEN NoImage ELSE Max(images[i])

(* The page; an image that cannot be read is left out.                     *)
WritePage ==
  /\ StepIs("page")
  /\ \E unread \in SUBSET Image :
       pages' = [r \in DOMAIN pages \cup {fileRun} |->
                   IF r = fileRun THEN [i \in Image |-> IF i \in unread THEN NoImage ELSE Found(i)]
                   ELSE pages[r]]
  /\ ToStep("report")
  /\ UNCHANGED <<tables, images, temps, reports>>

(* The page fails, before its temporary result is written or after; then   *)
(* that stays.                                                             *)
FailPage ==
  /\ StepIs("page")
  /\ temps' \in {temps, temps \cup {fileRun}}
  /\ ToStep("report")
  /\ UNCHANGED <<tables, images, pages, reports>>

WriteReport ==
  /\ StepIs("report")
  /\ reports' = reports \cup {fileRun}
  /\ FollowingRun
  /\ UNCHANGED <<tables, images, temps, pages>>

(* The run ends early: the table or the report fails, or the process does. *)
FileRunEnds ==
  /\ fileRun \in FileRun /\ FollowingRun
  /\ temps' \in {temps, temps \cup (IF filesAt.step = "page" THEN {fileRun} ELSE {})}
  /\ UNCHANGED <<tables, images, pages, reports>>

FilesNext == WriteTable \/ DrawImages \/ WritePage \/ FailPage \/ WriteReport \/ FileRunEnds

FilesSpec == FilesInit /\ [][FilesNext]_filesVars

-----------------------------------------------------------------------------
(* Properties                                                              *)

FilesTypeOK ==
  /\ filesAt \in [run : 1 .. MaxFileRuns + 1, step : Step]
  /\ DOMAIN pages \subseteq FileRun /\ temps \subseteq FileRun

(* A report has its table; a page leaves no temporary result.              *)
ReportHasTable == reports \subseteq tables /\ DOMAIN pages \subseteq tables \ temps

(* An image of another run is on a page only if the run did not draw one   *)
(* of the kind, and it is of an earlier run.                               *)
OwnImagesShown ==
  \A r \in DOMAIN pages, i \in Image :
    pages[r][i] # NoImage => pages[r][i] <= r /\ (r \in images[i] => pages[r][i] = r)

(* What the files of a run show is its own where it can be.                *)
FilesInv == FilesTypeOK /\ ReportHasTable /\ OwnImagesShown
=============================================================================
