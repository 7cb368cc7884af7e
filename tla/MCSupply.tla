----------------------------- MODULE MCSupply ------------------------------
(***************************************************************************)
(* Small instances of what a release goes through: the gates and the       *)
(* publication (MCRelease), the source archive, the hosted workflow, the   *)
(* tool installer and the stacks a release is entered in. They share no    *)
(* state, so a behaviour works on one of them, its focus, and the others   *)
(* rest.                                                                   *)
(***************************************************************************)
EXTENDS MCRelease, Archive, Workflow, Toolchain, Stack

CONSTANTS a1, a2, mdbook, henret, iotakt, t1

VARIABLES focus, edits

Focus == {"release", "archive", "workflow", "tools", "stack"}

-----------------------------------------------------------------------------
(* The archive: names of one byte, of 3, and of 5; a directory of 3 just   *)
(* fits with its slash, and a file below it just fits with a prefix.       *)

SegmentWidths ==
  [s |-> 1, m |-> 3, x |-> 5, g |-> 1, t |-> 4, u |-> 5, empty |-> 0, one |-> 1, two |-> 2]

BlockSizes == [empty |-> 0, one |-> 1, two |-> 2, t |-> 1, u |-> 1]

Paths == {<< "s" >>, << "m", "m" >>, << "m", "s" >>, << "x" >>, << "m", "m", "s" >>, << "g", "s" >>}

ForbiddenPaths == {<< "g" >>}

\* Byte order of the archive paths: g/ g/s m/ m/m m/m/ m/m/s m/s s x.
RankTable ==
  LET order ==
        << << << "g" >>, TRUE >>, << << "g", "s" >>, FALSE >>, << << "m" >>, TRUE >>,
           << << "m", "m" >>, FALSE >>, << << "m", "m" >>, TRUE >>,
           << << "m", "m", "s" >>, FALSE >>, << << "m", "s" >>, FALSE >>,
           << << "s" >>, FALSE >>, << << "x" >>, FALSE >> >>
  IN [a \in ArchivePath |-> CHOOSE i \in DOMAIN order : order[i] = a]

\* Commits that can be archived, whose streams end within a block and at its end;
\* and one each that has a target, a path, a mode or a name that does not fit.
SomeTrees ==
  LET tree(time, files) ==
        [time |-> time,
         files |-> [p \in Path |-> IF p \in DOMAIN files THEN files[p] ELSE NoFile]]
      file(mode, data) == [mode |-> mode, data |-> data]
  IN {tree(1, << "s" >> :> file("100644", "two") @@ << "m", "m" >> :> file("100755", "empty")),
      tree(2, << "s" >> :> file("100644", "one") @@ << "m", "m" >> :> file("100755", "two")),
      tree(2, << "s" >> :> file("100644", "one")),
      tree(2, << "s" >> :> file("120000", "t") @@ << "m", "s" >> :> file("100644", "one")),
      tree(2, << "s" >> :> file("120000", "u")),
      tree(2, << "s" >> :> file("160000", "one")),
      tree(2, << "x" >> :> file("100644", "one")),
      tree(2, << "g", "s" >> :> file("100644", "one")),
      tree(1, << "m", "m", "s" >> :> file("100644", "one"))}

-----------------------------------------------------------------------------
(* Tools: an old and a new release, one in which the tool has moved, and   *)
(* archives with a link, with a name that leads out, and with two names    *)
(* for one file.                                                           *)

member(name, type, data) == [name |-> name, type |-> type, data |-> data]

OldRelease ==
  [format |-> "zip",
   members |-> << member(<< "bin" >>, "dir", NoArchive), member(<< "bin", "tool" >>, "file", "v1") >>]

SomeArchives ==
  {OldRelease,
   [format |-> "tar.gz",
    members |-> << member(<< "bin", "tool" >>, "file", "v2"), member(<< "lib" >>, "file", "v2") >>],
   [format |-> "zip", members |-> << member(<< "bin" >>, "file", "v3") >>],
   [format |-> "tar.gz", members |-> << member(<< "bin", "tool" >>, "link", "v4") >>],
   [format |-> "tar.gz",
    members |-> << member(<< "lib" >>, "file", "v5"), member(<< "..", "tool" >>, "file", "v5") >>],
   [format |-> "zip",
    members |-> << member(<< "bin", "tool" >>, "file", "v6"),
                   member(<< "bin", ".", "tool" >>, "file", "v7") >>]}

ToolPath == << "bin", "tool" >>

-----------------------------------------------------------------------------

\* Bounds on the edits of a behaviour.
EditLimit == [release |-> 0, archive |-> 0, workflow |-> 2, tools |-> 5, stack |-> 6]

\* And on the commits there are with those that come during builds (an archive is
\* altered while there are fewer), on the manifests and the entries.
MaxHeads == 3
MaxManifests == 3
MaxEntries == 2

MCInit ==
  /\ focus \in Focus
  /\ edits = 0
  /\ ReleaseInit
  /\ ArchiveInit
  /\ focus # "archive" => head = CHOOSE t \in Trees : TRUE
  /\ WorkflowInit
  /\ upstream["checkout"] = a1 /\ selector = 1
  /\ focus # "workflow" => upstream["upload-artifact"] = a1
  /\ ToolchainInit(OldRelease)
  /\ StackInit
  /\ focus # "stack" => tarballDir = NoDirectory

Counts == edits < EditLimit[focus] /\ edits' = edits + 1

PublishNext ==
  /\ focus = "release"
  /\ ReleaseNext
  /\ TagJobsMeet'
  /\ UNCHANGED << edits, archiveVars, workflowVars, toolVars, stackVars >>

BuildNext ==
  /\ focus = "archive"
  /\ ArchiveNext
  /\ Cardinality(past') <= MaxHeads
  /\ build'.outcome = "tampered" => Cardinality(past') < MaxHeads
  /\ UNCHANGED << releaseVars, edits, workflowVars, toolVars, stackVars >>

\* The workflow is edited before the run; while it runs the tags move that its
\* steps name. Approvals are not counted as edits.
HostedNext ==
  /\ focus = "workflow"
  /\ \/ EditRepository /\ Counts
     \/ run.event = "none" /\ ApproveWorkflow /\ UNCHANGED edits
     \/ /\ run.event # "none"
        /\ \E s \in Steps, c \in ActionCommit :
             StepAt(s).ref = Tag /\ MoveTag(ActionOf(StepAt(s).does), c)
        /\ UNCHANGED edits
     \/ \E e \in Event : StartRun(e) /\ UNCHANGED edits
     \/ \E j \in WorkflowJob : RunStep(j) /\ UNCHANGED edits
  /\ UNCHANGED << releaseVars, archiveVars, toolVars, stackVars >>

ToolsNext ==
  /\ focus = "tools"
  /\ \/ InstallNext /\ UNCHANGED edits
     \/ UpstreamNext /\ Counts
  /\ UNCHANGED << releaseVars, archiveVars, workflowVars, stackVars >>

\* A manifest declares one dependency at most.
StacksNext ==
  /\ focus = "stack"
  /\ Counts
  /\ StackNext
  /\ Len(manifests') <= MaxManifests /\ Len(entries') <= MaxEntries
  /\ \A hash \in DOMAIN manifests' : Cardinality(manifests'[hash].dependencies) <= 1
  /\ UNCHANGED << releaseVars, archiveVars, workflowVars, toolVars >>

MCNext ==
  /\ PublishNext \/ BuildNext \/ HostedNext \/ ToolsNext \/ StacksNext
  /\ UNCHANGED focus

MCSpec ==
  MCInit /\ [][MCNext]_<< focus, edits, releaseVars, archiveVars, workflowVars, toolVars, stackVars >>

=============================================================================
