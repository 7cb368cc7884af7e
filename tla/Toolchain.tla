----------------------------- MODULE Toolchain -----------------------------
(***************************************************************************)
(* The installer of pinned CI tools (scripts/install_ci_tool.py). It loads *)
(* an archive from a server that may serve anything, compares its digest   *)
(* with the pin in ci/supply-chain.json, looks at every member's name and  *)
(* type, and unpacks into a destination that may be in use already: by an  *)
(* older version, or a run that was cut short in the middle of a file. One *)
(* installer works on a destination at a time, as in every job. A digest   *)
(* stands for the bytes it is of.                                          *)
(***************************************************************************)
EXTENDS Naturals, Sequences, SequencesExt, FiniteSets

CONSTANTS
  Tool,         \* entries of the policy's tools
  ToolArchive,  \* archives: a format, and members with a name, a type and data
  Binary,       \* where a pin expects the tool
  NoArchive     \* nothing is served or pinned, no data is whole

\* Names are sequences of segments; these are not names of files.
Dots == {"", ".", ".."}

Format == {"tar.gz", "zip"}
Member == UNION {Range(a.members) : a \in ToolArchive}

ASSUME ToolchainAssumption ==
  /\ \A a \in ToolArchive :
       a.format \in Format /\ a.members \in Seq(Range(a.members))
  /\ \A m \in Member :
       /\ DOMAIN m = {"name", "type", "data"}
       /\ m.name \in Seq(STRING) /\ m.type \in {"file", "dir", "link"}
  /\ Binary \in Seq(STRING) /\ Range(Binary) \cap Dots = {}
  /\ NoArchive \notin ToolArchive

VARIABLES
  pins,         \* the pin of a tool: digest and format
  reviewed,     \* the archives pinned so far
  served,       \* what a tool's URL serves
  disk,         \* what is on disk, at a path relative to the destination
  installer     \* how far the installer is

toolVars == << pins, reviewed, served, disk, installer >>

NoInstall == [pc |-> "idle", pin |-> NoArchive, bytes |-> NoArchive, todo |-> << >>]

-----------------------------------------------------------------------------
(* Names *)

\* canonical_member.
Canonical(name) == name # << >> /\ Range(name) \cap Dots = {}

\* Where a name leads: a canonical one where it says, and ".." out of a directory,
\* in the end out of the destination.
Resolve(name) ==
  IF Canonical(name) THEN name
  ELSE FoldLeft(LAMBDA path, s :
                  CASE s \in {"", "."} -> path
                    [] s = ".." -> IF path = << >> \/ Last(path) = ".." THEN Append(path, s)
                                   ELSE Front(path)
                    [] OTHER -> Append(path, s),
                << >>, name)

Inside(path) == path # << >> /\ ".." \notin Range(path)

\* Fault: names are compared, and not looked into.
SafeNames(archive) ==
  /\ \A i \in DOMAIN archive.members : archive.members[i].type # "link"
  /\ \A i, j \in DOMAIN archive.members :
       archive.members[i].name = archive.members[j].name => i = j

\* What safe_extract and safe_extract_zip ask before a member is written.
Safe(archive) ==
  /\ \A i \in DOMAIN archive.members :
       /\ Canonical(archive.members[i].name)
       /\ archive.members[i].type # "link"
  /\ \A i, j \in DOMAIN archive.members :
       archive.members[i].name = archive.members[j].name => i = j

-----------------------------------------------------------------------------
(* install *)

Moves(from, to) == installer.pc = from /\ installer' = to

\* The policy is read once.
BeginInstall(t) ==
  /\ Moves("idle", [NoInstall EXCEPT !.pc = "download", !.pin = pins[t]])
  /\ UNCHANGED << pins, reviewed, served, disk >>

Failed == [installer EXCEPT !.pc = "failed", !.todo = << >>]

Download ==
  /\ installer.pc = "download"
  /\ LET bytes == served[installer.pin.tool] IN
     Moves("download",
          IF bytes = NoArchive THEN Failed
          ELSE [installer EXCEPT !.pc = "verify", !.bytes = bytes])
  /\ UNCHANGED << pins, reviewed, served, disk >>

\* verify_digest, then the whole of the scan.
VerifyDigest ==
  /\ installer.pc = "verify"
  /\ LET pin == installer.pin
         bytes == installer.bytes
     IN Moves("verify",
             IF bytes = pin.sha256 /\ bytes.format = pin.format /\ Safe(bytes)
             THEN [installer EXCEPT !.pc = "extract", !.todo = bytes.members]
             ELSE Failed)
  /\ UNCHANGED << pins, reviewed, served, disk >>

\* Directories are made on the way; a file is in the way of a directory, and a
\* directory in the way of a file.
Writable(path, type) ==
  /\ \A n \in 1 .. Len(path) - 1 :
       SubSeq(path, 1, n) \in DOMAIN disk => disk[SubSeq(path, 1, n)].type = "dir"
  /\ path \in DOMAIN disk => disk[path].type = type

WithMember(m) ==
  LET path == Resolve(m.name)
      above == {SubSeq(path, 1, n) : n \in 1 .. Len(path) - 1} \ DOMAIN disk
  IN [p \in DOMAIN disk \cup above \cup {path} |->
        IF p = path THEN [type |-> m.type, data |-> m.data]
        ELSE IF p \in above THEN [type |-> "dir", data |-> NoArchive]
        ELSE disk[p]]

ExtractMember ==
  /\ installer.pc = "extract" /\ installer.todo # << >>
  /\ LET m == Head(installer.todo) IN
     IF Writable(Resolve(m.name), m.type)
     THEN /\ disk' = WithMember(m)
          /\ Moves("extract", [installer EXCEPT !.todo = Tail(@)])
     ELSE UNCHANGED disk /\ Moves("extract", Failed)
  /\ UNCHANGED << pins, reviewed, served >>

\* The tool must be there; chmod leaves its bytes alone.
FinishInstall ==
  /\ installer.todo = << >>
  /\ Moves("extract",
          IF Binary \in DOMAIN disk /\ disk[Binary].type = "file"
          THEN [installer EXCEPT !.pc = "installed"] ELSE Failed)
  /\ UNCHANGED << pins, reviewed, served, disk >>

\* The disk is full, or the process is killed: what is written stays.
KillInstall ==
  /\ installer.pc \in {"download", "verify", "extract"}
  /\ installer' = Failed
  /\ UNCHANGED << pins, reviewed, served, disk >>

\* And in the middle of a file, of which a part is written.
CutShort ==
  /\ installer.pc = "extract" /\ installer.todo # << >>
  /\ LET m == Head(installer.todo) IN
       /\ m.type = "file" /\ Writable(Resolve(m.name), m.type)
       /\ disk' = WithMember([m EXCEPT !.data = NoArchive])
  /\ installer' = Failed
  /\ UNCHANGED << pins, reviewed, served >>

AgainInstall ==
  /\ installer.pc \in {"installed", "failed"}
  /\ installer' = NoInstall
  /\ UNCHANGED << pins, reviewed, served, disk >>

\* Upstream puts another archive where the URL leads, or takes it away.
Serve(t, a) ==
  /\ served[t] # a
  /\ served' = [served EXCEPT ![t] = a]
  /\ UNCHANGED << pins, reviewed, disk, installer >>

\* A reviewer pins what is served now.
PinTool(t) ==
  /\ served[t] # NoArchive
  /\ pins' = [pins EXCEPT ![t] = [tool |-> t, sha256 |-> served[t], format |-> served[t].format]]
  /\ reviewed' = reviewed \cup {served[t]}
  /\ UNCHANGED << served, disk, installer >>

InstallNext ==
  \/ \E t \in Tool : BeginInstall(t)
  \/ Download \/ VerifyDigest \/ ExtractMember \/ FinishInstall
  \/ KillInstall \/ CutShort \/ AgainInstall

UpstreamNext ==
  \E t \in Tool : PinTool(t) \/ \E a \in ToolArchive \cup {NoArchive} : Serve(t, a)

ToolchainInit(archive) ==
  /\ pins = [t \in Tool |-> [tool |-> t, sha256 |-> archive, format |-> archive.format]]
  /\ reviewed = {archive}
  /\ served = [t \in Tool |-> archive]
  /\ disk = << >>
  /\ installer = NoInstall

ToolchainSpec ==
  (\E a \in ToolArchive : ToolchainInit(a)) /\ [][InstallNext \/ UpstreamNext]_toolVars

-----------------------------------------------------------------------------

\* A reviewed archive has this file, and this data unless the file was cut short.
Reviewed(path, data) ==
  \E a \in reviewed : \E m \in Range(a.members) :
    m.type = "file" /\ m.name = path /\ data \in {m.data, NoArchive}

\* Whatever upstream serves and whenever it changes, and wherever earlier installs
\* were cut short: nothing outside the destination is touched, no link is made, a
\* file is one that some reviewed archive has at its path; and an install that
\* reports success has every member of a reviewed archive whole on disk, over
\* whatever was there before.
VerifiedBytesOnly ==
  /\ \A path \in DOMAIN disk :
       /\ Inside(path)
       /\ disk[path].type # "link"
       /\ disk[path].type = "file" => Reviewed(path, disk[path].data)
  /\ installer.pc = "installed" =>
       /\ installer.bytes \in reviewed
       /\ \A m \in Range(installer.bytes.members) :
            /\ m.name \in DOMAIN disk
            /\ disk[m.name] = [type |-> m.type, data |-> m.data]

=============================================================================
