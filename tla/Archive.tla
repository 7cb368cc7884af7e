------------------------------- MODULE Archive -------------------------------
(***************************************************************************)
(* The canonical source archive (scripts/source_archive.py): the tree of a *)
(* commit as tar members in one order, in stored blocks of one size, and   *)
(* the check of an archive against a commit. Every git call asks for HEAD  *)
(* anew, and a commit may come in between. A file's contents are a value   *)
(* of a known number of tar blocks, a stream is a sequence of tar blocks.  *)
(***************************************************************************)
EXTENDS Naturals, Sequences, SequencesExt, FiniteSets

CONSTANTS
  Path,           \* file paths: sequences of segments
  Width,          \* bytes of a segment, or of a symlink target
  Rank,           \* the byte order of archive paths, directories with a slash
  NameField,      \* 100
  PrefixField,    \* 155
  DEFLATE_BLOCK,  \* 65535 bytes, here in tar blocks
  Blocks,         \* tar blocks of a file's contents
  Trees,          \* the commits there may be
  FORBIDDEN,      \* paths that may not be archived, and nothing below them
  NoFile          \* no archive, no listing, no entry

GitMode == {"100644", "100755", "120000", "160000"}

\* tracked_dirs: every directory above a tracked path.
TrackedDirs(paths) == UNION {{SubSeq(p, 1, i) : i \in 1 .. Len(p) - 1} : p \in paths}

\* An archive path is that of a file or, with a slash at its end, of a directory.
ArchivePath == (Path \X {FALSE}) \cup (TrackedDirs(Path) \X {TRUE})

\* The paths a commit has.
FilesOf(c) == {p \in Path : c.files[p] # NoFile}

\* A tree of git has finitely many paths, and no path in it is a file and a directory.
ASSUME ArchiveAssumption ==
  /\ Path \subseteq Seq(DOMAIN Width)
  /\ \A d \in DOMAIN Blocks : Blocks[d] \in Nat /\ (Blocks[d] = 0 <=> d = "empty")
  /\ Rank \in [ArchivePath -> Nat]
  /\ \A a, b \in ArchivePath : Rank[a] = Rank[b] => a = b
  /\ DEFLATE_BLOCK \in Nat \ {0}
  /\ \A c \in Trees :
       /\ IsFiniteSet(FilesOf(c))
       /\ FilesOf(c) \cap TrackedDirs(FilesOf(c)) = {}
       /\ \A p \in FilesOf(c) : c.files[p].mode \in GitMode /\ c.files[p].data \in DOMAIN Blocks

VARIABLES
  head,       \* the tree HEAD names
  past,       \* the trees it has named
  archive,    \* the file it is in, or none
  build       \* a build under way

archiveVars == << head, past, archive, build >>

-----------------------------------------------------------------------------
(* What git knows of a commit. *)

\* tracked: the paths and modes, blobs and gitlinks alike.
Tracked(c) == [p \in FilesOf(c) |-> c.files[p].mode]

Forbidden(path) == \E f \in FORBIDDEN : IsPrefix(f, path)

-----------------------------------------------------------------------------
(* Members, headers and the tar stream *)

WidthOf(path, dir) ==
  FoldLeft(LAMBDA n, s : n + Width[s], 0, path) + Len(path) - 1 + (IF dir THEN 1 ELSE 0)

Splits(path, dir) ==
  {k \in 1 .. Len(path) - 1 :
     /\ WidthOf(SubSeq(path, 1, k), FALSE) <= PrefixField
     /\ WidthOf(SubSeq(path, k + 1, Len(path)), dir) <= NameField}

\* ustar_name: the whole path in the name field, else the longest prefix that
\* fits with a rest that fits.
UstarName(path, dir) ==
  IF WidthOf(path, dir) <= NameField THEN [prefix |-> << >>, name |-> path]
  ELSE LET k == CHOOSE k \in Splits(path, dir) : \A j \in Splits(path, dir) : j <= k
       IN [prefix |-> SubSeq(path, 1, k), name |-> SubSeq(path, k + 1, Len(path))]

Fits(path, dir) == WidthOf(path, dir) <= NameField \/ Splits(path, dir) # {}

Header(path, kind, mode, size, time, link) ==
  [field |-> UstarName(path, kind = "dir"), kind |-> kind, mode |-> mode, size |-> size,
   time |-> time, link |-> link, owner |-> "root", reserved |-> FALSE]

\* One file, symlink or directory as tar blocks: its header, then its contents.
MemberBlocks(header, data) ==
  << header >> \o [i \in 1 .. header.size |-> [data |-> data, part |-> i]]

EndBlock == [data |-> NoFile, part |-> 0]

IsHeader(block) == "size" \in DOMAIN block

FileKind(mode) == IF mode = "120000" THEN "link" ELSE "file"

ModeBits(mode) ==
  CASE mode = "120000" -> "0777" [] mode = "100755" -> "0755" [] OTHER -> "0644"

\* archive_tar_bytes refuses a listing with gitlinks, forbidden or unfit paths.
Archivable(listing, contents) ==
  /\ \A p \in DOMAIN listing :
       /\ listing[p] # "160000"
       /\ ~ Forbidden(p)
       /\ Fits(p, FALSE)
       /\ listing[p] = "120000" => Width[contents[p]] <= NameField
  /\ \A d \in TrackedDirs(DOMAIN listing) : ~ Forbidden(d) /\ Fits(d, TRUE)

ArchivePaths(listing) ==
  ((DOMAIN listing) \X {FALSE}) \cup (TrackedDirs(DOMAIN listing) \X {TRUE})

\* Sorted by the bytes of the path: the i-th is the one with i - 1 before it.
ExpectedOrder(listing) ==
  LET paths == ArchivePaths(listing) IN
  [i \in 1 .. Cardinality(paths) |->
     CHOOSE a \in paths : Cardinality({b \in paths : Rank[b] < Rank[a]}) = i - 1]

\* The header of an archive path; only a regular file has contents after it.
MemberHeader(a, listing, contents, time) ==
  LET p == a[1] IN
  IF a[2] THEN Header(p, "dir", "0755", 0, time, NoFile)
  ELSE IF listing[p] = "120000" THEN Header(p, "link", "0777", 0, time, contents[p])
  ELSE Header(p, "file", ModeBits(listing[p]), Blocks[contents[p]], time, NoFile)

\* archive_tar_bytes and serialize_tar.
TarStream(listing, contents, time) ==
  LET order == ExpectedOrder(listing) IN
  FlattenSeq([i \in DOMAIN order |->
                MemberBlocks(MemberHeader(order[i], listing, contents, time),
                             contents[order[i][1]])])
    \o << EndBlock, EndBlock >>

-----------------------------------------------------------------------------
(* gzip, with its contents in stored blocks *)

BlockCount(stream) == (Len(stream) + DEFLATE_BLOCK - 1) \div DEFLATE_BLOCK

BlockAt(stream, i) ==
  SubSeq(stream, (i - 1) * DEFLATE_BLOCK + 1,
         IF i * DEFLATE_BLOCK < Len(stream) THEN i * DEFLATE_BLOCK ELSE Len(stream))

\* Fault: a block that is full is taken for one that is not the last.
StoredUntilShort(stream) ==
  [i \in 1 .. BlockCount(stream) |->
     [final |-> Len(BlockAt(stream, i)) < DEFLATE_BLOCK, data |-> BlockAt(stream, i)]]

\* stored_deflate: full blocks and a rest, the last of them marked as final.
StoredDeflate(stream) ==
  [i \in 1 .. BlockCount(stream) |->
     [final |-> i = BlockCount(stream), data |-> BlockAt(stream, i)]]

\* canonical_gzip; another writer may compress the same stream in another way.
Gzip(stream) == [encoder |-> "canonical", blocks |-> StoredDeflate(stream)]

ArchiveBytes(listing, contents, time) == Gzip(TarStream(listing, contents, time))

\* Decompression reads up to the final block, and fails where there is none.
Inflate(gz) ==
  LET finals == {i \in DOMAIN gz.blocks : gz.blocks[i].final} IN
  IF finals = {} THEN << >>
  ELSE FlattenSeq([i \in 1 .. CHOOSE k \in finals : \A j \in finals : k <= j
                     |-> gz.blocks[i].data])

\* The members tarfile reads: header and contents, up to what is no header. The
\* reader stops at a stream that breaks off.
Members(gz) ==
  LET stream == Inflate(gz)
      from[i \in 1 .. Len(stream) + 1] ==
        IF i > Len(stream) \/ ~ IsHeader(stream[i]) THEN << >>
        ELSE LET h == stream[i] IN
             IF i + h.size > Len(stream) THEN << >>
             ELSE << [path |-> h.field.prefix \o h.field.name, header |-> h,
                      data |-> IF h.size = 0 THEN NoFile ELSE stream[i + 1].data] >>
                  \o from[i + h.size + 1]
  IN from[1]

-----------------------------------------------------------------------------
(* validate *)

\* What a member must be for a listing and the contents of the files in it.
MemberValid(m, listing, contents, time) ==
  LET h == m.header IN
  /\ h.owner = "root" /\ h.time = time
  /\ ~ Forbidden(m.path)
  /\ CASE h.kind = "dir" -> m.path \in TrackedDirs(DOMAIN listing) /\ h.mode = "0755"
       [] h.kind \in {"file", "link"} ->
            /\ m.path \in DOMAIN listing
            /\ h.kind = FileKind(listing[m.path])
            /\ h.mode = ModeBits(listing[m.path])
            /\ IF h.kind = "link" THEN h.link = contents[m.path]
               ELSE h.size = Blocks[contents[m.path]] /\ (h.size > 0 => m.data = contents[m.path])
       [] OTHER -> FALSE

Valid(gz, listing, contents, time) ==
  LET members == Members(gz) IN
  /\ \A p \in DOMAIN listing : listing[p] # "160000" /\ ~ Forbidden(p)
  /\ \A i \in DOMAIN members : MemberValid(members[i], listing, contents, time)
  /\ \A i, j \in DOMAIN members : members[i].path = members[j].path => i = j
  /\ [i \in DOMAIN members |-> << members[i].path, members[i].header.kind = "dir" >>] =
       ExpectedOrder(listing)

\* canonical_errors: the very bytes that a build of this commit writes.
CanonicalFor(gz, listing, contents, time) ==
  /\ Archivable(listing, contents)
  /\ gz = ArchiveBytes(listing, contents, time)

-----------------------------------------------------------------------------
(* build: four passes over HEAD, each a listing followed by the contents and the *)
(* time: encode, encode again, validate what was written, encode and compare.    *)
(* Whether HEAD has moved since (still), and in the middle of which passes       *)
(* (torn), is history.                                                           *)

NoBuild == [pass |-> 0, listing |-> NoFile, first |-> NoFile, errors |-> FALSE,
            outcome |-> "none", still |-> TRUE, torn |-> {}]

StartBuild ==
  /\ build.pass = 0
  /\ build' = [NoBuild EXCEPT !.pass = 1, !.outcome = "building"]
  /\ UNCHANGED << head, past, archive >>

ListTree ==
  /\ build.pass # 0 /\ build.listing = NoFile
  /\ build' = [build EXCEPT !.listing = Tracked(head)]
  /\ UNCHANGED << head, past, archive >>

Contents(c) == [p \in Path |-> IF c.files[p] = NoFile THEN NoFile ELSE c.files[p].data]

\* A path that was listed and is gone is a failing git call.
Readable(listing) == \A p \in DOMAIN listing : head.files[p] # NoFile

Ended(outcome) ==
  [NoBuild EXCEPT !.outcome = outcome, !.still = build.still, !.torn = build.torn]

NextPass == [build EXCEPT !.pass = @ + 1, !.listing = NoFile]

\* What a pass makes of the listing it has and of HEAD as it is now. Errors found in
\* the archive remove it; a failing git call while it is validated does not.
ReadTree ==
  /\ build.listing # NoFile
  /\ LET listing == build.listing
         encodes == Readable(listing) /\ Archivable(listing, Contents(head))
         bytes == ArchiveBytes(listing, Contents(head), head.time)
     IN \/ /\ build.pass = 1
           /\ build' = IF encodes THEN [NextPass EXCEPT !.first = bytes] ELSE Ended("refused")
           /\ UNCHANGED archive
        \/ /\ build.pass = 2
           /\ IF encodes /\ bytes = build.first
              THEN archive' = bytes /\ build' = NextPass
              ELSE UNCHANGED archive /\ build' = Ended("refused")
        \/ /\ build.pass = 3
           /\ build' = IF Readable(listing)
                       THEN [NextPass EXCEPT
                               !.errors = ~ Valid(archive, listing, Contents(head), head.time)]
                       ELSE Ended("refused")
           /\ UNCHANGED archive
        \/ /\ build.pass = 4
           /\ IF ~ build.errors /\ encodes /\ bytes = archive
              THEN UNCHANGED archive /\ build' = Ended("built")
              ELSE archive' = NoFile /\ build' = Ended("refused")
  /\ UNCHANGED << head, past >>

\* The process is killed; an archive already written stays.
KillBuild ==
  /\ build.pass # 0
  /\ build' = Ended("none")
  /\ UNCHANGED << head, past, archive >>

\* A developer commits; a local run does not notice.
MoveHead(c) ==
  /\ c \notin past
  /\ head' = c /\ past' = past \cup {c}
  /\ build' = [build EXCEPT !.still = FALSE,
                            !.torn = IF build.listing = NoFile THEN @ ELSE @ \cup {build.pass}]
  /\ UNCHANGED archive

\* source_archive.py --check.
Checked(gz, c) ==
  /\ Valid(gz, Tracked(c), Contents(c), c.time)
  /\ CanonicalFor(gz, Tracked(c), Contents(c), c.time)

\* Another tool writes the archive again: with a member less, twice, moved or
\* altered, or with the same members compressed in another way or cut short. Bound: an
\* archive is altered as it was built, and not again.
Rewritten(gz) ==
  LET members == Members(gz)
      stream(ms) == FlattenSeq([i \in DOMAIN ms |-> MemberBlocks(ms[i].header, ms[i].data)])
                      \o << EndBlock, EndBlock >>
      altered(m) == {[m EXCEPT !.header.mode = "0755"], [m EXCEPT !.header.time = @ + 1],
                     [m EXCEPT !.header.owner = "user"], [m EXCEPT !.header.kind = "fifo"],
                     [m EXCEPT !.header.reserved = TRUE], [m EXCEPT !.header.link = "other"],
                     [m EXCEPT !.data = "other"]}
      edited == {RemoveAt(members, i) : i \in DOMAIN members} \cup
                {Append(members, m) : m \in UNION {altered(members[i]) : i \in DOMAIN members}} \cup
                UNION {{ReplaceAt(members, i, m) : m \in altered(members[i])} : i \in DOMAIN members} \cup
                {Reverse(members)}
  IN {Gzip(stream(ms)) : ms \in edited} \cup
     {[gz EXCEPT !.encoder = "other"], [gz EXCEPT !.blocks = Front(@)]}

Tamper ==
  /\ build.pass = 0 /\ archive # NoFile
  /\ \E c \in past : Checked(archive, c)
  /\ \E gz \in Rewritten(archive) : archive' = gz
  /\ build' = [build EXCEPT !.outcome = "tampered"]
  /\ UNCHANGED << head, past >>

ArchiveNext ==
  StartBuild \/ ListTree \/ ReadTree \/ KillBuild \/ Tamper \/ \E c \in Trees : MoveHead(c)

ArchiveInit ==
  /\ head \in Trees /\ past = {head}
  /\ archive = NoFile
  /\ build = NoBuild

ArchiveSpec == ArchiveInit /\ [][ArchiveNext]_archiveVars

-----------------------------------------------------------------------------

\* What a checkout of c has on disk.
CheckedOut(c) ==
  LET paths == DOMAIN Tracked(c) IN
  [p \in paths \cup TrackedDirs(paths) |->
     IF p \notin paths THEN [kind |-> "dir", mode |-> "0755", data |-> NoFile]
     ELSE [kind |-> FileKind(c.files[p].mode), mode |-> ModeBits(c.files[p].mode),
           data |-> c.files[p].data]]

\* What unpacking leaves on disk: of two members of one path, the later one.
Unpacked(gz) ==
  LET members == Members(gz)
      last(p) == CHOOSE i \in DOMAIN members :
                   members[i].path = p /\ \A j \in DOMAIN members : members[j].path = p => j <= i
  IN [p \in {members[i].path : i \in DOMAIN members} |->
        LET m == members[last(p)] IN
        [kind |-> m.header.kind, mode |-> m.header.mode,
         data |-> CASE m.header.kind = "link" -> m.header.link
                    [] m.header.kind = "file" /\ m.header.size = 0 -> "empty"
                    [] OTHER -> m.data]]

\* An archive that passes --check unpacks to the checkout of its commit, whatever was
\* done to the file; one that a build leaves behind is that of one commit, unless
\* another commit came in the middle of each of its four passes; and a build of a
\* commit that stays is refused only for what the policy names, never because encoder
\* and validator disagree at a boundary.
AcceptedArchiveUnpacks ==
  /\ \A c \in past : archive # NoFile /\ Checked(archive, c) => Unpacked(archive) = CheckedOut(c)
  /\ build.outcome = "built" /\ ~ (1 .. 4 \subseteq build.torn)
       => \E c \in past : Checked(archive, c)
  /\ build.outcome = "refused" /\ build.still => ~ Archivable(Tracked(head), Contents(head))

=============================================================================
