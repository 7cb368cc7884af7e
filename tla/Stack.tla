-------------------------------- MODULE Stack --------------------------------
(***************************************************************************)
(* Stack releases (scripts/verify_stack_release.py): a stack manifest that *)
(* pins the release manifests of several packages by their hashes, and the *)
(* edges between them. Packages are released while a stack is put together, *)
(* and what a verifier has at hand comes and goes. A hash is the position  *)
(* of the manifest in the order of publication: a manifest can only name   *)
(* the hash of one that exists.                                            *)
(***************************************************************************)
EXTENDS Naturals, Sequences, SequencesExt, FiniteSets

CONSTANTS
  Package,
  PackageVersion,
  Tarball,        \* hashes of tarballs
  NoDirectory     \* no tarball-dir given

VARIABLES
  manifests,    \* published release manifests: package, version, dependencies
  manifestDir,  \* the hashes of the files in manifest-dir
  tarballDir,   \* the hashes of the files in tarball-dir
  entries,      \* the packages of the stack manifest, in order
  edges         \* its dependency_edges

stackVars == << manifests, manifestDir, tarballDir, entries, edges >>

\* What a manifest can say that its package was built against.
Dependency == [package : Package, version : PackageVersion, manifest : DOMAIN manifests]

-----------------------------------------------------------------------------
(* Verification *)

\* by_name: of two entries for one package the first.
EntryOf(package) == entries[SelectInSeq(entries, LAMBDA e : e.package = package)]

Listed == {entries[i].package : i \in DOMAIN entries}

\* The manifest of an entry is the file with its hash, whatever it is called.
EntryResolves(e) ==
  /\ e.manifest \in manifestDir
  /\ manifests[e.manifest].package = e.package
  /\ manifests[e.manifest].version = e.version
  /\ tarballDir # NoDirectory => e.tarball \in tarballDir

\* What the consumer's manifest says that it was built against.
DeclaredByConsumer(edge) ==
  \E d \in manifests[EntryOf(edge.consumer).manifest].dependencies :
    d.package = edge.provider /\ d.version = edge.version /\ d.manifest = edge.manifest

\* Fault: the consumer's manifest is asked, and not the stack.
EdgeDeclared(edge) ==
  /\ {edge.consumer, edge.provider} \subseteq Listed
  /\ DeclaredByConsumer(edge)

EdgeResolves(edge) ==
  /\ {edge.consumer, edge.provider} \subseteq Listed
  /\ edge.manifest = EntryOf(edge.provider).manifest
  /\ DeclaredByConsumer(edge)

Verified ==
  /\ \A i, j \in DOMAIN entries : entries[i].package = entries[j].package => i = j
  /\ \A i \in DOMAIN entries : EntryResolves(entries[i])
  /\ \A edge \in edges : EdgeResolves(edge)

-----------------------------------------------------------------------------

\* A package is released, built against the manifests it names; what it says of
\* them, their package and version, is typed by hand.
PublishManifest(package, version, dependencies) ==
  /\ dependencies \subseteq Dependency
  /\ manifests' = Append(manifests, [package |-> package, version |-> version,
                                     dependencies |-> dependencies])
  /\ manifestDir' = manifestDir \cup {Len(manifests) + 1}
  /\ UNCHANGED << tarballDir, entries, edges >>

\* A release is entered in the stack, under its name or another one.
EnterPackage(package, hash, tarball) ==
  /\ hash \in DOMAIN manifests
  /\ entries' = Append(entries, [package |-> package, version |-> manifests[hash].version,
                                 manifest |-> hash, tarball |-> tarball])
  /\ UNCHANGED << manifests, manifestDir, tarballDir, edges >>

\* The entry follows a later release; the edges are not touched.
UpdateEntry(i, hash) ==
  /\ i \in DOMAIN entries /\ hash \in DOMAIN manifests \ {entries[i].manifest}
  /\ entries' = [entries EXCEPT ![i].manifest = hash, ![i].version = manifests[hash].version]
  /\ UNCHANGED << manifests, manifestDir, tarballDir, edges >>

\* An edge is copied from what a manifest declares.
EnterEdge(consumer, hash) ==
  /\ hash \in DOMAIN manifests
  /\ \E d \in manifests[hash].dependencies :
       edges' = edges \cup {[consumer |-> consumer, provider |-> d.package,
                             version |-> d.version, manifest |-> d.manifest]}
  /\ UNCHANGED << manifests, manifestDir, tarballDir, entries >>

\* A file of the verifier's directory is lost, or found.
FetchManifest(hash) ==
  /\ hash \in DOMAIN manifests
  /\ manifestDir' = (manifestDir \ {hash}) \cup ({hash} \ manifestDir)
  /\ UNCHANGED << manifests, tarballDir, entries, edges >>

ChooseTarballs(directory) ==
  /\ tarballDir' = directory
  /\ UNCHANGED << manifests, manifestDir, entries, edges >>

StackInit ==
  /\ manifests = << >> /\ manifestDir = {}
  /\ tarballDir \in {NoDirectory, Tarball}
  /\ entries = << >> /\ edges = {}

StackNext ==
  \/ \E package \in Package, version \in PackageVersion, dependencies \in SUBSET Dependency :
       PublishManifest(package, version, dependencies)
  \/ \E package \in Package, hash \in DOMAIN manifests, tarball \in Tarball :
       EnterPackage(package, hash, tarball)
  \/ \E i \in DOMAIN entries, hash \in DOMAIN manifests : UpdateEntry(i, hash)
  \/ \E package \in Package, hash \in DOMAIN manifests : EnterEdge(package, hash)
  \/ \E hash \in DOMAIN manifests : FetchManifest(hash)
  \/ \E directory \in SUBSET Tarball : ChooseTarballs(directory)

StackSpec == StackInit /\ [][StackNext]_stackVars

-----------------------------------------------------------------------------

\* However packages were released again while the stack was put together: in a
\* stack that verifies, each package is there once, the consumer of every edge was
\* built against the very manifest that the stack has for the provider, that
\* manifest is at hand and is the provider's, and no package rests on itself,
\* through others or directly.
AcceptedStackIsBound ==
  Verified =>
    /\ \A package \in Listed : Cardinality({i \in DOMAIN entries : entries[i].package = package}) = 1
    /\ \A edge \in edges :
         LET consumer == EntryOf(edge.consumer).manifest
             provider == EntryOf(edge.provider).manifest
         IN /\ provider \in {d.manifest : d \in manifests[consumer].dependencies}
            /\ provider \in manifestDir /\ manifests[provider].package = edge.provider
            /\ provider < consumer

=============================================================================
