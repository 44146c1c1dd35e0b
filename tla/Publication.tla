----------------------------- MODULE Publication -----------------------------
(***************************************************************************)
(* The release of the application images: commits and version tags, the    *)
(* publish function (dagger/src/index.ts) run by the tag's pipeline or by  *)
(* hand (scripts/validate-app-publication.ts), and the registry's          *)
(* references.  Several runs may overlap, and each may fail anywhere.      *)
(*                                                                         *)
(* What is committed is a checkout as a dependency update leaves it        *)
(* (DependencyUpdate), finished or cut off after any number of its writes. *)
(***************************************************************************)
EXTENDS DependencyUpdate

CONSTANTS
  Cuts,         \* bound: how many writes of an update a checkout may have seen
  MaxCommits,   \* bound: commits
  MaxVersions,  \* bound: stable version tags
  MaxJobs       \* bound: runs of publish

ASSUME PublicationAssumption ==
  /\ 0 \in Cuts /\ Cuts \subseteq 0..Len(Order)
  /\ MaxCommits \in Nat \ {0} /\ MaxVersions \in Nat \ {0} /\ MaxJobs \in Nat

VARIABLES
  commits,    \* the commits of the repository; the last one is checked out
  worktree,   \* the files as they lie in the checkout, committed or not
  tags,       \* the commit of each version, 0 while it has no tag
  jobs,       \* the runs of publish
  immutable,  \* the image of each version and variant
  rolling,    \* the images of `latest` and `full`
  published   \* observer: every image an immutable reference ever named

publicationVars == <<commits, worktree, tags, jobs, immutable, rolling, published>>

Variants == {"core", "full"}
Versions == 1..MaxVersions
NoImage == [job |-> 0, version |-> 0, variant |-> "none", revision |-> 0, source |-> <<>>]

\* The checkout after the first n writes of an update of every source.
MovedPins == [s \in Packages \union {"bridge"} |->
                IF s = "bridge" THEN [revision |-> 2, digest |-> 2] ELSE 2]
AfterWrites(n) == [f \in Files |->
  Rendered(f, IF \E i \in 1..n : Order[i] = f THEN MovedPins ELSE FirstPins)]
Checkouts == { AfterWrites(n) : n \in Cuts }

PublicationInit ==
  /\ commits = <<AfterWrites(0)>> /\ worktree = AfterWrites(0)
  /\ tags = [v \in Versions |-> 0]
  /\ jobs = <<>>
  /\ immutable = [v \in Versions |-> [c \in Variants |-> NoImage]]
  /\ rolling = [c \in Variants |-> NoImage]
  /\ published = {}

-----------------------------------------------------------------------------
(* The maintainer.                                                          *)
Edit ==
  /\ \E files \in Checkouts \ {worktree} : worktree' = files
  /\ UNCHANGED <<commits, tags, jobs, immutable, rolling, published>>

Commit ==
  /\ Len(commits) < MaxCommits /\ worktree # Last(commits)
  /\ commits' = Append(commits, worktree)
  /\ UNCHANGED <<worktree, tags, jobs, immutable, rolling, published>>

\* Versions are tagged in order; a tag is never moved.
Tag(v) ==
  /\ tags[v] = 0 /\ \A u \in 1..(v - 1) : tags[u] # 0
  /\ tags' = [tags EXCEPT ![v] = Len(commits)]
  /\ UNCHANGED <<commits, worktree, jobs, immutable, rolling, published>>

-----------------------------------------------------------------------------
(* publish.                                                                 *)
Job(v, files) ==
  [version |-> v, revision |-> tags[v], source |-> files,
   stage |-> "building", pushed |-> {}, rolled |-> {}]

\* .woodpecker: the pipeline of a tag clones its commit; it may be restarted.
PublishFromPipeline(v) ==
  /\ tags[v] # 0 /\ Len(jobs) < MaxJobs
  /\ jobs' = Append(jobs, Job(v, commits[tags[v]]))
  /\ UNCHANGED <<commits, worktree, tags, immutable, rolling, published>>

(* just publish-app-images: the tag must name the commit checked out; what  *)
(* is built is the working tree.                                            *)
PublishByHand(v) ==
  /\ tags[v] # 0 /\ tags[v] = Len(commits) /\ Len(jobs) < MaxJobs
  /\ jobs' = Append(jobs, Job(v, worktree))
  /\ UNCHANGED <<commits, worktree, tags, immutable, rolling, published>>

Image(j, c) ==
  [job |-> j, version |-> jobs[j].version, variant |-> c,
   revision |-> jobs[j].revision, source |-> jobs[j].source]

\* The plugins an image has: the image build installs the pinned versions.
Installed(files, c) ==
  Restrict(files["plugin-inputs"], IF c = "core" THEN {"plugins"} ELSE {"plugins", "hindsight"})

\* The plugins its capability manifest names.
Declared(files, c) ==
  LET manifest == files[IF c = "core" THEN "capabilities.core" ELSE "capabilities.full"]
  IN [s \in DOMAIN manifest \ {"runtime"} |-> manifest[s]]

\* Mistaken: only what the images declare of themselves is looked at.
InspectedImagesOnly(files) ==
  \A c \in Variants : Declared(files, c) = Installed(files, c)

\* inspectApplications: both images, and the artifacts they were built from.
Inspected(files) ==
  /\ \A c \in Variants : Declared(files, c) = Installed(files, c)
  /\ Validates(files)

\* application, twice, and inspectApplications.
Build(j) ==
  /\ jobs[j].stage = "building"
  /\ jobs' = [jobs EXCEPT ![j].stage = IF Inspected(jobs[j].source) THEN "publishing" ELSE "failed"]
  /\ UNCHANGED <<commits, worktree, tags, immutable, rolling, published>>

PushImmutable(j, c) ==
  /\ jobs[j].stage = "publishing" /\ c \notin jobs[j].pushed
  /\ immutable' = [immutable EXCEPT ![jobs[j].version][c] = Image(j, c)]
  /\ published' = published \union {Image(j, c)}
  /\ jobs' = [jobs EXCEPT ![j].pushed = @ \union {c}]
  /\ UNCHANGED <<commits, worktree, tags, rolling>>

\* Mistaken: a rolling tag follows its own immutable image.
MayRollEach(j, c) == c \in jobs[j].pushed

\* Promise.all over both immutable pushes comes first.
MayRoll(j, c) == jobs[j].pushed = Variants

PushRolling(j, c) ==
  /\ jobs[j].stage = "publishing" /\ MayRoll(j, c) /\ c \notin jobs[j].rolled
  /\ rolling' = [rolling EXCEPT ![c] = Image(j, c)]
  /\ jobs' = [jobs EXCEPT ![j].rolled = @ \union {c},
                          ![j].stage = IF jobs[j].rolled \union {c} = Variants THEN "done" ELSE @]
  /\ UNCHANGED <<commits, worktree, tags, immutable, published>>

\* A build, the registry or the machine fails.
JobFails(j) ==
  /\ jobs[j].stage \in {"building", "publishing"}
  /\ jobs' = [jobs EXCEPT ![j].stage = "failed"]
  /\ UNCHANGED <<commits, worktree, tags, immutable, rolling, published>>

PublicationNext ==
  \/ Edit \/ Commit
  \/ \E v \in Versions : Tag(v) \/ PublishFromPipeline(v) \/ PublishByHand(v)
  \/ \E j \in DOMAIN jobs :
       \/ Build(j) \/ JobFails(j)
       \/ \E c \in Variants : PushImmutable(j, c) \/ PushRolling(j, c)

PublicationSpec == PublicationInit /\ [][PublicationNext]_publicationVars

-----------------------------------------------------------------------------
(* Whoever follows a rolling tag gets an image of a complete release: both  *)
(* variants of its run were published under their versions before           *)
(* (dagger/src/index.ts:243-250, docs/release.md "Rolling tags").           *)
RollingIsReleased ==
  \A c \in Variants : rolling[c].job # 0 =>
    \A d \in Variants : Image(rolling[c].job, d) \in published

(* The manifests, notices and lock that went into a published image agree   *)
(* with what was installed in it, also when a half-finished update was      *)
(* committed or lay in the working tree (dagger/src/index.ts:270-290).      *)
PublishedAgrees ==
  \A i \in published :
    /\ i.source["lock"] = i.source["runtime-package"]
    /\ \A f \in {"capabilities.core", "capabilities.full", "notices"} :
         \A s \in Records[f] : i.source[f][s] = Pins(i.source)[s]
    /\ Restrict(i.source["sbom"], {"plugins", "hindsight"}) = i.source["plugin-inputs"]

(* What users install is a whole release (dagger/src/index.ts:243-290).     *)
ReleasesWhole == RollingIsReleased /\ PublishedAgrees
=============================================================================
