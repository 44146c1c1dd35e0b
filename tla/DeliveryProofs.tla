--------------------------- MODULE DeliveryProofs ---------------------------
(***************************************************************************)
(* Proofs about delivery, for any number of releases, builds, commits,     *)
(* tags, runs and starts: the container runs on the override it was given, *)
(* users get whole releases, and a finished update agrees with itself and  *)
(* the registries.                                                         *)
(***************************************************************************)
EXTENDS MCDelivery, TLAPS

(* The container.  Settings under copy are this start's own, and there was  *)
(* nothing of the owner's to replace.                                       *)
SettingsInv ==
  /\ OverrideWhole
  /\ phase = "copying" => origin = boots /\ ~edited

LEMMA SettingsStep ==
  ASSUME SettingsInv, [ContainerNext]_containerVars
  PROVE  SettingsInv'
<1> USE DEF SettingsInv, OverrideWhole, PastSettings
<1>1. CASE UNCHANGED <<settings, origin, edited, override, boots>> /\ phase' = phase
  BY <1>1
<1>2. CASE UNCHANGED <<settings, origin, edited>> /\ phase' \in {"down", "seeding", "settings", "refused", "running", "exited"}
  BY <1>2
<1>3. ASSUME NEW wanted, Boot(wanted) PROVE SettingsInv'
  BY <1>2, <1>3 DEF Boot, Enter, volumeVars
<1>4. ASSUME NEW item \in Seed, CopySeed(item) PROVE SettingsInv'
  BY <1>1, <1>4 DEF CopySeed, startVars
<1>5. CASE CopySettings
  <2>1. UNCHANGED <<edited, override, boots>>
    BY <1>5 DEF CopySettings, startVars
  <2>2. CASE override = "none" /\ phase' = "linking" /\ UNCHANGED <<settings, origin>>
    BY <1>5, <2>1, <2>2
  <2>3. CASE phase' = "refused" /\ UNCHANGED <<settings, origin>>
    BY <1>2, <2>1, <2>3
  <2>4. CASE settings \in {"none", "empty"} /\ Copy
    BY <2>1, <2>4 DEF Copy
  <2> QED BY <1>5, <2>2, <2>3, <2>4 DEF CopySettings
<1>6. CASE GrowSettings
  BY <1>6 DEF GrowSettings, startVars
<1>7. CASE LinkRuntime
  BY <1>7 DEF LinkRuntime, startVars
<1>8. CASE OwnerEdits
  BY <1>8 DEF OwnerEdits, startVars
<1>9. CASE CheckEnvironment
  BY <1>9 DEF CheckEnvironment, entryVars, volumeVars, startVars
<1>10. CASE Seeded \/ Kill \/ Launch \/ LauncherExits
  BY <1>2, <1>10 DEF Seeded, Kill, Launch, LauncherExits, entryVars, volumeVars
<1>11. CASE UNCHANGED <<entryVars, phase>>
  BY <1>1, <1>11 DEF entryVars, volumeVars, startVars
<1> QED BY <1>3, <1>4, <1>5, <1>6, <1>7, <1>8, <1>9, <1>10, <1>11
        DEF ContainerNext, Shutdown, Signal, SpawnError, ChildExits, Accept, Connected, PairCloses,
            SocketCloses, Linking, containerVars

(* A start that is given an override gets to DSH only on the whole of it,   *)
(* however many starts and copies were cut off before, and no override ever *)
(* replaces what the owner wrote (entrypoint.sh:29-44).                     *)
THEOREM OverridesWhole == ContainerSpec => []OverrideWhole
<1>1. ContainerInit => SettingsInv
  BY DEF ContainerInit, SettingsInv, OverrideWhole, PastSettings
<1>2. SettingsInv => OverrideWhole
  BY DEF SettingsInv
<1> QED BY <1>1, <1>2, SettingsStep, PTL DEF ContainerSpec

-----------------------------------------------------------------------------
(* Publication.  What makes a release whole is that publish pushes nothing  *)
(* before it inspected both images, and rolls nothing before both immutable *)
(* references of its own run were pushed.                                   *)
Jobs == [version : Versions, revision : Nat, source : Checkouts,
         stage : {"building", "publishing", "failed", "done"},
         pushed : SUBSET Variants, rolled : SUBSET Variants]

PublicationTypes ==
  /\ commits \in Seq(Checkouts) /\ worktree \in Checkouts
  /\ tags \in [Versions -> Nat] /\ \A v \in Versions : tags[v] =< Len(commits)
  /\ jobs \in Seq(Jobs)
  /\ DOMAIN rolling = Variants

PushedWhenInspected ==
  /\ \A j \in DOMAIN jobs :
       /\ jobs[j].stage \in {"publishing", "done"} => Inspected(jobs[j].source)
       /\ \A c \in jobs[j].pushed : Image(j, c) \in published
  /\ \A i \in published : i.source \in Checkouts /\ Inspected(i.source)

RolledWhenPushed ==
  \A c \in Variants : rolling[c].job # 0 =>
    rolling[c].job \in DOMAIN jobs /\ jobs[rolling[c].job].pushed = Variants

PublicationInv == PublicationTypes /\ PushedWhenInspected /\ RolledWhenPushed

(* What is built is a checkout an update may leave, so what it installs is  *)
(* what plugin-inputs says of both plugins and nothing else.                *)
LEMMA RecordsOf ==
  /\ Files = {"capabilities.core", "capabilities.full", "notices", "plugin-inputs", "memory-images",
              "runtime-package", "inventory", "lock", "license", "sbom"}
  /\ Records["capabilities.core"] = {"runtime", "plugins"}
  /\ Records["capabilities.full"] = {"runtime", "plugins", "hindsight"}
  /\ Records["notices"] = {"plugins", "hindsight"}
  /\ Records["plugin-inputs"] = {"plugins", "hindsight"}
  /\ Records["memory-images"] = {"bridge"}
  /\ Records["inventory"] = {"bridge"}
  /\ Records["runtime-package"] = {"runtime"}
  /\ Records["lock"] = {"runtime"}
  /\ Records["license"] = {"hindsight"}
  /\ Records["sbom"] = {"runtime", "plugins", "hindsight"}
<1>1. Files = {"capabilities.core", "capabilities.full", "notices", "plugin-inputs", "memory-images",
               "runtime-package", "inventory", "lock", "license", "sbom"}
  BY DEF Files, ToSet, Order
<1> QED BY <1>1 DEF Records

LEMMA CheckoutOf ==
  ASSUME NEW files \in Checkouts
  PROVE  files["plugin-inputs"] = [s \in {"plugins", "hindsight"} |-> files["plugin-inputs"][s]]
<1>1. PICK n \in Cuts : files = AfterWrites(n)
  BY DEF Checkouts
<1>2. "plugin-inputs" \in Files
  BY RecordsOf
<1> QED BY <1>1, <1>2, RecordsOf DEF AfterWrites, Rendered, Restrict

LEMMA InspectedAgrees ==
  ASSUME NEW files \in Checkouts, Inspected(files)
  PROVE  /\ files["lock"] = files["runtime-package"]
         /\ \A f \in {"capabilities.core", "capabilities.full", "notices"} :
              \A s \in Records[f] : files[f][s] = Pins(files)[s]
         /\ Restrict(files["sbom"], {"plugins", "hindsight"}) = files["plugin-inputs"]
<1>1. Validates(files)
  BY DEF Inspected
<1>2. ASSUME NEW f \in {"capabilities.core", "capabilities.full", "notices"}, NEW s \in Records[f]
      PROVE  files[f][s] = Pins(files)[s]
  BY <1>1, <1>2 DEF Validates, Rendered, Restrict
<1>3. Restrict(files["sbom"], {"plugins", "hindsight"})
        = [s \in {"plugins", "hindsight"} |-> files["plugin-inputs"][s]]
  BY <1>1 DEF Validates, Restrict
<1>4. files["plugin-inputs"] = [s \in {"plugins", "hindsight"} |-> files["plugin-inputs"][s]]
  BY CheckoutOf
<1> QED BY <1>1, <1>2, <1>3, <1>4 DEF Validates

LEMMA JobTypes ==
  ASSUME NEW list \in Seq(Jobs), NEW j \in DOMAIN list
  PROVE  list[j] \in Jobs /\ list[j].pushed \subseteq Variants
<1>1. list[j] \in Jobs
  OBVIOUS
<1> QED BY <1>1 DEF Jobs

LEMMA PublicationStart == PublicationInit => PublicationInv
<1> SUFFICES ASSUME PublicationInit PROVE PublicationInv
  OBVIOUS
<1>1. AfterWrites(0) \in Checkouts
  BY PublicationAssumption DEF Checkouts
<1>2. commits \in Seq(Checkouts) /\ Len(commits) = 1 /\ worktree \in Checkouts
  BY <1>1 DEF PublicationInit
<1>3. jobs \in Seq(Jobs) /\ DOMAIN jobs = {} /\ tags \in [Versions -> Nat]
  BY DEF PublicationInit
<1>4. PublicationTypes
  BY <1>2, <1>3 DEF PublicationInit, PublicationTypes
<1> QED BY <1>3, <1>4 DEF PublicationInit, PublicationInv, PushedWhenInspected, RolledWhenPushed, NoImage

(* The steps that touch no run.                                             *)
LEMMA MaintainerStep ==
  ASSUME PublicationInv, Edit \/ Commit \/ \E v \in Versions : Tag(v)
  PROVE  PublicationInv'
<1>1. UNCHANGED <<jobs, rolling, published>>
  BY DEF Edit, Commit, Tag
<1>2. PushedWhenInspected' /\ RolledWhenPushed'
  BY <1>1 DEF PublicationInv, PushedWhenInspected, RolledWhenPushed, Image
<1>3. CASE Edit
  BY <1>1, <1>2, <1>3 DEF Edit, PublicationInv, PublicationTypes
<1>4. CASE Commit
  <2>1. commits' \in Seq(Checkouts) /\ Len(commits') = Len(commits) + 1
    BY <1>4 DEF Commit, PublicationInv, PublicationTypes
  <2>2. tags' = tags /\ worktree' = worktree /\ Len(commits) \in Nat
    BY <1>4 DEF Commit, PublicationInv, PublicationTypes
  <2> QED BY <1>1, <1>2, <2>1, <2>2 DEF PublicationInv, PublicationTypes
<1>5. ASSUME NEW v \in Versions, Tag(v) PROVE PublicationInv'
  <2>1. Len(commits) \in Nat
    BY DEF PublicationInv, PublicationTypes
  <2> QED BY <1>1, <1>2, <1>5, <2>1 DEF Tag, PublicationInv, PublicationTypes
<1> QED BY <1>3, <1>4, <1>5

(* A run begins: it is building, and has pushed nothing.                    *)
LEMMA BeginStep ==
  ASSUME PublicationInv, NEW v \in Versions, PublishFromPipeline(v) \/ PublishByHand(v)
  PROVE  PublicationInv'
<1>1. PICK files : files \in Checkouts /\ jobs' = Append(jobs, Job(v, files))
  <2>1. CASE PublishByHand(v)
    BY <2>1 DEF PublishByHand, PublicationInv, PublicationTypes
  <2>2. CASE PublishFromPipeline(v)
    <3>1. tags[v] \in 1..Len(commits)
      BY <2>2 DEF PublishFromPipeline, PublicationInv, PublicationTypes
    <3>2. commits[tags[v]] \in Checkouts
      BY <3>1 DEF PublicationInv, PublicationTypes
    <3> QED BY <2>2, <3>2 DEF PublishFromPipeline
  <2> QED BY <2>1, <2>2
<1>2. UNCHANGED <<commits, worktree, tags, immutable, rolling, published>>
  BY DEF PublishFromPipeline, PublishByHand
<1>3. Job(v, files) \in Jobs
  BY <1>1 DEF Job, Jobs, PublicationInv, PublicationTypes
<1>4. /\ jobs' \in Seq(Jobs) /\ Len(jobs) \in Nat
      /\ DOMAIN jobs = 1..Len(jobs) /\ DOMAIN jobs' = 1..(Len(jobs) + 1)
      /\ \A j \in DOMAIN jobs : jobs'[j] = jobs[j]
      /\ jobs'[Len(jobs) + 1] = Job(v, files)
  BY <1>1, <1>3 DEF PublicationInv, PublicationTypes
<1>5. \A j \in DOMAIN jobs, c \in Variants : Image(j, c)' = Image(j, c)
  BY <1>4 DEF Image
<1>6. PublicationTypes'
  BY <1>2, <1>4 DEF PublicationInv, PublicationTypes
<1>7. PushedWhenInspected'
  <2>1. ASSUME NEW j \in DOMAIN jobs'
        PROVE  /\ jobs'[j].stage \in {"publishing", "done"} => Inspected(jobs'[j].source)
               /\ \A c \in jobs'[j].pushed : Image(j, c)' \in published
    <3>1. CASE j \in DOMAIN jobs
      <4>1. jobs[j].pushed \subseteq Variants
        BY <3>1, JobTypes DEF PublicationInv, PublicationTypes
      <4> QED BY <1>4, <1>5, <3>1, <4>1 DEF PublicationInv, PushedWhenInspected
    <3>2. CASE j = Len(jobs) + 1
      BY <1>4, <3>2 DEF Job
    <3> QED BY <1>4, <3>1, <3>2
  <2>2. \A i \in published : i.source \in Checkouts /\ Inspected(i.source)
    BY DEF PublicationInv, PushedWhenInspected
  <2> QED BY <1>2, <2>1, <2>2 DEF PushedWhenInspected
<1>8. RolledWhenPushed'
  BY <1>2, <1>4 DEF PublicationInv, RolledWhenPushed
<1> QED BY <1>6, <1>7, <1>8 DEF PublicationInv

(* A run goes on: what it builds stays what it was begun with.              *)
LEMMA RunStep ==
  ASSUME PublicationInv, NEW j \in DOMAIN jobs,
         Build(j) \/ JobFails(j) \/ \E c \in Variants : PushImmutable(j, c) \/ PushRolling(j, c)
  PROVE  PublicationInv'
<1>1. /\ jobs \in Seq(Jobs) /\ jobs[j] \in Jobs /\ \A k \in DOMAIN jobs : jobs[k] \in Jobs
      /\ UNCHANGED <<commits, worktree, tags>>
  <2>1. jobs \in Seq(Jobs)
    BY DEF PublicationInv, PublicationTypes
  <2>2. UNCHANGED <<commits, worktree, tags>>
    BY DEF Build, JobFails, PushImmutable, PushRolling
  <2> QED BY <2>1, <2>2, JobTypes
<1>2. PICK next : next \in Jobs /\ jobs' = [jobs EXCEPT ![j] = next]
                  /\ next.version = jobs[j].version /\ next.revision = jobs[j].revision
                  /\ next.source = jobs[j].source /\ jobs[j].pushed \subseteq next.pushed
                  /\ (next.stage \in {"publishing", "done"} =>
                        jobs[j].stage = "publishing" \/ Inspected(jobs[j].source))
                  /\ \A c \in next.pushed \ jobs[j].pushed : Image(j, c) \in published'
  <2>1. CASE Build(j)
    <3>1. jobs' = [jobs EXCEPT ![j] = [jobs[j] EXCEPT !.stage =
                      IF Inspected(jobs[j].source) THEN "publishing" ELSE "failed"]]
      BY <2>1 DEF Build
    <3> WITNESS [jobs[j] EXCEPT !.stage = IF Inspected(jobs[j].source) THEN "publishing" ELSE "failed"]
    <3> QED BY <1>1, <3>1 DEF Jobs
  <2>2. CASE JobFails(j)
    <3>1. jobs' = [jobs EXCEPT ![j] = [jobs[j] EXCEPT !.stage = "failed"]]
      BY <2>2 DEF JobFails
    <3> WITNESS [jobs[j] EXCEPT !.stage = "failed"]
    <3> QED BY <1>1, <3>1 DEF Jobs
  <2>3. ASSUME NEW c \in Variants, PushImmutable(j, c)
        PROVE  \E next : next \in Jobs /\ jobs' = [jobs EXCEPT ![j] = next]
                  /\ next.version = jobs[j].version /\ next.revision = jobs[j].revision
                  /\ next.source = jobs[j].source /\ jobs[j].pushed \subseteq next.pushed
                  /\ (next.stage \in {"publishing", "done"} =>
                        jobs[j].stage = "publishing" \/ Inspected(jobs[j].source))
                  /\ \A d \in next.pushed \ jobs[j].pushed : Image(j, d) \in published'
    <3>1. jobs' = [jobs EXCEPT ![j] = [jobs[j] EXCEPT !.pushed = jobs[j].pushed \union {c}]]
      BY <2>3 DEF PushImmutable
    <3>2. jobs[j].stage = "publishing" /\ Image(j, c) \in published'
      BY <2>3 DEF PushImmutable
    <3> WITNESS [jobs[j] EXCEPT !.pushed = jobs[j].pushed \union {c}]
    <3> QED BY <1>1, <3>1, <3>2 DEF Jobs
  <2>4. ASSUME NEW c \in Variants, PushRolling(j, c)
        PROVE  \E next : next \in Jobs /\ jobs' = [jobs EXCEPT ![j] = next]
                  /\ next.version = jobs[j].version /\ next.revision = jobs[j].revision
                  /\ next.source = jobs[j].source /\ jobs[j].pushed \subseteq next.pushed
                  /\ (next.stage \in {"publishing", "done"} =>
                        jobs[j].stage = "publishing" \/ Inspected(jobs[j].source))
                  /\ \A d \in next.pushed \ jobs[j].pushed : Image(j, d) \in published'
    <3> DEFINE stage == IF jobs[j].rolled \union {c} = Variants THEN "done" ELSE jobs[j].stage
    <3>1. jobs' = [jobs EXCEPT ![j] = [jobs[j] EXCEPT !.rolled = jobs[j].rolled \union {c}, !.stage = stage]]
      BY <1>1, <2>4 DEF PushRolling, Jobs
    <3>2. jobs[j].stage = "publishing"
      BY <2>4 DEF PushRolling
    <3> WITNESS [jobs[j] EXCEPT !.rolled = jobs[j].rolled \union {c}, !.stage = stage]
    <3> QED BY <1>1, <3>1, <3>2 DEF Jobs
  <2> QED BY <2>1, <2>2, <2>3, <2>4
<1>3. /\ jobs' \in Seq(Jobs) /\ DOMAIN jobs' = DOMAIN jobs
      /\ jobs'[j] = next /\ \A k \in DOMAIN jobs : k # j => jobs'[k] = jobs[k]
  BY <1>1, <1>2
<1>4. \A k \in DOMAIN jobs, c \in Variants : Image(k, c)' = Image(k, c)
  BY <1>2, <1>3 DEF Image
<1>5. /\ published \subseteq published'
      /\ \A i \in published' \ published : i.source = jobs[j].source /\ jobs[j].stage = "publishing"
  <2>1. CASE UNCHANGED published
    BY <2>1
  <2>2. ASSUME NEW c \in Variants, PushImmutable(j, c)
        PROVE  /\ published' = published \union {Image(j, c)}
               /\ Image(j, c).source = jobs[j].source /\ jobs[j].stage = "publishing"
    BY <2>2 DEF PushImmutable, Image
  <2> QED BY <2>1, <2>2 DEF Build, JobFails, PushRolling
<1>6. PublicationTypes'
  <2>1. DOMAIN rolling' = DOMAIN rolling
    BY DEF Build, JobFails, PushImmutable, PushRolling
  <2> QED BY <1>1, <1>3, <2>1 DEF PublicationInv, PublicationTypes
<1>7. PushedWhenInspected'
  <2>1. ASSUME NEW k \in DOMAIN jobs'
        PROVE  /\ jobs'[k].stage \in {"publishing", "done"} => Inspected(jobs'[k].source)
               /\ \A c \in jobs'[k].pushed : Image(k, c)' \in published'
    <3>1. jobs'[k] \in Jobs /\ jobs'[k].pushed \subseteq Variants /\ k \in DOMAIN jobs
      BY <1>3, JobTypes
    <3>2. \A c \in jobs[k].pushed : Image(k, c) \in published'
      BY <1>5, <3>1 DEF PublicationInv, PushedWhenInspected
    <3> QED BY <1>2, <1>3, <1>4, <3>1, <3>2 DEF PublicationInv, PushedWhenInspected
  <2>2. ASSUME NEW i \in published' PROVE i.source \in Checkouts /\ Inspected(i.source)
    <3>1. jobs[j].source \in Checkouts
      BY <1>1 DEF Jobs
    <3> QED BY <1>5, <3>1 DEF PublicationInv, PushedWhenInspected
  <2> QED BY <2>1, <2>2 DEF PushedWhenInspected
<1>8. RolledWhenPushed'
  <2>1. ASSUME NEW c \in Variants, rolling'[c].job # 0
        PROVE  rolling'[c].job \in DOMAIN jobs' /\ jobs'[rolling'[c].job].pushed = Variants
    <3>1. ASSUME NEW k \in DOMAIN jobs, jobs[k].pushed = Variants PROVE jobs'[k].pushed = Variants
      <4>1. jobs'[k].pushed \subseteq Variants
        BY <1>3, JobTypes
      <4> QED BY <1>2, <1>3, <3>1, <4>1
    <3>2. CASE rolling'[c] = rolling[c]
      BY <1>3, <2>1, <3>1, <3>2 DEF PublicationInv, RolledWhenPushed
    <3>3. CASE rolling'[c] # rolling[c]
      <4>1. PICK d \in Variants : PushRolling(j, d)
        BY <3>3 DEF Build, JobFails, PushImmutable
      <4>2. rolling'[c].job = j /\ jobs[j].pushed = Variants
        BY <3>3, <4>1 DEF PushRolling, MayRoll, Image, PublicationInv, PublicationTypes
      <4> QED BY <1>3, <3>1, <4>2
    <3> QED BY <3>2, <3>3
  <2> QED BY <2>1 DEF RolledWhenPushed
<1> QED BY <1>6, <1>7, <1>8 DEF PublicationInv

LEMMA PublicationStep ==
  ASSUME PublicationInv, [PublicationNext]_publicationVars
  PROVE  PublicationInv'
<1>1. CASE UNCHANGED publicationVars
  BY <1>1 DEF publicationVars, PublicationInv, PublicationTypes, PushedWhenInspected, RolledWhenPushed, Image
<1> QED BY <1>1, MaintainerStep, BeginStep, RunStep DEF PublicationNext

(* What users install is a whole release, whatever runs of publish overlap  *)
(* and wherever they fail, and whatever half-finished update they build     *)
(* from (dagger/src/index.ts:243-290).                                      *)
THEOREM ReleasesStayWhole == PublicationSpec => []ReleasesWhole
<1>1. ASSUME PublicationInv PROVE RollingIsReleased
  <2>1. ASSUME NEW c \in Variants, rolling[c].job # 0, NEW d \in Variants
        PROVE  Image(rolling[c].job, d) \in published
    BY <1>1, <2>1 DEF PublicationInv, RolledWhenPushed, PushedWhenInspected
  <2> QED BY <2>1 DEF RollingIsReleased
<1>2. ASSUME PublicationInv PROVE PublishedAgrees
  <2>1. ASSUME NEW i \in published PROVE i.source \in Checkouts /\ Inspected(i.source)
    BY <1>2, <2>1 DEF PublicationInv, PushedWhenInspected
  <2> QED BY <2>1, InspectedAgrees DEF PublishedAgrees
<1>3. PublicationInv => ReleasesWhole
  BY <1>1, <1>2 DEF ReleasesWhole
<1> QED BY <1>3, PublicationStart, PublicationStep, PTL DEF PublicationSpec

-----------------------------------------------------------------------------
(* The update.  Files are read with what each of them records.              *)
UpdateTypes ==
  /\ DOMAIN checkout = Files
  /\ \A f \in Files : checkout[f] = Rendered(f, checkout[f])
  /\ run = [stage |-> run.stage, pins |-> run.pins, bridge |-> run.bridge, left |-> run.left]
  /\ run.left \subseteq Files

(* A source tag that names an image was verified when it was given it, and  *)
(* so was the image a run took after it compared the two.                   *)
BridgeKnown ==
  /\ DOMAIN tagged = 1..MaxReleases
  /\ \A r \in 1..MaxReleases : tagged[r] # 0 => [revision |-> r, digest |-> tagged[r]] \in verified
  /\ \E r \in 1..MaxReleases : \E d : d # 0 /\ latest = [revision |-> r, digest |-> d]
  /\ run.stage = "collecting" =>
       \E r \in 1..MaxReleases : \E d : d # 0 /\ run.bridge = [revision |-> r, digest |-> d]
  /\ run.stage \in {"collected", "writing"} => run.pins["bridge"] \in verified
  /\ checkout["memory-images"]["bridge"] \in verified

(* What a run has written agrees with its pins; the license, which may not  *)
(* be written at all, was left alone because its plugin did not change.     *)
WritesAgree ==
  run.stage = "writing" =>
    /\ \A f \in Files \ run.left : f # "license" => checkout[f] = Rendered(f, run.pins)
    /\ "license" \notin run.left =>
         checkout["plugin-inputs"]["hindsight"] = run.pins["hindsight"]

(* The license text speaks of the plugin that is pinned, unless it was left *)
(* behind or a run is between the two.                                      *)
LicenseFollows ==
  \/ checkout["license"]["hindsight"] = checkout["plugin-inputs"]["hindsight"]
  \/ skipped
  \/ run.stage = "writing" /\ "license" \in run.left /\ "plugin-inputs" \notin run.left

UpdateInv == UpdateTypes /\ BridgeKnown /\ WritesAgree /\ LicenseFollows /\ CompletedRunAgrees

LEMMA RenderedOnce ==
  ASSUME NEW f \in Files, NEW pins
  PROVE  Rendered(f, pins) = Rendered(f, Rendered(f, pins))
BY DEF Rendered, Restrict

LEMMA UpdateStart == UpdateInit => UpdateInv
<1> SUFFICES ASSUME UpdateInit PROVE UpdateInv
  OBVIOUS
<1>1. \A f \in Files : checkout[f] = Rendered(f, FirstPins)
  BY DEF UpdateInit
<1>2. UpdateTypes
  BY <1>1, RenderedOnce DEF UpdateInit, UpdateTypes, NoRun
<1>3. checkout["memory-images"]["bridge"] = FirstImage
  BY <1>1, RecordsOf DEF Rendered, Restrict, FirstPins, Packages
<1>4. BridgeKnown
  <2>1. 1 \in 1..MaxReleases
    BY UpdateAssumption
  <2>2. latest = [revision |-> 1, digest |-> 1] /\ run.stage = "none"
    BY DEF UpdateInit, FirstImage, NoRun
  <2> QED BY <1>3, <2>1, <2>2 DEF UpdateInit, BridgeKnown, FirstImage
<1>5. checkout["license"]["hindsight"] = checkout["plugin-inputs"]["hindsight"]
  BY <1>1, RecordsOf DEF Rendered, Restrict
<1> QED BY <1>2, <1>4, <1>5
        DEF UpdateInit, NoRun, UpdateInv, WritesAgree, LicenseFollows, CompletedRunAgrees

(* The registries move on: nothing of the checkout or the run changes, and  *)
(* what was verified stays verified.                                        *)
LEMMA RegistryStep ==
  ASSUME UpdateInv,
         \/ \E s \in Packages : PublishPackage(s)
         \/ \E r \in 1..MaxReleases : PushBridgeLatest(r) \/ PushBridgeTag(r)
  PROVE  UpdateInv'
<1>1. UNCHANGED <<checkout, run, skipped>> /\ verified \subseteq verified'
  BY DEF PublishPackage, PushBridgeLatest, PushBridgeTag
<1>2. UpdateTypes' /\ WritesAgree' /\ LicenseFollows' /\ CompletedRunAgrees'
  BY <1>1 DEF UpdateInv, UpdateTypes, WritesAgree, LicenseFollows, CompletedRunAgrees, Pins
<1>3. BridgeKnown
  BY DEF UpdateInv
<1>4. CASE \E s \in Packages : PublishPackage(s)
  BY <1>1, <1>2, <1>3, <1>4 DEF PublishPackage, UpdateInv, BridgeKnown
<1>5. ASSUME NEW r \in 1..MaxReleases, PushBridgeLatest(r) PROVE UpdateInv'
  <2>1. PICK d : d # 0 /\ latest' = [revision |-> r, digest |-> d]
    BY <1>5 DEF PushBridgeLatest
  <2>2. UNCHANGED <<tagged, verified>>
    BY <1>5 DEF PushBridgeLatest
  <2> QED BY <1>1, <1>2, <1>3, <2>1, <2>2 DEF UpdateInv, BridgeKnown
<1>6. ASSUME NEW r \in 1..MaxReleases, PushBridgeTag(r) PROVE UpdateInv'
  <2>1. PICK d : /\ tagged' = [tagged EXCEPT ![r] = d]
                 /\ verified' = verified \union {[revision |-> r, digest |-> d]}
    BY <1>6 DEF PushBridgeTag
  <2>2. UNCHANGED latest
    BY <1>6 DEF PushBridgeTag
  <2> QED BY <1>1, <1>2, <1>3, <2>1, <2>2 DEF UpdateInv, BridgeKnown
<1> QED BY <1>4, <1>5, <1>6

(* The run collects, looks twice, gives up or is cut off; it writes nothing.*)
LEMMA CollectStep ==
  ASSUME UpdateInv, Collect \/ Snapshot \/ RunFails
  PROVE  UpdateInv'
<1>1. UNCHANGED <<registry, checkout, skipped>> /\ run.stage # "writing" /\ run'.stage \notin {"writing", "done"}
  <2>1. CASE Collect
    BY <2>1 DEF Collect
  <2>2. CASE Snapshot
    <3>1. UNCHANGED <<registry, checkout, skipped>> /\ run.stage = "collecting"
      BY <2>2 DEF Snapshot
    <3>2. CASE run' = NoRun
      BY <3>1, <3>2 DEF NoRun
    <3>3. CASE run' # NoRun
      <4>1. run' = [run EXCEPT !.stage = "collected",
                               !.pins = [s \in Packages \union {"bridge"} |->
                                           IF s = "bridge" THEN run.bridge ELSE run.pins[s]]]
        BY <2>2, <3>3 DEF Snapshot
      <4>2. run'.stage = "collected"
        BY <4>1 DEF UpdateInv, UpdateTypes
      <4> QED BY <3>1, <4>2
    <3> QED BY <3>2, <3>3
  <2>3. CASE RunFails
    BY <2>3 DEF RunFails, NoRun
  <2> QED BY <2>1, <2>2, <2>3
<1>2. WritesAgree' /\ LicenseFollows' /\ CompletedRunAgrees'
  BY <1>1 DEF UpdateInv, WritesAgree, LicenseFollows, CompletedRunAgrees
<1>3. UNCHANGED <<upstream, latest, tagged, verified, checkout>>
  BY <1>1 DEF registry
<1>4. CASE Collect
  <2>1. run' = [stage |-> "collecting", pins |-> upstream, bridge |-> latest, left |-> {}]
    BY <1>4 DEF Collect
  <2> QED BY <1>2, <1>3, <2>1 DEF UpdateInv, UpdateTypes, BridgeKnown
<1>5. CASE run' = NoRun
  BY <1>2, <1>3, <1>5 DEF NoRun, UpdateInv, UpdateTypes, BridgeKnown
<1>6. CASE Snapshot /\ run' # NoRun
  <2>1. /\ run.stage = "collecting" /\ SameImage(run.bridge)
        /\ run' = [run EXCEPT !.stage = "collected",
                              !.pins = [s \in Packages \union {"bridge"} |->
                                          IF s = "bridge" THEN run.bridge ELSE run.pins[s]]]
    BY <1>6 DEF Snapshot
  <2>2. run'.stage = "collected" /\ run'.pins["bridge"] = run.bridge
    BY <2>1 DEF UpdateInv, UpdateTypes
  <2>3. run.bridge \in verified
    <3>1. PICK r \in 1..MaxReleases : \E d : d # 0 /\ run.bridge = [revision |-> r, digest |-> d]
      BY <2>1 DEF UpdateInv, BridgeKnown
    <3>2. PICK d : d # 0 /\ run.bridge = [revision |-> r, digest |-> d]
      BY <3>1
    <3>3. tagged[r] = d
      BY <2>1, <3>2 DEF SameImage
    <3> QED BY <3>2, <3>3 DEF UpdateInv, BridgeKnown
  <2>4. UpdateTypes'
    BY <1>3, <2>1 DEF UpdateInv, UpdateTypes
  <2> QED BY <1>2, <1>3, <2>2, <2>3, <2>4 DEF UpdateInv, BridgeKnown
<1> QED BY <1>4, <1>5, <1>6 DEF Snapshot, RunFails

LEMMA GenerateStep ==
  ASSUME UpdateInv, Generate
  PROVE  UpdateInv'
<1>1. UNCHANGED <<registry, checkout, skipped>> /\ run.stage = "collected"
  BY DEF Generate
<1>2. UNCHANGED <<upstream, latest, tagged, verified, checkout>>
  BY <1>1 DEF registry
<1>3. CASE run' = NoRun
  BY <1>1, <1>2, <1>3 DEF NoRun, UpdateInv, UpdateTypes, BridgeKnown, WritesAgree, LicenseFollows, CompletedRunAgrees
<1>4. CASE run' # NoRun
  <2>1. run' = [run EXCEPT !.stage = "writing", !.left = Rewritten(Pins(checkout), run.pins)]
    BY <1>4 DEF Generate
  <2>2. run'.stage = "writing" /\ run'.pins = run.pins /\ run'.left = Rewritten(Pins(checkout), run.pins)
    BY <2>1 DEF UpdateInv, UpdateTypes
  <2>3. Files \ {"license"} \subseteq run'.left /\ run'.left \subseteq Files
    BY <2>2 DEF Rewritten
  <2>4. "license" \notin run'.left => checkout["plugin-inputs"]["hindsight"] = run.pins["hindsight"]
    BY <2>2, RecordsOf DEF Rewritten, Pins, Packages
  <2>5. UpdateTypes'
    BY <1>2, <2>1, <2>3 DEF UpdateInv, UpdateTypes
  <2>6. BridgeKnown'
    BY <1>1, <1>2, <2>2 DEF UpdateInv, BridgeKnown
  <2>7. WritesAgree'
    BY <1>2, <2>2, <2>3, <2>4 DEF WritesAgree
  <2>8. LicenseFollows'
    BY <1>1, <1>2 DEF UpdateInv, LicenseFollows
  <2> QED BY <2>2, <2>5, <2>6, <2>7, <2>8 DEF UpdateInv, CompletedRunAgrees
<1> QED BY <1>3, <1>4

(* A file is written after those before it: the license after the plugins.  *)
LEMMA WriteStep ==
  ASSUME UpdateInv, WriteFile
  PROVE  UpdateInv'
<1>1. PICK i \in 1..10 : /\ Order[i] \in run.left
                         /\ \A k \in 1..(i - 1) : Order[k] \notin run.left
                         /\ Write(Order[i])
  BY DEF WriteFile, Order
<1>2. PICK f : f = Order[i]
  OBVIOUS
<1>3. /\ f \in Files /\ f \in run.left /\ run.stage = "writing"
      /\ checkout' = [checkout EXCEPT ![f] = Rendered(f, run.pins)]
      /\ run' = [run EXCEPT !.left = run.left \ {f}]
      /\ skipped' = (skipped /\ f # "license")
      /\ UNCHANGED registry
  BY <1>1, <1>2 DEF WriteFile, Write, UpdateInv, UpdateTypes
<1>4. /\ run'.stage = "writing" /\ run'.pins = run.pins /\ run'.left = run.left \ {f}
      /\ checkout'[f] = Rendered(f, run.pins)
      /\ \A g \in Files : g # f => checkout'[g] = checkout[g]
  BY <1>3 DEF UpdateInv, UpdateTypes
<1>5. f = "license" => "plugin-inputs" \notin run.left
  <2>1. f = "license" => i = 9
    BY <1>1, <1>2 DEF Order
  <2> QED BY <1>1, <2>1 DEF Order
<1>6. /\ "plugin-inputs" \in Files /\ "license" \in Files /\ "memory-images" \in Files
      /\ Rendered("plugin-inputs", run.pins)["hindsight"] = run.pins["hindsight"]
      /\ Rendered("license", run.pins)["hindsight"] = run.pins["hindsight"]
      /\ Rendered("memory-images", run.pins)["bridge"] = run.pins["bridge"]
  BY RecordsOf DEF Rendered, Restrict
<1>7. UpdateTypes'
  <2>1. \A g \in Files : checkout'[g] = Rendered(g, checkout'[g])
    BY <1>3, <1>4, RenderedOnce DEF UpdateInv, UpdateTypes
  <2> QED BY <1>3, <2>1 DEF UpdateInv, UpdateTypes
<1>8. BridgeKnown'
  <2>1. UNCHANGED <<tagged, verified, latest>>
    BY <1>3 DEF registry
  <2> QED BY <1>3, <1>4, <1>6, <2>1 DEF UpdateInv, BridgeKnown
<1>9. WritesAgree'
  BY <1>3, <1>4, <1>5, <1>6 DEF UpdateInv, WritesAgree
<1>10. LicenseFollows'
  <2>1. CASE f = "license"
    <3>1. checkout["plugin-inputs"]["hindsight"] = run.pins["hindsight"]
      BY <1>3, <1>5, <1>6, <2>1 DEF UpdateInv, WritesAgree
    <3> QED BY <1>4, <1>6, <2>1, <3>1 DEF LicenseFollows
  <2>2. CASE f = "plugin-inputs"
    <3>1. CASE "license" \in run.left
      BY <1>4, <2>2, <3>1 DEF LicenseFollows
    <3>2. CASE "license" \notin run.left
      <4>1. checkout'["plugin-inputs"]["hindsight"] = checkout["plugin-inputs"]["hindsight"]
        BY <1>3, <1>4, <1>6, <2>2, <3>2 DEF UpdateInv, WritesAgree
      <4> QED BY <1>3, <1>4, <1>6, <2>2, <3>2, <4>1 DEF UpdateInv, LicenseFollows
    <3> QED BY <3>1, <3>2
  <2>3. CASE f \notin {"license", "plugin-inputs"}
    BY <1>3, <1>4, <1>6, <2>3 DEF UpdateInv, LicenseFollows
  <2> QED BY <2>1, <2>2, <2>3
<1> QED BY <1>4, <1>7, <1>8, <1>9, <1>10 DEF UpdateInv, CompletedRunAgrees

(* A run that has written everything has written what its pins say.         *)
LEMMA DoneStep ==
  ASSUME UpdateInv, RunDone
  PROVE  UpdateInv'
<1>1. /\ run.stage = "writing" /\ run.left = {} /\ UNCHANGED <<registry, checkout, skipped>>
      /\ run' = [stage |-> "done", pins |-> <<>>, bridge |-> <<>>, left |-> {}]
  BY DEF RunDone, NoRun
<1>2. UNCHANGED <<tagged, verified, latest>>
  BY <1>1 DEF registry
<1>3. \A f \in Files : f # "license" => checkout[f] = Rendered(f, run.pins)
  BY <1>1 DEF UpdateInv, WritesAgree
<1>4. \A s \in Packages \union {"bridge"} : Pins(checkout)[s] = run.pins[s]
  BY <1>3, RecordsOf DEF Pins, Packages, Rendered, Restrict
<1>5. ASSUME NEW f \in Files, f # "license" PROVE checkout[f] = Rendered(f, Pins(checkout))
  <2>1. Records[f] \subseteq Packages \union {"bridge"}
    BY RecordsOf DEF Packages
  <2> QED BY <1>3, <1>4, <1>5, <2>1 DEF Rendered, Restrict
<1>6. skipped \/ checkout["license"] = Rendered("license", Pins(checkout))
  <2>1. skipped \/ checkout["license"]["hindsight"] = checkout["plugin-inputs"]["hindsight"]
    BY <1>1 DEF UpdateInv, LicenseFollows
  <2>2. Pins(checkout)["hindsight"] = checkout["plugin-inputs"]["hindsight"]
    BY DEF Pins, Packages
  <2>3. checkout["license"] = Rendered("license", checkout["license"])
    BY RecordsOf DEF UpdateInv, UpdateTypes
  <2> QED BY <2>1, <2>2, <2>3, RecordsOf DEF Rendered, Restrict
<1>7. CompletedRunAgrees'
  BY <1>1, <1>5, <1>6 DEF CompletedRunAgrees
<1> QED BY <1>1, <1>2, <1>7 DEF UpdateInv, UpdateTypes, BridgeKnown, WritesAgree, LicenseFollows

LEMMA CutStep ==
  ASSUME UpdateInv, CutOff
  PROVE  UpdateInv'
<1>1. /\ UNCHANGED <<registry, checkout>> /\ run.stage = "writing" /\ run' = NoRun
      /\ skipped' = \/ skipped
                    \/ "license" \in run.left /\ "plugin-inputs" \notin run.left
  BY DEF CutOff
<1>2. UNCHANGED <<tagged, verified, latest>>
  BY <1>1 DEF registry
<1>3. LicenseFollows'
  BY <1>1 DEF UpdateInv, LicenseFollows
<1> QED BY <1>1, <1>2, <1>3 DEF NoRun, UpdateInv, UpdateTypes, BridgeKnown, WritesAgree, CompletedRunAgrees

LEMMA UpdateStep ==
  ASSUME UpdateInv, [UpdateNext]_updateVars
  PROVE  UpdateInv'
<1>1. CASE UNCHANGED updateVars
  BY <1>1 DEF updateVars, registry, UpdateInv, UpdateTypes, BridgeKnown, WritesAgree, LicenseFollows,
              CompletedRunAgrees, Pins
<1> QED BY <1>1, RegistryStep, CollectStep, GenerateStep, WriteStep, DoneStep, CutStep DEF UpdateNext

(* A finished update leaves files that all speak of the same releases,      *)
(* whatever earlier runs left half done, and a bridge image that its source *)
(* tag once named, while the registries move on under the run               *)
(* (update-dependencies.mjs:57-71, 178-199).                                *)
THEOREM UpdatesAgree == UpdateSpec => []CheckoutAgrees
<1>1. UpdateInv => CheckoutAgrees
  BY DEF UpdateInv, BridgeKnown, CheckoutAgrees, BridgeVerified, Pins, Packages
<1> QED BY <1>1, UpdateStart, UpdateStep, PTL DEF UpdateSpec
=============================================================================
