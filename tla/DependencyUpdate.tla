-------------------------- MODULE DependencyUpdate --------------------------
(***************************************************************************)
(* `pnpm deps:update` (scripts/update-dependencies.mjs): the pinned inputs *)
(* of a release and the files generated from them, rewritten one after     *)
(* another in the checkout while the registries move on.  The run may be   *)
(* cut off between two writes (an interrupt, a full disk) and started      *)
(* again.                                                                  *)
(*                                                                         *)
(* A source stands for what is pinned together: the runtime packages, the  *)
(* plugins of both images, the Hindsight plugin (in the full image only,   *)
(* with its license text) and the Codex Bridge image.  A file is what it   *)
(* says of its sources.                                                    *)
(***************************************************************************)
EXTENDS Naturals, FiniteSets, SequencesExt

CONSTANTS
  MaxReleases,  \* bound: releases of each source
  MaxBuilds,    \* bound: pushes of bridge images
  MaxRuns,      \* bound: runs of the update
  MaxCuts       \* bound: runs cut off

ASSUME UpdateAssumption ==
  /\ MaxReleases \in Nat \ {0} /\ MaxBuilds \in Nat \ {0} /\ MaxRuns \in Nat /\ MaxCuts \in Nat

VARIABLES
  upstream,  \* the latest release of each package source
  latest,    \* the bridge's rolling tag: [revision, digest]
  tagged,    \* the digest of each sha-<revision> tag, 0 while there is none
  verified,  \* observer: every [revision, digest] a sha tag ever had
  checkout,  \* the files of the repository
  run,       \* the update being run
  runs, cuts,
  skipped    \* observer: a license text a cut run left behind its plugin

registry == <<upstream, latest, tagged, verified>>
updateVars == <<registry, checkout, run, runs, cuts, skipped>>

Packages == {"runtime", "plugins", "hindsight"}

\* What each file records, in the order applyUpdates writes them.
Order == <<"capabilities.core", "capabilities.full", "notices", "plugin-inputs", "memory-images",
           "runtime-package", "inventory", "lock", "license", "sbom">>
Files == ToSet(Order)
Records == [f \in Files |->
  CASE f = "capabilities.core" -> {"runtime", "plugins"}
    [] f = "capabilities.full" -> {"runtime", "plugins", "hindsight"}
    [] f \in {"notices", "plugin-inputs"} -> {"plugins", "hindsight"}
    [] f \in {"memory-images", "inventory"} -> {"bridge"}
    [] f \in {"runtime-package", "lock"} -> {"runtime"}
    [] f = "license" -> {"hindsight"}
    [] f = "sbom" -> {"runtime", "plugins", "hindsight"}]

Rendered(f, pins) == Restrict(pins, Records[f])

\* readCurrent: the three files that own the pins.
Pins(files) == [s \in Packages \union {"bridge"} |->
  CASE s = "runtime" -> files["runtime-package"][s]
    [] s = "bridge" -> files["memory-images"][s]
    [] OTHER -> files["plugin-inputs"][s]]

\* validateDependencyArtifacts.
Validates(files) ==
  /\ files["lock"] = files["runtime-package"]
  /\ \A f \in {"capabilities.core", "capabilities.full", "notices"} :
       files[f] = Rendered(f, Pins(files))
  /\ \A s \in {"plugins", "hindsight"} : files["sbom"][s] = files["plugin-inputs"][s]

NoRun == [stage |-> "none", pins |-> <<>>, bridge |-> <<>>, left |-> {}]
FirstImage == [revision |-> 1, digest |-> 1]
FirstPins == [s \in Packages \union {"bridge"} |-> IF s = "bridge" THEN FirstImage ELSE 1]

UpdateInit ==
  /\ upstream = [s \in Packages |-> 1]
  /\ latest = FirstImage
  /\ tagged = [r \in 1..MaxReleases |-> IF r = 1 THEN 1 ELSE 0]
  /\ verified = {FirstImage}
  /\ checkout = [f \in Files |-> Rendered(f, FirstPins)]
  /\ run = NoRun /\ runs = 0 /\ cuts = 0 /\ skipped = FALSE

-----------------------------------------------------------------------------
(* The registries.                                                          *)
PublishPackage(s) ==
  /\ upstream[s] < MaxReleases
  /\ upstream' = [upstream EXCEPT ![s] = @ + 1]
  /\ UNCHANGED <<latest, tagged, verified, checkout, run, runs, cuts, skipped>>

Digests == {latest.digest} \union { v.digest : v \in verified }
NextDigest == Max(Digests) + 1

(* A build of the bridge pushes its rolling tag and its source tag in some  *)
(* order; the build of a revision may be repeated.                          *)
PushBridgeLatest(r) ==
  /\ r >= latest.revision
  /\ \E d \in {NextDigest, tagged[r]} \ {0, latest.digest} :
       d =< MaxBuilds /\ latest' = [revision |-> r, digest |-> d]
  /\ UNCHANGED <<upstream, tagged, verified, checkout, run, runs, cuts, skipped>>

PushBridgeTag(r) ==
  /\ \E d \in {NextDigest} \union (IF r = latest.revision THEN {latest.digest} ELSE {}) :
       /\ d # tagged[r] /\ d =< MaxBuilds
       /\ tagged' = [tagged EXCEPT ![r] = d]
       /\ verified' = verified \union {[revision |-> r, digest |-> d]}
  /\ UNCHANGED <<upstream, latest, checkout, run, runs, cuts, skipped>>

-----------------------------------------------------------------------------
(* The update.                                                              *)
(* collectUpdates: the packages' latest releases and the bridge's rolling   *)
(* tag.  A package whose license changed ends the run.                      *)
Collect ==
  /\ run.stage \in {"none", "done"} /\ runs < MaxRuns
  /\ runs' = runs + 1
  /\ run' = [stage |-> "collecting", pins |-> upstream, bridge |-> latest, left |-> {}]
  /\ UNCHANGED <<registry, checkout, cuts, skipped>>

\* Mistaken: the rolling tag is believed.
SameImageUnchecked(snapshot) == TRUE

\* The source tag names the same image.
SameImage(snapshot) == tagged[snapshot.revision] = snapshot.digest

\* bridgeSnapshot's second look; without --write the run reports and ends.
Snapshot ==
  /\ run.stage = "collecting"
  /\ IF SameImage(run.bridge)
     THEN \/ run' = [run EXCEPT !.stage = "collected",
                                !.pins = [s \in Packages \union {"bridge"} |->
                                            IF s = "bridge" THEN run.bridge ELSE run.pins[s]]]
          \/ run' = NoRun
     ELSE run' = NoRun
  /\ UNCHANGED <<registry, checkout, runs, cuts, skipped>>

\* A request, the license check, npm or a checksum fails: nothing was written.
RunFails ==
  /\ run.stage \in {"collecting", "collected"}
  /\ run' = NoRun
  /\ UNCHANGED <<registry, checkout, runs, cuts, skipped>>

\* resolveRuntimeLock, only when the manifest's dependencies change.
Lock(current, pins) ==
  IF current.runtime # pins.runtime THEN [s \in {"runtime"} |-> pins.runtime] ELSE checkout["lock"]

\* Mistaken: files of sources that have not moved are taken to be current.
RewrittenIfMoved(current, pins) ==
  { f \in Files : Rendered(f, current) # Rendered(f, pins) }

\* The license text is fetched only when the plugin changes.
Rewritten(current, pins) ==
  IF current.hindsight # pins.hindsight THEN Files ELSE Files \ {"license"}

(* applyUpdates up to its first write: everything is generated and          *)
(* validated aside.  A lock that does not match ends the run.               *)
Generate ==
  /\ run.stage = "collected"
  /\ LET current == Pins(checkout)
     IN IF Lock(current, run.pins) = Rendered("lock", run.pins)
        THEN run' = [run EXCEPT !.stage = "writing", !.left = Rewritten(current, run.pins)]
        ELSE run' = NoRun
  /\ UNCHANGED <<registry, checkout, runs, cuts, skipped>>

\* A file is written in place; one that is already right is left alone.
Write(f) ==
  /\ checkout' = [checkout EXCEPT ![f] = Rendered(f, run.pins)]
  /\ skipped' = (skipped /\ f # "license")
  /\ run' = [run EXCEPT !.left = @ \ {f}]
  /\ UNCHANGED <<registry, runs, cuts>>

\* The files are written in their order.
WriteFile ==
  /\ run.stage = "writing"
  /\ \E i \in DOMAIN Order : /\ Order[i] \in run.left
                             /\ \A k \in 1..(i - 1) : Order[k] \notin run.left
                             /\ Write(Order[i])

RunDone ==
  /\ run.stage = "writing" /\ run.left = {}
  /\ run' = [NoRun EXCEPT !.stage = "done"]
  /\ UNCHANGED <<registry, checkout, runs, cuts, skipped>>

\* The process is interrupted, or a write fails.
CutOff ==
  /\ run.stage = "writing" /\ cuts < MaxCuts
  /\ cuts' = cuts + 1
  /\ run' = NoRun
  /\ skipped' = \/ skipped
                \/ /\ "license" \in run.left /\ "plugin-inputs" \notin run.left
  /\ UNCHANGED <<registry, checkout, runs>>

UpdateNext ==
  \/ \E s \in Packages : PublishPackage(s)
  \/ \E r \in 1..MaxReleases : PushBridgeLatest(r) \/ PushBridgeTag(r)
  \/ Collect \/ Snapshot \/ RunFails \/ Generate \/ WriteFile \/ RunDone \/ CutOff

UpdateSpec == UpdateInit /\ [][UpdateNext]_updateVars

-----------------------------------------------------------------------------
(* A run that ends well leaves a checkout whose files all speak of the      *)
(* pinned releases, whatever earlier runs left half done, except for a      *)
(* license text behind its plugin, which nothing fetches again              *)
(* (update-dependencies.mjs:178-199).                                       *)
CompletedRunAgrees ==
  run.stage = "done" =>
    \A f \in Files : checkout[f] = Rendered(f, Pins(checkout)) \/ (f = "license" /\ skipped)

(* The bridge image the checkout records was once the image of its source   *)
(* tag: a rolling tag that is being moved is never recorded                 *)
(* (update-dependencies.mjs:57-71).                                         *)
BridgeVerified == Pins(checkout).bridge \in verified

(* What a run of the update leaves behind agrees with itself and with the   *)
(* registries (update-dependencies.mjs:57-71, 178-199).                     *)
CheckoutAgrees == CompletedRunAgrees /\ BridgeVerified
=============================================================================
