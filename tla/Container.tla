------------------------------ MODULE Container ------------------------------
(***************************************************************************)
(* The application container: its entry script on the state volume         *)
(* (docker/lamplit/entrypoint.sh), the launcher with its two children      *)
(* (launcher.mjs), and the connections the proxy child forwards            *)
(* (proxy.mjs).  The container may be killed at any moment and started     *)
(* again on the same volume.                                               *)
(*                                                                         *)
(* The seed is the profile's manifest, which the script looks for, and the *)
(* rest, copied in an order the file system chooses; it has no settings.   *)
(* A settings override has some content, and each start may have another.  *)
(***************************************************************************)
EXTENDS Naturals, FiniteSets

CONSTANTS
  Connections,  \* TCP connections the proxy may accept
  MaxBoots      \* bound: starts of the container

ASSUME ContainerAssumption == IsFiniteSet(Connections) /\ MaxBoots \in Nat

VARIABLES
  volume,      \* what lies in DSH_HOME: seed items, runtimes, foreign files
  settings,    \* settings.yaml: "none", "empty", "partial" or "whole"
  phase,       \* where the entry script or the launcher is
  origin,      \* the start whose override settings.yaml is, 0 for none or the owner's
  override,    \* this start's settings override: "none", "readable" or "unreadable"
  child,       \* the children: DSH and the proxy
  stopping,    \* the launcher has told its children to stop
  exitCode,    \* process.exitCode of the launcher, None before finish
  asked,       \* observer: the signal the container got first, if any
  link,        \* the two sockets of each connection
  clients,     \* the proxy's set of clients
  edited,      \* observer: the owner has written settings.yaml
  boots

volumeVars == <<volume, settings, origin, edited>>
startVars  == <<override, boots>>
entryVars  == <<volumeVars, startVars>>
launcherVars == <<child, stopping, exitCode, asked, link, clients>>
containerVars == <<entryVars, phase, launcherVars>>

Seed == {"manifest", "rest"}
Children == {"dsh", "proxy"}
None == 999
NoChildren == [c \in Children |-> "none"]
NoLink == [client |-> "none", upstream |-> "none"]

\* A volume is new, or holds what somebody else put there.
ContainerInit ==
  /\ volume \in {{}, {"foreign"}} /\ settings = "none" /\ origin = 0 /\ edited = FALSE
  /\ phase = "down" /\ override = "none"
  /\ child = NoChildren /\ stopping = FALSE /\ exitCode = None /\ asked = "none"
  /\ link = [k \in Connections |-> NoLink] /\ clients = {}
  /\ boots = 0

-----------------------------------------------------------------------------
(* The entry script.                                                        *)
Empty == volume = {} /\ settings = "none"

\* seed_state: an empty volume is seeded, any other must have the profile.
Enter(wanted) ==
  /\ phase' = IF Empty THEN "seeding" ELSE IF "manifest" \in volume THEN "settings" ELSE "refused"
  /\ override' = wanted

NoProcesses ==
  /\ child' = NoChildren /\ stopping' = FALSE /\ exitCode' = None /\ asked' = "none"
  /\ link' = [k \in Connections |-> NoLink] /\ clients' = {}

Boot(wanted) ==
  /\ phase \in {"down", "refused", "exited"} /\ boots < MaxBoots
  /\ boots' = boots + 1
  /\ Enter(wanted) /\ NoProcesses
  /\ UNCHANGED volumeVars

CopySeed(item) ==
  /\ phase = "seeding" /\ item \in Seed \ volume
  /\ volume' = volume \union {item}
  /\ UNCHANGED <<settings, origin, edited, phase, startVars, launcherVars>>

Seeded ==
  /\ phase = "seeding" /\ Seed \subseteq volume
  /\ phase' = "settings"
  /\ UNCHANGED <<entryVars, launcherVars>>

\* The copy of the override begins; it may be cut off before it is whole.
Copy ==
  /\ settings' \in {"empty", "partial", "whole"} /\ origin' = boots
  /\ phase' = IF settings' = "whole" THEN "linking" ELSE "copying"

\* Mistaken: settings with content are taken for an override copied before.
CopySettingsOnce ==
  /\ phase = "settings"
  /\ \/ override = "unreadable" /\ phase' = "refused" /\ UNCHANGED <<settings, origin>>
     \/ /\ override = "none" \/ settings \in {"partial", "whole"}
        /\ phase' = "linking" /\ UNCHANGED <<settings, origin>>
     \/ override = "readable" /\ settings \in {"none", "empty"} /\ Copy
  /\ UNCHANGED <<volume, edited, startVars, launcherVars>>

(* copy_new_settings_override: settings with any content are never replaced.*)
CopySettings ==
  /\ phase = "settings"
  /\ \/ override = "none" /\ phase' = "linking" /\ UNCHANGED <<settings, origin>>
     \/ /\ override = "unreadable" \/ (override = "readable" /\ settings \in {"partial", "whole"})
        /\ phase' = "refused" /\ UNCHANGED <<settings, origin>>
     \/ override = "readable" /\ settings \in {"none", "empty"} /\ Copy
  /\ UNCHANGED <<volume, edited, startVars, launcherVars>>

GrowSettings ==
  /\ phase = "copying"
  /\ settings' = "whole" /\ phase' = "linking"
  /\ UNCHANGED <<volume, origin, edited, startVars, launcherVars>>

\* link_optional_keet_runtime, whether or not there is such a runtime.
LinkRuntime ==
  /\ phase = "linking"
  /\ volume' = volume \union {"runtimes"} /\ phase' = "checking"
  /\ UNCHANGED <<settings, origin, edited, startVars, launcherVars>>

\* Host, ports and profile override, as the environment of this start has them.
CheckEnvironment ==
  /\ phase = "checking"
  /\ phase' \in {"launching", "refused"}
  /\ UNCHANGED <<entryVars, launcherVars>>

\* DSH while it runs, or the operator, writes the settings of a seeded volume.
OwnerEdits ==
  /\ phase \in {"down", "refused", "exited", "running"} /\ "manifest" \in volume
  /\ settings' = "whole" /\ origin' = 0 /\ edited' = TRUE
  /\ UNCHANGED <<volume, phase, startVars, launcherVars>>

\* The container is killed, or its machine dies.
Kill ==
  /\ phase \notin {"down", "refused", "exited"}
  /\ phase' = "down" /\ NoProcesses
  /\ UNCHANGED entryVars

-----------------------------------------------------------------------------
(* The launcher.                                                            *)
Alive(c) == child[c] \in {"running", "told", "closing"}

\* exec: both children are spawned; one may fail to start.
Launch ==
  /\ phase = "launching"
  /\ phase' = "running"
  /\ child' \in [Children -> {"running", "unstarted"}]
  /\ UNCHANGED <<volume, settings, origin, edited, startVars, stopping, exitCode, asked, link, clients>>

\* stop(): the first call signals both children.
Told(children) == [c \in Children |-> IF children[c] = "running" THEN "told" ELSE children[c]]

\* Mistaken: finish without stop leaves the other child alone.
FinishAlone(code, children) ==
  /\ child' = children
  /\ exitCode' = IF exitCode = None THEN code ELSE exitCode
  /\ UNCHANGED stopping

\* finish(): only the first counts.
Finish(code, children) ==
  IF exitCode # None THEN child' = children /\ UNCHANGED <<exitCode, stopping>>
  ELSE exitCode' = code /\ stopping' = TRUE /\ child' = Told(children)

\* An error event of a child that could not be spawned.
SpawnError(c) ==
  /\ phase = "running" /\ child[c] = "unstarted"
  /\ Finish(1, [child EXCEPT ![c] = "gone"])
  /\ UNCHANGED <<entryVars, phase, asked, link, clients>>

\* SIGTERM and SIGINT, each handled once.
Signal(s) ==
  /\ phase = "running" /\ asked = "none"
  /\ asked' = s
  /\ Finish(IF s = "SIGTERM" THEN 0 ELSE 130, child)
  /\ UNCHANGED <<entryVars, phase, link, clients>>

\* A child's sockets go with it; its exit event counts unless both were told.
ChildExits(c, code) ==
  /\ phase = "running" /\ Alive(c)
  /\ LET children == [child EXCEPT ![c] = "gone"]
     IN IF stopping THEN child' = children /\ UNCHANGED <<exitCode, stopping>>
        ELSE Finish(code, children)
  /\ link' = IF c = "proxy" THEN [k \in Connections |-> NoLink]
             ELSE [k \in Connections |->
                     [link[k] EXCEPT !.upstream = IF @ = "open" THEN "closed" ELSE @]]
  /\ clients' = IF c = "proxy" THEN {} ELSE clients
  /\ UNCHANGED <<entryVars, phase, asked>>

\* Nothing keeps the launcher alive once its children are gone.
LauncherExits ==
  /\ phase = "running" /\ \A c \in Children : child[c] = "gone"
  /\ phase' = "exited"
  /\ UNCHANGED <<entryVars, launcherVars>>

-----------------------------------------------------------------------------
(* The proxy.                                                               *)
ProxyUp == phase = "running" /\ Alive("proxy")
Linking(k, l, c) ==
  /\ link' = [link EXCEPT ![k] = l] /\ clients' = c
  /\ UNCHANGED <<entryVars, phase, child, stopping, exitCode, asked>>

Accept(k) ==
  /\ ProxyUp /\ child["proxy"] # "closing" /\ link[k] = NoLink
  /\ Linking(k, [client |-> "open", upstream |-> "connecting"], clients \union {k})

Connected(k) ==
  /\ ProxyUp /\ child["dsh"] = "running" /\ link[k].upstream = "connecting"
  /\ Linking(k, [link[k] EXCEPT !.upstream = "open"], clients)

\* An error or the peer's end closes one socket, before the proxy reacts.
SocketCloses(k, side) ==
  /\ ProxyUp /\ link[k][side] \in {"open", "connecting"}
  /\ Linking(k, [link[k] EXCEPT ![side] = "closed"], clients)

\* The close events destroy the other socket; the client leaves the set.
PairCloses(k) ==
  /\ ProxyUp
  /\ "closed" \in {link[k].client, link[k].upstream}
  /\ Linking(k, NoLink, clients \ {k})

\* shutdown: every client is destroyed, and the server accepts no more.
Shutdown ==
  /\ ProxyUp /\ child["proxy"] = "told"
  /\ child' = [child EXCEPT !["proxy"] = "closing"]
  /\ link' = [k \in Connections |->
               IF k \in clients THEN [link[k] EXCEPT !.client = "closed"] ELSE link[k]]
  /\ UNCHANGED <<entryVars, phase, stopping, exitCode, asked, clients>>

ContainerNext ==
  \/ \E wanted \in {"none", "readable", "unreadable"} : Boot(wanted)
  \/ \E item \in Seed : CopySeed(item)
  \/ Seeded \/ CopySettings \/ GrowSettings \/ LinkRuntime \/ CheckEnvironment
  \/ OwnerEdits \/ Kill
  \/ Launch \/ LauncherExits \/ Shutdown
  \/ \E s \in {"SIGTERM", "SIGINT"} : Signal(s)
  \/ \E c \in Children : SpawnError(c) \/ \E code \in {0, 1} : ChildExits(c, code)
  \/ \E k \in Connections :
       \/ Accept(k) \/ Connected(k) \/ PairCloses(k)
       \/ \E side \in {"client", "upstream"} : SocketCloses(k, side)
-----------------------------------------------------------------------------
(* A told child ends: DSH by itself, the proxy once it has no connection.   *)
EndsWhenTold(c) ==
  /\ IF c = "proxy" THEN child[c] = "closing" /\ clients = {} ELSE child[c] = "told"
  /\ ChildExits(c, 0)

ContainerFairness ==
  /\ \A c \in Children : WF_containerVars(SpawnError(c)) /\ WF_containerVars(EndsWhenTold(c))
  /\ WF_containerVars(Shutdown) /\ WF_containerVars(LauncherExits)
  /\ \A k \in Connections : WF_containerVars(PairCloses(k))

ContainerSpec == ContainerInit /\ [][ContainerNext]_containerVars /\ ContainerFairness

(* A start that is given an override gets to DSH only on this override, the *)
(* whole of it, wherever earlier starts and their copies were cut off; and  *)
(* what the owner wrote is never replaced by one (entrypoint.sh:29-44,      *)
(* README.md:169-170).                                                      *)
PastSettings == phase \in {"linking", "checking", "launching"}
OverrideWhole ==
  /\ PastSettings /\ override # "none" => settings = "whole" /\ origin = boots
  /\ edited => settings = "whole" /\ origin = 0

(* "A partial ... state directory must be inspected or migrated by the      *)
(* operator" (entrypoint.sh:20-22): the service only runs on a whole seed.  *)
SeedWhole == phase = "running" => Seed \subseteq volume

(* No half of the service outlives the other: once a child is gone or could *)
(* not be started, the container ends, also with open connections           *)
(* (launcher.mjs:57-87, proxy.mjs:42-46).                                   *)
HalfServiceEnds ==
  (phase = "running" /\ \E c \in Children : child[c] \in {"gone", "unstarted"}) ~> phase # "running"
=============================================================================
