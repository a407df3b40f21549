# Verification of the IAI platform

TLA+ modules, TLC runs and TLAPS proofs for the control plane, the build service and the reconciler of
the platform (Go, `src/cmd`, `src/internal`). Every definition is translated from the Go source; the file
and the lines behind each one are in `PROJECT.json` under `map`.

    tlc -workers 2 -config pipeline_core.cfg MCDeployPipeline    # one run
    tlapm DeploySafetyProofs.tla                                 # the proofs of one module

## 1. The system

A user uploads a source archive; the platform builds an image and runs it on Kubernetes behind an
ingress. Three processes share one PostgreSQL database and never call each other:

    browser / CLI --HTTP--> control plane --rows--> PostgreSQL <--rows-- build service --> docker
                              |   \                      ^
                              |    +-- bus, SSE          |
                              +-- reconciler (goroutine) -+--> Kubernetes

| Component | State | Operations | Talks to | What is hard | Correct means |
|---|---|---|---|---|---|
| Deployment rows (`store/deployments.go`) | `deployments.status`, `image_tag`, `queued_at` | one SQL statement per operation: create, queue, claim, advance (compare-and-set), overwrite, supersede older / running siblings | everybody | only two of the statements look at the old status | see the pipeline |
| Build service (`cmd/build-service`) | a semaphore of build slots, one goroutine per claimed row, one watchdog per build | claim, fetch, build, recheck, record image, hand off, fail | rows, docker, object storage | slots race for rows; a row is superseded or queued again while it builds; SIGTERM drops the goroutines; a hung build holds its slot | one builder per row; a row in `building` has one; slots come back |
| Reconciler tick (`api/reconciler.go`) | the rows read at the start of the tick | `pushing`: env, sidecars, mark, Apply, ingress; `deploying`: probe, mark, supersede siblings, touch project | rows, cluster | seconds between reading a row and acting on it; status written before the effect; LIMIT 8 | nothing runs that was not built and applied; one running row per project; everything comes to rest |
| Reconciler health loop | the project list it read | list, probe, write | `projects.status`, cluster | writes what it decided seconds ago | drift is corrected |
| HTTP handlers (`api/deployments.go`, `api/project_actions.go`) | none of their own | create, uploaded, delete | rows, cluster, sidecars | several statements without a transaction, on the context of a client that may leave | a deleted project leaves nothing behind |
| Events and SSE (`events/bus.go`, `api/sse.go`) | `deployment_events`, a channel of 16 per stream, `afterID` | append, publish, subscribe, drain, heartbeat, cancel | writers in two processes, browser | dropped signals, events of the other process, reconnection, cancel beside publish | no event lost, repeated or out of order; streams end |
| Access and ingress (`api/cidr_presets.go`, `domains.go`, `path_rules.go`, `project_actions.go`, `k8sdriver/deployer.go`) | preset, custom domains, path rules per project; Middlewares, Ingress, IngressRoute | every edit is a row and then a resync from the caller's snapshot | rows, cluster | concurrent resyncs; the reconciler rewrites the ingress without its middlewares; order of pruning and updating | never open by accident; cluster equals database at rest |
| Egress control (`api/egress_*.go`, `store/egress_*.go`, `k8sdriver/egress_proxy.go`) | mode, rules and listener port per project; the proxy's ConfigMap, the hash on its Deployment and what its pod has loaded; each project's NetworkPolicy and HTTPS_PROXY | change the mode, replace the rules, the two startup sweeps, the egress part of a deployment | rows, proxy, cluster | the port is read, picked and assigned in three steps; four objects follow the rows, each by a read and a conditional write, without a lock | ports unique; no project behind another's listener; the Internet never open by accident; a lone operation repairs everything |
| Project environment (`api/project_env.go`, `cmd/rekey-env`) | encrypted rows, the Secret, the key in force | put, delete, deploy, rotate the key | rows, cluster | Secret rewritten from an old read; the tool writes back what it read outside its transaction; it is killed and repeated | no value lost to a rotation, all readable after it, Secret equals rows |
| Administration (`api/admin*.go`, `config/runtime.go`, `auth/jwt.go`) | users, settings in the table, in memory and in the verifier, the verifier's keys | promote, demote, save settings, verify a token | rows, identity provider | count, flag and update are three steps; write, reload and rebuild are five; keys fetched outside the lock | an administrator remains; settings in force are the stored ones; a valid token is accepted |
| Sidecar provisioning (`provision/*`) | accounts in PostgreSQL, Redis, S3 | ensure, deprovision | external | credentials stored one by one, partial failure | credentials complete, no orphaned accounts |
| Sign-in, tokens, cryptography, storage, slugs, HTTP plumbing, collaborators, web UI | - | - | - | no protocol of their own | - |

## 2. Modules

| Module | Models | State | Actions |
|---|---|---|---|
| `DeployStore` | the rows and the SQL statements that write them | `status`, `hasImage`, `queuedAt`, `live`, `projectStatus` | one operator per statement, no behaviour of its own |
| `BuildService` | `cmd/build-service/main.go` | program counter, claimed row and kill flag per slot | `Claim` ... `HandOff`, `Watchdog`, and the faults `SetImageError`, `DroppedWrite`, `BuildServiceRestart` |
| `Reconciler` | `api/reconciler.go` and the part of the cluster it drives | program counter, rows read and row in hand of the tick; the health loop's list and pending write; Deployment object, newest pod, older ready pod, ingress, sidecar accounts | `Tick` ... `FailDeployment` in program order; `HealthList/Probe/Write`; `Rollout`, `PodSettles`, `PodBreaks` (external) |
| `DeployPipeline` | extends both; adds the HTTP handlers | requests in flight, fault budget, the histories `lost`, `skipped`, `overlapped`, `applied` | `Create`, `Uploaded*`, `Delete*`, the faults, `Next`, all properties and fairness |
| `DeployLifecycle` | the abstract specification: the stages of one deployment | `stage` | `Enqueue`, `Claim`, `HandOff`, `GoLive`, `Reupload`, `Close` |
| `DeployPipelineProofs`, `DeploySafetyProofs`, `LifecycleProofs` | theorems | | |
| `EventStream` | `AppendEvent`, `ListEvents`, the bus, the SSE handler | rows, sequence, publisher program counters, channels, handler program counters, the client | `AppendEvent` ... `PublishReturns`, `Connect`, `Subscribe`, `Deliver`, `CheckStatus`, `Wake`, `Heartbeat`, `Cancel` |
| `EventFeed` | the abstract specification: a cursor over a growing log | `log`, `got`, `closed` | `Extend`, `Receive`, `Close` |
| `EventStreamProofs` | theorems | | |
| `IngressSync` | `syncIngressForProject`, `SyncIngressHostnames`, `syncPathRuleIngressRoute`, `pruneRuleAllowLists` | the rows (presets, project, domains, rules) and what is made of them in the cluster (allow-list, Ingress, lists of single rules, IngressRoute); program counter, snapshot and pending projects per goroutine | `ReadHosts` ... `PutRoute`, one per query and per cluster call; `CallFails` |
| `AccessSync` | extends it by everybody who calls it: handlers of domains, TLS, access, path rules and presets; the ingress part of the tick; the startup sweep | projects known to run, the platform's list, the sweep's snapshot, budgets, the histories `clean`, `cutOff`, `mirrored` | `LoadProject` ... `FanOut`, `Apply`, `PutBare`, `Load`, `ListForSweep`, faults, `Restart` |
| `AccessProofs` | theorems | | |
| `EgressSync` | modes, rules, ports, the proxy, the policies and HTTPS_PROXY, everybody who writes them | `project`, `rules`; `conf`, `stamp`, `proxy`; `ns`, `policy`, `env`; program counter, job and knowledge of the object to be written per goroutine; the histories `alone`, `moved`, `blind` | `PatchMode`, `PutRules`, `Deploy`, `ListModes`, `NextProject`, `DeleteProject`, `FlipInDatabase`; the steps `ReadPort` ... `PutApp`; `Rollout`, `ContainerRestarts` (external); faults, `Restart` |
| `EgressProofs` | theorems | | |
| `ProjectEnv` | `project_env`, the handlers, the environment part of the tick, `rekey-env`, the Secret | rows with value, seal and flag; Secret, key in force, account; program counters and jobs; the histories `last`, `raced`, `late`, `usurped`, `cut`, `alone` | `Put`, `Delete`, `Deploy`, `RunRekey`; `Check` ... `PutSecret`, `Provision`, `Store`, `Scan`, `Commit`, `Verify`; `CallFails`, `Restart`, `Rotate` |
| `EnvProofs` | theorems | | |
| `Administration` | user flags, settings, JWT verification | `admins`; `db`, `kc`, `verifier`, `current`; `published`; program counters and jobs; the histories `misled`, `alone` | `Demote`, `Promote`, `Save`, `Verify` and their steps; `ReadFails`, `CallFails`, `RotateKey`, `Expire`, `Restart` |
| `AdminProofs` | theorems | | |
| `MCDeployPipeline`, `MCEventStream`, `MCAccessSync`, `MCEgressSync`, `MCProjectEnv`, `MCAdministration` | model values for TLC | | |

`DeployPipeline` states `Lifecycle == INSTANCE DeployLifecycle WITH stage <- stage`: the refinement mapping
`stage` reads the stage of a deployment off its row and off the slot or tick that has it in hand, and
`FollowsLifecycle` says that the pipeline implements `Lifecycle!Spec`. A deployment whose upload is reported a
second time is in the stage `reuploaded`, about which nothing is promised: `MarkDeploymentQueued` re-queues
whatever it finds. The others keep their life cycle beside it. `EventStream` states `Feed == INSTANCE EventFeed
WITH log <- rows, got <- got, closed <- done`, and `FollowsFeed` that connections, signals, heartbeats and failures
amount to a cursor over the committed rows: an event that commits behind the cursor never comes (the ids of
overlapping INSERTs), every other one comes once, and nothing after the end.

Conventions. A handler or goroutine is a program counter and one action per database statement or
cluster call, because anything may run between two of those. A guard or an early return is a conjunct, an
error path a disjunct. A definition marked *Sensitivity variant* is not part of the specification: it is a
plausible mistake in the operator that follows it, and substituting it must break a property.

Abstractions in the pipeline:

* The image tag is a function of slug and id, so "image" is the deployment itself and `hasImage` says that
  the column is filled. `queued_at` is a counter: `now()` of two statements never coincides.
* `ClaimNextQueued` (`FOR UPDATE SKIP LOCKED`) is atomic. Two pollers that skip each other's locks claim
  rows in the order of their `queued_at`.
* Building, fetching and pushing have an outcome and no content. Transient read errors before anything
  is written are delays, and so not modelled; dropped *write* errors are faults.
* Apply may fail anywhere, in particular after the Deployment object was written. Deleting the namespace
  is one step (the finalizers' seconds are not modelled), and so is deprovisioning the three sidecars.
* The cluster keeps the newest pod and whether an older one is still ready: that is all `PodSummary` and
  `IsDeploymentReady` look at. `PodSummary` does not compare images, nor does the model.

Abstractions in the event stream: one deployment, one client with successive connections. The id of an
event is drawn when the INSERT starts and visible when it commits; a failed INSERT burns its id. The
status is a Boolean, terminal or not, that may change at any time, in any order with the events. `Deliver`
is the whole drain of `streamEvents`; a connection that breaks in the middle delivers a prefix of it.

Abstractions in access and ingress: a row is one atomic statement. A cluster object is written by a Get
and an Update that carries the Get's resourceVersion; `seen` is what the goroutine knows of the object
(absent, current, old), and an Update of an old one fails. A write that fails has not happened; an
Update whose answer is lost is not modelled. The platform's own hostname, certificates (an issuer is
configured), the gate of a path rule and the preset's description carry nothing the properties look at and
are left out. The project's own `allow_cidrs` column is stored and used by nothing; of `PATCH access` with such a
list only the outcome is here: it is checked after the preset was written, and a bad one ends the request without a
synchronisation (`CheckCidrs`). `PATCH visibility` answers 403 and is not here. Deleting a project belongs to `DeployPipeline` and is not
combined with this module. A fixed set of rule ids is used again after deletion.

Abstractions in egress: a domain rule is a name, with or without a port; a configuration is a set of
listeners and its hash is the set itself. Deleting a project is one step here (its order is the subject of
`DeployPipeline`), and the proxy's Deployment controller is `Rollout`: the new pod mounts what the ConfigMap
holds by then. `FlipInDatabase` is the comment at `egress_mode.go:391-393`: an operator edits the row and restarts. The
proxy was installed once; its namespace, Service and own policy do not change any more. A project that is
restored from its tombstone does not exist in the code.

Abstractions in the environment: every value set is a different one, so that a lost value shows. A sealed value is
the value, the key and whether it is bound to its row. The accounts of a sidecar are one step; what is
modelled is that each run of it sets a new password and that its parts are stored by one statement each.
One project: rows of different projects share only the tool, which treats them alike. The whole
Secret is one version; the pods that mount it are not modelled, because nothing in the code restarts them
(section 6).

Abstractions in administration: of the settings only the issuer with its JWKS, the one that is kept in three
places. A provider has one signing key at a time and publishes it alone. Verifiers are numbered, and a
number that nobody holds any more is used again, so that a request may go on with a verifier that has
been replaced. Expiry of a cache may happen at any moment.

## 3. Runs

| Run | Instance | Shows |
|---|---|---|
| `pipeline_core` | 2 deployments of 1 project, 2 slots, 1 upload each, 2 faults | types; `SingleOwner`, `BuildingHasWorker`, `ImageRecorded`, `RunningWasApplied`, `RunningUnique`; the pipeline implements `DeployLifecycle` (`FollowsLifecycle`) |
| `pipeline_delete` | 1 deployment with sidecars, 2 slots, 2 uploads, 2 faults, DELETE | `TombstoneClean`; re-queueing a row that builds, rolls out or runs leaves no build without a slot (`BuildingHasWorker`); until the second report the deployment follows its life cycle (`FollowsLifecycle`) |
| `pipeline_liveness` | 2 deployments, 1 slot, health loop, fetches and builds that may hang, `FairSpec` | `EventuallyQuiescent`, `DriftCorrected`, `SlotReclaimed` |
| `event_stream` | reconciler with 2 events, builder with 1, channel of 1, 2 connections | types, `InOrder`, `NoGaps`, `NoLostWakeup`; the stream implements `EventFeed` (`FollowsFeed`) |
| `event_stream_live` | reconciler and builder with 1 event each, 2 connections, `FairSpec` | `EventuallyDelivered`, `StreamsEnd` |
| `access_sync` | 1 project, 1 request at a time beside the tick and the sweep, 2 hostnames, 2 prefixes, 3 presets, 2 operations, 1 fault | types, `NeverWorldOpen`, `BareOnlyInDeploy`, `InSync`, `PlatformInSync` |
| `egress_sync` | 2 projects, 1 deployed before, 1 request beside the tick and the sweep, 2 ports, 1 any-port rule, 2 operations, 1 fault | types, `ListenersDisjoint`, `ListenerIsOwn`, `OpensOnlyBlind`, `SoloConverges` |
| `project_env` | 2 keys, both credentials, one held from before; 2 manifests, one of which needs the sidecar; 1 request beside the tick and the tool, 5 operations, 1 fault | types, `ValuesKept`, `ReadableAfterRotation`, `CredentialsStored`, `ToolConverges`, `SecretCurrent` |
| `administration` | 2 users, both administrators, 2 requests, 2 issuers, 3 operations, 1 key change, 1 fault | types, `AdminRemains`, `ValidTokenAccepted`, `SettingsInForce` |

and three that fail on purpose, section 6. Configurations that `PROJECT.json` does not list: `egress_window.cfg`
is `egress_sync` with one port for two projects, two requests, three operations and no faults (3.7 million states, a few minutes):
the window is exhausted, and every property of `egress_sync` holds there too. `domain_cap.cfg` (`MCAccessSync`) lets two
requests add and remove three hostnames under a limit of one: `CapBounded` holds (1.2 million states). The other
`v_*.cfg` are the counterexamples of section 6.

**Bounds.** Two deployments are the fewest that can supersede each other, and two slots the fewest that
can race for a row; a third adds no new pair of actors on a row, and the theorems cover any number. The
liveness run has one slot, so that a hung build holds the only one.
`MaxUploads = 2` lets a second request hit a row in every state (with one deployment, where every
interleaving with two slots, the tick and the DELETE still fits). Two faults cover a crash of one process
followed by a fault of the other. `TickLimit` is the code's 8 except in `v_head_of_line`, where it is 1 so
that one stuck row fills it. A channel of capacity 1 drops signals after one; two connections are the
fewest with a reconnection and a handler that outlives its connection. With `Deletable`, `HealthOn` and
`NeedsSidecar` a run switches parts of the system on. In `access_sync` one request runs beside the tick
and the sweep, which already gives three goroutines on the same objects; a second request makes the
state space too large for this instance and is covered by `domain_cap`, `v_domain_cap` and the theorems. Two
operations let an edit meet a deployment or follow another edit, and one fault covers a failed call, a
client that leaves, or a restart (which starts the sweep) at every point. `MaxDomains = 1` is reached by
one domain. In `egress_sync` two operations are an allocation beside another or an edit beside a deployment,
and two projects are the fewest that can share a port. In `project_env` five operations leave room for two edits, a
deployment and two runs of the tool in any order, so that a repeated run, an edit behind its back and a
deployment that is refused or cut off meet. In `administration` two requests
are the fewest that demote or save at once, and the third operation is what follows a race. `CHECK_DEADLOCK FALSE` everywhere: when
every request was made and every row is at rest the system is done.

**What a property is conditioned on, and why.** No property of the pipeline is limited to runs without faults;
each names what a fault may do. `lost` collects the deployments that a crash or a lost write took from the actor
at work on them, and only these may be stranded in `building` (`BuildingHasWorker`; nothing re-queues the row), stay
`running` beside a sibling (`RunningUnique`), or be promoted without having been applied (`RunningWasApplied`).
`SingleOwner` holds under all faults but needs a deployment to be reported as uploaded once, because
`MarkDeploymentQueued` re-queues whatever it finds. `TombstoneClean` excepts
projects a tick worked on during the DELETE that went through (`overlapped`; the exception is real, see `v_deleted_runs`) and those
where a step of that DELETE failed (`skipped`); a DELETE that was cut off and is sent again starts afresh. `NoGaps` excepts
two INSERTs that overlap: a reader that resumes after the higher id misses the lower one if it commits later. `BareOnlyInDeploy` excepts projects in `cutOff`: a tick that fails or dies after
`applyIngress` and before its synchronisation leaves the Ingress without middlewares; the failures of anybody else do not. `InSync` is about projects in `clean`: since the start, or since any
synchronisation that began alone with the row as it is, nothing that concerns the project overlapped or failed, and no
request was refused after it had written. Overlapping synchronisations each write what
they had read and may leave the older view, and a refused `PATCH access` leaves its preset in the row alone (section
6); the next lone synchronisation repairs both. `PlatformInSync` is conditioned likewise (`mirrored`), on those that
copy `internal` to the platform's list: a PUT and the start of the control plane. `InSync` excepts the contents of the lists of a project
that falls back to `internal`, since an edit of that preset is not fanned out to those.
`ListenerIsOwn` excepts projects whose port was replaced: an allocation that read no port writes one over
that of a faster allocation, and pods and policies that took up the first go on with it.
`OpensOnlyBlind` names the one way the public Internet opens. `SoloConverges`, `ToolConverges`,
`SecretCurrent`, `SettingsInForce` and `ValidTokenAccepted` are about an operation during which nobody else
was at work and nothing failed (`alone`), from *any* reachable state: they say that races and failures do no
damage that the next operation would not repair. `ValuesKept` excepts keys set while the tool held an older value of
them (`raced`), which its commit writes over; `ReadableAfterRotation` those set under the old key after
the tool's last word (`late`). `CredentialsStored` excepts a storing loop that broke off (`cut`) and keys of the
platform that a request overwrote between its check and its statement (`usurped`); `AdminRemains` demotions that relied
on a count or flag that was not so (`misled`). Each exception is real: dropping it makes TLC show the
lost value, the unreadable row, the missing credential, or a platform without administrators.

**Fairness.** Weak fairness of every handler, of each slot's own next step, of the tick, the health loop and
the Deployment controller: these are goroutines and polling loops that nothing blocks for ever.
There is none of a fetch or a build: the fetch has no timeout, and `Build` waits for the end of both pipes
(`builder.go:83-87`), which a descendant of the killed child may hold open. So a slot in `fetch` or `build` may stay
there for ever, and what the properties need they say. `SlotReclaimed` assumes that fetches and *cancelled*
builds return (`Uncancellable`), and nothing of a build that was not cancelled: that is the watchdog's part.
`EventuallyQuiescent` assumes that every fetch and build returns (`Waits`), as `PatientSpec` does by `BuildsReturn`. Without
the first assumption the slot leaks (`v_slot_leak`, section 6). `PodsSettle` says that a
pod becomes ready or gets a terminal reason; without it (`PatientSpec`) `v_head_of_line` shows what
happens. There is no fairness of requests or faults. In the event stream, writers and the branches of a
handler's select that are due are weakly fair (the 15 s ticker always becomes due); a handler whose client
is gone is strongly fair to notice, since it is back in its select again and again, and Go chooses
among ready branches at random. `AccessSync` states no liveness: nothing in the code repairs a missed
synchronisation before the next edit or restart. Neither do `EgressSync`, `ProjectEnv` and `Administration`, for
the same reason; what they promise instead is that an operation that runs alone converges.

## 4. Proofs

Checked by tlapm for every number of deployments, projects, slots, writers, connections, requests,
presets, hostnames and rules, every channel capacity and every bound; the assumptions are the `ASSUME`s on the constants in the modules
(`ProjectOf` maps deployments to projects, `NoDep` is not a deployment, bounds are naturals, a
rule's own sources do not contain the open one, as `checkPathRuleCIDRs` demands; `None` is none of the values
it stands beside, ports are naturals, and the set of users is finite).

| Theorem | Argument |
|---|---|
| `TypeCorrect` (`DeployPipelineProofs`) | `TypeInv`: `TypeOK` with `WorkerHolds` and `TickHolds`, which tie a program counter to having a row in hand. Without them `wdep[w]` or `rdep` could be `NoDep` where a statement writes `status[wdep[w]]`. |
| `ImageRecordedAlways` (`DeploySafetyProofs`) | `ImageInv`: also a slot at `handoff` and every row the tick has read have an image, since the tick may write `deploying` or `running` long after it read the row. All faults, any number of uploads. |
| `BuildingHasWorkerAlways` | inductive over `TypeInv`: a claim is the only way into `building`, every exit of `run()` writes or has read another status, and a fault that ends it otherwise puts the row into `lost` (`FaultLoses`). |
| `RunningUniqueAlways` | inductive: only the tick writes `running`, and supersedes the siblings in its next statement, unless a fault takes the row from it in between. |
| `RunningWasAppliedAlways` | `AppliedInv`: also what the tick has read as `deploying`, or has in hand from `probe` on, was applied or is in `lost` (`AppliedFault`). |
| `SingleOwnerAlways` | `OwnerInv`: which actor may hold a row, by status; nobody before the claim, a slot in `building`, the tick afterwards, either but not both once superseded. |
| `TombstoneCleanAlways` | `GraveInv`: from the deletion of the namespace on, a project is empty and no tick has it in hand, and once its row is dead a tick can at most fail a row of it -- unless the project is in `overlapped` or `skipped`. All faults: a DELETE that is cut off leaves the row alive or everything done (`DeleteLive`, `GraveFault`). |
| `LifecycleRefined` (`LifecycleProofs`) | `LifeInv` adds to `OwnerInv`, for each deployment reported once (`Once`), the statuses its row may have at each point of the tick, and that the tick holds a row once. Each step of an actor moves one deployment one stage on, or closes (or starts to abort) some, or stutters; steps on deployments reported twice stutter in the abstract stage. All faults, any number of uploads. |
| `NoLostWakeupAlways` (`EventStreamProofs`) | `Signalled`: an announced event has been looked past, or a signal for it is in the channel or about to be sent, or the handler will list again. It needs `Subscribed` (subscribe precedes the first drain) and `FreshIds` (an event being published is no longer being inserted, so it cannot become visible behind the handler's back). |
| `StreamTypeCorrect`, `InOrderAlways`, `NoGapsAlways` | `ClientInv`: the handler the client is connected to lists after the event the client would resume after (`Position`), what the client has lies in order at or before it (`Received`), and as long as no two INSERTs overlapped the one under way has the highest id (`Serial`), so a row is never added behind the client's back. |
| `FeedRefined` | on top of `ClientInv`: where the client would resume is the last event it has (`AtLast`), and a client that was told the end has no handler that lists (`Ended`). A drain is then a stutter or one `Receive` up to the last row that got through (`DeliverRefines`), a commit is `Extend`, and the final status is `Close`. No condition on overlapping INSERTs. |
| `AccessTypeCorrect` (`AccessProofs`) | `TypeInv`: `TypeOK` with `Holds`, which ties a program counter to having a project, a rule or a prefix in hand. |
| `NeverWorldOpenAlways` | `WorldInv`: what a goroutine has in hand (`job.allow`) and what rules hold never contains the source that admits everybody. A preset may: it is filtered where it is read. |
| `BareOnlyInDeployAlways` | `BareInv`: as long as the Ingress is bare, the tick at its last write knows the current version of it, because whoever outdates the tick has written middlewares; and an Ingress has a namespace. This holds for the projects outside any fixed set (`BareInv(C)`), of which a fault adds at most the one the tick has in hand (`FaultLeaves`), and a new write by the tick takes one out (`Entering`). Any number of requests. |
| `InSyncAlways` | `SyncInv`: as long as a project is clean (which any lone synchronisation makes it, whatever was there: `KeptBegins`), at most one goroutine is concerned with it (`Kept`), what that one has read is what the rows say (`HasRead`), its writes succeed (`CanGoOn`), and what it has written so far is what the rows demand (`HasWritten`); a request that edits a preset will reach the project unless it is in sync anyway (`Fans`), one whose list is being checked goes on to synchronise or ends the cleanness (`RefusedHalfway`), and the sweep's copy of its row is the row. With nobody concerned, the project is in sync. `Tidy` says who has projects in hand or to do. |
| `PlatformInSyncAlways` | `MirrorInv`: while `mirrored`, at most one goroutine is on its way to the platform's list, has `internal` as it is in hand, and its write will succeed; with none on its way the list is `internal`. An edit of `internal` starts such a way, and no other step changes it. |
| `CapBoundedAlways` (checked by `domain_cap`) | `CapInv`: domains and requests between count and insert together stay below the limit plus the number of requests. |
| `EgressTypeCorrect` (`EgressProofs`) | `TypeInv`: `TypeOK` with `HoldsAt`, which ties a step that concerns a project, and every operation on one, to having it in hand. |
| `ListenersDisjointAlways`, `ListenerIsOwnAlways`, `OpensOnlyBlindAlways` | one inductive invariant, `Safe`: ports of live rows are distinct (`PortsUnique`); everything derived from rows -- listeners in hand, stored and loaded, a configuration about to be written, HTTPS_PROXY -- names the port its row still has, unless the project is gone or its port was replaced; what is public is in `blind`. `RowsAge` is the heart of it: a row only dies, or gets a first port, or joins `moved`, so whatever was true of a copy when it was made stays true (`ListenersAge`, `JobAges`), however long it waits to be written. Without the part about jobs a write would bring an unexplained port into the cluster. |
| `SoloConvergesAlways` | `SoloInv`: while an operation is alone (`alone = a`), all others are idle, it is on its route (`Route`), and what it has in hand is what the rows say: the configuration to write is `Rendered` (`ProxyPart`), the policy is the one `ConfigOf` makes of row and rules (`AccessPart`), the sweep's list is still the set of projects to be served and the part of it that is done is settled (`SweepPart`). None of this mentions what was in the cluster before, so the operation converges from any of its states. |
| `EnvTypeCorrect` (`EnvProofs`) | `TypeInv`, again with what an operation has in hand at each step. |
| `ValuesKeptAlways` | with `HandInv`: between scan and commit the tool holds, for every key that was not set since and still exists, the value in the row. |
| `ReadableAfterRotationAlways` | `SealInv`: from the tool's "ok" on, and after the rotation, every row that was not set late is under the new key. |
| `CredentialsStoredAlways` | `CredInv`: once there is an account and no loop was cut, every credential but those still to be stored is a row of the platform's, or was usurped; `NoAccount` says that no value of the platform exists before. |
| `ToolConvergesAlways`, `SecretCurrentAlways` | `AloneInv`: while an actor is alone, everybody else is idle and what it has in hand is what the rows and the Secret say at its step (`Undisturbed`). |
| `AdminTypeCorrect` (`AdminProofs`) | `TypeInv`, with counts bounded by the number of users and a free verifier number for every rebuild. |
| `AdminRemainsAlways` | inductive over `TypeInv`: a demotion that was not misled saw two administrators, so one remains. |
| `ValidTokenAcceptedAlways`, `SettingsInForceAlways` | `AloneInv`, as above: what a lone request read is still so when it acts on it. |

Only model-checked: the liveness properties (out of the prover's reach), and all instances with
their bounds.

## 5. Hazards

`PROJECT.json` lists what in this code is hard to test, at its line, with the properties that would catch it.
The four with a note and no property are about something the code does not promise: three have a counterexample of
their own in section 6, the fourth is in the list below it.

## 6. Where the code and its comments disagree

TLC finds each of these violated. The first three are runs of the project with an entry under
`findings`; the others are configurations beside them, run by `tlc -config <file> <MC module>`.

| Configuration | What the repository says | What the code does |
|---|---|---|
| `v_deleted_runs` (`MCDeployPipeline`) | the tick's join on `deleted_at` keeps a deleted project from being re-applied (`reconciler.go:128-134`) | a tick that passed its checks before the DELETE applies after it; the workload stays and nothing lists it |
| `v_publish_panic` (`MCEventStream`) | a signal that cannot be delivered is dropped (`bus.go:57`) | the channel may have been closed since it was copied; the send panics, and in the reconciler's goroutine ends the process |
| `v_old_manifest` (`MCProjectEnv`) | an edit lays the values over "the manifest's env from the most recent deployment" (`project_env.go:36-38`) | it reads the manifest in the project's row, which is the one the project was created with; what a later deployment's manifest added is gone from the Secret |
| `v_mutual_supersede` (`MCDeployPipeline`) | `SupersedeOlderDeployments` | compares no ages: two overlapping uploads supersede each other, and nothing is deployed |
| `v_slot_leak` (`MCDeployPipeline`) | the watchdog cancels a superseded build, whose slot would otherwise be "leaked forever" (`cmd/build-service/main.go:124-130`) | only the direct child is killed; `runStream` waits until every process that inherited its output has closed it (`builder.go:83-87`), and until then the slot is taken |
| `v_old_pod` (`MCDeployPipeline`) | the previous deployment is superseded once the new one is ready (`store/deployments.go:177-179`) | the newest pod's readiness counts, which is the previous deployment's until the rollout starts |
| `v_head_of_line` (`MCDeployPipeline`) | the tick drives in-flight deployments forward (`reconciler.go:37`) | a pod that runs and never passes its probe has no terminal reason; eight such rows fill the LIMIT for good |
| `v_domain_cap` (`MCAccessSync`) | the limit of custom domains is checked on the current list "so concurrent add requests can't both squeak through" (`domains.go:73-76`) | count and insert are two statements; `CapBounded` is what does hold (`domain_cap`, `CapBoundedAlways`) |
| `v_partial_credentials` (`MCProjectEnv`) | "credentials must be in project_env before the pod starts" (`reconciler.go`) | after a loop that broke off behind the marker, later deployments find the marker and go on without the rest |
| `v_port_reuse` (`MCEgressSync`) | a port is "never reused while the project is live, so a pod holding a stale HTTPS_PROXY value can't inherit another project's allow-list" (migration 0012) | a port that a second allocation wrote over is free again while the pods still use it; the proxy serves the other project there once it was rolled out |
| `v_blind_deploy` (`MCEgressSync`) | "Direct internet is never open. The public catch-all is dropped in every mode" (`egress_rules.go`) | a deployment that cannot read its egress configuration is applied with the zero value, which opens it |
| `v_stale_proxy` (`MCEgressSync`) | "a rollout is the only way to be sure the running process matches what the database says" (`k8sdriver/egress_proxy.go`) | ConfigMap and hash are two writes: a synchronisation that ends between them leaves a text that a restarted container loads; when the next one renders what was rolled out before, the hash does not change, nothing is rolled out, and the proxy keeps the text in between |

Seen while modelling, and left without a run of their own:

* `fail()` of the build service writes `failed` over `superseded` (`main.go:214`; against the comment at
  `store/deployments.go:131-133`). `DeployLifecycle` therefore makes both the stage `closed`.
* A crash between `MarkDeploymentStatus(deploying)` and Apply (`reconciler.go:289`): no later tick applies
  the row, and the predecessor's pod promotes it. This is why `RunningWasApplied` excepts `lost`.
* The health loop writes `projects.status` from an old list and may overwrite `deleting`
  (`reconciler.go:109`; against `store/projects.go:292-293`). Hence `HealthOn` in `TombstoneClean`.
* A deployment uploaded again while its build hangs may be superseded, queued and claimed again
  between two samples of the watchdog (`main.go:140`), which then never kills the first build.
* The SSE stream ends on the status (`sse.go:131-144`), which writers set before or after the last event:
  the stream may end without it.
* Deleting a preset first unbinds its projects (foreign key, SET NULL) and then resynchronises the
  projects bound to it, which are none (`cidr_presets.go:133-136`): their lists keep the deleted
  preset's sources until the next edit. In the model `FanOut` finds nothing; `InSync` does not notice,
  because such a project is one of those that fall back to `internal`.
* `PATCH access` writes the preset and then checks `allow_cidrs`; a bad entry is answered with 400 and no synchronisation
  (`project_actions.go:293-317`): the new preset is in the row and not in the cluster until the next edit or
  deployment. In the model `CheckCidrs`, and `RefusedHalfway` in `InSync`.
* When `internal` cannot be read, `syncPlatformAllowList` writes an empty list and reports success
  (`cidr_presets.go:215-219`): the platform's entry points are closed to everybody until the next start or PUT of it.
* PUT `internal` reaches only projects bound to it by name, and ends before the fan-out when the write
  of the platform's list loses to another.
* Overlapping synchronisations of a project each write their own snapshot; the last Update wins, and
  it may be the older view (`reconciler.go:310-316` beside any edit). Hence `clean` in `InSync`.
* When the write of the allow-list conflicts, its error is dropped and the Ingress is written without a
  reference to the list (`deployer.go`, `SyncIngressHostnames`): sign-in remains, the list does not apply.
* The sweep skips projects in `created` because they have "no ingress yet" (`store/projects.go:266`); a first
  deployment that dies between `applyIngress` and the synchronisation leaves a bare one.
* The comments at `project_env.go:32` and `deployer.go:456-459` say that Kubernetes rolls the pods when the
  Secret changes. It does not, and nothing in the code does: `SecretCurrent` is about the Secret, the running
  pods keep the environment they were started with until the next deployment.
* Migration 0015 describes mode `off` as leaving the public Internet open; `egressConfigForProject` closes it in
  every mode, as `OpensOnlyBlind` confirms.
* `rekey-env` takes an empty table for a failed verification after a commit, and the last administrator
  may go if the two queries of the guard fail (`admin.go`, errors dropped): see `Verified` and `ReadFails`.
* Deleting a project does not tell the proxy: its listener stays until the next synchronisation, on a port that
  may be given to another project. `ListenerIsOwn` speaks of live projects.
* The comment on `effectiveAllowCIDRs` says that an error "treats the project as having no restriction"
  (`project_actions.go:19-21`); the code fails closed, which `NeverWorldOpen` confirms.

## 7. Not modelled

* Manifest contents, log text, the HTTP encoding, the presigned upload, docker, nixpacks and the Kubernetes
  controllers beyond what section 2 says.
* The collector of egress logs (`egress_mode.go:195-330`): it appends what the proxy logged to a table and changes
  nothing else. The validation of an egress rule (`normaliseEgressRule`): a function of one request.
* Sign-in, deploy tokens, OIDC and forward-auth: checks of a single request and an exchange with an
  external provider. Verification of a JWT, which has a cache and a replaceable verifier, is in `Administration`.
* Cryptography, storage and slugs (libraries, no protocol), collaborators (single-statement edits), the web UI
  (a client), deployment scripts.
* The calls inside a sidecar's provisioner, and the deletion of a project beside a synchronisation of its ingress.

## 8. Plan

Done: the pipeline against its life cycle, events, access and ingress, egress, environment, administration, each with its
theorems. Left, in this order:

1. The deletion of a project beside a synchronisation of its ingress (`DeployPipeline` with `AccessSync`).
2. The provisioners call by call, with the accounts that a failure leaves behind.
