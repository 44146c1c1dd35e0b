# A verification development for Lamplit

TLA+ models of Lamplit's own program logic: the Partner runtime
(`apps/partner/runtime`), its browser client (`apps/partner/src`), the container and
the release tooling. TLC checks the models on small instances; TLAPS proves selected
theorems for every value of the constants. Source references below are relative to
the repository's root.

## 1. The system

Lamplit hosts one companion conversation. A Node process, the *Partner*, embeds
the nanocodex engine (an external SDK that queues, runs and durably records
conversation operations), keeps its own tables next to the engine's in one SQLite
file opened exclusively, and serves one browser page over HTTP and an event
stream.

| Component | State | Operations | Interacts through |
|---|---|---|---|
| Partner host, `partner.ts` | `admission` chain, `tasks` (owners of results), `notifications` chain, `closing`, `storageError` | submit, cancel, own, event handler, startup reconciliation, snapshot, compact, close | promises, the store's transactions, the engine's turns and events |
| Message store, `store.ts` | tables `messages`, `message_revisions`, `input_images`, `images`, `relationship`, `context_observation`, `diagnostics` | admit, finish, touchMessage, messagePage, updateRelationship, ... | one serialized transaction at a time |
| Relationship ledger, `store.ts:120-142`, `tools/companion.ts` | rows keyed by operation and call | the model's relationship tools | the engine's tool calls |
| HTTP server, `server.ts` | open event streams | session, messages, cancel, events, transcribe | the host's methods; "changed" notifications |
| Page, `+page.svelte`, `message-pages.ts` | `session`, `cursor`, `before`, `outgoing`, `pending`, `retirements`, `refreshing`/`refreshAgain` | refresh, loadOlder, send, stop | fetch and EventSource |
| Continuity, `continuity.ts`, `partner.ts:39-101` | the diagnostics rows, the stored context observation | compact, observeContext, projectContinuity, insertCompactBoundaries | the engine's events, snapshots |
| Composer and view machines, `composer.ts`, `Companion.svelte` | draft, composition, photo press, preview and history entry, waiting timers | key, input, pointer and history handlers | browser events |
| Voice recording, `voice-input.ts` | status, the active recording, generation | start, stop, cancel, dispose, data/error/timer callbacks | browser media callbacks |
| Image drafts and previews, `image-drafts.ts`, `Companion.svelte` | drafts, object URLs | add, remove, submit, retire, dispose | the composer |
| Model tools, `tools/*.ts` | generated images | generate, mail, dice, files | tool calls |
| Command line, `cli.ts` | credential file | credential, logs, serve | files, signals |
| Container, `entrypoint.sh`, `launcher.mjs`, `proxy.mjs` | state volume, two children | seed, override, stop | signals and exits |
| Publication, `dagger/src` | registry references | publish | registry calls |
| Dependency update, `update-dependencies.mjs` | files of the checkout | applyUpdates | file writes |

What is hard in it, and for which property of which component: the full list with
lines is `hazards` in `PROJECT.json`. In short:

* *host*: a message's row, the engine's operation and the owner of its result are
  three pieces of state written at three times. Crashes, failed writes, retries,
  cancellations and shutdown fall between them. Correct means: row and operation
  agree, nothing is orphaned, nothing is run with other content than shown, order
  is kept, every admitted message settles, shutdown drains.
* *page synchronisation*: two independent requests, change batches cut at a page
  size, status that no revision records, wake-ups that coalesce or get lost.
  Correct means: nothing is missed, nothing goes back, and the view is eventually
  and then stably current.
* *ledger*: the engine repeats turns; a movement bound holds per turn, not per call.
* *continuity*: events are handled one after another while the engine goes on, and a
  crash takes the unhandled ones away. Correct means: a marker stands where the
  compaction happened, and nothing is shown running that is not.
* *images*: the store, the workspace's files and the engine's journal are written
  separately, and a turn's calls are repeated after a crash. Correct means: what the
  model was told of can be opened, and nothing saved is paid for again.
* *voice, previews, outgoing messages*: callbacks arriving after the thing they
  belong to was cancelled, replaced or disposed.
* *limits*: browser, route and provider each check sizes in units of their own.
* *container, publication, dependency update*: multi-step writes without a
  transaction around them.

## 2. Modules

| Module | Models | Extends / instantiates |
|---|---|---|
| `Relationship` | the ledger: `Update` and `RepeatUpdate` are `Store.updateRelationship`, `ResolveContext` the engine's callback that publishes the operation id | |
| `Attachments` | input images with their files, and the image tool | |
| `ToolProofs` | theorems about both | EXTENDS Relationship, Attachments, TLAPS |
| `Conversation` | what the Partner promises about messages, without process, store or engine | |
| `PartnerHost` | the process, its store and the engine it embeds | INSTANCE Conversation |
| `PartnerHostProofs` | its theorems | EXTENDS PartnerHost, TLAPS |
| `Continuity` | compaction: events, diagnostics rows, context observation, projection, status line | |
| `ContinuityProofs` | its theorems | EXTENDS Continuity, TLAPS |
| `MessageFeed` | revisions, pages, snapshots, the event stream and the page's two request loops | |
| `MessageFeedProofs` | its theorems | EXTENDS MessageFeed, TLAPS |
| `Outbox` | composer, image drafts with their previews, sends, local echoes, retries | |
| `OutboxProofs` | its theorems | EXTENDS Outbox, TLAPS |
| `VoiceRecording` | the recording controller, its browser callbacks and the view's handlers | |
| `VoiceRecordingProofs` | its theorems | EXTENDS VoiceRecording, TLAPS |
| `MediaLimits` | the sizes, types and encodings that browser, routes and providers check | |
| `Timeline` | rounds a compaction keeps, places of markers, layout of bubbles, ledger changes | |
| `CompanionRules` | text and updates a model may write, numbers the page shows, dice | |
| `Composer` | the text field with its input method and its one command, as functions | |
| `ViewState` | waiting words, photo button, image preview with its history entry, as functions | |
| `ReleaseNames` | tags, versions and image references | |
| `DependencyUpdate` | `pnpm deps:update` and the registries it reads | |
| `Publication` | commits, tags and runs of `publish` | EXTENDS DependencyUpdate |
| `Container` | entry script, launcher, proxy | |
| `MCRelationship` | ledger and images side by side, for TLC | EXTENDS Relationship, Attachments |
| `MCPartnerHost`, `MCMessageFeed` | instances for TLC | EXTEND the modules above |
| `MCView` | recording and outgoing messages side by side, for TLC | EXTENDS VoiceRecording, Outbox |
| `MCContracts` | the pure modules, one input per state | EXTENDS MediaLimits, Timeline, CompanionRules, Composer, ViewState, ReleaseNames |
| `ContractsProofs` | sums over finite sets, theorems about `MediaLimits` and two properties of `MCContracts` | EXTENDS MCContracts, TLAPS |
| `MCDelivery` | the three parts of delivery side by side, for TLC | EXTENDS Publication, Container |
| `DeliveryProofs` | theorems about the three parts | EXTENDS MCDelivery, TLAPS |

Each module also holds a few definitions whose comment begins with "Mistaken:".
They are not part of the model. Each is a plausible bug in the definition that
follows, kept to confirm that the property it is listed with in `PROJECT.json`
(`mutants`) is violated once the code has that bug.

### PartnerHost

JavaScript runs one segment at a time, so an action is the code between two
awaits; a store method is one serialized transaction and hence one action.
`rowid`, `created`, `text` and `display` are the row (`display` is the outcome the
`answer` and `error` columns stand for), `op`, `turn` and `prompted` the engine's
record of the operation. All of these survive a crash. The rest is one incarnation:
`admission` and `step` the chain of submit calls and the progress of its first one
(`known` is the copy of the row `admit` returned, read again only after the images
were materialised), `task` the owner of a result (`result`: awaiting the turn,
`drain`: awaiting the events queued before, `caught`: in the catch), `backlog` and
`poisoned` the notifications chain, `phase` and `todo` the life of the process.
`acked` and `asked` record what callers and users were told or did.

The engine is external. Its actions are the assumptions `partner.ts` makes: prompts
are accepted in the order they were handed over and are durable from then on; a
prompt under an existing id attaches to the operation or is refused; operations run
one at a time in acceptance order and only while somebody in this incarnation awaits
them; a cancelled operation has a durable outcome; and every change of status emits
an event before the result resolves.

### Continuity

The same process, seen from what the user learns of compaction. `events` is the
notifications chain with its content: `Log` writes a diagnostics row, `StoreReplaced`
the size of an installed context, and a `continue` entry is a caller that awaits
what was queued before it. `observed` is the stored observation, written by three
callers. The host projects the whole table at every snapshot; because
`projectContinuity` is a fold, `view` is its accumulator, advanced by `ProjectRow`
when a row is written, and `Lifecycle` is the last step of the projection. `page` is
the status line of `syncContinuityStatus`.

Assumed of the engine, besides the above: it announces every compaction it starts
and how it ended unless the turn or the process ended with it; a requested
compaction runs between two turns and after an interrupted one was resumed.
`observeContext` reads the size and queues the write in one step, since nothing in
between can change either. After a crash events may be missing, so `lost` exempts the
markers of the operations whose last event was lost from standing at the right turn,
and a compaction installed right before a crash may have no marker at all
(docs/partner-runtime.md:102 promises neither).

### Attachments

A message's image is a row of `input_images` and a file. `files` distinguishes
absent, torn (created, content not yet written) and whole, because a write is not
atomic and a crash may fall inside; the code takes a torn file for the image, and so
does `Materialised`. A generated image is named by operation and call, as its hash
is; `running` is `currentOperationId`, which the next turn may overwrite while a
request is under way, and `given` is everything the model was ever told to exist.

### MessageFeed and Outbox

In `MessageFeed`, `revision` is the table `message_revisions`; `live` is the engine's
status, which reaches the page with the rows of a snapshot but is not part of them.
A request goes through `sent` (awaiting the events queued when it arrived), `paged`
(rows read) and `ready` (status read); `lost` is a request whose server died.
`Refresh` is the `refreshing`/`refreshAgain` loop, `Arrive` the rest of its body with
the merge. Pages have one row instead of thirty, so every cut happens with two changes.
`Finish` saves an answer once the operation's events were handled, as its owner awaits
the notifications, and an error at once, as the owner's catch and startup do: then a
reply may be on the page before the event that announces it, or without that event
ever coming, when the process dies in between.

`Outbox` takes the feed as one action, `Refresh`, by which another admitted row
becomes visible (that it does is `MessageFeed`'s `EveryChangeArrives`), and models
what the page does about it: `outgoing`, `pending` and `retirements` are the
collections of `+page.svelte`; `retired` is how a submission's promise ended; `wire`
holds requests the server may still admit, also after the page gave up on them.
Previews are in the same module because the same retirement revokes them:
`revoked` are the object URLs given back, `deferred` those kept for an open dialog.

### VoiceRecording

A recording is its generation number. `op` is the active operation, `mic` and
`recorder` what the browser holds for each, `settled` its completion promise. A user's
click, a browser event and an answered permission prompt each run to the end of
their microtasks, so promise continuations are part of the action that triggers
them: `Complete` contains the `markTranscribing` of the awaiting view. Sizes count
chunks against a limit that the emitted media type may lower.

### The pure modules

`MediaLimits`, `Timeline`, `CompanionRules`, `Composer`, `ViewState` and `ReleaseNames`
hold functions. `MCContracts` has one variable, the input under examination, and a
property is about the inputs of its kind; for `Composer` and `ViewState` an input is a
sequence of events, folded by the module's step function, so every prefix of every
bounded sequence is a state. Text is a sequence of the character classes the code
tells apart, and a media type is a record of the facts the code looks at.

### Delivery

`DependencyUpdate` treats a file as what it records of the four pinned sources; one
action is one `writeFileSync`, in the order of `applyUpdates`. `Publication` commits
such checkouts, cut off after any of some numbers of writes (`Cuts`), and builds and
pushes them; pipeline and manual runs overlap. `Container` goes from the state volume
through the entry script (`phase`: seeding, settings, copying, linking, checking,
launching) to the launcher's two children and the proxy's connections, and may be
killed at any step. Every start chooses anew whether it is given a settings override;
`origin` says whose override `settings.yaml` is, and `OwnerEdits` is DSH or the operator
writing it instead. Which of the checks of host, ports and profile override fails makes
no difference, so `CheckEnvironment` passes or refuses. The three share no state while
they run, so `MCDelivery` explores them side by side, not as a product.

### Relationship

`history` is the table; `turn` is the engine's operation and `current` the
process's `currentOperationId`, which lags behind it between two turns.

## 3. What the runs check

| Run | Properties | Bounds | Result |
|---|---|---|---|
| `tools` | `TurnBound`, `RetriesAgree`, `ImagesKept`, `AttachmentsRestored`, `PaidOnce` | ledger: scale 0..10, baseline 5, stride 2, 3 turns, 2 calls; images: 2 messages, 1 call, 2 deaths, 1 removed file | pass |
| `host` | `OutcomeAgrees`, `NothingOrphaned`, `RunsInDisplayOrder`, `PromptMatchesRow`, `CloseDrains`, refinement `KeepsPromises` | 2 messages, 2 contents, 3 calls, 2 crashes, 1 fault, 1 clock reading | pass |
| `host_live` | `EveryMessageSettles`, `StartupRepairs` | 2 messages, 2 calls, 1 crash, 1 fault, fairness | pass |
| `host_clock` | `RunsInDisplayOrder` | 2 calls, 2 crashes, a clock that may step back | **violated**, see below |
| `feed` | `Complete`, `CurrentWhenCaughtUp`, `NeverRegresses` | 3 messages (1 from before the revisions), pages of 1, 5 revisions, 1 restart | pass |
| `feed_live` | `EveryChangeArrives` | 2 messages, 4 revisions, 1 lost stream, 1 failing request, fairness | pass |
| `feed_reconnect` | `ReconnectRefreshes` | 2 messages, 2 revisions, 1 lost stream, 1 failing request, fairness | **violated**, see below |
| `view` | `MicrophoneOwned`, `WithinLimits`, `NothingFromVoided`, `StopsEventually`; `NeitherLostNorDoubled`, `PreviewsOwned`, `RetiredOnce`, `SettlesEventually` | 2 recordings, limit of 2 chunks, 1 session change; 2 words (one is `/compact`), 2 images, 1 per message, drafts of 1 word, 2 sends; fairness | pass |
| `continuity` | `MarkersAnchored`, `RunningIsLive`, `ObservationKept`, `StatusPasses` | 2 messages of which 1 runs, 2 compactions, 1 crash, 2 waiting notifications, fairness | pass |
| `contracts` | `RecordingsAgree`, `ImagesAgree`, `TimelineKept`, `TypingKept`, `WaitKept`, `PreviewKept`, `RulesHold` | inputs around every limit; sequences of up to 4 key, 4 waiting, 5 press and 7 preview events | pass |
| `delivery` | `CheckoutAgrees`, `ReleasesWhole`, `OverrideWhole`, `HalfServiceEnds` | 2 releases and builds, 3 updates, 2 cut off; 2 commits, versions and jobs; 2 connections, 3 starts, fairness | pass |
| `delivery_seed` | `SeedWhole` | 1 connection, 2 starts | **violated**, see below |

Deadlock is checked in `tools` and the host runs, where something can always happen.
Elsewhere the bounded number of messages, sends, recordings or starts ends and the
system then rests. The types of `Relationship`, `PartnerHost` and `VoiceRecording` are
proved (section 5); those of `MessageFeed` and `Outbox` are stated for the reader.

Why the bounds are enough.

* *Host*: every interaction is between at most two messages (order, the engine's head
  blocking the next) or between one message and the process; three calls give one
  message two retries or both messages one; two crashes let a recovery be interrupted
  and repeated. With one clock reading all timestamps tie, which leaves the order to
  the rowid; timestamps that differ are in `host_clock`.
* *Feed*: a third message makes the history two pages deep beyond the first; five
  revisions let one message go through its whole life while another changes.
* *Ledger*: the scaled range has both ends, deltas larger than the stride, and room
  for a turn to move the full stride in both directions; the theorems remove the bounds.
* *Images*: two messages let a request outlive its turn; two deaths interrupt a
  startup; with more calls nothing new interacts, as a call only meets its own row.
* *Voice*: a second recording starts while the first one's prompt, recorder or
  transcription is outstanding; a limit of two chunks has one chunk below, one at and
  one above it. The page never changes the session it shows, so the session change is
  an input of the component rather than of this page.
* *Outbox*: two sends are a message and its retry, or two messages of equal or
  different content; an image and a word distinguish content by either.
* *Continuity*: two compactions are enough for one to overtake the log of another;
  the second message stays queued, is cancelled there or is what a marker must not
  be anchored to.
* *Contracts*: sizes are taken right at, below and above each limit, and around the
  points where a group of Base64 or an encoding chunk ends. What holds for every size
  is proved in `ContractsProofs`.
* *Delivery*: two cut updates leave a state that no single run leaves; the numbers of
  writes in `Cuts` are before, between and after the files that own the pins. Three
  starts are one whose copy is cut off, one that finds what it left, and one after the
  owner wrote settings.

The properties of `contracts` are each about the inputs of one kind: `TypingKept` about the
composer, `WaitKept` about the waiting words, `PreviewKept` about the preview. `WaitKept`
starts from what the view hands to `syncWaitingState`, which is `typingVisible`: an image
being drawn ends the wait, and another one begins after it. (No projection of this page
has an image being drawn; the view is written for one.) Conjunctions of named parts are
`RulesHold` (`StateTextSettled` about text a model writes, `DisplayRounds` about numbers,
`PressKept` about the photo button and `ReleaseNamesDistinct`), `RetriesAgree`
(`CallsApplyOnce`, `ReplyMatchesLedger`), `NeitherLostNorDoubled` (`NothingLost`,
`OneBubble`), `ObservationKept` (`AnswersObserved`, `SettledObservation`), `ReleasesWhole`
and `CheckoutAgrees`.

### Three divergences from the documentation

* `host_clock`. ADR 0007 says messages "run in order", and the page shows rows in
  rowid order, but startup re-prompts in the order of `created` (`store.ts:60`). In
  the trace the process dies after it admitted a first message; the next one hands the
  message to the engine again, starts serving without waiting for the acceptance, admits
  a second message with an earlier timestamp, and dies before the engine has accepted
  either. The start after that prompts the second message first, and they run in the
  opposite order. Without the step (`ClockStepsBack = FALSE`) the property holds in `host`.
* `feed_reconnect`. A comment in `server.ts:85-86` says a reconnect "always obtains an
  authoritative snapshot". If a request from before the break is still in flight when
  the stream reopens, the refresh asked for only sets `refreshAgain`; when that old
  request then fails, `refresh()` ends in its catch and forgets it
  (`+page.svelte:72`). The page stays stale, and shows itself as disconnected, until
  the next change.
* `delivery_seed`. A comment in `entrypoint.sh:20-22` says a partial state directory "must
  be inspected or migrated by the operator". The test it stands below only looks for
  `profiles/web/package.json`: a seed that was cut off after that file passes for a whole
  one, what is missing is never copied, and DSH runs on what there is.

A fourth is plain from `CopySettings` and has no run. `settings.example.yaml:3` says the
override is copied "only into a new, empty DSH state volume", while the script looks at
nothing but the size of `settings.yaml` (`entrypoint.sh:37`): a volume an earlier start
seeded, and DSH ran on, gets the override too as long as it has no settings. What does
hold is `OverrideWhole`: no settings with content are replaced, and no start runs on
another override than its own or on a part of it.

### Behaviour worth knowing that no document contradicts

The models contain these, and the properties are stated so that they allow them.

* *Host*: the failure of a requested compaction is logged past the queued notifications
  (`partner.ts:199`), so a compaction can be shown as failed while its own events are
  still queued.
* *Page*: a failed or cancelled outcome is saved without awaiting the events of its
  operation (`partner.ts:122-127`), unlike an answer.
* *Images*: an attachment torn by a crash is kept (`images.ts:41`); an image saved after
  its message settled raises no revision, so an open page learns of it with the next
  change of that message.
* *Outbox*: an entry of `pending` outlives the delivery of its message when nobody
  waits for it, so sending the same content later reuses the id and is taken as
  delivered. A restored draft merged with newly typed text has other content, hence a
  new id, and its first part may be delivered twice. Two failed sends of the same
  content share one entry. Restored images may exceed the limit of the composer, which
  then accepts no further one.
* *Voice*: a recording ended by the loss of its device is dropped without a message;
  a rejected start clears the elapsed-time clock of the recording that replaced it.
* *Composer*: Enter on a fully typed `/compact` accepts the suggestion again and never
  sends (`Companion.svelte:1117`), although the hint under the field reads "Enter to
  send" (`locale.ts`); the button does send. A restored draft forgets a
  composition that is still going on, and the button can then send half-composed text.
* *Photo button*: a long press without a following click swallows one later tap.
* *Preview*: reopening it, or leaving by another way, while a step back through the
  history is still under way leaves an entry too many or too few; `PreviewKept` speaks
  of the sequences without such a crossing.
* *Limits*: the composer does not look for empty files, for content that is not what
  the type says or for names above 160 characters; the server refuses them. A
  transcript of more than 15984 units does not fit a message. A change reason of
  blanks between control characters is accepted.
* *Container*: a settings override is refused by every later start that still has it,
  also when its own copy was cut off and nothing but a part of it is there
  (`entrypoint.sh:37-41`); a later start without it then runs on that part. A second
  signal has no handler of its own, and a child that ignores the signal keeps the
  launcher alive (`HalfServiceEnds` is for children that do end).
* *Dependency update*: a run cut off after the plugin inputs and before the license
  text leaves the license of the old plugin, which no later run fetches again
  (`skipped`); cut off between runtime manifest and lock, every later run refuses
  to go on.
* *Publication*: nothing stops an older version's run that ends later from moving the
  rolling tags back, and of two overlapping runs one may move `latest` and the other
  `full`. A manual run builds the working tree; a repeated job replaces the
  immutable references of its version.

## 4. Fairness

* `PartnerHost`: weak fairness of each continuation (`SubmitStep`, `OwnStep`,
  `EventHandled`, `Serve`, `Release`) because the event loop runs every ready
  continuation; of `EngineAccept`/`EngineAttach` and `EngineStep` because the engine
  drives what it accepted and a provider request ends or times out; of `RecoverStep`
  per row; of `Start` because a supervisor restarts the process. Nothing is assumed of
  users, faults or crashes; the bounds on them are what makes "after the last fault"
  meaningful.
* `MessageFeed`: the server handles events and answers requests, the browser delivers
  messages and reconnects an EventSource. A request that never ends is not assumed
  away silently: it is the case the code does not handle (there is no timeout on
  fetch), and the liveness property is about requests that end.
* `Outbox`: reading files ends, a post ends with a reply or an error, and the feed shows
  what was admitted. Nothing makes the server admit a request.
* `VoiceRecording`: a recorder that was stopped fires its stop event. Nothing makes a
  user answer a prompt, and nothing makes a transcription end.
* `Continuity`: queued notifications are handled, a compaction ends, snapshots reach the
  page while the process lives, and a browser timer fires.
* `Container`: a spawn error is reported, a child that was told to stop ends (the proxy
  once its connections are closed), and sockets' close events are delivered.

## 5. Proofs

TLAPS checks every theorem for every value of the constants that satisfies the
module's named assumption; nothing else is taken as given.

`ToolProofs` on the ledger, from `LedgerAssumption` (the baseline and the stride are on a
finite integer scale, deltas are integers):

* `TypeCorrect`: affinity never leaves the scale.
* `TurnBounded` (`TurnBound`): every row of a turn is within the stride of the value
  before that turn. The bound is about the turn a row belongs to, while the code
  computes it from the last row of *another* turn. The two agree only because the rows
  of one turn are consecutive (`TurnsInOrder`) and a call is always made by the newest
  turn or one that is not in the table yet (`CurrentIsNewest`); `LedgerInv` is their
  conjunction with the types.
* `RetriesAgreed` (`RetriesAgree`), from `RetriesCountOnce`: no call of an operation has two
  rows, and `RepliesMatchRows`: what a call is answered is its own row's state. The
  ledger only grows, so a reply once right stays right.

`PartnerHostProofs`, from `HostAssumption` (finitely many messages, numeric clock
readings, natural bounds): any number of messages, contents, calls, crashes and faults.

* `TypeCorrect`.
* `OutcomesAgree` (`OutcomeAgrees`): the row's outcome is the engine's. Not inductive by
  itself: an owner saves an answer long after it saw the operation complete, so
  `DrainCompleted` says that what it saw is still so, and `CancelAsked` ties a
  cancelled operation to the user's request.
* `PromptsMatchRows` (`PromptMatchesRow`): the engine never runs other content than the
  row shows. Content travels from the call to the row, from the call or the row to the
  queue, and from the queue to the engine, so the invariant has a part for each stage:
  `CallerSaved`, `RowsComplete`, `InboxMatches`.
* `Implements` (`KeepsPromises`): every step of the host is a step of `Conversation` or a
  stutter. Six lemmas read off the next-state relation which actions touch which
  variables; that leaves admission (`Say`), a resolved call (`Confirm`, which needs
  `CallerSaved`), a cancellation (`Stop`, which needs that an unfinished operation has an
  open row) and the three places that save an outcome (`Settle`). The latter are the
  point of `SettledOnce`: whoever saves finds the row open or rewrites what it holds.

`HostInv` is the conjunction of all these parts with the types. One lemma per part
shows that a step keeps it. Three more theorems rest on two invariants beside it:

* `OrphansNobody` (`NothingOrphaned`) and `ClosesDrained` (`CloseDrains`), both as long as no
  write fails: `Owned` says who owns a message in each phase. At startup it is the loop
  that still has to reach the row, while serving the task or the submit call between
  admission and prompt, and after the last task has ended nobody needs to.
* `OrderKept` (`RunsInDisplayOrder`), for a clock that does not step back and as long as no
  write fails: whoever has a prompt or an operation, so has every row before it
  (`InOrder`), and prompts are queued in the order of the rows. A new row is the newest
  and admitted only while every row before it is prompted or being prompted; after a crash
  the startup loop takes the rows in their order. `Places` says that rows and turns are
  numbered without gaps or ties and that `created` rises with them.

`VoiceRecordingProofs`, from `VoiceAssumption` (a positive limit, natural bounds): any
number of recordings and session changes.

* `Recorder` (`MicrophoneOwned`, `WithinLimits`, `StatusTruthful` with the types): an open
  microphone belongs to the active recording. The invariant `RecorderInv` adds `Fresh`: the
  active recording was started and has not settled, nor has one still to come.
  `InitInv` and `NextInv` show it inductive, with lemmas for the helpers (`Settle`,
  `StopRecorder`, `StopOrFail`) that most actions share.
* `LimitsKept` (`WithinLimits`) by itself, as the property the run checks.
* `NoVoidedText` (`NothingFromVoided`): text of a recording that was left behind is never
  delivered. It needs `VoidedInv`: what was voided is not being transcribed, and if it
  is still the active recording it was cancelled, so that it can never complete.

`ToolProofs` on images, from `AttachmentsAssumption` (finitely many image calls, natural bounds): any
number of messages, calls, crashes and removed files.

* `ToldIsKept` (`ImagesKept`): a tool's answer names an image that was saved before
  (`AnswersSaved`), a prompt one whose row was (`SubmittingSaved`), and neither is undone by
  a crash.
* `FilesRestored` (`AttachmentsRestored`): the startup loop passes the rows in order and there
  are no gaps (`RowsGapless`), so whatever lies behind it has its files.
* `NoSecondPayment` (`PaidOnce`): the only step that pays finds no image of its call.

`MessageFeedProofs`, from `FeedAssumption` (finitely many messages, a positive page size, natural
bounds): any number of messages, any page size, any number of wake-ups, reconnections,
restarts and failed requests.

* `WindowComplete` (`Complete`): the page's window misses nothing up to its cursor. What makes
  the proof more than the property is that answers are on their way: a batch answers the
  question for a cursor that may have moved, a page of history one for a window that may
  have grown. `CoverInv` states for each answer what it covers (`ChangesCovered`,
  `FirstCovered`, `OlderCovered`) and for the page what it has (`Covered`); `CursorInv` says
  that no cursor runs ahead of the revisions; `ViewsOrdered` that every copy of a message is
  an earlier or the present state of its row.
* `ShownOnward` (`NeverRegresses`): from `ViewsOrdered`, because `mergeMessages` compares
  revisions.
* `CaughtUpIsCurrent` (`CurrentWhenCaughtUp`): statuses carry no revision. `StatusInv` and
  `CancelInv` say that a status in an answer, or on the page, can be stale only if a change
  of the message is still to be told or its revision lies beyond the answer. The case that
  needs care is an error saved before the event that announces it, which a restart then
  loses: nothing touches the message any more, and the page is right only because the
  engine had ended the operation before the error was saved (`Reads`, `ServerInv`).

A page is cut at its oldest or newest row, so these proofs need that a set of naturals
has a least and a bounded one a greatest element: the lemma `Least`, from the
well-foundedness of strict inclusion on finite sets.

`OutboxProofs`, from `OutboxAssumption` (natural bounds, no image is called None): any words,
images and number of submissions.

* `SubmissionsShownOnce` (`NeitherLostNorDoubled`, from `SubmissionsKept` and
  `BubblesSingle` for its two parts), `PreviewsHeld`
  (`PreviewsOwned`) and the action property `RetiredForGood` (`RetiredOnce`). They hang
  together: a retry takes the id of an unconfirmed message of equal content, so the proof has
  to know what an id stands for. `IdInv` and `ContentInv` say that everything that carries
  one id (submissions, requests, rows, kept retries) has one content; `EchoInv` that an id
  has one echo and none while it is kept for a retry; `WaitInv` that whoever waits is not
  retired and waits for its own id; `PreviewInv` that a preview URL has one owner. The lemma
  `Grows` collects what no step undoes; `OutboxCases` reduces the steps to seven kinds.

`ContinuityProofs`, from `ContinuityAssumption` (natural bounds, room for one notification):
any number of messages, compactions, crashes and notifications under way.

* `RunningKept` (`RunningIsLive`), from `RunInv`: what the table calls running in this
  process, and every start still queued, is the compaction the engine works on, or its end
  is queued behind it.
* `ObservationsKept` (`ObservationKept`) puts the next two together.
* `SizesKept` (`AnswersObserved`), from `OwnInv`: an operation that completed in this process
  leaves its context loaded, its owner stores that size before it saves, and nothing queued
  carries the zero of an unloaded context.
* `SettledKept` (`SettledObservation`), from `SizeInv`: as long as the stored size is not the
  live one, somebody who will store it is still to come: a completed message nobody has taken
  up, a caller waiting in the queue or past it, or a queued size. The last queued size is
  the live one under the same condition, since `StoreReplaced` overwrites what is stored.
  `ContinueInv` counts the callers of the queue. The model's broken turn leaves the context as
  it is, so the proof needs no use of the exemption of broken turns in the property.
* `MarkersKept` (`MarkersAnchored`): the projection runs behind the engine by the whole queue,
  so a marker's place is decided when the engine speaks and checked when the table hears of
  it. `ReplayInv` says that there is a run of the projection over the queue, starting at the
  table (`Folded`), in which every installed compaction meets the active operation and the
  last dialogue it belongs to (`Fits`), and which ends where the engine is (`Settled`). A step of
  the engine extends that run at its end, `Handle` takes off its first step. `HeadInv` and
  `QueueInv` say what is left of it when a crash empties the queue, `MarksInv` carries the
  markers. The run is an existential witness, so no induction over the queue is needed.

`DeliveryProofs`, from `UpdateAssumption`, `PublicationAssumption` and `ContainerAssumption` (at least
one release, natural bounds, finitely many connections): any number of releases, builds,
updates cut off, commits, tags, runs of publish and starts.

* `OverridesWhole` (`OverrideWhole`), from `SettingsInv`: while a start copies its override,
  `settings.yaml` is its own and not the owner's. A copy that was cut off leaves a part
  that no start with an override gets past, or an empty file, which is copied again.
* `ReleasesStayWhole` (`ReleasesWhole`), from `PublicationInv`. A run pushes only what it
  inspected (`PushedWhenInspected`) and rolls a tag only once both immutable references
  of the same run were pushed (`RolledWhenPushed`). Runs overlap and end anywhere, so
  each part is about every run there has been rather than about the last.
* `UpdatesAgree` (`CheckoutAgrees`), from `UpdateInv`: while an update writes, the files it
  has written agree with its pins (`WritesAgree`). The license text is the one file an
  update may leave alone, when its plugin did not change. That is right only if the text
  spoke of that plugin before, and `LicenseFollows` names the two ways it may not: a run
  cut off between the two files and a text that was left behind. `BridgeKnown` carries
  the bridge image from the comparison with its source tag, through the run and its pins,
  into the checkout, while both tags may move.

`ContractsProofs`, from `SafeAssumption` (the largest safe integer is at least eight times the
data URL limit): the agreement of the limits for every media type, size, cutting into
chunks, message, text and request.

* `LargestRecording`, `BrowserAndProviderAgree`, `ChunksConcatenate`: a single recording.
  They rest on the lemma `Groups`: n bytes fit a room of characters exactly when they are
  within three for every whole group of four. `TextsPass` and `SourcesFit` are the same
  for base64 texts and for the sources of a request to the image bridge.
* `AnyChunking`, `RecordingsPass`, `TranscriptsFit`: the route adds up the chunks as they
  arrive and refuses as soon as there are too many bytes; that is the check of the whole.
* `BodyHasRoom`, `ImagesPass`: a message is limited in the number of its images, in the size
  of each and in their sum, in the length of names and text, and in the length of the JSON
  that carries all of them. The last never decides: base64 and rounding each image up to a
  group stay within the slack of `messageBodyLimit`. With it the composer, which judges
  images as they are added, and the route, which judges the message, come to the same.
* `RecordingsAgreed` (`RecordingsAgree`) and `ImagesAgreed` (`ImagesAgree`): the properties the run
  checks, as instances of these. `Examined` says that an input of a kind is one of the
  inputs listed for it.

The sums are those of the community modules, which choose the function they recurse with.
`SumsExist`, `SumsAgree` and `SumGives` show that there is exactly one, `SumWithout`, `SumOfPart`,
`SumBound` and `SumOfBoth` how sums grow. No induction theorem is cited: the set of
counterexamples, if it had a member, would have a smallest one (`Smallest`, from the
well-foundedness of strict inclusion), and that one is none.

Only model-checked: the other properties of `contracts`, which are about folds over
sequences of events and rows and about filters the library defines by recursion, and all
liveness.
Liveness under fairness and ENABLED are out of the prover's reach and stay with TLC.

The proofs shaped some definitions, without a change to what they describe. `RemoveImage` of
`Outbox` takes an image out of the draft by its position, where the library's filter is
recursive; the drafts are distinct objects, which `PreviewInv` proves of the model. What an
update has left to write is a set, written in the order of the files' list. Early returns
one after another are a chain of IF and ELSE: a CASE whose conditions overlap leaves open
which arm is meant, so that nothing follows from it.

## 6. Not modelled

* Presentation: scrolling, focus, locale, theme, Markdown, wording. The page supplies
  neither `attachmentUrl` nor `prepareVoice`, so loading images by handle and playing
  voice messages cannot be reached. Going forward through the browser's history
  and destroying the page are not modelled with the preview and the outgoing messages.
* The command line: one command handles one file. Two concurrent credential commands
  may lose one's change; the code does not guard against it.
* Paging and pruning of the diagnostics table, static assets, the origin check.
* Mail, workspace tools and the requests to services, beyond their limits and failure.
* The static site, the memory service image and its patches, image layers, licences,
  the inventory of bridge packages and the SBOM beyond the plugins it lists.
* The inside of the nanocodex SDK, of the browser and of registries: assumptions above.

Abstractions to keep in mind: in `MessageFeed` a "reply" is any outcome, its answer or its
error; a cancelled operation is one that failed, since both end with an error that no
owner delays. That module takes a submission's notification with the engine's
acceptance (a row whose prompt is never accepted is `PartnerHost`'s business). Floating
point rounding in `CompanionRules` is integer rounding, and the largest safe integer is a
constant. In `DependencyUpdate` a single file is written whole or not at all.

## 7. Plan

Done: all modules of section 2 with their runs, and the theorems of section 5.

Left, in this order:

1. Theorems for `TimelineKept`, beginning with the rounds a compaction keeps, and for the
   text and view properties of `contracts`.
2. The paging of diagnostics and the command line.
