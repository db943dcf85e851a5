# TLA+ models of macarons

macarons is a suite of opencode plugins in TypeScript: `src/plugins/*` hold the
plugins, `src/libraries/*` what they share, `src/tools/installer` a command-line
wizard. The plugins run inside a host process (opencode), which calls their
event hooks and tools, keeps the sessions and their messages, and answers HTTP
requests; some have a second half in the terminal (`tui.tsx`). Several host
processes and terminals may run on one machine and share files.

What is hard about this code is not its algorithms but its interleavings. One
JavaScript thread runs the handlers of a plugin, and every `await` lets timers,
host events and other tool calls in between. The host acknowledges prompts
before they are stored, publishes events twice or around the change they
announce, and may lose an answer. Servers, terminals, editors and git share
files, under lock files that may go stale or under no lock at all. The modules
here model those parts; a few more model functions whose results other parts
rely on, for every input of a bounded set.

In all of them an action is the synchronous code between two awaits, or between
two system calls where processes share files.

Contents: [inventory](#inventory), [modules](#modules), [runs](#runs),
[theorems](#theorems), [where the code and its documentation
disagree](#where-the-code-and-its-documentation-disagree), [what is left out of
the models](#what-is-left-out-of-the-models), [what is open](#what-is-open).

## Inventory

| component | state | operations | hard behaviour | correct when |
|---|---|---|---|---|
| **cron: scheduler** (`cron/src/scheduler.ts`) | jobs, reservations, held fires, idle epochs, one timer | create, remove, drop session, tick, probe, deliver, retry, park, idle event, dispose | every fire awaits twice while jobs, sessions and idle events change | no job runs twice at once, no fire or held fire is lost, no ambiguous prompt is sent again |
| **cron: adapter** (`cron/src/plugin.ts`) | a delivery lane and a provisional-busy mark per session, session activity | queue, check idle, dispatch, confirm, watchdog, close | answers lost, prompts stored late, events doubled | deliveries are serial, turns separated, each answer true |
| **approve-for-me: batch scheduler** (`server/batch-scheduler.ts`) | trees of prompts, queues, running batch, parked approvals, barrier, mode cache | enqueue, resolve, release or park, answered, delete session, refresh mode, dispose | classifications end in any order; the user answers meanwhile | approvals are posted in stack order; nothing stalls |
| **approve-for-me: pool** (`server/pool.ts`) | running count, limit, queue | acquire, abandon, release, drain | limit changes under waiters; aborts meet grants | slots are counted, none idles, order is kept |
| **approve-for-me: prompt handling** (`index.ts`, `server/*.ts`) | live prompts, activity, deny deadlines and budget, plugin replies | judge, read again, reply, unattended deny, sweep | minutes between a verdict's inputs and its reply; rejects cascade over the whole session | no approval under a changed policy; nothing rejected that was not looked at |
| **approve-for-me: policy, settings** (`shared/*`) | configuration files, record of the reviewed ones, per-session models | scan, review, locked patch, pin, clear, sweep | agents and editors write the same files | nothing counts unreviewed, no edit is lost |
| **approve-for-me: terminal** (`tui.tsx`) | adopted instance, mirrored files, leases | adopt, watch, toggle, confirm, mirror, prune | the server restarts meanwhile | what it announces happened, what it shows is so |
| **subagent-comms** (`index.ts`, `shared.ts`) | registrations, waiters, settle queue, cleared launches, busy set | spawn, send, wait, kill; settle, poll, deliver, retry, park | a completion has several takers: a note, a blocking call, a kill | every completion reaches the parent, once; "ended" is true |
| **permission-rules: store lock, migration, keying** (`filesystem.ts`, `store-keying.ts`) | lock files, stores, the key of a session | lock, break stale, heartbeat, save, fold, adopt, resolve | crash or suspension at any step; git answers late | no approved rule is lost or out of reach |
| **permission-rules: async** (`async.ts`) | promise chains, activity map | timeout, serial queue, single flight, activity tracker | rejections, re-entry, duplicate events | order kept, no call dropped |
| **permission-rules: engine** (`engine.ts`) | none | match, overlap, subsume, evaluate, add, merge | wildcards, and the last match wins | an approval takes effect, a fold respects both stores |
| **persist-permissions** (`index.ts`, `shared.ts`) | pending prompts, session-rule cache, stores | persist, auto-reply, open a store | rules change while they are fetched | a session rule outranks the store; approvals survive |
| **background-tasks** (`index.ts`, `process-group.ts`, `shared.ts`, `shell-permissions.ts`) | tasks, buffers, waiters, notes, batches, state files, kill requests, a keeper process | run, output, wait, kill, finalize, notify, retry, sweep, dispose | exits race kills and waits; groups outlive shells; servers outlive each other | one report per exit; every group cleaned up; lists are true |
| **redact-secrets** (`index.ts`, `shared.ts`, `engine/scanner.ts`, `wire-body.ts`) | vault, catalog of fingerprints, key, pins of what was sent | scan, register, recover, mask, unmask, pin, flush | secrets are learned late, forgotten by restarts and shared by processes | nothing known leaves readable; what was sent stays as it was |
| **btw** (`tui-controller.ts`, `shared.ts`, `index.ts`) | a forked session with lease, follow-up, aborts, marks | ask, dismiss, follow up, open, sweep | aborts overtake admissions, terminals sleep and die | no fork leaks, no stray abort or end |
| **usage-limits**, codex-limits (`engine.ts`, `codex.ts`, `auth-scope.ts`) | what is known of the account, numbers, epochs | read, prove, fetch, tick, classify | the account, the server or the session changes meanwhile | the numbers are the account's on screen |
| synthetic-limits, web-search, cache-ratio, subagents-sidebar, scoped-system-prompts, installer, test harness | little or none | requests, views | - | not modelled |

**Interactions.** The scheduler of cron calls the adapter (`deps.deliver`,
`deps.isIdle`) and gets idle events from it. A permission prompt of the host
goes to persist-permissions, which may answer it from the stores, and to
approve-for-me: `handle()` enters it into the batch scheduler, takes a slot of
the pool, asks the classifier, asks for its turn and posts a reply; both
plugins record their replies in a shared ledger so that neither takes the
other's for the user's. persist-permissions, its TUI and approve-for-me edit
files under the lock of permission-rules. cron, background-tasks and
subagent-comms inject prompts into sessions with the same pattern (minted id,
202/204 answer, confirmation by id, bounded retry, parking of what is
ambiguous), each with its own state machine around it. redact-secrets sees
whatever any of them sends to a provider.

## Modules

| module | models | checked in run | proved in |
|---|---|---|---|
| `CronScheduler` | the scheduler of cron | `cron_one_job` | `CronScheduler_proofs` |
| `DeliveryContract` | abstract: what a delivery promises the scheduler | `cron_delivery` | `CronDelivery_proofs` |
| `CronDelivery` | the adapter of one session, and the host below it | `cron_delivery` | `CronDelivery_proofs` |
| `BatchScheduler` | the batch scheduler with `handle()` around it | `prompts`, `batch_sessions` | - |
| `ConcurrencyPool` | the classification slots | `settling` | `Prompts_proofs` |
| `PromptJudging` | what a verdict rests on, read twice | `prompts` | `Prompts_proofs` |
| `LeftPrompts` | the unattended deny and the stale-prompt sweeper | `prompts` | `Prompts_proofs` |
| `PolicyTrust` | which project settings count | `guards` | `Guards_proofs` |
| `SettingsSave` | savers and an editor of the configuration | `guards` | `Guards_proofs` |
| `TuiControls` | adoption, mirrored files and toggle of a terminal | `guards` | `Guards_proofs` |
| `SessionPins` | the classifier model pinned to a session | `guards` | `Guards_proofs` |
| `SessionMirrors` | the terminal's bounded mirrors of these records | `guards` | - |
| `StoreLock` | the lock, and saving, patching, folding, adopting under it | `keeping`, `store_patches` | `StoreLock_proofs` |
| `StoreKeying` | which store a session is keyed to | `store_patches` | `StoreLock_proofs` |
| `PermissionRules` | the rule engine | `store_patches` | - |
| `StoredApprovals` | the automatic replies of persist-permissions | `keeping` | `StoreLock_proofs` |
| `SubagentNotify` | how a parent hears that a subagent finished | `keeping`, `notify_live` | - |
| `BackgroundTasks` | the tasks of a session, kills, waits | `background` | `Tasks_proofs` |
| `TaskChannel` | state files and kill requests between servers and terminal | `background` | `Tasks_proofs` |
| `OutputBuffer` | the bounded output of a task and its waiters | `background` | - |
| `ShellPermissions` | what a command must be allowed to do | `background` | - |
| `ProcessGroup` | the keeper of a process group and its messages | `settling` | `Tasks_proofs` |
| `NoteBatches` | completion notes of background tasks | `settling` | - |
| `SecretVault` | the vault and its catalog on disk | `guards` | - |
| `SecretFindings`, `RedactWalk`, `WireBody` | the scanner, the walk over a message, the last look at the wire | `guards` | - |
| `InstallKey` | the key servers share | `guards`, `install_key` | `Guards_proofs` |
| `HistoryPins` | the record of what was sent | `guards` | - |
| `SideForks` | the forks of side questions | `guards` | `Guards_proofs` |
| `SideThread` | prompts, aborts and events on one fork | `guards` | `Tasks_proofs` |
| `SideMarks` | what btw's server half knows of a session | `guards` | `Guards_proofs` |
| `UsageLimits` | whose usage numbers a terminal shows | `guards` | `Guards_proofs` |
| `MC...` | values for constants; components side by side in one run | | |

`PROJECT.json` maps every definition to its lines of source. The operators
named `Mut...` are plausible slips (a dropped guard, a swapped comparison) of
the definition after them. No specification uses them: put in the place of that
definition, each makes TLC refute a property.

### CronScheduler, DeliveryContract, CronDelivery

State and actions carry the names of `createScheduler`. A job is a record, `None` is
`undefined`, a cron expression is its period and the clock a number. A *run* is
one execution of `fire`: it sits in `firing` (the overlap guard), may share an
idle probe with the other due jobs of its session, awaits the delivery before
and after `beginAttempt`, and releases its reservation in `finally`. Between
two of these steps anything may happen: the timer, creation and removal, the
end of the session, idle events, disposal. `Outcomes` is what a delivery may
answer and whether the prompt landed; `AfterDelivery` is what follows.
`landed` and `heldAt` are auxiliary.

`CronScheduler` takes deliveries for granted: "delivered" means stored once,
"deferred" and "rejected" that nothing is or will be stored, "unknown" leaves it
open. `DeliveryContract` states that with the landing as a step of its own, and
`CronDelivery` models the code that has to keep it. `ImplementsContract` is the
refinement: the prompt's fate at the host is mapped to the contract's
`open`, `hit` and `landed`. In `CronScheduler` the landings of an attempt are counted
where it returns.

A lane holds the deliveries of one session. The head checks that the session is
idle, reads its identity, checks again, asks the scheduler for a message id
(`beginAttempt`), sends and looks for the stored message. After a delivery
a mark keeps the next one back until the session was seen idle; a watchdog
reads the status when no turn starts. The host publishes a status change before
its own map changes and an idle change twice, answers a prompt before it is
stored, may refuse it, lose it or store it long after the deadline.

### BatchScheduler, ConcurrencyPool

Prompts are numbered in the order of the host's stack; sessions, trees and
batches are functions on them. `sched` is one record with the scheduler's sets:
because a handler such as `answered` pumps every tree it touched, its actions
are compositions of operators on that record. A job is looked up, queued,
started with its batch (or alone in serial mode), judged, revalidated, released
or parked, posted. A tree object is named after the request it was created for,
since jobs keep an object after the map has dropped it. The verdict of
the classifier is nondeterministic, and a failed reply request may have been
accepted or not. `ConcurrencyPool` has every operation of the pool; the
batch scheduler does not need its order, so the two are separate modules.

### PromptJudging, LeftPrompts

`PromptJudging` follows one prompt through `handle`: its inputs are read one
await after the other, a fingerprint of each is kept, the model answers, and
before each attempt to release an approval everything is read twice over and
compared. An input is a version and whether it bars the prompt from being
judged. Reads of the host before the verdict may be shared with reads other
prompts began (`createHostReadCoalescer`), those after it not, but for the
model catalogue: the property is about all inputs except that one.

`LeftPrompts` is one session as the unattended deny and the sweeper see it.
Events are `[what, of, by]` records in a queue; what the plugin hears trails
what the host did. The host's cascade over a reject takes every pending prompt,
and its replies are heard one by one. `away` counts timed denies since a reply
last counted as the user's, `mistaken` holds prompts whose reply the plugin may
not know as its own. Left out: deletion of the session, disposal, eviction,
ancestry look-ups, and a separate ledger for the sibling plugin.

### PolicyTrust, SettingsSave, TuiControls, SessionPins, SessionMirrors

`PolicyTrust`: a server scans the project's files for every prompt, file by
file, compares with the recorded hashes and pauses; a terminal scans, shows a
dialog and records. Files may be edited, unreadable, vanish and come back
between any two reads. A hash is the content.

`SettingsSave`: two savers work on the global configuration (under a store lock;
the file is compared with what was read just before the rename) and on the
project's settings (without a lock), next to an editor that takes no lock.
`late` marks a change after the last look: the window the code leaves open.

`TuiControls`: one terminal, servers that replace each other, other terminals
that toggle. Adoption asks over the transport who the server is, derives its
files and proves that both see the same ones; a press of the toggle adopts,
reads, writes, confirms with the server and announces. A generation that has
moved on is a flag of the work that had captured it.

`SessionPins`: the record of one root session, written and cleared by terminals,
a starting server's sweep and the handler of a deleted session, under its lock.
`SessionMirrors`: the watched mirrors of those records with their leases, the
least recently used one stopped beyond the bound.

### StoreLock, StoreKeying, PermissionRules, StoredApprovals

In `StoreLock` a process is a saver (`persist`, the save of the TUI), a patcher
(`patchGlobalEntryOptionsOnce`, with heartbeat and lease assertion), a folder
(`migrateWorktreeStore`, two locks, destination first) or an adopter
(`adoptLegacyProjectScopedFile`). A store is a set of rules, a lock file a
token, a version of its mtime and whether it is older than `staleMs`. Processes
crash or are suspended at any step. What the code looks at before it destroys
something is a step of its own, and so is what follows: the two `lstat` of a
waiter and its unlink (`Judge`, `Confirm`, `Unlink`), the assertion of each lease
(`AssertLeases`, once per lock) and the rename or the removal of the source
(`WriteStore`, `EraseSource`), the token check of a release and its unlink
(`Release`, `Unlock`). A saver asserts nothing (`persist`). Assumed: a lock gets
old only under a dead or suspended holder, so the sections of running processes
are shorter than `staleMs`. That a fold stands down (a manual or carved-out
file) is a nondeterministic outcome of `Read`. Edits of the files by hand are not
modelled.

POSIX has no unlink by inode and no rename under a lease, so the windows between
a right look and what rests on it stay open (`filesystem.ts:785`). The model goes
through them and keeps account of what they cost in two auxiliary variables:
`robbed`, the tokens of fresh locks that were removed by their name after a look
that was right (`sure`), and `exposed`, the rules that a rename or removal
replaces, removes or adds whose lease was lost after it was asserted, or, by a
saver, is asserted by nobody. `StoreIsKept` claims that nothing else is robbed or
lost: what an act destroys whose look was wrong or left out is in neither
account, and violates it.

`StoreKeying` keys a session: three roots, git that answers, is silent or
answers differently, retries with the results of earlier attempts, the gate
that folds legacy stores in before a store is used. A probe, a fold and a save
are one step each. Accesses that ask while an attempt is under way share it, and
after it each writer left unanswered may be the one that starts the next. Path
trust is a possible fault.

`PermissionRules` is pure: matching, overlap and subsumption of patterns, the
rule that decides, `addAllowRule`, and the merge of two stores, compared with
their meaning (the set of words a pattern matches) over every question in a
bounded set.

`StoredApprovals`: hooks of the host start in order and run interleaved. A
prompt is looked up in the session's rules (cached, with tokens that a change
makes stale) and in the store, answered by a POST whose answer may be lost, and
"always" answers of the user are saved.

### SubagentNotify

One parent, one child. Ids are time-ordered, so a message is a number, a reply
is the number of the message it is parented to, and `Outcome` is
`extractChildOutcome`. `reg` is the one registration of the child with what is
known of it in `entry`; `bodies` is the settle queue of the child, whose head
goes through status, transcript and decision; a note is looked up, injected and
ended by `Deliver...`; a call is one use of a tool, which may claim the
registration and has to give it back or answer for it. The
host lands accepted prompts later and in order, or never, and takes up a run
in the step that lands one. `told`, `over`, `freed`, `noted` and `landed` are
auxiliary: what the parent was told, truly or not.

`SlowReads = FALSE` states that a settle which was queued before a decision
does not count as a second look spaced by `GRACE_SPACING_MS` (750 ms):
transcript reads are faster than that. [Below](#where-the-code-and-its-documentation-disagree)
is what happens without it.

### BackgroundTasks, NoteBatches, OutputBuffer, ProcessGroup, TaskChannel, ShellPermissions

`BackgroundTasks`: a run reserves a slot, asks, spawns and registers; kills and
waits may report the exit themselves (`deliveredInline`, `killWaiters`),
otherwise a note is raised; killed groups are signalled again until they are
gone; finished tasks are pruned. `NoteBatches`: the notes wait for an idle session, go out in batches with minted
ids, are retried while the host surely did not take them, parked when that is
unknown, and given up with their session. `OutputBuffer`: chunks, a read
cursor, `dropped`, and the pumps of `background_wait` that match whole lines.
`ProcessGroup`: the keeper, its IPC in both directions, `exit` and `disconnect`
events that overtake messages, time limits on start and signals. `TaskChannel`:
each server's own state file, the two merged copies under a lock, adoption of
dead servers' tasks, kill requests that terminals drop and servers sweep.
`ShellPermissions`: the walk over the syntax tree of a command line, compared
with what the commands of the script run and reach.

### SecretVault, SecretFindings, RedactWalk, WireBody, InstallKey, HistoryPins

`SecretVault`: secrets become known by rule, by seed or by recovery from
fingerprints within a budget; the catalog is merged by every server that
writes, and bounded. The others cover the way of a text: `SecretFindings` one string with windows
and overlapping findings, `RedactWalk` the parts of a message and what the way
back restores, `WireBody` encodings and content types of the outgoing body.
`InstallKey` is the creation and repair of the shared key, `HistoryPins` the
bounded record of renderings that keeps sent text stable.

### SideForks, SideThread, SideMarks, UsageLimits

`SideForks`: each question makes, marks and prompts a fork, owns it by a lease
that a heartbeat renews, and releases it when it is dismissed or replaced;
requests fail, the terminal naps or dies, another terminal sweeps.
`SideThread`: the exchanges on one fork, events of runs that were aborted,
aborts that land late, beats of the marker, and opening the fork as a session.
`amiss` is auxiliary: what was lost without anyone being told, of three kinds.
A first prompt whose answer was lost counts as dispatched (`InitialDispatched`,
`tui-controller.ts:548-575`), so it may still arrive in a later exchange. The
second is safe from it, as it waits for an answer of its own, but a third can
take the late run's end for its own, and so can a second whose own event was
lost (`Unsafe`). A failure of which the event was lost is told by the idle event
after it, and passes for an answer. An unmarking that was lost leaves the mark.
`ThreadsAreKept` claims all that holds besides.
`SideMarks`: the versions of a session at the host, the events about them, and
the cache and look-ups of the server half that decide whether it is a fork.

`UsageLimits`: a reading looks into the terminal's auth store and has the server
of the selected scope prove that it holds the same record; a flight reads,
fetches, reads again; ticks read, look up the classifier and ask for a flight.
`held` is auxiliary: the records the probed server held since the reading began.

## Runs

Twelve runs; each takes less than four minutes with two workers, two runs at a
time. Components that share nothing are checked side by side: an `MC` module
extends them, and its variable `part` says, from the initial state on, which one
takes the steps while the others rest.
Runs do not check for deadlock: the bounds make every model stop. That nothing
stalls which should go on is the subject of the liveness properties.

| run | component | properties |
|---|---|---|
| `cron_one_job` | scheduler: one job over many matches, raced idle events, refusals, ambiguity, expiry | `SchedulerInv`: reservations, holds, timer and epochs agree, and every accepted prompt has a used-up match of its own. `FiresAreKept`: a fire is scheduled, held for an idle event still to come, or parked. `NoFireTwice`. `RunsSettle`: reservations are released, a one-shot is delivered, parked or waiting |
| `cron_delivery` | adapter of a session | `LaneKeepsOrder`: serial, turns separated, stored out of order only if reported unknown. `ImplementsContract`. `LaneMovesOn`: marks are lifted, deliveries return |
| `prompts` | batch scheduler | `TreeIsSound`: batches never interleave, what is parked is blocked by something, no pump is missed, a barrier has an owner. `StackOrder` |
| | deny and sweeper | `CascadesAreOurs`: no reject cascades over a prompt that was not looked at. `LeftIsLookedAfter`: the deny budget, countdowns, stale prompts |
| | judging | `ApprovalIsCurrent`: posted under the policy it was judged by, on reads no older than the prompt |
| `batch_sessions` | batch scheduler with deletion, disposal, a mode edited during a read | `RepliesAreDue`: one reply each, none beside a batch-mate after the edit is seen, every job ends |
| `batch_detached` | refuted, [below](#where-the-code-and-its-documentation-disagree) | `ReleasedInStackOrder` |
| `keeping` | store lock, folds and savers suspended | `StoreIsKept`: tokens are unique, running holders own their locks, what is destroyed was looked at, reads under a lock are current, no rule is lost; but for `robbed` and `exposed` |
| | notifications | `NeverLost`: a completion is told, or somebody has it. `NotesAreTrue`: one note per registration, "ended" is true, what a kill cleared does not come back |
| | automatic replies | `StoredRulesAreMeant`: session rules win, "always" is saved, replies are attributed to the right side |
| `store_patches` | store lock | `PatchesSettle`: a lock refreshed between the two looks stays, every attempt ends |
| | keying | `KeysAreKept`: a read sees what was saved, fallbacks are marked, settled is for good, nothing passes an unfolded legacy store |
| | rule engine | `RulesAreSound`: judgements on patterns agree with what they match, approvals take effect, folds respect both stores |
| `notify_live` | notifications | `Settles`: a launch or a message taken up is not followed for ever |
| `settling` | process group | `GroupClaims`: a group called gone is gone |
| | slots | `PoolIsSound`: slots are counted, none idles, nobody is passed |
| | all three | `AllSettle`: a released group dies, notes arrive or are given up with their session, waiters are served |
| `background` | tasks | `TasksInHand`: one report per exit, the cap holds, no half-killed task is forgotten |
| | commands and output | `CommandsAreCovered`: what a script runs and reaches was asked for; output is told whole or counted as lost, a sleeping pump misses no line |
| | state files | `ListsAreTrue`: once the writes are done lists and files are so. `KillsNotEaten` |
| `guards` | redact-secrets | `SecretsStayInside`: what the vault knows is masked in any form it can recover, in findings, parts and bodies. `ReplayIsStable`: a rendering that was answered is repeated. `KeysAgree`: starts share the file's key but for two known races |
| | approve-for-me | `PolicyIsReviewed`, `SavesAreKept`, `ControlsAreTrue`, `PinsAreKept`, `MirrorsStayLive` |
| | btw | `ForksAreAccounted`: no fork leaks while the terminal runs, none in use is swept. `ThreadsAreKept`: ends, events and aborts belong to the run they are taken for. `DecidedOnCurrentMarks`: no decision on a mark older than the last event |
| | usage limits | `LimitsAreOwn`: numbers and classifier are those of what is on screen; a record counts only as the newest reading proved it |
| `install_key` | refuted, [below](#where-the-code-and-its-documentation-disagree) | `Converged` |

Most of these are conjunctions: their parts are named and commented in the
modules, the type invariant of a module being the first part.

**Bounds.** Every bound is a constant or is named in the `MC` module. The clock of
`CronScheduler` (`MaxTime` 7) covers several periods, the expiry and all retries
of one job; several jobs are covered by the proof. Two jobs, calls, turns and
probes in `CronDelivery` let a late prompt meet the next delivery. Three prompts
make a stack with something above and something below a parked approval; in
`prompts` the user answers the upper two. A prompt judged meets one edit (two
hold as well). The deny has a budget of one and no retry; a mishap (a lost or
failed request) is allowed where there is one turn. The pool has three jobs and
limits that go up and down.

In `keeping` a folder, an adopter and two savers, one suspension and three holds
are the smallest constellation of every loss the comments of the code speak of; a
process that is never resumed stands for one that crashed; `w1` is read-only
until it is made writable. In `SubagentNotify` the calls are one that creates a
registration, one that holds it and one that disturbs both, with one mishap per
behaviour in `keeping`; `NeverLost` is not claimed of waits nor of aborted
sends, where it fails. `StoredApprovals` has two of its three budgets (edits of
the session, of the store, failures) in a behaviour. Keying has two saves, one
read, one flip of git and one lapse of the retry delay.

Two runs of background commands with two kills and a wait; two servers with one
crash; every stream of five characters in chunks of two through a buffer of
three; all scripts up to the depth in `MCBackground`. Three starts make a key.
Two terminals and three events review a policy; two savers have two attempts
and two edits; two servers follow each other under two toggles and two reads in
flight. Two questions, two losses, one nap and one dismissal make a fork
leak in every way named in the code; a thread has two exchanges, two aborts and
one mishap, and either a follow-up or one opening next to one beat. Usage limits
start with everyone signed in to one account, with one tick, two turns and
three readings; from every initial state with four (3.4 million states) they
hold as well.

**Fairness.** Weak fairness of the steps the event loop owes: timers that are
due, continuations whose request has ended. Requests end because the code
bounds them (`withTimeout`), a classification has a deadline, the poller of
subagent-comms ticks while something is watched, the keeper of a process group
reads its messages until it dies. Strong fairness only where a step is enabled
now and then and repeated by the code: the watchdog's read of the status in
`CronDelivery`, an attempt of a note between two busy spells, the deadline of a
waiter for a lock; two *spaced* idle looks of a settle are written as a
recurrence in `SNFairness`. No user action is fair, and no tool call of a model
is: they answer, delete, edit, wait and kill when they like, or never. In
`SubagentNotify` runs end and prompts land unless they perish: that is the
host's part of the bargain, and it is what "finished" is about.

## Theorems

Six modules hold proofs that TLAPS checks. A theorem holds for every value of
the constants that satisfies the assumptions of its module: any number of
sessions, jobs, processes, servers, edits, questions, ticks, and any bounds. In
each, the property of the run is first strengthened to an inductive invariant,
which was model-checked before it was proved; there is one lemma per action and
under it one step per conjunct that the action disturbs.

| theorem | property | what joins the invariant |
|---|---|---|
| `CronScheduler_proofs`: `SchedulerInvHolds`, `NoFireIsForgotten`, `NoFireTwiceHolds` | `SchedulerInv`, `FiresAreKept`, `NoFireTwice` | `IInv`: while a run delivers, its job is advanced past the match and not held (`DeliveringIsAdvanced`); a hold is remembered until its run ends (`HoldIsRecorded`), so the idle event and `Finish` agree on who flushes it; an id in use belongs to a retry that replaces it. On top, the accounts: each accepted prompt, and the outstanding one, has a used-up match of its own; retries and terminal deliveries come only after expiry |
| `CronDelivery_proofs`: `LaneKeepsOrderHolds` | `LaneKeepsOrder` | afloat prompts belong to the attempt at the head or were answered "unknown"; the idle epoch moves only when the session was shown idle or is closed; message ids stay within the calls made |
| `ImplementsContractHolds` | `ImplementsContract` | the refinement to `DeliveryContract`: each step is one of its steps or a stutter |
| `StoreLock_proofs`: `StoreIsKeptHolds`, `NothingUnreadIsRemoved` | `StoreIsKept` | tokens are unique, so a lock has one owner, and a running holder loses it only to a removal after a right look (`robbed`); what was read under a lock is all there is while it is owned, but for what was written without the lease (`exposed`); an act after its assertion has its leases in `sure` (`LooksAreRight`), so it is its owner's, which has read all it destroys, or it counts what it destroys. No hypothesis on suspensions or lags |
| `StoredRulesAreMeantHolds` | `StoredRulesAreMeant` | a prompt's reply, its announcement and the event of its reply are queued at most once and in this order; a prompt asked is announced, remembered, or forgotten because too many are; a hook that found the session silent looked before any rule it was told since |
| `KeysAreKeptHolds` | `KeysAreKept` | the root moves only from the directory to the confirmed work tree, so keys name the roots used so far and the shared store only once settled; what a pass owes is in its store or in a candidate it has still to fold, unless a newer key replaced its own; an attempt that started after git answered gets what it asks for; beside an unreviewed store nobody's pass leads to the shared one |
| `Tasks_proofs`: `GroupClaimsHolds` | `GroupClaims` | the start is told once; a failure with the group open means its news was read; "complete" means the keeper died after its last signal |
| `TasksInHandHolds` | `TasksInHand` | `killWaiters` counts the kills that confirm; running inline if and only if one waits; reservations count the runs on their way; a discarded or killed task has a timer, a signal or a settled group |
| `ListsAreTrueHolds`, `KillsNotEatenHolds` | `ListsAreTrue`, `KillsNotEaten` | a server with nothing queued has a current file, speaks of others only as dead orphans, and the live writer of the copies merged what is in the files unless something is left to write |
| `ThreadsAreKeptHolds` | `ThreadsAreKept` | an exchange that streams was not cancelled or aborted and owes no abort (`LiveIsClean`); of what came before nothing runs and nothing is dispatched, and what was stopped is aborted, owed an abort, or its abort went unanswered (`NothingRunsOn`); an event in the queue that would be taken for the end is the current run's (`EventsInOrder`): foreign events and open aborts make the thread stale, and a stale thread waits for an answer of its own; a mark left has someone to clear it (`ForkIsGuarded`) |
| `Prompts_proofs`: `ApprovalIsCurrentHolds` | `ApprovalIsCurrent` | each of the two readings lies between its beginning and now; they agree, so their values were in force together at a moment between them |
| `CascadesAreOursHolds`, `LeftIsLookedAfterHolds` | `CascadesAreOurs`, `LeftIsLookedAfter` | pending prompts that are known are on the list looked at; a prompt is replied to once; an end is told unless its event is queued; the deny's budget counts what was away |
| `PoolIsSoundHolds` | `PoolIsSound` | every change ends in a drain, after which the queue is empty or no slot is free |
| `Guards_proofs`: `KeysAgreeHolds` | `KeysAgree` | in the repair the lock is exclusive, the file exists past the create, and nobody fills what is repaired |
| `PolicyIsReviewedHolds` | `PolicyIsReviewed` | the record is what one dialog showed; a scan under way holds one content per file |
| `SavesAreKeptHolds` | `SavesAreKept` | the base a saver works on is what the file is unless disturbed; the lock is held from read to rename |
| `ControlsAreTrueHolds` | `ControlsAreTrue` | the owner at the write is no younger than the one at the second answer, so equality means it ran throughout; reads are ordered by their generation |
| `PinsAreKeptHolds` | `PinsAreKept` | the record compared is still there while it is cleared; sweeps clear only for sessions that are gone |
| `MarksAreCurrentHolds` | `DecidedOnCurrentMarks` | a cached mark was said at or after the last event heard; a look-up that is not stale saw such a version |
| `ForksAreAccountedHolds` | `ForksAreAccounted` | every stage of a start has made what it says and names who frees the fork; an owned fork that did not sleep has a fresh lease |
| `LimitsAreOwnHolds` | `LimitsAreOwn` | a reading of the current epoch asks the selected scope, none is newer than the last counted, and what it was told its server held |

`CronScheduler_proofs` also proves the parts of its invariant one by one
(`TypeCorrect`, `NeverOverlaps`, `HeldFiresAreFlushed`, `TimerIsArmed`,
`NoFireIsLost`, `ParkedStaysInert`, `MessageIDsAreFresh`, `OneShotsLandOnce`,
`AttemptsStayBounded`, `JitterStaysInInterval`).

Assumptions are named in the modules and evaluated by TLC: sets of processes are
finite where they are counted, bounds are naturals, limits of slots, attempts
and escalations at least one, servers and prompts ordered. None restricts how
actors interleave.

**Only model-checked.** Liveness and fairness (`RunsSettle`, `LaneMovesOn`,
`RepliesAreDue`, `PatchesSettle`, `Settles`, `AllSettle`) are out of the prover's
reach, and so is what rests on recursive definitions or folds over data:
`TreeIsSound`, `StackOrder` (the pump of the batch scheduler folds over trees),
`RulesAreSound`, `MirrorsStayLive`, and the modules with RECURSIVE operators
(`HistoryPins`, `OutputBuffer`, `ShellPermissions`, `RedactWalk`), for which the
runs take every input of their bounded sets. Safety that could be
proved and is not yet: `NotesAreTrue`, `NeverLost`, and the vault part of
`SecretsStayInside`.

## Where the code and its documentation disagree

Two disagreements have a run that refutes the sentence; `PROJECT.json` quotes
it and tells the counterexample.

- `ReleasedInStackOrder` (`batch_detached`): "strictly in host stack order"
  (`batch-scheduler.ts:63`). A tree object that outlived its entry drops the
  entry of its successor, and approvals are posted beneath undecided prompts.
- `Converged` (`install_key`): "every process converges on the first one
  written" (redact-secrets `index.ts:491`). The plain create opens the file
  before it is filled; a start that finds it empty in between replaces it.

The others were met while modelling. The passing runs exclude exactly these
cases, by their constants or by a named excuse in the property.

*cron.* "serial delivery cannot release the next job until this ID is visible
and therefore ordered in host storage" (`plugin.ts:565`): after a confirmation
that times out (`:445`) it is released, and the earlier prompt may be stored
after it (`StoredInOrder`). "never mid-turn" (`plugin.ts:85`): a user turn that
starts after the last idle check (`:497`) gets the fire (`NeverMidTurn`).

*Permission stores.* "concurrent saves can no longer silently drop each other's
rules" (persist-permissions `README.md:164`): `persist` (`index.ts:597`)
publishes without a lease assertion; suspended for longer than `staleMs`, it
renames its old snapshot over a fold whose source is gone. A waiter whose unlink
lags behind its stale check can remove a fresh lock, which the code says
(`filesystem.ts:785`); the lease that is to be the gate behind it
(`filesystem.ts:787`) is a look before a rename as well: a fold suspended between
the two renames over what a new holder has written, and without being suspended
then, if it was before: its lock file has stayed old, its assertion passes by the
token, and a waiter breaks the lock before the rename. For a host-named
root the git confirmation of an earlier attempt is not kept
(`store-keying.ts:917`), so a later attempt without git is marked as if it had
one; a transient fault on the settling attempt settles "distrusted" for the life
of the process (`:938`). "a dropped in-flight pass for the old store is
harmless" (`shared.ts:333`): with three changes of git's answer an old pass moves
rules behind a new one, and one read misses a saved approval. `addAllowRule`
puts a fresh approval last within its key, yet a carve-out under a later key
overrules it, and JavaScript orders integer-like patterns first. In the
automatic replies the store is read before `session.get`, an edit in between is
not noticed; a user's reply handled while the plugin's own POST is in flight
counts as automatic, and an answer whose response was lost as the user's.

*subagent-comms.* "the parent should hear about that completion once, not once
per send" (`index.ts:1023`): a send without a wait registers only when its
confirmation is over (`:1791`); a reply in that time is noted twice. "it is
still registered to notify you" (`README.md:123`): an aborted send restores only
the older note (`index.ts:1836`). "dropped if the tool result returns the
completion" (`README.md:80`): a result "ended" drops a claimed note whose reply
was there (`index.ts:1890`). "preserves the parked record" (`README.md:102`): a
wait that saw an idle child consumes the note of a run that has begun meanwhile
(`index.ts:2265`). "the event cache alone must neither hold a settle hostage nor
trigger one early" (`index.ts:689`): idle statuses read before the prompt
landed end a run that goes on (`:705`). "an unobservable minted id would hold
every watcher keyed to it forever" (`index.ts:489`): an accepted and lost send
is polled for ever, only launches have a deadline (`:1625`). "A registration that
landed meanwhile supersedes what it claimed" (`index.ts:1102-1118`): with three
calls, an older send that times out registers its older message, and the restore
of a newer note is dropped because something is registered.

*approve-for-me.* "none of them may read as the user answering"
(`index.ts:3191`): a prompt asked after the deny's last look falls to its
cascade, and its replied event counts as the user's; a refused deny unregisters
prompts the plugin approved meanwhile; a user's reply heard late restarts the
budget. The countdown stays shown after a failing read at the arm site, though
every declined fire drops it (`index.ts:3076`). The terminal's reload of settings
and activity has no generation, unlike that of the override; a settings patch
takes no lock and widens a narrowed file mode; `chooseModel` reports success
from the dialog's earlier read when nothing changed.

*btw.* Of overlapping questions the first, resuming after its release, draws its
own panel over the second's although superseded; without a context the panel is
cleared after an await with no such check. A re-mark after a failed opening may
be undone by a beat's late unmark until the next beat.

*usage limits.* A forced refresh whose first reading is superseded by that of a
tick is dropped without a follow-up.

## What is left out of the models

- *Bounded caches.* `trim()` evicts the oldest entries of several sets and maps
  at limits of hundreds; the models keep all entries except where a module is
  about the bound (vault, pins, mirrors, notes, the output buffer).
- *cron*: the legacy job store and its migration; the ancestry walk that finds
  the owning session (it fails closed); that a host may publish idle while a
  runner still winds down after an interrupt.
- *approve-for-me*: the classifier's session, prompt text and quota; entries that
  are mistyped, unsafe symlinks and paths; theft of stale leases in
  `SettingsSave` and `SessionPins` (that is `StoreLock`'s subject); several root
  sessions in `SessionPins`; `OPENCODE_DISABLE_PROJECT_CONFIG` and records
  of older releases in `PolicyTrust`.
- *subagent-comms*: several children or parents, deleted sessions,
  disposal, spawns that the host refuses (the child is deleted), replies in the
  middle of a run, `notify: false` and toast-only notes, the cap on busy children.
- *background-tasks*: servers of older releases, reuse of process ids, the bound
  on debris, timeouts of the lock in `TaskChannel`, the race of two adoptions in
  `pathsPromise`. A server that dies in its shutdown with a write still queued
  leaves the merged copies stale until the next write; `ListsAreTrue` excludes it.
- *redact-secrets*: the cap of the vault, an unreadable catalog, catalog
  entries evicted beyond `Limit` by others, form bodies and Content-Length,
  aliases of omitted files; the generated rules stand for by three kinds of rule.
- *btw*: message parts, compaction, commands and dialogs. A preparation and a
  deletion take less than a lease.
- *usage limits*: parsing and layout, the bound of eight pending readings, the
  order of providers; a result is adopted and compared in one step after
  `await syncAuth()`; synthetic-limits, which has an API key and no readings.
- *Views, web search, installer, test harness*, generated tables: no protocol.

## What is open

`BatchScheduler` without folds over trees, so that `StackOrder` could be proved;
several children of one parent in `SubagentNotify`, with the cap on busy
children; a composition of `CronScheduler` over `DeliveryContract` with landings
as steps of their own. The pump, the walk and the merge of stores need induction
over data, which these provers cannot do.
