# nudge, specified

TLA+ specifications of nudge (`src/nudge-rs`), the tool that types "please
continue" into a tmux pane once a rate limit has passed, with the TLC runs that
check them on small instances and the TLAPS proofs of what holds for every
instance. The modules are read with the source beside them: a definition keeps
the name of the function it models, and `PROJECT.json` gives the lines.

## 1. The system

| part | state it keeps | operations | talks to |
|---|---|---|---|
| job queue (`queue.rs`, `job.rs`) | `next_id` and the live jobs, in memory and in `queue.json` | `add`, `remove`, `replace`, `reschedule`, each one `commit`: save, then adopt | the file system |
| scheduler and daemon loop (`scheduler.rs`, `daemon.rs`) | the pass in hand: its time, cloned due jobs, stale ids | `plan`, `drop_stale`, fire, `apply_outcome`, `next_wake`, sleep | the queue (mutex), injection, notifications |
| IPC (`ipc/`) | connections, a capped count of worker threads | `Schedule`, `List`, `Cancel`, `Replace`, `Ping` | the queue (mutex), clients (Unix socket, 5 s timeouts) |
| options and specs (`config.rs`, `cli.rs`, `app.rs`) | none | `resolve`, `tri`, `build_spec`, `merge_edit` | the environment, the pane (a snapshot) |
| injection and verification (`inject.rs`, `verify.rs`, `composer.rs`, `target/`) | none between jobs; the pane is the state | gates, keys, rereads, submit | tmux, a program the user may be typing into |
| lifecycle (`daemon.rs`, `lib.rs`, `app.rs`, `register/`) | `nudge.lock`, the socket file, the service unit | lock, bind or reclaim, `ensure_daemon`, install, uninstall | the OS, the service manager |
| dashboard (`tui/`) | the model: list, selection, form, pending request | keys, submit, edit, cancel, refresh | the daemon, as any client; tmux |
| detection and times (`detect.rs`, `timespec.rs`) | none | find the banner, choose the reset instant | text |
| `scripts/usage` | login directories, tokens, a lock per login | refresh, renew, swap, rename, remove | two web services |

**What is hard.** The queue is one mutex, held for a moment at a time: by a
request, by `plan`, by the dropping of stale jobs, by the application of *one*
outcome. Everything slow (an injection takes seconds: rereads, delays between
messages) happens outside it on a *clone* of the job. So a cancel or an edit may
be handled at any point of a pass and the outcome of an injection is applied to
a queue that is no longer the one it was planned on. Saves can fail, the process can
die between an injection and the record of it, replies can be lost after the
change they report, and the time a pass works with is the time it began.

**What makes each part correct.**

- queue: memory and disk never disagree; an id names one job for ever; an edit is
  all or nothing.
- scheduler: a job is tried no more often than its budget, an unrecorded injection
  being the only excuse; an outcome never revives a job; a sleep is never too
  long for the jobs it was chosen over; a due job does not stay due.
- IPC: what a client was told is so; a lost reply changes nothing else.
- options: explicit flags beat what they imply; an edit keeps what it does not name.
- injection: nothing is typed into a pane that has moved on; nudge does not take
  its own typing for the user's; a message still in the input box is not reported
  as sent.
- lifecycle: never two daemons on one queue, never a daemon nobody can reach.
- dashboard: a saved edit changes what the user changed, on the job it was opened for,
  once; the cursor is always on a character; what is shown of a pane is that pane's.
- detection: what is scheduled is the reset the banner was printed to say, never earlier.
- `usage`: a single-use refresh token is never spent without its successor saved.

## 2. Modules

| module | models | status |
|---|---|---|
| `NudgeQueue` | the queue as a value, its operations, and the scheduler's pure decisions (`plan`, `apply_outcome`'s retry rule, the retry time, `next_wake`) | done |
| `NudgeOptions` | `config::resolve`, `cli::tri`, `app::build_spec`, `app::merge_edit` | done |
| `NudgeDaemon` | the daemon: queue in memory and on disk, the loop, the request handler, clients, clock, crashes | done |
| `NudgeJobs` | abstract: the life of a job (unborn, pending, done) | done, implemented by `NudgeDaemon` |
| `NudgeDaemon_proofs` | proofs about `NudgeDaemon` | see section 5 |
| `NudgeVerify` | a verified job and its pane: the snapshot at schedule time, the server check and the two gates at fire time, one tmux call a step | done |
| `NudgeVerify_proofs` | proofs about `NudgeVerify` | see section 5 |
| `NudgeTyping`, `MCNudgeTyping` | the rest of `run_injection`: Vim keys, rereads, the evidence of a submission, several messages, a box whose screen lags | done |
| `NudgeTyping_proofs` | proofs about `NudgeTyping` | see section 5 |
| `NudgeServer` | the IPC thread: taking the socket's path, accept loop, worker cap, inline service, slots, fatal errors | done |
| `NudgeLifecycle`, `MCNudgeLifecycle` | several daemons and clients around `NudgeServer`: lock, exits, `ensure_daemon`, the service manager, install and uninstall | done |
| `NudgeLifecycle_proofs` | proofs about `NudgeLifecycle` and `NudgeServer` | see section 5 |
| `NudgeText` | pure: word motions and edits of a text, wrapping, the fuzzy matcher, each beside what it means | done |
| `NudgeForm` | pure: the form of the dashboard, its line editor, what a submit and an edit make of it | done |
| `NudgeTui`, `MCNudgeTui` | the dashboard's update loop and effects, against a job list and panes that change | done |
| `NudgeForm_proofs`, `NudgeTui_proofs` | lemmas about the form's operators; proofs about `NudgeTui` | see section 5 |
| `NudgeTime` | pure: the calendar, clocks, spans, day words and their choice (`timespec.rs`) | done |
| `NudgeReset`, `MCNudgeReset` | `detect_reset` on a screen of banners printed at some moment and read at another | done |
| `NudgeReset_proofs`, `NudgeReading_proofs` | proofs about `NudgeReset` and `NudgeTime`; what a reading is worth against what was printed | see section 5 |

The order is by what a failure costs the user. `NudgeVerify` and `NudgeTyping` take apart
the one step of `NudgeDaemon` that picks an outcome (`Inject`): what that step assumes is
`CanComeTo`, which outcomes a job may have. `NudgeLifecycle` shows what `NudgeDaemon` takes
for granted, that there is one daemon at a time (`OneScheduler`). `NudgeReset` gives the fire
times that `NudgeDaemon` takes as inputs, and `NudgeTui` is one of its clients, taken apart.

### How `NudgeDaemon` corresponds to the code

Variables: `mem` and `disk` are `Queue.state` and `queue.json`; `pc` is the place in
`run_with`'s loop, `pass` its `now`, `toDrop`/`toFire` the `Plan`, `cur`/`outcome` the
job being injected and what came of it, `wakeAt` the end of the sleep; `cpc`, `req`,
`rep` are, for each client, where it stands and what is on its connection. The
rest (`issued`, `tries`, `late`, `lastTry`, `endedBy`, `acked`, `faults`) is history
that no guard of the program reads, except `faults` as a bound.

| action | code |
|---|---|
| `BeginPass`, `Plan` | `Zoned::now()`, then `plan` under the lock |
| `DropStale` | `drop_stale` under one hold of the lock; each id's save may fail by itself |
| `Inject` | `run_injection` on a clone, the lowest id first (the order of the `Vec`); any outcome the job's options admit |
| `ApplyOutcome` | `apply_outcome` under the lock; a failed save is only logged |
| `GoToSleep`, `Wake` | `next_wake` against the pass's time, the 50 ms floor, the sleep |
| `HandleSchedule`, `HandleList`, `HandleCancel`, `HandleReplace` | `handle_request` under the lock and the reply after it; a save that fails answers `Error` |
| `Schedule`, `Cancel`, `List`, `Edit` | a client's request; `edit` is a `List`, then a `Replace` merged from the copy that `List` returned, however old it is by then |
| `GiveUp`, `Receive` | the client's timeout or Ctrl-C (the request is handled all the same); the reply read |
| `Tick`, `Crash`, `Start` | time; the process dies in any state; `run_with` up to its loop |

`Saved` and `SaveFailed` are `commit`. A save is one step because it writes a sibling
file and renames it: a crash finds the old list or the new one. Jobs are a *set*
where the code has a `Vec`: the `Vec` grows only at its end, with the largest id so
far, and is thinned with `retain`, so its order is the order of the ids.

Left out of a job: messages, the delay between them, notify and the pane, which
reach the terminal and the log and no decision modelled here. `snap` says whether the
job carries a complete `--verify` snapshot. Times are ticks; a float of
seconds becomes a natural number, and `Horizon` is the last instant the time library
can represent (past it the retry falls back to the pass's own time).

### How `NudgeVerify` corresponds to the code

One job and the pane its id names. `Locate` is `TmuxTarget::locate` (the stamp and the id
come in one answer, so they agree); `BaseDims` and `BaseScreen` are the two calls of
`capture_baseline`, in that order; `AskServer` is `server_restarted`; `DimsBefore`, `Screen`
and `DimsAfter` are the three calls of the gate, the last with `recency` and the banner
check, which read nothing more; `Type` is `send_line`; `Retry` is `apply_outcome` rescheduling
the job without its snapshot. A call that fails is a disjunct of its step. Between any two
steps the pane may be resized (`Resize`), touched by the user or its own program (`Touch`),
closed (`Close`), or lost with its server, whose successor's panes take the ids again
(`Restart`).

A fingerprint stands for the text and the size it was laid out at, so that every resize
reflows, the worst case for the gate. A text shows a banner or not at any size: that a
narrow pane may break a banner over two lines the patterns do not join is left out. What
became of the message once it was typed is `NudgeTyping`'s.

### How `NudgeTyping` corresponds to the code

The loop over the messages, one tmux call a step. `Look` is the capture before a message,
with `vim_normal`, `input_box` and the choice they lead to (`WayIn`); `Key` is `send_key`;
`CodexRead` and `ClaudeRead` are one round each of the `reread` in `codex_insert_mode` and
`claude_insert_mode`; `Type` and `Enter` are the two halves of `send_line`; `Evidence` is one
round of the `reread` after it. A call that types and fails ends the try (`Fail`); a capture
that fails is a read without a box.

The box (`cli`, `box`, `sent`, `covered`) is the program in the pane, seen from how the code
treats it: Claude labels Insert and Visual and never Normal, and may hide labels; Codex
names its mode, and may not bind `A`; Vim keys may be off; an Enter may not submit. What is read
is the last `frame`, which a pause redraws or leaves up to `MaxLag` pauses behind; `Pause` is
part of the key it follows. The user types, presses Escape or Enter, or has something drawn
over the box, between any two steps. Text is a sequence of tokens (a draft, what the user
types, stray keys, messages, the rest of a message read as commands): how a capture becomes a
box and its text is abstracted to what it yields. Text goes in at the end of the box,
where the comments say `A` puts it. Left out: Codex's Replace mode, a message with no
visible character (which no box ever holds), and a message that ends another one.

### How `NudgeServer` and `NudgeLifecycle` correspond to the code

`main` is where a daemon process is (`lock`: before `acquire_singleton_lock`; `load`: with the
lock, before the loop; `run`), `ipc` where its IPC thread is in `serve_with`, `socket` what the
path leads to (a listener, a file nobody listens on, nothing), `conn` each connection, `live`
the worker count, `unit` and `manager` the registered service, `cmd` a command's way through
`ensure_daemon` and its request, `admin` an install or uninstall under way.

| action | code |
|---|---|
| `Acquire`, `WouldBlock`, `Load`, `LoadFails` | `run_with` up to its threads; `lib::run` turns `WouldBlock` into exit 0 |
| `Probe`, `Remove`, `Bind` | the three steps of `serve_with` before its listener |
| `AcceptInline`, `Spawn`, `SpawnRefused`, `AcceptFatal` | the accept loop; `Dropped` is `WorkerSlot`'s drop |
| `Serve`, `Reap` | `handle_conn`: a reply, or `IO_TIMEOUT` |
| `on_serve_exit`, `Killed`, `Dies`, `Ends` | the ends of a daemon and what the system closes behind it |
| `Ping`, `spawn_daemon`, `Poll`, `Hears`, `HearsNothing`, `GivesUp`, `request` | `ensure_daemon` with `check_handshake`, and the request after it |
| `Restart` | systemd's `Restart=on-failure`, launchd's `KeepAlive` |
| `Install` ... `InstallEnable`, `Uninstall`, `Stop`, `Wait`, `Note` | `register::install`, `register::uninstall` |

systemd's `disable --now` returns when the process is gone; launchd's `bootout` ends it in its
own time, during which it takes no step of its own (`Dying`) but its listener still answers.
SIGTERM is a clean end to systemd and a failure to launchd. `GivesUp` takes a client's connection
away at once, where the daemon would find it closed at its next read or write. `bootstrap` fails
while the old process is going, which leaves the label unloaded (`NoneStarted`).

How long a process told to end takes is left open, so `Wait` may run out of its looks with that
process still answering, and the note is printed all the same, as in the code. It then says of the
daemon just removed that the registration did not start it, which is not so. `NoteIsTrue` says when
that can happen and that it happens in no other way: `answered` counts the looks that found the
daemon being stopped, and either it answered all of them (thirty, three seconds), or `late`: an
earlier reinstall had booted it out, nothing is loaded any more, and uninstall does not wait at all
(`managed_daemon_is_active`). TLC reaches both cases: with either excuse left out the run ends in a
trace of fourteen states, Stop, two looks and the note, or InstallWrite, Uninstall, Stop and the
note. All processes share one state and one runtime directory: with another
`XDG_RUNTIME_DIR` or `XDG_STATE_HOME` a command finds another socket, or another lock.

### How `NudgeTui` corresponds to the code

The variables up to `quit` and `form` are `Model` and its `Form`; `todo` the effects `update`
returned and `dispatch_effects` has not run yet: keys are read only when there are none
(`Idle`). A key is the action of what it does, whichever key does it (`MoveFocus`: j, k, the arrows,
Tab). An effect is one call to the daemon or to tmux, with the message it comes back as in the
same step, as in the code. `queue`, `last_id` and `tmux` are what the calls act on, and change
by themselves: a job fires or is retried (`Fire`), a pane closes, which renumbers the positions
after it (`ClosePane`), tmux restarts (`RestartTmux`). `opened` and `touched` record the job
being edited and the fields changed since. The two delays of a job, which the form carries
unread, are one value of `Delays`; the picker that is not open is the record `closed`.

`NudgeForm` and `NudgeText` are its pure parts. A text is a sequence of character classes,
because no editing command tells two characters of a class apart. `VimNextWord`, `VimPrevWord` and
`IsSubsequence` say what the algorithms beside them are for.

Left out: status lines, help, the preview (it comes and goes with `detected`), the verify
snapshot of a new job. A typed time may parse to any of `ManualTimes` or fail, a blank one
always fails. The clock is `Tick`'s choice of which intervals have run out. Which pane tmux
flags as last, and whether it is in nudge's window, is a free choice.

### How `NudgeTime` and `NudgeReset` correspond to the code

A CLI prints a banner about a reset it knows to the second (`PrintLine` and the actions named after what is printed), in one of the wordings the
patterns of `detect.rs` and the README list; time passes; more is printed below; nudge
reads the pane (`ReadPane` is `detect_reset`) or is told a time (`ReadTyped` is
`parse_timespec`). A line is a record of what the regular expressions find on it: shapes that
begin there, words before the clock token, the token, words after it, a span, a zone, and whether it
follows its neighbour without a blank line. What the operators do with these (which banner
decides, zones, year, horizon, the two readings of a numeric date, tomorrow, elapsed, refused) is
the code's, one operator to a function. An `Option` is a set of one value or none. Times are
seconds since 2000 in a zone whose clock never jumps.

## 3. Runs

| run | asks | bounds |
|---|---|---|
| `daemon_safety` | every invariant and action property, and that the daemon implements `NudgeJobs` | 1 client, 2 ids, jobs plain and verified with one retry, an edit that puts off to 3 and turns retries on, clock to 3, grace 1, horizon 3, 1 crash or failed save |
| `daemon_live` | a due job does not stay due | 1 client, 2 ids, a job with one retry, clock to 2, grace 0 (so that a job can go stale), 1 fault |
| `edit_fires_once` | *violated*: `ipc/mod.rs` on edits | as `daemon_safety`, no faults |
| `retry_floor` | *violated*: `daemon.rs` on MIN_RETRY_SECS | 3 ids, MinRetry 2, clock to 7 |
| `verify_gates` | no skip without cause, nothing typed on a server that was not asked | 3 texts (parked, resumed with the old banner still showing, cleared), 3 sizes, 1 retry, 3 events of the pane |
| `resize_and_back` | *violated*: `inject.rs` on agreeing sizes | 2 texts, 2 sizes, no retry, 2 events |
| `typing` | typed as text, no key left behind, the report is what became of the messages | 2 messages, 2 rereads for the code's 4, redraws up to 2 pauses late, 2 things the user does |
| `tui` | the form, its cursor, what it shows and what it saves stay right | 6 keys, 1 call that fails, lost reply or change by others, 2 jobs or 1 with a blank message, 2 panes, 2 tmux servers, texts up to 5 characters |
| `tui_edit` | *violated*: `tui/update.rs` on the selection an edit keeps | as `tui` |
| `reset` | the reset scheduled is the one the banner says, at the hard spots of the calendar | 2 lines, 2 waits, 2 zones, 11 wordings, 5 starting moments |
| `reset_after` | *violated*: the README on days it cannot read | a weekly banner a week ahead with a two-digit year after the hour |
| `lifecycle` | one daemon schedules, it is reached or goes, its cap holds, its manager comes to rest | 2 processes, 1 command beside the manager, 1 stalled peer, 1 worker, 2 builds, both managers, 3 installs or uninstalls, 2 looks of uninstall, 2 faults |

**Why the bounds are enough.** Two ids let a job be edited into another and let
two jobs share a pass; a third is needed only where a second job must wake the
loop (`retry_floor`). One client already interleaves with every step of the loop,
because the request it leaves behind when it gives up is handled later, while it
sends nothing more; that more clients change nothing is what the proofs say, which are for any
number of them. The clock runs past the first fire time, the retry and the grace
period. One fault separates every pair of steps once; `RetryBudget` counts faults, so
its proof, not the run, says that more of them change nothing.

Bounds in the guards: `MaxId` (no request that could need a further id is sent:
`IdsLeft`), `MaxTime` (`Tick` stops, and a sleep then simply ends), `MaxFaults`.
`EditFiresOnce` and `RetryFloor` need no fault.

In `verify_gates` three events cover a resize on each side of the snapshot or of the gate's
capture and a touch beside it, three sizes tell a size that is new from one that came back,
and one retry puts nudge's own typing between the snapshot and a gate. Neither run checks
deadlock, because a job that is done stays done.

In `typing` two messages show what the first leaves for the second. What matters of the
rereads is that the last one comes after the latest redraw, so `MaxLag` equals `REREADS`: at one
more pause of lag `NoStrayKeys` and `UnsubmittedIsStuck` fail, and that is the limit the code
chose. `AsText` and `SentIsGone` do not depend on it and are proved for every lag. Two events
cover and uncover the box, or act on it twice. Nothing moves once the try is done, so deadlock
is not checked.

In `tui` six keys reach every pair of a field and a mode with two edits in it, and the way ^S, `e`,
Tab, Tab, ^S of the finding takes five; what an edit can save wrongly needs `e`, a change or two,
and a save, with one event between. The daemon is found with two jobs, one of several messages and
one of a single message, or with one job whose message is blank, which an edit replaces by the
default text. Deadlock is not checked, because the keys run out and the user
may quit.

In `reset` one banner is superseded by one below it; two waits fall before and after the second
is printed, or both before the reading, one of 90 minutes (past midnight, past the hour) and
one of 25 hours (past the day). The starting moments are the last of December, the end of a
February with and without a 29th, a day whose two numeric readings are both near, and the end of a
month. A pane is read once, and then nothing moves.

In `lifecycle` the command and the manager are the two starters that can meet at the lock; of two
processes one is the daemon and one the loser, or the next. Two looks stand for uninstall's
thirty: the daemon may go before, between or after them. One peer and one worker reach the
cap, and with it inline service. Three commands of the user give install, uninstall, install. A
number is given again once its process has ended. A machine may come to rest, so
deadlock is not checked.

**Properties.**

- `Agreement`: while a daemon runs, memory is what a restart would find.
- `RetryBudget`: at most budget + 1 injections, plus one for each crash or failed save.
- `LateAtMostOnce`: a job taken away by a client is injected at most once more (the
  clone in flight), and the outcome never brings it back.
- `NoSilentLoss`: an acknowledged job is on disk, or was tried, or was taken away by a
  client, or went stale.
- `RetryNeverResumed`: only a first injection can be skipped as "the user resumed".
- `SleepIsShort`: a sleep ends in time for every job in the queue, late by no more than
  the pass took, and within `MAX_POLL`.
- `ImplementsJobs`: ids are never reused and ended jobs stay ended, on disk, across
  crashes and failed saves; an edit passes through no state with both jobs or neither.
- `DueIsResolved`: a due job is fired and removed, put off, or dropped.
- `NoFalseSkip`: a job is skipped as resumed only if someone other than nudge changed the
  pane's text since the snapshot, or the pane was resized away and back.
- `RightServer`: a message is typed to the server the job was scheduled on, or to one that
  replaced it after this very try had asked.
- `AsText`: a message is read as commands only if the user acted on the box, a read failed,
  or the look before it showed a box that was no longer so.
- `NoStrayKeys`: the `A` or `i` pressed for Insert mode never goes out with a message, under
  the same excuses and with redraws that fit the rereads.
- `SentIsGone`: a message nudge moved on from was submitted, unless it was garbled, the user
  was at it, or it was judged by a frame older than itself or by no box at all.
- `UnsubmittedIsStuck`: a message reported stuck is in the box, and nothing was submitted in its turn.
- `OneScheduler`, `SocketKept`, `SlotsAreWorkers`, `NoteIsTrue`: two daemons never hold the
  queue; the path leads to the one that accepts; the worker count counts workers; uninstall
  warns of the daemon it has just stopped only if that one outlasted every look of the wait, or
  was on its way out before.
- `ReachableOrGone`, `RestartsEnd`, `NoneWaitsForever`: a daemon with the queue answers or
  ends; the manager stops restarting; a connection is served, however its neighbours stall.
- `FormCoherent`, `CursorInRange`, `CursorHasColumn`: the form's modes agree; the cursor is on a
  character, and drawn within its field and rows at any width.
- `WordMotions`, `PickerOffersMatches`: `w` and `b` go where vim's do; the picker offers the panes
  its query is a subsequence of, best first, its highlight among those shown.
- `ShownIsOfActivePane`, `StampIsTrue`: a banner shown was read off the pane in view; a
  job's stamp names the server its pane is on.
- `EditKeepsRest`, `EditNotDoubled`: a saved edit changes what the user changed; one job at most
  comes of the one edited, with replies lost and saves repeated.
- `NeverEarly`, `Punctual`, `ElapsedExactly`: never before the reset of the lowest banner; at its
  minute, padded, or refused; elapsed when it is.
- `InFuture`, `LocaleNeverDecides`: what is scheduled is to come; the calendar and the week
  settle every numeric date.

**Fairness in `lifecycle`**: weak fairness of each daemon's threads, of the serving of each
connection and the reaping of each stalled peer (`IO_TIMEOUT`), of a process told to end, and
of the manager's restart. Commands, installs and faults have none.

**Fairness in `daemon_live`**: weak fairness of the loop (a thread of a running
process, whose only waits are an uncontended mutex and bounded sleeps), of the clock,
and of `Start`. The last is the service manager (systemd's `Restart=on-failure`,
launchd's `KeepAlive`) or the user's next command, which `ensure_daemon` turns into a daemon; without it a
daemon that died stays dead and nothing is promised. Clients and faults have none. `MaxFaults`
makes faults finite: a disk that refuses every save keeps a job due for ever, and the code
says so in its log and tries again.

## 4. What the runs found

- `edit_fires_once`: an edit is atomic in the queue, but the pass in flight keeps the
  clone it planned: the replacement is accepted, and the original is injected. If the
  edit put the job off, the message is typed twice. `ipc/mod.rs` says there is
  "no window to lose".
- `retry_floor`: the retry time counts from the start of the pass. If the injections of the
  pass take as long as the floor, the retry follows the try by less than
  `MIN_RETRY_SECS`, which `daemon.rs` says cannot be.
- `resize_and_back`: sizes that agree on both sides of a capture do not prove that it was
  taken at that size; a resize and its undoing fit between the two readings. The job then
  ends as "you resumed", which is the false skip the comments set out to rule out. `NoFalseSkip`
  is what does hold: this is its only excuse.
- `tui_edit`: an edit opened from a form that a submit has just reset has no panes; leaving it for
  the jobs and coming back lists them and selects the default pane, so the saved job moves there
  though the user touched nothing. The comment says this "cannot stomp a selection".
- `reset_after`: words after the time are searched for a date and what cannot be read is passed over,
  so that "resets at 8am on 7/28/26" fires at the next 8am, days early, where the README
  promises to refuse. With the date before the time the same words are refused.

## 5. Proofs

`NudgeDaemon_proofs` proves the following for any clients, jobs, edits, settings and
bounds that meet the named assumptions of `NudgeQueue` (`QueueConstants`), `NudgeOptions`
(`UnsetIsNoValue`) and `NudgeDaemon` (`DaemonConstants`):

| theorem | of |
|---|---|
| `TypeCorrect` | `TypeOK` |
| `Inductive` | `IInv`, the inductive invariant below |
| `MemoryMatchesDisk` | `Agreement` |
| `BudgetIsKept` | `RetryBudget` |
| `NothingIsRevived` | `LateAtMostOnce` |
| `NothingIsLost` | `NoSilentLoss` |
| `RetriesAreNotResumed` | `RetryNeverResumed` |
| `ImplementsLife` | `ImplementsJobs`: `Spec` implements `NudgeJobs` under the mapping `Life` |
| `SleepsAreShort` | `SleepIsShort` |

`NudgeVerify_proofs` proves, for any texts, sizes, retries and number of events
(`VerifyConstants`): `GatesTyped` (`TypeOK`), `SkipsAreEarned` (`NoFalseSkip`) and
`TypedWhereScheduled` (`RightServer`).

`NudgeTyping_proofs` proves, for any messages, rereads, lag and number of events
(`TypingConstants`): `TypingTyped` (`TypeOK`), `TypedAsText` (`AsText`) and `SentMeansGone`
(`SentIsGone`); and, where redraws fit the rereads (`MaxLag <= REREADS`), `UnsubmittedMeansStuck`
(`UnsubmittedIsStuck`) and `NoKeysLeft` (`NoStrayKeys`). Without that hypothesis both are false, as
section 3 says.

`NudgeLifecycle_proofs` proves, for any number of processes, commands and peers, any cap, builds,
managers and bounds (`ServerConstants`, `LifecycleConstants`): `LifecycleTyped` (`TypeOK`), `NeverTwoSchedulers`
(`OneScheduler`), `NeverStolen` (`SocketKept`), `SlotsAreCounted` (`SlotsAreWorkers`) and
`NotesAreTrue` (`NoteIsTrue`).

`NudgeReset_proofs` proves, for any zones, offsets, regions, patterns, dates, wordings and bounds
(`ReadingConstants`, `PrintingConstants`): `ReadIsAhead` (`InFuture`) and `LocaleSettlesNothing`
(`LocaleNeverDecides`).

`NudgeReading_proofs` proves, over the same constants, what a reading is worth against the banner as
it was printed: `NotBeforeTheReset` (`NeverEarly`), `ReadOnTime` (`Punctual`) and
`ElapsedWhenItHas` (`ElapsedExactly`). Each is a theorem of `Spec /\ []InCalendar`, under the
hypotheses it needs and no others:

| hypothesis | says | why it is the code's | used by |
|---|---|---|---|
| `InTime` | a session banner's reset lies within a day, a weekly one's within seven | a session lasts five hours, and a banner that names a weekday or a date is of the week; a later reset has no other wording | all |
| `DayIsSaid` | no wording that leaves the day out of a weekly banner, none with a two-digit year after the hour | the first cannot be read by anybody, the second is the finding of `reset_after` | all |
| `WholeMinutes` | zones are whole minutes from UTC | every zone's present offset is; a banner prints no seconds | `ReadOnTime`, `ElapsedWhenItHas` |
| `SpanIsSaid` | a duration printed is a minute or more | a shorter one prints as nothing at all | `ReadOnTime` |
| `InCalendar` | every zone's clock stays between the years 2000 and 9999 | `jiff`'s calendar ends there, and dates are counted from 2000 | all |

The instance of `reset` meets all of them.

`NudgeTui_proofs`, over the lemmas of `NudgeForm_proofs`, proves, for any job lists, panes, servers,
texts and bounds (`FormConstants`, `TuiConstants`, `TitlesAreText`, `SeedsAreQueues`): `DashboardTypes` (`TypeOK`),
`FormStaysCoherent` (`FormCoherent`), `CursorStaysInRange` (`CursorInRange`), `WordMotionsAreVims`
(`WordMotions`), `ShownReadingIsOfActivePane` (`ShownIsOfActivePane`), `SavedEditKeepsRest`
(`EditKeepsRest`), `SavedEditNotDoubled` (`EditNotDoubled`), `StampsAreTrue` (`StampIsTrue`),
`CursorIsShown` (`CursorHasColumn`) and `PickerOffers` (`PickerOffersMatches`).

**The inductive invariant of the daemon.** None of these properties is inductive by itself: `RetryBudget`
counts injections, and what bounds them is what the *job* still has left, which lives
in three places (the file, the clones of a pass, the clone being injected). `IInv` is
`TypeOK`, `Told` and the parts of `QInv`:

- `InStep`: memory is the file, plans exist only within a pass, and the pass began in the past;
- `IdsInOrder`: ids up to `next_id` were issued and name one live job each at most;
- `AsIssued`: a live job is the one asked for, but for what a retry changes;
- `Clones`: a clone in hand *is* the live job of its id, or that job is gone; this is
  what makes applying an outcome to a changed queue safe;
- `Spent`: tries plus what is left never exceed the budget plus the faults, one more
  being in hand between `Inject` and `ApplyOutcome`;
- `TakenAway`: a job taken away is not live, and each of its clones has yet to fire late;
- `SnapOnce`: while nothing failed, a snapshot belongs to a job that has not been tried;
- `NoneLost`, `Stale`: every issued id is accounted for, and what the plan found stale
  still is when it is dropped;
- `Told`: what a client has been told, or is about to read, exists.

**The argument.** The requests share three lemmas (`GainsJob`, `LosesJob`, `Refused`), the
steps that touch no job share `Undisturbed` and `EmptyHanded`, and each scheduler step has a
lemma of its own (`PlanKeeps`, `DropKeeps`, `InjectKeeps`, `ApplyKeeps`, the last over
`AppliedJobs`, which says what any outcome does to the queue). For the refinement, each step
that changes the file is an `Accepts`, a `Swaps` or a `Retires` step of `NudgeJobs`, and
every other step leaves `Life` alone. TLC checked `IInv` on the instance of
`daemon_safety` before it was proved.

**The gates.** `GInv` says of every size nudge holds (the one read last, the snapshot's, the
screen's) that it is the pane's or one the pane has left (`Forward`, `InHand`). As long as no
size came back, a size read after a capture and equal to the one before it was therefore the
pane's all along, snapshot and screen have one size, and what differs between them is text
that somebody changed (`Shown`); `GatesKeep` is that argument. `Asked` carries the server
from the question to the key.

**The typing.** `GoneInv` follows a message from its typing to the evidence: the box's text
ends with it or it was submitted (`InBox`), and a frame drawn since shows as much (`Drawn`), so
a frame that shows a box without it is proof. The other two properties need the pauses counted:
after `MaxLag` rereads the frame is of now, so what the last of them shows is the box. `TextInv` says what is true of the box at each
point of the way to a message while nothing disturbs it (`OnTheWay`): Codex's status line can lag
only from Normal to Insert, and an `i` that was not needed leaves the mode alone.

**The lifecycle.** `Core` says who has what: past the lock is exactly its holder (`LockHeld`), so
only the holder has an IPC thread, only it can have bound the path, and nobody else removes what it
bound, which is why three steps need not be one; an IPC thread in `inline` serves one connection
(`InlineHeld`); counts are cardinalities of sets of connections, changed by one member at a time. What a
step does to the daemons is one of a few things, whoever takes it, and each has a lemma. `Owned`
ties a command to its connection and `ServiceInv` an uninstall to what it stopped: a daemon
told to end binds nothing any more, so while it has the path every look so far found it, and looks
taken and looks left add up to `MaxWaits` (`LookInv`); the note therefore names it only after the last look.

**The reset.** Every path of `detect_reset` and `parse_timespec` ends in a moment of the form
"the next such clock", "such a clock on the first such weekday" or "on the first such date not
passed", and a lemma each says it lies ahead (`AtClockAhead`, `WeekdayAhead`, `DateAhead`,
`NumberAhead`); that the words found on a line are of the kinds the paths expect is the inductive
invariant over printed screens. For the locale, two readings of a numeric date are at least 27 days apart in
every year (`ReadingsApart`), so at most one of them falls in the week a weekly banner can mean.

**The reading.** `RInv` adds two parts to that invariant: every line on the screen is one that was
printed, with its words (`AllPrinted`), and a result fits the lowest banner still live on the
screen it was read from (`Answered`). A lemma for each kind of banner inverts the printing: the
session's clock, the span, Codex's date and the five weekly wordings are each read as the minute they
were printed for, from any later reading up to that minute, and refused or elapsed after it
(`SessionRead`, `QuotaRead`, `CodexRead`, `WeeklyRead`). That needs the calendar inverted: a date
determines its day and a day its date in every year from 2000, a weekday its day within seven, a
clock its second within a day. `LowestRead` is the choice among banners: the lowest that speaks
decides, and those above it do not matter.

**The dashboard.** `IInv` of `NudgeTui_proofs` has three parts. `ModelInv`: the form is sound in itself and
faithful to the job it edits (`FormInv`: a field not touched still is the job's, and what is carried is
the job as it was opened), so whatever `build_spec` makes of it keeps the rest; at most two effects
wait, and a `Replace` among them is such a spec (`TodoOK`). `WorldInv`: ids and origins name one job each
and every stamp names a pane of its server (`QueueOK`); an edit passes its origin on and removes the
job it came from in one step, which is why saving twice doubles nothing. `ScreenInv`: a detection shown is
of the pane in view (`ViewOK`), and so is a capture that waits to be taken (`TodoOK`).
For the form, each operator of the editor has a lemma that says it only edits the focused text
(`Edits`), or only what lies beside the texts (`Beside`). For the word motions, `RunEnd` is the least place at which
a run of one class ends, and `VimNextWord` and `VimPrevWord` are least and greatest places too: no recursion is left.

**The wrapping and the matcher.** Both are defined as recursive functions (of the rows of a text, of the
letters of a label), and what such a function *is* the provers only know once one is shown to exist.
`Climbs` is induction as a fact about a set of numbers, which needs no operator for a parameter:
a set with 0 and the successor of each of its members below n has all of 0..n. By it `Iterates`
shows that a function defined stepwise exists, and `RowsAre` and `ScanIs` that those of the model
are of that kind. (The axioms tlapm 1.4.5 gives its SMT solver take any value to have a `Len` of its
domain, which is false of a function on 0..n and proves anything; so the lemmas about such functions take their
bound as a number, and no leaf that knows the domain of one mentions `Len`.) Then, for the cursor: a row that leaves a width or more of the text to its right has
another row beginning within that width (`WrapStartsAre`), so the last row begun at or before the cursor has
it within its width (`ColumnIn`). For the picker: the matcher takes each letter at its first chance, and when
the letters stand in the label in order at any places at all, it has taken the k-th by the k-th of those places
(`GreedyFinds`), so it matches exactly the subsequences (`MatchesAre`). The number of matches ahead of one is
its rank; two matches never share one, so by the pigeonhole principle every rank has its match and the list
is complete and in order (`Ranked`, `FilterIs`). `PickInv`, inductive beside `IInv`: an open picker's list is
what its query filters out of the form's panes, its highlight is in it, and no list of panes is asked for
while it is open, since one that came would renumber what it lists.

**Only model-checked.** The liveness of
`lifecycle`, and `DueIsResolved`: liveness under fairness, and `ENABLED`, are
beyond the provers. The modules proved about declare no `RECURSIVE` operator.

## 6. Not modelled, and why

- *The regular expressions and the screens themselves*: `NudgeReset` begins with what a pattern
  finds on a line. Daylight saving, spans that overflow 64 bits or jiff's range, and a Claude banner
  that the pane wrapped are left out: the code reads the last line by line, and with the zone on the
  second line takes the hour for the machine's.
- *Layout, styling, labels and messages*: the view but for what indexes into texts and lists,
  session names, notifications, the printed table, the routing of the CLI's modes. They are pure, keep
  no state and decide nothing modelled here. *Paths and the log file* likewise.
- *The text of unit files and plists, linger, completions*.
- *`scripts/usage`*: a shell script of its own around two web services and a keychain. Its hazards
  (a refresh token is single-use, and swap, rename and remove work beside the lock of the refresh) are
  real, but it shares neither code nor state with nudge. The other scripts are sequential
  conversions around external tools.
- *Power loss*: `save` syncs the file and not its directory; what survives a power loss
  is the file system's business. A process crash is modelled.
- *Clock jumps*: the wall clock only advances here. The code reads it once a pass and
  would see a jump as a long or a short pass.
- *Lost replies and repeated schedules*: `GiveUp` is the lost reply. A `Schedule` carries no
  key by which the daemon could know a repeat, so no property forbids the duplicate.
- *Two state or runtime directories*: two commands with different environments have two queues or two
  sockets, and no lock between them.

## 7. Running it

    tlc -workers 2 -config MCNudgeDaemon_safety.cfg MCNudgeDaemon.tla
    tlc -workers 2 -config NudgeVerify_gates.cfg NudgeVerify.tla
    tlapm NudgeDaemon_proofs.tla
    tlc -workers 2 -config MCNudgeTyping.cfg MCNudgeTyping.tla
    tlapm NudgeVerify_proofs.tla
    tlapm NudgeTyping_proofs.tla
    tlc -workers 2 -config MCNudgeLifecycle.cfg MCNudgeLifecycle.tla
    tlc -workers 2 -config MCNudgeTui.cfg MCNudgeTui.tla
    tlc -workers 2 -config MCNudgeReset.cfg MCNudgeReset.tla
    tlapm NudgeLifecycle_proofs.tla
    tlapm NudgeReset_proofs.tla
    tlapm NudgeReading_proofs.tla
    tlapm NudgeForm_proofs.tla
    tlapm NudgeTui_proofs.tla
