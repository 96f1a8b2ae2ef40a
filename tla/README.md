# Formal specification of scoutnet-membership-manager

TLA+ modules, TLC models and TLAPS proofs for the program in `src/`: a small
web service (Flask, one gunicorn worker with threads, SQL database) that reads a
scout group's roster from Scoutnet, computes the yearly *uppflyttning* (which
members move to which troop) and, when asked, writes those moves back in bulk.

What can go wrong here and a unit test hardly reaches is the bulk write: a
multi-step job on a background thread, talking to a remote system that offers
neither transactions nor a version number, whose only recovery means are a
journal, a snapshot, `resume` and `undo`. That is modelled first and in most
detail. Next to it stand the plan that is written, which every request computes
anew from the live roster, and the operators' decisions that are layered on it,
which concurrent requests change; the database bootstrap, through which the
journals must pass at every deploy; the client through which threads share what
Scoutnet last answered; and the pages, workbooks and letters that are computed
from one roster along different roads and must agree.

Paths below are relative to `src/src/scoutnet_membership_manager/` unless they
start with `docs/`.

## Inventory

| Part | State it keeps | Operations | Interacts with | Correct when |
|---|---|---|---|---|
| **Executor** `write/executor.py` | rows of `write_run`, `write_journal` | `run`, `resume`, `undo`, and under them `drift_check`, `_drive`, `_mark_chunk`, `_reconcile` | client (roster read, POST), snapshots, database | the journal never trails Scoutnet; chunks are serial; a run called done is done; undo mirrors what was observed; nobody outside the plan is touched; every job ends |
| **Snapshots** `write/snapshot.py` | `snapshot` rows; files on a volume | write, list, delete, purge | executor (before a run, `undo_available`), web (delete), bootstrap (dump, restore) | a row has its file |
| **Run manager and write endpoints** `web/runs.py`, `web/writes.py` | one lock and one thread per process | admit, launch, release, record a failure | request threads, executor, database guard | at most one run; lock always released; an interrupted run can be resumed |
| **Command line** `cli.py` | none | `verify-write` | executor directly | bound to the allowlist |
| **Scoutnet client** `scoutnet/client.py` | `_cache`, `_org_cache`, `_neg_cache`, shared by all threads | cached read, fresh read, aggregate, `update_membership` | Scoutnet; every page; executor | a fresh read is fresh; what is shown is recent; a timeout is not for ever |
| **Uppflyttning engine** `uppflyttning/{engine,models,cohort,overrides}.py` | none | `compute_master_set`, `apply_overrides`, `scope_master_set` | roster, configuration, decisions | leaders, adults and off-cohort members are never moved by themselves; decisions leave the groups alone |
| **Decisions and elected targets** `uppflyttning/{decisions,targets}.py`, `web/api.py` | `uppflyttning_entry`, `cohort_target` | upsert, clear, reset, elect | request threads | one row per member and year; a request changes what it is about and nothing else |
| **Bootstrap** `db/bootstrap.py` | the schema itself | initialise, upgrade, adopt, rebuild | every table; the old pod, which still serves | runs, journals and snapshots survive every path; decisions survive a plain restart and nothing else; a deploy comes up |
| **Overview and elected posts** `oversikt.py`, `fortroende.py`, `views.py` | none | composition, leaders, projection, key figures, dues, posts | roster, engine, aggregate | the pages agree with each other and with what the run does |
| **Exports and reconciliation** `export/`, `patrol_roles.py` | none | changelist, affected scouts, chase list, `reconcile` (no caller in `src/`) | plan with and without decisions | whom a run moves is on every list that follows from it |
| **Letters and mail** `membership/`, `mail/` | `email_template`, `message_log` | drafts; template upsert; `send_once` (no caller) | applicants of Scoutnet | a letter goes to the right person |
| **Findings** `findings/` | none | `compute_findings` | roster | agree with the engine and the pages |
| Jobs, configuration, web plumbing, `app.js` | none | probes, validation, rendering | all | (not stateful) |

How the parts interact: a request thread runs the endpoint, which computes the
plan (engine plus decisions), asks `_busy()` (the lock of its own process, then
any `running` row in the database) and hands a closure to `RunManager.launch`,
which takes the lock or refuses. The closure runs on a thread of its own and
drives the executor, which alternates database transactions with HTTP calls.
Every page goes through the one client of the process and is served what it has
kept, unless it asks for fresh data, which only the executor does. A deploy
starts `bootstrap` in an init container while the old pod still serves.
People edit Scoutnet at any moment; the pod may die at any moment; the command
line is a second process that knows nothing of the lock.

The hard behaviours are therefore: a death between any two of *journal, POST,
journal*; a POST whose outcome is unknown; edits between a read and the write
that relies on it; two processes between a check and the row it checks for; a
database rebuilt under a pod that writes; answers that arrive out of order;
recovery operations composed with each other (resume of an undo, undo of a
resumed run, resume after another run). `PROJECT.json` lists each at its line
under `hazards`.

## Modules

| Module | Models | Status |
|---|---|---|
| `WriteExecutor` | executor, run/journal/snapshot rows, Scoutnet's register, other people's edits | written |
| `WriteService` | endpoints, run manager, worker processes and command lines, over `WriteExecutor` | written |
| `BulkMove`, `ExecutorLedger` | what a bulk write promises, and that `WriteExecutor` implements it | written |
| `MCWriteExecutor`, `MCWriteService` | small instances for TLC | written |
| `WriteExecutorProofs`, `WriteExecutorMovesProofs`, `ExecutorLedgerProofs` | theorems about `WriteExecutor`: its journal, whom it moves, and that it implements `BulkMove` | written |
| `WriteServiceProofs` | theorems about `WriteService`, and that it implements `WriteExecutor` | written |
| `Uppflyttning` | the engine: from roster, configuration, election and decision to one row per member; the placement findings | written |
| `Decisions` | decisions and elections, and the requests that read and write them, over `Uppflyttning` | written |
| `Overview` | overview with projection, dues, elected posts, findings on roles, over `Decisions` | written |
| `Handover` | moves, changelist, lists of follow-up work, reconciliation, over `Overview` | written |
| `Letters` | drafts to applicants, over `Handover` | written |
| `MCDecisions` | small instances of these five for TLC | written |
| `DecisionsProofs` | theorems about `Decisions` and `Uppflyttning` | written |
| `PagesProofs` | theorems about `Overview`, `Handover` and `Letters` | written |
| `Snapshots` | files and rows of the recovery snapshots | written |
| `Bootstrap`, `MCBootstrap` | the database at a deploy, over `Snapshots`; its instance | written |
| `BootstrapProofs` | theorems about `Bootstrap` and `Snapshots` | written |
| `ScoutnetClient`, `MCScoutnetClient` | caches and threads of the client; its instance | written |
| `ScoutnetClientProofs` | theorems about `ScoutnetClient` | written |

### `WriteExecutor`

Scoutnet is `register`, the placement (troop, patrol, status, leader) of each
member. The database is `run`, `snap` and `journal`, one row per member and run.
What is not persistent is `job[w]`: the local variables and program counter of
driver `w`, a thread or process that calls the executor. `applied` is history:
who has really been changed by a run.

Every database transaction (`get_session` block), every roster read and every
POST is one action, so that a crash, an edit or another driver can fall between
any two:

| Action | Code |
|---|---|
| `StartRun`, `StartResume`, `StartUndo` | entry of `run`, `resume`, `undo` |
| `BuildInverse` | `undo`: `undo_available`, `build_inverse_moves` |
| `ReadRoster` | the live read, `drift_check`, `_chunk` |
| `WriteSnapshot`, `CreateRun`, `WriteJournal` | `write_snapshot`, `_create_run`, `_write_journal`, in this order |
| `LoadJournal`, `SetRunning` | `resume` |
| `BeginChunk`, `Reread`, `Post`, `MarkDone` / `MarkFailed`, `StopFailed` | one turn of the loop in `_drive` |
| `Finish`, `Reconcile` | its end |
| `Raise`, `Raised` | an exception `_drive` does not catch; `_record_run_failure` |
| `Crash`, `ExternalEdit`, `DeleteSnapshot` | process death; others in Scoutnet; `delete_snapshot` |

`Post` is the interesting one: after a 200 every member of the batch is changed;
after anything else any subset may be, for the answer may be what was lost.

Abstracted: names, status codes other than "may be echoed back or not", the
wording of errors, report objects, `attempts` and timestamps, the pause between
chunks, the dry run (which ends before the snapshot). `_chunk` slices a list in
its order; the model allows every order (`Chunkings`).

### `BulkMove` and `ExecutorLedger`

`BulkMove` says what a bulk write promises and nothing of how: a ledger of runs
beside a register that others edit. A run records once, before it moves anybody,
whom it will move and where; moves nobody else and nowhere else, in any portions
and each as often as it likes until it is confirmed; confirms only what was
moved; reports only when all is confirmed; and a run that reverses another moves
only members the other has confirmed, back to where that run found them.

`ExecutorLedger` maps the executor on it: the plan is what the journal's rows
say besides their progress (`RowAsMove`), confirmed is `done`, reported a run
that says `done`, `reverses` the `parent_run_id`. Snapshots, chunks, re-reads,
crashes, resumes and the job's local variables are hidden: they map to stutters.
`KeepsTheLedger` is the abstract specification as a property of `Spec`.

### `WriteService`

Adds to every action of `WriteExecutor` the admission of requests: `Admit` is an
endpoint up to its `_busy` check, `Launch` and `Refuse` are the two outcomes of
`RunManager.launch`, `Release` is its `finally`. `Home` and `Serves` say in which
process each run thread and request thread lives, so one worker, several
workers, and command lines are instances of one module. `WorkerCrash` ends a
process with its thread, its lock and its requests.

`ServiceSpec` with one worker and no command line **implements** `Spec` of
`WriteExecutor` (theorem `ServiceIsExecutor`), whose `SerialCall` promises one call at a time: what is proved
from that promise holds of the deployed service (Dockerfile: one worker;
`k8s/deployment.yaml`: one replica).

### `Uppflyttning`

The engine keeps no state, so the module has none: it is operators named for the
functions of `uppflyttning/engine.py`, `cohort.py`, `overrides.py` and
`roster.py`. The configuration is constants (`Declared`, `DeclaredAs`,
`Weekday`, `Flow`, `ConfigYear`), and so is Scoutnet's `unit_type` of each troop
(`BracketOf`, `None` for a code nobody knows);
the roster is a parameter. `Computed` is the body of the loop in
`compute_master_set` for one member, with one operator for each way out of it
(`Stray`, `OffCohort`, `Excluded`, `MovesUp`), in the loop's order; `Resolved`
and `InferTarget` choose the target; `Applied` layers a decision on the row;
`GroupOf` is the group `scope_master_set` puts it in. `Findings` is the part of
`findings/engine.py` that judges placement and age by comparisons of its own.

A troop stands for its name and its id together, as Scoutnet delivers them; an
id is *known* when somebody in the roster is in the troop (`Live`). An election
is the exception (`ElectedTarget`): its name and its id are two values, for the
id may be typed in by hand, for a troop that is still empty, and nothing compares
it with the name. The row takes its target from the one and its troop, which is
what the run writes, from the other (`Resolved`). Notes, sorting, patrols and
names are left out.

### `Decisions`

`entry` and `target` are the tables `uppflyttning_entry` and `cohort_target`
(bracket Utmanare, the only one the endpoints use), functions from primary key to
row. `session[h]` is the open database session of request thread `h`: the
request, the cohort year it derived, and the row as it was read. `roster` and
`term` are Scoutnet's.

| Action | Code |
|---|---|
| `Begin` (`ReadEntry`, `ReadTarget`, `DeleteEntries`) | the endpoint of `web/api.py` up to its SELECT, or a reset's DELETE |
| `ReadTargetOfReset` | `clear_elected_target` inside `api_reset_uppflyttning` |
| `Commit` (`InsertEntry`, `UpdateEntry`, `DeleteEntry`, `InsertTarget`, `UpdateTarget`, `DeleteTarget`, `CommitReset`) | what the session flushes, and the commit of `get_session` |
| `Rollback` | its `except` branch, or the death of the worker |
| `NextTerm` | Scoutnet's term label moves on |

Between its SELECT and its commit any other request may commit. What the
database and the ORM do then is modelled as they do it: a statement reads what
is committed (the READ COMMITTED of PostgreSQL); an UPDATE names a primary key
and only the columns that differ from what was read (`Dirty`), and fails when the
row is gone; a DELETE of a row that is gone does nothing; a second INSERT of an
election meets the unique key (a request elects a name and an id, or a name from
the dropdown, which finds its id in the roster: `TargetOf`; re-elections that
race may leave the name of one beside the id of the other: `Reelected`), one of a decision does not, for there is none; a
row deleted and not committed is locked. A request that ends without effect (an
error of validation, several rows where one is expected, nothing to clear) is
not a step. A decision is its target, its stay and its acknowledgement; who
made it is left out.

### `Overview`, `Handover`, `Letters`

Three layers of operators over the state of `Decisions`; no state of their own,
for the code has none. They are named for the functions they translate.

`Overview`: roles of the members (`Duties`), payment codes, applicants and
expected posts are constants. `Composition`, `ScoutsPerLeader`, `Projection`
(with `ProjectionRow` for the four bases of a row), `TransitionLines`,
`SizeSpread`, `WaitingDepth`, `SharePaid` and `Reconciliation` are the parts of
`build_oversikt`; `DuesByAvdelning` and `Route` the dues page and the chase
list; `Assignments`, `BySection`, `Vacancies` the elected posts;
`SecurityFindings` and `MultiAvdelning` the findings on roles; `Aggregate` the
figures the fixture client makes up.

`Handover`: `Decided` is the plan with decisions, `Moves` what
`_moves_from_master` makes of its ready rows (with the patrol
`first_known_patrol` picks), `Written` whom `drift_check` lets through,
`Changelist`, `Affected` and `PatrolRoles` the workbooks, `GroupCounts` the
selector, `NeedsAck` the gate of export and execute, `Reconciled` the comparison
of `reconcile`.

`Letters`: `IsLedareApplicant`, `Recipients` (both guardians once each, else
one's own address) and `Draft`. Who applies as a ledare is not a matter of age
alone: one who is of age, or whose application is to a unit of leaders or to the
bracket `annat` (`AmongLeaders`), is written to at its own address and nowhere
else; everybody else is a scout, whose letter goes to the guardians that are
known. The template's text is left out; what is kept is what it promises, the
bracket and its avdelningar.

### `Snapshots` and `Bootstrap`

`Snapshots` has the files on the volume and the rows of the table `snapshot`
(`indexed`). `taken_at` is left out, so a purge may take any of them: the code
fixes it on entry of a run and a rebuild sets it anew, so it says nothing about
the order of the commits. A deletion is `SelectOne` or `SelectExpired`
(a purge), `Unlink` for each file, and `CommitDelete`, or `AbandonDelete` when
the session rolls back: what is unlinked stays so.

`Bootstrap` adds the schema, described by the revision its columns are those of
and by the revision it is stamped with; the ids with rows in `write_run` and
`write_journal`; the decisions, each known by the columns it was made under; the
init container `boot` with the local variables of `bootstrap()`; the pod that
serves and the bulk write in progress in it.

| Action | Code |
|---|---|
| `Inspect` | which of the four paths: no tables, `alembic_version`, compatible, not |
| `InitialUpgrade`, `Upgrade`, `Compare`, `Clear` | `command.upgrade`, `before != after`, `_clear_uppflyttning` |
| `Stamp`, `Adopt` | `command.stamp`, and the upgrade after it |
| `DumpRuns`, `DumpJournals`, `DumpSnapshots`, `Drop`, `Restore` | the rebuild, each SELECT in a connection of its own |
| `BeginWrite`, `WriteSnapshotFile`, `IndexSnapshot`, `RecordRun`, `RecordJournal` | the start of a bulk write in the pod |
| `Decide`, `Delete` | a decision; a deletion or purge of snapshots |
| `RollOver` | the init container has succeeded and the new pod takes over |
| `Deploy`, `BootDies`, `PodDies` | another release, newer or older; deaths between any two actions |

### `ScoutnetClient`

`cache` is `_cache` and `_org_cache`, `neg` is `_neg_cache`, `call[h]` what
thread `h` is doing: the page, which of its reads it is at (`Reads` lists them in
the order of the code), and the question that is out. Time passes in ticks and
everything is kept relative to now: the age of a question, which the code
compares with its limits, and how long ago Scoutnet changed what an answer says.

| Action | Code |
|---|---|
| `Open`, `Got`, `Raised` | a page begins, goes on, catches `_FETCH_ERRORS` or fails |
| `Serve`, `Refuse`, `Ask` | the cache answers, the memory of a timeout refuses, or `_get` |
| `Reply`, `Receive` | Scoutnet answers; the answer arrives, however late, and is stored with the time of its *question* |
| `TimeOut`, `Fail` | no answer in time, or an error, or an answer that cannot be read |
| `Edit`, `Tick` | others change Scoutnet; time passes |

## Runs

| Run | Instance | Shows |
|---|---|---|
| `executor_serial` | 3 members (leaders or not), 1 troop, 2 runs, chunks of 2 | `TypeOK`, `JournalFirst`, `DoneRunIsComplete`, `UppflyttningSparesLeaders`, `DriveLands`, `DoneWasApplied`, `ChunksInOrder`, `JournalIsLog`, `Invariant` (the inductive invariant of the proofs), and `KeepsTheLedger`: the executor implements `BulkMove` |
| `executor_undo` | 2 members, one of them on the allowlist, 2 troops, 2 patrols, a run and its undo, chunks of 1, 1 edit by others | `UndoMirrorsParent`, `UndoRestores`, `VerifyStaysOnAllowlist`, `KeepsTheLedger` with undos that have rows, and `JobEnds` with two chunks, a resume and an undo |
| `service` | a worker with 2 run threads and 2 request threads beside a command line, 1 run, 1 edit | `OneRunPerWorker`, `LockIsReleased` |
| `decisions` | 2 members, 2 request threads, 2 rows, 2 years, 9 requests | `DecisionsTypeOK`, `OneElection`, `OnlyProvidedFieldsChange`, `OthersAreLeftAlone` |
| `planning` | 12 members and 9 troops, one member for each case of the engine and one avdelning of an unknown type, 2 rosters, 2 years, 9 requests, elections whose id is that of another avdelning among them, 5 applicants | `NobodyMovesUnasked`, `ReadyIsWritable`, `GroupsAreStable`, `StraysAreFound`, `ProjectionIsReached`, `PagesAgree`, `MovesSettle`, `LettersReachTheRightOnes` |
| `bootstrap` | 2 runs or any decisions, 2 revisions and the schema before them, 1 deploy or death | `HistoryKept`, `DecisionsSurviveRestarts`, `NoDecisionIsMigrated`, `IndexHasFile`, `ComesUp` |
| `client` | 2 threads, the key check (two optional reads) and the executor's fresh read, every limit 2 ticks | `ShownIsRecent`, `FreshIsCurrent`, `TimeoutsAreForgotten` |

Why the bounds are enough. Two runs are what `undo` needs, and each of them may
be resumed any number of times; in `executor_serial` the second may also be an
independent run over the first. Three members with chunks of two make a full
chunk, a rest, a partly applied POST, and a chunk that succeeds before another
fails. One troop besides *outside* lets a member be moved, but an undo has no
rows there, for nobody came from a troop. Two troops with patrols let members be
moved and moved back, and two members in chunks of one give a run and its undo
two chunks each (`executor_undo`). There the first id is that of a run and the
second that of its undo, and the run moves members from where they stood at the
start (`FairSpecOneFresh`): the page plans from the roster, so that only an edit
can make a row stale, and a fresh run reads no other run's rows, so that none of
these properties needs a second one (`executor_serial` has it). One edit, which
takes a member out of the roster, suffices to falsify anything checked earlier.
Crashes, failures and lost answers are not bounded. In `service` one run,
started by one request and resumed by others, is all that requests compete for;
what an undo through the endpoints does is covered by the theorems on
`WriteService`. In `decisions` two rows let two requests insert one each, or a
reset delete one while another request inserts the next, two years let a session
outlive the year it derived, and a decision on a second member is what the
requests on the first must spare. In `planning` requests do not interleave, for
the question is what a combination of decisions shows; at most two members carry
a decision at a time and the row of a member depends on no decision but its own.
In `bootstrap` two ids let a run be older than the one that is being written;
two revisions and the schema before them make every relation of columns, stamp
and release, rollback included; one fault falls between any two steps, and what
it leaves behind is then met by a whole further start. Runs and decisions lie in
different tables and no action reads both, so a behaviour has one kind of work
(`OneKindOfWork`). In `client` two threads are the least with which an answer
overtakes another, and a limit of two ticks tells an entry that is new, one that
is old and one that has expired apart. Symmetry is used only where no liveness
is checked.

Five more runs show where documentation promises more than the code does; each
ends in a counterexample:

| Run | Sentence | What happens |
|---|---|---|
| `undo_lost_answer` | `docs/runbook.md:155`: undo puts back "every member this run moved" | a member whose answer was lost is not in the inverse set |
| `resume_over_run` | `docs/runbook.md:145`: "re-applying an applied move is a no-op, so resuming is safe" | a resume without drift check undoes a later run's move |
| `service_interrupted` | `web/writes.py:300`: "Resume an interrupted/failed run" | after a process death the row stays `running`, and `_busy()` refuses the resume for ever |
| `rows_are_keyed` | `uppflyttning/decisions.py:4`: "keyed on (cohort_year, member_no)" | two requests on one member read no row and insert one each; from then on every request on that member fails at `scalar_one_or_none` until a reset |
| `allowlist_bounds` | `docs/runbook.md:44`: "Empty means nothing can be written"; `:241-242`: "The allowlist bounds the blast radius"; `settings.py:121-122`: "refuses any member_no not on this list" | only a verification run is held to it, by intent (`write/executor.py:295-301`): an uppflyttning moves members who are not on it. `VerifyStaysOnAllowlist` is what does hold |

Further windows are in the model without a run of their own: an edit between a
run's pre-flight read and its POST is overwritten (`write/executor.py:426`); a
reconciliation after a resume compares only the rows that the resume drove
(`write/executor.py:447`); a snapshot may be deleted under its run
(`web/writes.py:395`); `verify-write` starts beside a running web run
(`cli.py:99`), and two worker processes may both pass `run_active_in_db`, which
reads before the row it looks for is written (`web/runs.py:59`; the deployed
service has one worker); two overlapping requests on one member may leave it
both a chosen target and a keep, of which the target wins
(`overrides.py:36-44`); two overlapping re-elections may leave the name of one
beside the id of the other (`uppflyttning/targets.py:49`).

Facts that came up while modelling and that no run is about:

- The elected target of the Äventyrare cohort (`db/models.py:75`) is given to
  every row whose own target could not be inferred, also to a Spårare with two
  possible Upptäckare troops (`engine.py:160`).
- A stay is stored under the year it was made in and lapses with it, whatever
  later year it names (`overrides.py:46`).
- A leader with a chosen target is on the changelist, but the run leaves it out
  (`drift_check`). The acknowledgement an execute run asks for is the request's
  `ack_by`, never the one stored with a decision (`web/writes.py:195`).
- Running one transition group before another may change the second's inferred
  targets: a troop that is emptied is no longer a candidate.
- The projection needs targets that lead up (`TargetsLeadUp`): a configuration
  that agrees with Scoutnet about the brackets, explicit targets outside the
  bracket they leave and not among the Spårare, and an elected id of an avdelning
  that nobody moves on from. `config/models.py` validates only that an explicit target
  is configured, and `api_elect_target` only that an id is given. Without it a
  run may also make a member ready again that it has just moved (`MovesSettle`).
- Any id may be typed beside any elected name (`web/api.py:542-558`): the
  overview then projects the one avdelning and the run fills the other.
  `ProjectionIsReached` therefore supposes that the election's name and id are of
  one troop (`ElectionAgrees`); that a ready row is writable (`ReadyIsWritable`)
  and that moves settle (`MovesSettle`) hold without.
- An elected avdelning without members hides those moving in behind a row of
  dashes. The transition lines count configured avdelningar only.
- A purge or deletion that is under way when the database is rebuilt leaves
  restored rows without files: `IndexHasFile` excuses these (`torn`).
- The fixture client's aggregate is there so that the cross-checks "have real
  figures to agree with" (`scoutnet/client.py:100`); its count of avdelningar
  disagrees as soon as a configured one is empty, which `PagesAgree` states.
- An avdelning whose `unit_type` nobody knows is in no group of the overview, and
  its members are left out of `kar_total` (`oversikt.py:124`), which `PagesAgree`
  states.
- On a conflict about the cohort year the drafts take nobody's age into account:
  an adult applicant gets a scout's letter, to its guardians.
- `bracket_avdelningar` is "ordered by weekday" by the Swedish names of the days.
- "It is never wiped here" (`db/bootstrap.py:51`, of the journal) does not hold through a death
  between drop and restore, a restore that fails on rows of an older schema, or
  a row committed beside the dump: `HistoryKept` excuses these and nothing else.
  A death between upgrade and clear leaves decisions that no later start clears.
- Adopting a database whose columns are newer than the release stamps it too
  low, and a later upgrade fails; so does a rollback (`Stuck` in `ComesUp`).
- A rebuild does not carry over `source_patrol_id`, so that an undo would restore
  no patrols, nor `taken_at`. That is fixed on entry of a run
  (`write/executor.py:294`) and becomes the time of the rebuild in a restored row,
  so the order of the listing, and what a purge would keep, need not be that of
  the runs. `purge_snapshots` has no caller in `src/`.
- A late timeout is remembered also over a success that came meanwhile, and a
  late answer replaces a fresher one; both are bounded by the limits, as
  `ShownIsRecent` and `TimeoutsAreForgotten` say. Reloading does not retry within
  the limit, although the message says so (`client.py:193`).
- A green key check may be the cache's answer (`web/apicheck.py:4`: "authorises
  right now"). An answer that is no JSON is not among `_FETCH_ERRORS`, so an
  optional list that comes back so takes its page down (`web/api.py:72-73`: "must
  not take down the blade").

## Fairness

`FairSpec` and `FairServiceSpec` ask only that what is runnable runs: a job's
next step is taken, because its thread is scheduled by the operating system and
each HTTP call has a timeout; the lock's `finally` is reached; an admitted
request gets to `launch`. `FairServiceSpec` also has an operator who keeps asking
for the resume, which is what `service_interrupted` is about and `LockIsReleased`
does not need. Nothing makes an edit, a crash, a new run or a deletion happen,
and no POST is assumed to succeed. Weak fairness is enough, for nobody else
disables a job's step except by ending the job.

`FairSpec` of `Bootstrap` asks that the init container goes on (Kubernetes starts
it again until it succeeds) and that the deployment rolls over once it has;
deploys and deaths are bounded by `MaxFaults`, so they come to an end. `FairSpec`
of `ScoutnetClient` asks only that time passes.

## Proofs

### The executor

`WriteExecutorProofs` proves, for every set of members, troops, runs and
drivers, every chunk size and any number of edits:

| Theorem | Property |
|---|---|
| `TypeCorrect` | `Spec => [](TypeOK /\ HasRun)` |
| `Safe` | `Spec => []Invariant` |
| `WritesAreJournaledFirst` | `JournalFirst` |
| `DoneRowsWereApplied` | `DoneWasApplied` |
| `DoneRunsAreComplete` | `DoneRunIsComplete` |
| `ChunksAreSerial` | `ChunksInOrder` |
| `JournalNeverRewritten` | `JournalIsLog` |

Assumed: the named `ASSUME`s of `WriteExecutor` (members are finite, chunk size
is positive, the allowlist holds members, `None` is no id), which TLC evaluates
in every run.

The argument. None of the properties is inductive: that a run's journal reads
*done chunks, at most one open chunk, pending ones* says nothing about which
chunk the loop writes next. `Invariant` adds what the job in progress knows:
`Prepared` (until its journal is written a run is blank), `Driven` (what is not
left in `todo` is done, the chunk being written is whole and in flight, an
acknowledged chunk was applied), `JournalInv` and `AppliedInv` (what rows imply
of the run row and the snapshot), and `SerialCalls`, the promise of
`SerialCall`: with two calls at once, one job could mark a chunk that the other
had just finished. Types are proved first (`TypeCorrect`), then each action
keeps `LogInv` and `JobsInv`, one lemma per action or group of actions, and the
properties follow conjunct by conjunct. `JournalNeverRewritten` is the step of
the log under the invariant.

### The decisions

`DecisionsProofs` proves, for every set of members, troops, requests and request
threads, every roster, configuration and range of years:

| Theorem | Property |
|---|---|
| `TablesAreTyped` | `DecisionsTypeOK` |
| `OthersAreSpared` | `OthersAreLeftAlone` |
| `FieldsAreKept` | `OnlyProvidedFieldsChange` |
| `ElectionIsOne` | `OneElection` |
| `MovesAreCohortOrChosen` | `NobodyMovesUnasked` |
| `ReadyRowsAreWritable` | `ReadyIsWritable` |
| `DecisionsKeepGroups` | `GroupsAreStable` |
| `FindingsAgree` | `StraysAreFound` |

Assumed: the named `ASSUME`s of `Uppflyttning` and `Decisions` (the types of the
configuration, as `config/models.py` validates it, and of requests and rosters),
and, as definitions, what the database does: `Unused` (a key is not given out
again while somebody remembers it) and the unique key in `InsertTarget`.

The argument. What a commit writes is decided by a read that may be out of date,
so the properties of a commit need what a key read earlier still means:
`KeysStand`, which is inductive together with the types (lemma `KeysAlwaysStand`). It holds because no
step changes the year or the member of a row, and a key that is remembered is
not given out again (`CommitSpares`); `InsertTarget` keeps `OneElection` by its
own re-check, which is the unique key. The action properties are then a case
analysis of `Commit`. The four properties of the plan hold in every typed state
and rest on lemmas about the engine's operators alone: the classes of
`Computed` exclude each other, `Resolved` names only live or elected troops, and
`Applied` changes status and target but neither group nor class.

### Whom the executor moves

`WriteExecutorMovesProofs` proves the properties that need the contents of the
rows, under the same assumptions:

| Theorem | Property |
|---|---|
| `MovesAreLawful` | `Spec => [](Invariant /\ MovesInv)` |
| `UndosMirrorTheirParents` | `UndoMirrorsParent` |
| `VerificationsStayOnTheAllowlist` | `VerifyStaysOnAllowlist` |
| `UppflyttningarSpareLeaders` | `UppflyttningSparesLeaders` |
| `DrivesLand` | `DriveLands` |
| `UndosRestore` | `UndoRestores` |

`MovesInv` follows a row from where it is planned. `PlanInv` says what a job's
plan owes to its kind while it waits for the roster, the snapshot, the run row
and the journal: a verification's is on the allowlist, an undo's takes back done
rows of its parent (`Mirrors`), an uppflyttning's has no leader once it has been
compared with the roster (`Sparing`, as long as nobody edits). `RowsInv` says the
same of the journal, which is what a resume reads. A parent may go on while its
undo is prepared (its own resume, in another call before or after), but its done
rows never change: that is the log step of `JournalNeverRewritten`. `LandedInv`
is the loop's invariant: what it has behind it stands where its row says.

`ExecutorLedgerProofs` proves the refinement `ExecutorKeepsTheLedger`
(`Spec => KeepsTheLedger`), assuming further that `None` is no row of the
journal (`NoneIsNoRow`): under the two invariants `WriteJournal` maps to the
ledger's recording, `Post` to a move, `MarkDone` to a confirmation, `Finish` to
a report, and every other action, crashes and resumes included, to a stutter.

### The service

`WriteServiceProofs` proves of any number of processes, run threads, request
threads and command lines `LockCoversTheJob` (`ServiceInv`: whoever has a job in
a worker holds that worker's lock until the job is over, a request that was
admitted is one of an endpoint, and an idle thread remembers nothing),
`ServiceTypesCorrect` and `WorkersAreSerial` (`OneRunPerWorker`). From
the hypothesis `OneProcess`, all threads in one process and no command line,
which is the deployment, follow

| Theorem | Property |
|---|---|
| `RunsAreSerial` | `OneRunAtATime` |
| `ServiceIsExecutor` | `ServiceSpec => Spec` |
| `ServiceIsSafe` | `Invariant`, `JournalFirst` |
| `ServiceKeepsTheLedger` | `KeepsTheLedger`, `UndoMirrorsParent`, `VerifyStaysOnAllowlist` |

The last two are the theorems of the executor, carried over by the second:
`SerialCall` is not assumed of the service but what its lock provides.

### The deploy

`BootstrapProofs` proves, for any number of revisions, snapshots, deploys and
deaths:

| Theorem | Property |
|---|---|
| `DeploysAreSound`, `BootstrapTypesCorrect` | `Spec => []BootInv`, and the types |
| `ListedSnapshotsHaveFiles` | `IndexHasFile` |
| `DeploysKeepHistory` | `HistoryKept` |
| `RestartsKeepDecisions` | `DecisionsSurviveRestarts` |
| `MigrationsClearDecisions` | `NoDecisionIsMigrated` |

`BootInv` relates what lies in the tables, on the volume and in the memory of
two processes: in which phase the tables exist (`PhaseInv`); every row, in its
table or in the dump, has a file or an excuse (`FilesInv`); what was committed
after its table was dumped is excused, and nothing else (`DumpInv`); between drop
and restore a run is in the dump instead (`KeptInv`); and whose decisions may be
left at all (`ScratchInv`).

### The client

`ScoutnetClientProofs` proves, for any number of threads, any limits and any
pages, `AnswersAreSound` (`Spec => []ClientInv`), `PagesAreRecent`
(`ShownIsRecent`) and `RereadsAreCurrent` (`FreshIsCurrent`). `ClientInv` says of every
answer, kept or on its way, that it has been out of date for no longer than its
question is old: an entry carries the time of the question and not that of the
answer, so a late answer that replaces a fresher one still ages from its own
question. What a thread has got satisfies that, or came from an entry within its
limit.

### The pages

`PagesProofs` proves, for every group of members, configuration, memberlist and
register of posts, and whatever is decided and elected:

| Theorem | Property |
|---|---|
| `LettersArrive` | `LettersReachTheRightOnes` |
| `ProjectionsAreReached` | `ProjectionIsReached` |
| `MovesAreSettled` | `MovesSettle` |
| `PagesAreConsistent` | `PagesAgree` |

Assumed besides: members, avdelningar and each member's roles are finitely many
(`FiniteGroup`, `DutiesFinite`), the year of birth is the same in both lists of
applicants (`BornAgrees`), and `None` is neither a number nor a route. The
antecedents `ConfigAgrees`, `TargetsLeadUp` and `ElectionAgrees` are part of the
properties, and TLC has states that satisfy all three and states in which the
election does not agree: the instance of `planning` has an explicit target, and
elections with the id of another avdelning.

The sums of the pages are folds over finite sets, which would call for
induction. `SumIs` does without: a function on the subsets that grows by each
element's value is the sum, because a smallest set on which the two differ
(`MinimalSubset`, from the well-foundedness of strict inclusion) would have a
smaller one. `SumOfFibres` is its consequence for counting: adding up how many
members have each value counts the members that have any. `kar_total`, the dues,
the transition lines, the groups of the selector and the row of the new
avdelning are instances of it. `ComputedRow` and `AppliedRow` describe a row of
the engine for any memberlist, so also for the one after a run:
`MovedIsSettled` compares the two, and a member moved once would have to be of
the age of two brackets to be moved again.

### What the attempts corrected

- A proof of `DeploysKeepHistory` failed on a key given out again while its
  deletion was not yet committed: `Unused` of `Bootstrap` now excludes it.
- `ProjectionIsReached` and `MovesSettle` had been stated for every
  configuration and hold only for those whose targets lead up; the instance TLC
  checks had no explicit target and now has one.
- An election had been one troop. Its name and id are separate columns that need
  not agree: `ProjectionIsReached` now says that it supposes so, and the other
  properties of the plan are proved without.
- The waiting list counts an applicant by the year of birth in one export and
  the letter by that in another: `BornAgrees` says that they agree.

### What is not proved

Every safety property that the runs check is proved, and so are the two
implementations; that the service implements the executor is proved only, for
the run `service` has a command line. Model-checked only are `JobEnds`, `LockIsReleased`, `ComesUp` and
`TimeoutsAreForgotten`: liveness under fairness, which is beyond the proof
system. The five sentences of the documentation that do not hold are refuted by
their runs.

## Plan

What is left to prove:

1. What holds without the promise of serial calls, so of several workers and
   command lines too: that a write is journaled first, that a verification stays
   on the allowlist, that an undo mirrors its parent. `Invariant` rests on
   `SerialCalls`, so this takes an invariant of its own, checked first on the
   instance of `service`.
2. That `Decisions` implements a table of decisions keyed by year and member
   as long as no two requests on one member overlap, which is what
   `rows_are_keyed` shows to fail when they do.
3. That `WriteService` refuses nobody for ever while no process dies, short of
   liveness: a lock that is held has a job that can step.

Not modelled, and why: layout of workbooks and letters (wording and formatting),
the storage of letter templates (one upsert by primary key), the mail sender (no
caller), parsing of Scoutnet's JSON, checks of contact data,
the browser client (whatever button is shown, the server's guards decide),
configuration parsing, health and capability probes, cron jobs (stateless),
alembic migrations (generated schema changes), container and cluster files.
