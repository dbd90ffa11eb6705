------------------------------ MODULE Lifecycle -----------------------------
(***************************************************************************)
(* The lifecycle policies (reductstore/src/lifecycle/): the repository     *)
(* that owns and persists them and, for one of them, Watched, the worker   *)
(* of its task, the window of data that a run covers and the delete        *)
(* action, beside clients that write and relabel records.                  *)
(*                                                                         *)
(* A time holds at most one record of the policy's entries.  Its labels    *)
(* either satisfy the policy's condition ("match") or do not ("keep").     *)
(***************************************************************************)
EXTENDS Integers, FiniteSets, FiniteSetsExt, TLC

CONSTANTS
    MaxTime,    \* bound on the clock and on the times of records
    OlderThan,  \* settings.older_than
    Interval,   \* the data window: processing_interval, or 24 intervals
    BatchSize,  \* max_block_records: how many records a query removes at a time
    Scenario,   \* the settings examined: see Scenarios
    MaxIncidents \* bound on records written or relabelled, calls of the repository,
                 \* runs, saves and loads that fail, events that are not stored, and
                 \* crashes

ASSUME LifecycleAssumption ==
    {MaxTime, OlderThan, Interval, BatchSize, MaxIncidents} \subseteq Nat \ {0}

\* Whether system events, and with them the progress, are stored, whether
\* processing_interval is set, whether the repository holds a second policy and its
\* file can fail (then there are no records), and how many incidents there may be.
Scenarios == [events : BOOLEAN, bounded : BOOLEAN, shared : BOOLEAN,
              incidents : 0..MaxIncidents]

ASSUME ScenarioAssumption == Scenario \subseteq Scenarios

Time == 1..MaxTime
Mode == {"Enabled", "DryRun", "Disabled"}
Policy == {"watched", "other"}
Watched == "watched"  \* the one that calls are about and whose worker is modelled
NoPolicy == "none"    \* in the place of a mode: there is no such policy
None == [p \in Policy |-> NoPolicy]
Empty == [p \in Policy |-> "empty"]  \* a file without anything that can be decoded

VARIABLES
    scenario,  \* the settings of this behaviour
    now,       \* the clock
    data,      \* data[t]: "none", "match" or "keep"
    progress,  \* last_processed_ts of the latest event, 0 if it has none
    task,      \* the modes of the tasks in the repository, or NoPolicy
    file,      \* what .lifecycles holds: the modes of the policies, or Empty
    worker,    \* the worker of Watched and its run
    stopFlag,  \* the stop_flag of its task
    started,   \* whether the repository has started its tasks
    op,        \* the call of the repository under way
    promise,   \* history: what each policy may be, by the calls there were
    dropped,   \* history: the policies that were lost in one of the known ways
    incidents  \* the incidents so far

repository == <<task, file, stopFlag, started, op, promise, dropped>>
vars == <<scenario, now, data, progress, worker, repository, incidents>>

NoWindow == [start |-> 0, stop |-> 0, last |-> 0, reaches |-> FALSE]
\* batch holds the records that the query found and did not remove yet, and matched
\* (history) those that satisfied the condition at some time of the run.
NoRun == [begun |-> "Disabled", window |-> NoWindow, cursor |-> 0, batch |-> {},
          affected |-> 0, matched |-> {}]
NoWorker == [pc |-> "none", mode |-> "Disabled"] @@ NoRun

\* policy is what the call is about, and items what load_or_create has still to
\* create.
Idle == [pc |-> "idle", policy |-> Watched, old |-> NoPolicy, new |-> NoPolicy,
         items |-> None]

\* The policies are loaded and the repository not yet started; there may be
\* records, some of them ahead of the clock.  The other policy is disabled: its
\* worker does nothing.
Init ==
    /\ scenario \in Scenario
    /\ now = 1 /\ progress = 0
    /\ data \in [Time -> {"none", "match", "keep"}]
    /\ \A t \in Time : t = MaxTime \/ scenario.shared => data[t] = "none"
    /\ \E m \in Mode \cup {NoPolicy} :
          task = [None EXCEPT ![Watched] = m,
                              !["other"] = IF scenario.shared THEN "Disabled" ELSE NoPolicy]
    /\ file = task
    /\ worker = NoWorker /\ stopFlag = FALSE /\ started = FALSE
    /\ op = Idle /\ promise = [p \in Policy |-> {task[p]}] /\ dropped = {}
    /\ incidents = 0

Incident == incidents < scenario.incidents /\ incidents' = incidents + 1

-----------------------------------------------------------------------------
(* Time and the clients *)

Tick ==
    /\ now < MaxTime /\ now' = now + 1
    /\ UNCHANGED <<scenario, data, progress, worker, repository, incidents>>

\* A record is written, or its labels are changed.
Change(t, labels) ==
    /\ ~ scenario.shared /\ Incident /\ data[t] # labels
    /\ data' = [data EXCEPT ![t] = labels]
    /\ worker' = IF labels = "match" /\ worker.pc \in {"query", "remove"}
                 THEN [worker EXCEPT !.matched = @ \cup {t}] ELSE worker
    /\ UNCHANGED <<scenario, now, progress, repository>>

-----------------------------------------------------------------------------
(* The window of a run *)

Stored == {t \in Time : data[t] # "none"}

Least(a, b) == IF a < b THEN a ELSE b

\* Mutant: the cutoff is one too late.
CutoffStopLate == now - OlderThan + 2

\* Records up to now - older_than are old enough; the end of a range is
\* exclusive.
cutoff_stop == (IF now > OlderThan THEN now - OlderThan ELSE 0) + 1

\* matching_record_window: the oldest record, and the end of what is both there
\* and old enough.
first_record_start ==
    IF Stored = {} THEN cutoff_stop ELSE Least(Min(Stored), cutoff_stop)
effective_cutoff_stop ==
    IF Stored = {} THEN cutoff_stop ELSE Least(Max(Stored) + 1, cutoff_stop)

Window(stop, last, reaches) ==
    [start |-> Least(first_record_start, stop), stop |-> stop, last |-> last,
     reaches |-> reaches]

\* Mutant: the window is not moved on from the last one.
AdvancedNever(last_processed) ==
    Least(first_record_start + Interval, effective_cutoff_stop)

\* The window ends one Interval after what was processed.
Advanced(last_processed) == Least(last_processed + Interval, effective_cutoff_stop)

\* read_progress, or the start of the data if the latest event says nothing.
read_progress == IF progress = 0 THEN first_record_start ELSE progress

processing_window ==
    LET last_processed == read_progress
    IN  IF ~ scenario.events
        THEN Window(IF scenario.bounded
                    THEN Least(first_record_start + Interval, effective_cutoff_stop)
                    ELSE effective_cutoff_stop, 0, FALSE)
        ELSE IF last_processed >= effective_cutoff_stop
        THEN Window(effective_cutoff_stop, last_processed, TRUE)
        ELSE Window(Advanced(last_processed), Advanced(last_processed),
                    Advanced(last_processed) >= effective_cutoff_stop)

-----------------------------------------------------------------------------
(* The worker of LifecycleTask::start *)

At(pc) ==
    /\ worker.pc = pc
    /\ UNCHANGED <<scenario, now, repository>>

Goto(w) == worker' = w

\* The run is over.
EndRun(pc) == [pc |-> pc, mode |-> worker.mode] @@ NoRun

\* The mode the worker's loop reads; that of the actions is worker.mode, a copy
\* made when the worker was started.  A task taken out of the repository keeps
\* its last mode.
CurrentMode == IF task[Watched] # NoPolicy THEN task[Watched] ELSE op.old

\* The top of the outer loop, with the sleep that follows.
Top ==
    /\ At("top")
    /\ Goto(IF stopFlag THEN NoWorker
            ELSE IF CurrentMode = "Disabled" THEN worker
            ELSE [worker EXCEPT !.pc = "slept"])
    /\ UNCHANGED <<data, progress, incidents>>

Slept ==
    /\ At("slept")
    /\ Goto(IF stopFlag THEN NoWorker ELSE [worker EXCEPT !.pc = "window"])
    /\ UNCHANGED <<data, progress, incidents>>

Matching == {t \in Stored : data[t] = "match"}

\* DeleteLifecycleAction::run up to the query.
BeginRun ==
    /\ At("window")
    /\ Goto([worker EXCEPT !.pc = "query", !.begun = CurrentMode,
                           !.window = processing_window, !.matched = Matching])
    /\ UNCHANGED <<data, progress, incidents>>

\* What the query has still to find in the window computed before.
Found == {t \in Matching : /\ worker.window.start <= t /\ t < worker.window.stop
                           /\ worker.cursor < t}

\* The query finds its next record, which is counted in a dry run and otherwise put
\* in the batch; the batch is removed when it is full, or the query at its end.
Receive ==
    /\ At("query")
    /\ IF Found = {}
       THEN Goto([worker EXCEPT !.pc = IF worker.batch = {} THEN "log" ELSE "remove"])
       ELSE LET t == Min(Found)
                batch == IF worker.mode = "DryRun" THEN {} ELSE worker.batch \cup {t}
            IN  Goto([worker EXCEPT
                   !.pc = IF Cardinality(batch) = BatchSize THEN "remove" ELSE "query",
                   !.cursor = t, !.batch = batch,
                   !.affected = IF worker.mode = "DryRun" THEN @ + 1 ELSE @])
    /\ UNCHANGED <<data, progress, incidents>>

Without(S) == [t \in Time |-> IF t \in S THEN "none" ELSE data[t]]

\* The batch is removed, whatever the labels are by now; a record that is no longer
\* there is not counted.
RemoveBatch ==
    /\ At("remove")
    /\ data' = Without(worker.batch)
    /\ Goto([worker EXCEPT !.pc = "query", !.batch = {},
                           !.affected = @ + Cardinality(worker.batch \cap Stored)])
    /\ UNCHANGED <<progress, incidents>>

\* A run that fails has removed earlier batches, and may have removed a part of this
\* one.  Its event, if it is stored, is without last_processed_ts.
RunFails ==
    /\ At(worker.pc) /\ worker.pc \in {"window", "query", "remove"} /\ Incident
    /\ \E S \in IF worker.pc = "remove" THEN SUBSET worker.batch ELSE {{}} : data' = Without(S)
    /\ progress' \in {0, progress}
    /\ Goto(EndRun("top"))

\* The event is logged; a run that neither caught up nor affected anything is
\* followed by another one.
LogEvent ==
    /\ At("log")
    /\ \/ progress' = (IF scenario.events THEN worker.window.last ELSE progress)
            /\ UNCHANGED incidents
       \/ scenario.events /\ Incident /\ UNCHANGED progress
    /\ Goto(EndRun(IF ~ worker.window.reaches /\ worker.affected = 0 THEN "again" ELSE "top"))
    /\ UNCHANGED data

\* Mutant: the pause does not look at the stop flag.
AgainUnstopped ==
    /\ At("again")
    /\ Goto([worker EXCEPT !.pc = "window"])
    /\ UNCHANGED <<data, progress, incidents>>

\* The pause between runs that catch up.
Again ==
    /\ At("again")
    /\ Goto([worker EXCEPT !.pc = IF stopFlag THEN "top" ELSE "window"])
    /\ UNCHANGED <<data, progress, incidents>>

WorkerStep ==
    Top \/ Slept \/ BeginRun \/ Receive \/ RemoveBatch \/ RunFails \/ LogEvent \/ Again

-----------------------------------------------------------------------------
(* The repository; a call has it to itself *)

Frame == UNCHANGED <<scenario, now, data, progress>>

\* The call is under way, and until it returns without an error the policy may be
\* what it was or what the call makes it.  (A call whose settings are refused returns
\* before it changes anything.)
Call(pc, new) ==
    /\ op = Idle /\ Incident
    /\ op' = [Idle EXCEPT !.pc = pc, !.new = new,
                          !.old = IF pc = "join" THEN task[Watched] ELSE NoPolicy]
    /\ promise' = [promise EXCEPT ![Watched] = @ \cup {new}]
    /\ Frame /\ UNCHANGED <<file, worker, started, dropped>>

\* create_lifecycle; update_lifecycle and remove_lifecycle take the task out of
\* the repository and stop it.
CreateLifecycle(m) ==
    /\ task[Watched] = NoPolicy /\ Call("insert", m)
    /\ UNCHANGED <<task, stopFlag>>

TakeOut(new) ==
    /\ task[Watched] # NoPolicy /\ Call("join", new)
    /\ task' = [task EXCEPT ![Watched] = NoPolicy] /\ stopFlag' = TRUE

UpdateLifecycle(m) == TakeOut(m)
RemoveLifecycle == TakeOut(NoPolicy)

\* Mutant: the new mode is not saved.
SetModeUnsaved(m) ==
    /\ task[Watched] \notin {NoPolicy, m} /\ op = Idle /\ Incident
    /\ task' = [task EXCEPT ![Watched] = m]
    /\ promise' = [promise EXCEPT ![Watched] = {m}]
    /\ Frame /\ UNCHANGED <<file, worker, stopFlag, started, op, dropped>>

SetMode(m) ==
    /\ task[Watched] \notin {NoPolicy, m} /\ Call("save", m)
    /\ task' = [task EXCEPT ![Watched] = m] /\ UNCHANGED stopFlag

\* Mutant: stop does not wait for the worker.
JoinUnwaited ==
    /\ op.pc = "join"
    /\ op' = [op EXCEPT !.old = NoPolicy,
                        !.pc = IF op.new = NoPolicy THEN "save" ELSE "insert"]
    /\ Frame
    /\ UNCHANGED <<task, file, worker, stopFlag, started, promise, dropped, incidents>>

\* stop waits for the worker.
Join ==
    /\ op.pc = "join" /\ worker = NoWorker
    /\ op' = [op EXCEPT !.old = NoPolicy,
                        !.pc = IF op.new = NoPolicy THEN "save" ELSE "insert"]
    /\ Frame
    /\ UNCHANGED <<task, file, worker, stopFlag, started, promise, dropped, incidents>>

Begin(m) == [NoWorker EXCEPT !.pc = "top", !.mode = m]

\* The new task has a stop flag and a mode of its own.
Insert ==
    /\ op.pc = "insert"
    /\ task' = [task EXCEPT ![Watched] = op.new] /\ stopFlag' = FALSE
    /\ worker' = IF started THEN Begin(op.new) ELSE NoWorker
    /\ op' = [op EXCEPT !.pc = "save"]
    /\ Frame /\ UNCHANGED <<file, started, promise, dropped, incidents>>

\* save_repo: the file is truncated and written.
Truncate ==
    /\ op.pc = "save"
    /\ file' = Empty /\ op' = [op EXCEPT !.pc = "write"]
    /\ Frame /\ UNCHANGED <<task, worker, stopFlag, started, promise, dropped, incidents>>

\* What load_or_create goes on with when it is done with a policy; a call returns.
Unloaded(items) == {p \in Policy : items[p] # NoPolicy}
Done(items) == IF Unloaded(items) = {} THEN Idle ELSE [Idle EXCEPT !.pc = "load", !.items = items]
Return == op' = Done([op.items EXCEPT ![op.policy] = NoPolicy])

WriteFile ==
    /\ op.pc = "write"
    /\ file' = task /\ Return
    /\ promise' = [promise EXCEPT ![op.policy] = {task[op.policy]}]
    /\ dropped' = dropped \ {op.policy}
    /\ Frame /\ UNCHANGED <<task, worker, stopFlag, started, incidents>>

\* The file cannot be opened, or is truncated and not written: the call returns an
\* error, and what it did to the task stays done.  load_or_create goes on.
SaveFails ==
    /\ op.pc \in {"save", "write"} /\ scenario.shared /\ Incident
    /\ Return
    /\ dropped' = dropped \cup (Unloaded(op.items) \cap {op.policy})
    /\ Frame /\ UNCHANGED <<task, file, worker, stopFlag, started, promise>>

\* load_or_create creates one of the policies it has read from the file, and saves.
Load(p) ==
    /\ op.pc = "load" /\ p \in Unloaded(op.items)
    /\ task' = [task EXCEPT ![p] = op.items[p]]
    /\ op' = [op EXCEPT !.pc = "save", !.policy = p]
    /\ Frame /\ UNCHANGED <<file, worker, stopFlag, started, promise, dropped, incidents>>

\* The settings are refused, for instance because the bucket is gone: the policy is
\* not created, and the next save leaves it out.
LoadFails(p) ==
    /\ op.pc = "load" /\ p \in Unloaded(op.items) /\ scenario.shared /\ Incident
    /\ op' = Done([op.items EXCEPT ![p] = NoPolicy])
    /\ dropped' = dropped \cup {p}
    /\ Frame /\ UNCHANGED <<task, file, worker, stopFlag, started, promise>>

StartAll ==
    /\ op = Idle /\ ~ started
    /\ started' = TRUE
    /\ worker' = IF task[Watched] = NoPolicy THEN NoWorker ELSE Begin(task[Watched])
    /\ Frame /\ UNCHANGED <<task, file, stopFlag, op, promise, dropped, incidents>>

\* The policies that are lost if the process dies now: all of them while the file is
\* truncated, and those not created yet once load_or_create has created another.
AtRisk ==
    IF file = Empty THEN Policy
    ELSE IF \E p \in Policy \ Unloaded(op.items) : task[p] # NoPolicy THEN Unloaded(op.items)
    ELSE {}

\* The process ends and comes up again: load_or_create reads the file.
load_or_create ==
    /\ task' = None /\ worker' = NoWorker /\ stopFlag' = FALSE /\ started' = FALSE
    /\ op' = IF file = Empty THEN Idle ELSE Done(file)
    /\ dropped' = dropped \cup AtRisk
    /\ Frame /\ UNCHANGED <<file, promise>>

Crash == Incident /\ load_or_create

\* At a shutdown the tasks are stopped before the process ends.
Stop ==
    /\ op = Idle /\ started /\ Incident
    /\ op' = [Idle EXCEPT !.pc = "stop"] /\ stopFlag' = TRUE
    /\ Frame /\ UNCHANGED <<task, file, worker, started, promise, dropped>>

Stopped ==
    /\ op.pc = "stop" /\ worker = NoWorker
    /\ load_or_create /\ UNCHANGED incidents

RepoStep ==
    \/ Join \/ Insert \/ Truncate \/ WriteFile \/ SaveFails \/ StartAll \/ Stopped
    \/ \E p \in Policy : Load(p) \/ LoadFails(p)

Next ==
    \/ Tick
    \/ \E t \in Time, labels \in {"match", "keep"} : Change(t, labels)
    \/ WorkerStep \/ RepoStep \/ Stop \/ Crash
    \/ \E m \in Mode : CreateLifecycle(m) \/ UpdateLifecycle(m) \/ SetMode(m)
    \/ RemoveLifecycle

\* The worker's task is polled and its sleeps end; a call that was begun goes on.
Spec == Init /\ [][Next]_vars /\ WF_vars(WorkerStep) /\ WF_vars(RepoStep)

-----------------------------------------------------------------------------
\* The worker, the window and the repository are well formed; a worker belongs to
\* a task that is in the repository or is being stopped, and a window is a range
\* that does not reach past what is old enough.
TypeOK ==
    /\ scenario \in Scenario /\ now \in Time
    /\ data \in [Time -> {"none", "match", "keep"}] /\ progress \in 0..(MaxTime + 1)
    /\ task \in [Policy -> Mode \cup {NoPolicy}]
    /\ file \in [Policy -> Mode \cup {NoPolicy}] \cup {Empty}
    /\ worker.pc \in {"none", "top", "slept", "window", "query", "remove", "log", "again"}
    /\ worker.window.start <= worker.window.stop /\ worker.window.stop <= cutoff_stop
    /\ worker.batch \subseteq 1..worker.cursor /\ Cardinality(worker.batch) <= BatchSize
    /\ {stopFlag, started} \subseteq BOOLEAN /\ dropped \subseteq Policy
    /\ op.pc \in {"idle", "join", "insert", "save", "write", "load", "stop"}
    /\ worker # NoWorker /\ task[Watched] = NoPolicy => stopFlag /\ op.pc = "join"

\* A policy removes no record that is younger than older_than, and none that did not
\* satisfy its condition at some time of the run, although the window is computed
\* before the query runs, the batches are removed after it found them, and clients
\* write and relabel records in between (DeleteLifecycleAction::run,
\* query_remove_records_with_stats).  The condition is not evaluated again: a record
\* that is relabelled after the query found it is removed nevertheless.
OnlyOldIsRemoved ==
    [][\A t \in Time : data[t] # "none" /\ data'[t] = "none" =>
          t \in worker.matched /\ t + OlderThan <= now]_vars

\* After every call, every crash and every failed save each policy is as the last
\* call that returned without an error left it, or as a later one meant to make it
\* (save_repo, load_or_create), with three exceptions, in which it is gone: the
\* process died while the file was truncated, by a save under way or one that failed;
\* it died while the policies were loaded, after the first of them had been saved
\* without the others; or the policy was refused, or not saved again, when it was
\* loaded.
PolicySurvives ==
    op = Idle =>
       \A p \in Policy : task[p] \in promise[p] \/ (task[p] = NoPolicy /\ p \in dropped)

\* The window does not come to t: without stored progress it begins at the oldest
\* record every time, and a record that the condition keeps stays the oldest.
HeldBack(t) ==
    /\ ~ scenario.events /\ scenario.bounded
    /\ \E u \in Time : data[u] = "keep" /\ u + Interval <= t

\* What is old enough and satisfies the condition is removed in the end by a policy
\* that is Enabled, wherever the progress stands: after failed runs, lost events and
\* crashes, and for records written or relabelled behind the progress.  Two cases are
\* excepted: the worker was started in the mode DryRun and keeps to it (see
\* ModeIsFollowed), and HeldBack, where the window does not advance although
\* processing_window says it does.
OldIsRemoved ==
    \A t \in Time :
       []<>~ (/\ data[t] = "match" /\ t + OlderThan <= now /\ ~ HeldBack(t)
              /\ task[Watched] = "Enabled" /\ worker # NoWorker /\ worker.mode # "DryRun")

\* Every call of the repository returns: a worker that catches up ends when it is
\* told to (sleep_with_stop).
CallsReturn == op # Idle ~> op = Idle

\* lifecycle/README.md names "switching task mode at runtime" among what the
\* repository is responsible for: a run that begins in a mode other than Enabled
\* removes nothing.
ModeIsFollowed ==
    [][\A t \in Time : data[t] # "none" /\ data'[t] = "none" =>
          worker.begun = "Enabled"]_vars

=============================================================================
