------------------------------ MODULE LockFile ------------------------------
(***************************************************************************)
(* The lock file that lets several instances share one data directory:     *)
(* the lock task of every process (lock_file.rs, run_lock_task), the way   *)
(* the launcher waits for it and how a process ends.                       *)
(*                                                                         *)
(* Time is counted in ticks, Poll of them to a polling interval.  A tick   *)
(* passes only when every running instance is asleep, so a sleep of n      *)
(* ticks ends in its n-th tick, before or after any step of another        *)
(* instance in that tick.  A file access is a step of its own, and may     *)
(* fail.                                                                   *)
(***************************************************************************)
EXTENDS Integers

CONSTANTS
    Instance,            \* the instances that share a data directory
    Poll,                \* ticks in cfg.polling_interval
    Ttl,                 \* ticks in cfg.ttl, where it is not 0
    Timeout,             \* ticks in cfg.timeout, 0 to wait for ever
    Scenario,            \* the settings examined: see Scenarios
    MaxIncidents         \* bound: processes started and file accesses that fail

ASSUME LockFileAssumption ==
    /\ {Poll, Ttl, MaxIncidents} \subseteq Nat \ {0} /\ Timeout \in Nat

\* What differs between the settings examined: the role of every instance,
\* cfg.failure_action, whether cfg.ttl is above 0, and whether other instances may
\* step inside one refresh of the lock (check and rewrite).
Scenarios ==
    [role : [Instance -> {"Primary", "Secondary"}], action : {"Proceed", "Abort"},
     expires : BOOLEAN, torn : BOOLEAN]

ASSUME ScenarioAssumption == Scenario \subseteq Scenarios

VARIABLES
    scenario,  \* the setting this behaviour runs under
    file,      \* NoFile, or the lock file: the owner written in it and its age
    inst,      \* the process of each instance
    incidents  \* processes started and accesses failed so far

Secondary == {i \in Instance : scenario.role[i] = "Secondary"}

vars == <<scenario, file, inst, incidents>>

NoFile == [owner |-> "none", age |-> 0]
Empty == "empty"    \* created or truncated, and not written yet
Mixed == "mixed"    \* two owners wrote at the same offset

Least(a, b) == IF a < b THEN a ELSE b
MaxHeld == 2 * Poll + 1   \* longer is not told apart

\* A process that does not run, and one whose lock task begins.  Of one that
\* serves, held counts the ticks since its last failed refresh (history).
Down == [pc |-> "down", timer |-> 0, waited |-> 0, state |-> "Waiting",
         cached |-> FALSE, handle |-> FALSE, stop |-> FALSE, held |-> 0, failing |-> FALSE]
Begun == [Down EXCEPT !.pc = "exists"]

Up(i) == inst[i].pc # "down"
IsLocked(i) == inst[i].state = "Locked"

Init ==
    /\ scenario \in Scenario
    /\ file = NoFile
    /\ inst = [i \in Instance |-> Down]
    /\ incidents = 0

-----------------------------------------------------------------------------
\* Instance i rewrites the lock it holds, and nothing may come in between.
Refreshing(i) ==
    /\ ~ scenario.torn
    /\ IsLocked(i) /\ inst[i].pc \in {"open", "write"} /\ ~ inst[i].stop

\* Instance i is awake at step pc of its task.
At(i, pc) ==
    /\ inst[i].pc = pc /\ inst[i].timer = 0
    /\ \A j \in Instance \ {i} : ~ Refreshing(j)
    /\ UNCHANGED scenario

\* An access fails, or a process starts.
Incident == incidents < MaxIncidents /\ incidents' = incidents + 1

Goto(i, r) == inst' = [inst EXCEPT ![i] = r]

\* Descriptors open on a removed file no longer reach the lock file.
Unlinked == [j \in Instance |-> [inst[j] EXCEPT !.handle = FALSE]]

\* Mutant: no grace period.
AfterWaitHasty(i, r) ==
    IF i \notin Secondary
    THEN [r EXCEPT !.pc = "open", !.waited = 0]
    ELSE [r EXCEPT !.pc = "confirm", !.waited = 0]

\* After the waiting loop: a primary takes the lock, a secondary leaves the
\* primary three polling intervals to do so.
AfterWait(i, r) ==
    IF i \notin Secondary
    THEN [r EXCEPT !.pc = "open", !.waited = 0]
    ELSE [r EXCEPT !.pc = "confirm", !.waited = 0, !.timer = 3 * Poll]

TryExists(i) ==
    /\ At(i, "exists")
    /\ Goto(i, IF file = NoFile THEN AfterWait(i, inst[i])
                                ELSE [inst[i] EXCEPT !.pc = "stats"])
    /\ UNCHANGED <<file, incidents>>

\* The file, if it is still there, is stale, which it never is with a ttl of 0; or
\* the wait was too long; or the instance sleeps and looks again.
IsStale == scenario.expires /\ file # NoFile /\ file.age > Ttl
IsLate(i) == Timeout > 0 /\ inst[i].waited > Timeout

\* Mutant: the wait ends without a trace.
GiveUpSilently(r) == [r EXCEPT !.pc = "failed"]

GiveUp(r) == [r EXCEPT !.pc = "failed", !.state = "Failed"]

GetStats(i) ==
    /\ At(i, "stats")
    /\ \/ /\ IsStale
          /\ Goto(i, [inst[i] EXCEPT !.pc = "stale"])
       \/ /\ ~ IsStale /\ IsLate(i) /\ scenario.action = "Proceed"
          /\ Goto(i, AfterWait(i, inst[i]))
       \/ /\ ~ IsStale /\ IsLate(i) /\ scenario.action = "Abort"
          /\ Goto(i, GiveUp(inst[i]))
       \/ /\ ~ IsStale /\ ~ IsLate(i)
          /\ Goto(i, [inst[i] EXCEPT !.pc = "exists", !.timer = Poll])
    /\ UNCHANGED <<file, incidents>>

\* The stale file is removed, whatever it has become since it was looked at.
RemoveStale(i) ==
    /\ At(i, "stale")
    /\ file' = NoFile
    /\ inst' = [Unlinked EXCEPT ![i] = AfterWait(i, Unlinked[i])]
    /\ UNCHANGED incidents

\* Mutant: the second look always begins a new round of waiting.
ConfirmAgain(i) ==
    /\ At(i, "confirm")
    /\ Goto(i, Begun)
    /\ UNCHANGED <<file, incidents>>

\* The secondary's second look.  A new round of waiting has a new deadline.
Confirm(i) ==
    /\ At(i, "confirm")
    /\ Goto(i, IF file = NoFile THEN [inst[i] EXCEPT !.pc = "open"] ELSE Begun)
    /\ UNCHANGED <<file, incidents>>

\* The end of a refresh, successful or not: the state is published and the task
\* sleeps.
Refreshed(r) ==
    [r EXCEPT !.pc = "check", !.timer = Poll, !.cached = FALSE,
              !.handle = FALSE, !.state = "Locked", !.failing = FALSE]

\* write_lock_owner_id up to set_len(0).  The descriptor that check_lock_owner_id
\* left in the file cache was open for reading: the file is then opened again
\* without being created.
OpenLock(i) ==
    /\ At(i, "open") /\ ~ inst[i].stop
    /\ IF inst[i].cached /\ file = NoFile
       THEN Goto(i, Refreshed(inst[i])) /\ UNCHANGED file
       ELSE /\ file' = [owner |-> Empty, age |-> 0]
            /\ Goto(i, [inst[i] EXCEPT !.pc = "write", !.handle = TRUE])
    /\ UNCHANGED incidents

\* The id is written at offset 0.  The ids of two processes differ in length, so
\* over the other's id the longer tail may remain.
WriteOwner(i) ==
    /\ At(i, "write")
    /\ IF inst[i].handle
       THEN \E owner \in IF file.owner \in {Empty, i} THEN {i} ELSE {i, Mixed} :
               file' = [owner |-> owner, age |-> 0]
       ELSE UNCHANGED file
    /\ Goto(i, Refreshed(inst[i]))
    /\ UNCHANGED incidents

\* Mutant: a secondary goes on beside another owner.
CheckOwnerLenient(i) ==
    /\ At(i, "check")
    /\ Goto(i, [inst[i] EXCEPT !.pc = "open", !.cached = file # NoFile])
    /\ UNCHANGED <<file, incidents>>

\* A secondary that finds another id panics, and the panic hook ends the process
\* at once.  An empty or missing file names nobody.
CheckOwner(i) ==
    /\ At(i, "check")
    /\ LET foreign == file # NoFile /\ file.owner \notin {Empty, i}
       IN  Goto(i, IF foreign /\ i \in Secondary THEN Down
                   ELSE [inst[i] EXCEPT !.pc = "open", !.cached = file # NoFile])
    /\ UNCHANGED <<file, incidents>>

Failing(r) == [r EXCEPT !.held = 0, !.failing = TRUE]

\* try_exists, get_stats or the reading of the owner's id fails: the error ends
\* the lock task and is logged.  The state stays what it was: a process that waits
\* is never told, one that serves goes on without refreshing the lock.
TaskFails(i) ==
    /\ \E pc \in {"exists", "stats", "confirm", "check"} : At(i, pc)
    /\ Incident
    /\ Goto(i, [Failing(inst[i]) EXCEPT !.pc = "ended", !.waited = 0, !.cached = FALSE])
    /\ UNCHANGED file

\* The file cannot be opened, cut or written: logged, and the lock is counted as
\* taken or refreshed all the same.
WriteFails(i) ==
    /\ (At(i, "open") /\ ~ inst[i].stop) \/ At(i, "write")
    /\ Incident
    /\ Goto(i, Failing(Refreshed(inst[i])))
    /\ UNCHANGED file

\* The file cannot be opened for reading: it names nobody.
ReadFails(i) ==
    /\ At(i, "check")
    /\ Incident
    /\ Goto(i, [Failing(inst[i]) EXCEPT !.pc = "open", !.cached = FALSE])
    /\ UNCHANGED file

\* The stale file, or the own one at the end, cannot be removed: logged.
RemoveFails(i) ==
    /\ \/ At(i, "stale") /\ Goto(i, AfterWait(i, inst[i]))
       \/ /\ inst[i].stop /\ (\A j \in Instance : ~ Refreshing(j))
          /\ Goto(i, Down) /\ UNCHANGED scenario
    /\ Incident
    /\ UNCHANGED file

\* The launcher finds the lock failed and panics.
LaunchFails(i) ==
    /\ At(i, "failed")
    /\ Goto(i, Down)
    /\ UNCHANGED <<file, incidents>>

-----------------------------------------------------------------------------
\* Signals reach a server only once it holds the lock: the handlers are installed
\* after the wait.  The drop of the lock file stops the task, lets 100 ms pass and
\* removes the file.
StopServer(i) ==
    /\ IsLocked(i) /\ ~ inst[i].stop
    /\ \A j \in Instance : ~ Refreshing(j)
    /\ Goto(i, [inst[i] EXCEPT !.stop = TRUE])
    /\ UNCHANGED <<scenario, file, incidents>>

DropLock(i) ==
    /\ inst[i].stop
    /\ \A j \in Instance : ~ Refreshing(j)
    /\ file' = NoFile
    /\ inst' = [Unlinked EXCEPT ![i] = Down]
    /\ UNCHANGED <<scenario, incidents>>

\* A process dies; the file stays.
Kill(i) ==
    /\ Up(i)
    /\ Goto(i, Down)
    /\ UNCHANGED <<scenario, file, incidents>>

Start(i) ==
    /\ ~ Up(i) /\ Incident
    /\ \A j \in Instance : ~ Refreshing(j)
    /\ Goto(i, Begun)
    /\ UNCHANGED <<scenario, file>>

\* Time passes when the task of every running instance sleeps or has ended.
Tick ==
    /\ \A i \in Instance :
          Up(i) => (inst[i].timer > 0 \/ inst[i].pc = "ended") /\ ~ inst[i].stop
    /\ file' = IF file = NoFile THEN NoFile
               ELSE [file EXCEPT !.age = Least(@ + 1, Ttl + 1)]
    /\ inst' = [i \in Instance |->
          IF ~ Up(i) THEN Down
          ELSE [inst[i] EXCEPT
                  !.timer = IF @ = 0 THEN 0 ELSE @ - 1,
                  !.waited = IF @ = 0 /\ inst[i].pc # "exists" THEN 0
                             ELSE Least(@ + 1, Timeout + 1),
                  !.held = IF IsLocked(i) /\ ~ inst[i].failing
                           THEN Least(@ + 1, MaxHeld) ELSE 0]]
    /\ UNCHANGED <<scenario, incidents>>

Task(i) ==
    \/ TryExists(i) \/ GetStats(i) \/ RemoveStale(i) \/ Confirm(i)
    \/ OpenLock(i) \/ WriteOwner(i) \/ CheckOwner(i) \/ LaunchFails(i)
    \/ DropLock(i)
    \/ TaskFails(i) \/ WriteFails(i) \/ ReadFails(i) \/ RemoveFails(i)

Next ==
    \/ \E i \in Instance : Task(i) \/ StopServer(i) \/ Kill(i) \/ Start(i)
    \/ Tick

\* Timers fire and a process that is awake goes on; processes start, die or are
\* stopped as they please.
Spec ==
    /\ Init /\ [][Next]_vars
    /\ WF_vars(Tick) /\ \A i \in Instance : WF_vars(Task(i))

-----------------------------------------------------------------------------
\* Every instance is at a step of its task, the file names an owner or nobody, and
\* only an instance about to write has a descriptor that reaches the file; an
\* instance has failed exactly when its task has given up.
TypeOK ==
    /\ scenario \in Scenario /\ incidents \in 0..MaxIncidents
    /\ \/ file = NoFile
       \/ file \in [owner : Instance \cup {Empty, Mixed}, age : 0..(Ttl + 1)]
    /\ inst \in [Instance ->
          [pc : {"down", "exists", "stats", "stale", "confirm", "open", "write",
                 "check", "failed", "ended"},
           timer : 0..(3 * Poll), waited : 0..(Timeout + 1),
           state : {"Waiting", "Locked", "Failed"},
           cached : BOOLEAN, handle : BOOLEAN, stop : BOOLEAN, held : 0..MaxHeld,
           failing : BOOLEAN]]
    /\ \A i \in Instance :
          /\ inst[i].handle => inst[i].pc = "write" /\ file # NoFile
          /\ inst[i].state = "Failed" <=> inst[i].pc = "failed"

\* A secondary never takes the lock beside an instance that has served, and
\* refreshed its lock without an error, for a polling interval.  The grace period
\* and the refresh together ensure it, also when a stopping instance or a waiter
\* that found a stale file removes the lock of the one that serves (run_lock_task).
SecondaryYields ==
    [][\A i \in Secondary :
          ~ IsLocked(i) /\ IsLocked(i)' =>
             \A j \in Instance \ {i} : IsLocked(j) => inst[j].held < Poll]_vars

\* Of two instances that came to serve at once, or of which one proceeded after its
\* timeout, only one serves two polling intervals later, when a refresh is not
\* interrupted and none has failed since: by then a secondary has read the other's
\* id and ended (check_lock_owner_id).  A failed reading of the id ends the
\* refresh of a server that goes on serving; nothing is promised for it.
OverlapEnds ==
    ~ scenario.torn =>
       \A i, j \in Instance :
          i # j /\ IsLocked(i) /\ IsLocked(j) =>
             Least(inst[i].held, inst[j].held) <= 2 * Poll

\* An instance does not wait for ever on a lock nobody holds: it is served, gives
\* up or ends, or some instance serves.  The file a dead process left becomes
\* stale (run_lock_task).  There are two exceptions: a file access failed and ended
\* the lock task, or the file of a dead process cannot become stale (a ttl of 0)
\* and a secondary that proceeds after its timeout finds it there every time.
NoEndlessWait ==
    \A i \in Instance :
       Up(i) ~> \/ inst[i].state # "Waiting" \/ ~ Up(i)
                \/ \E j \in Instance : IsLocked(j)
                \/ inst[i].pc = "ended"
                \/ i \in Secondary /\ ~ scenario.expires /\ scenario.action = "Proceed"

=============================================================================
