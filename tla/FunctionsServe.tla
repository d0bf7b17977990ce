--------------------------- MODULE FunctionsServe ---------------------------
(***************************************************************************)
(* functions serve: the edge runtime in a container, restarted when the    *)
(* source files change.                                                    *)
(*                                                                         *)
(* Four processes run at once.  The developer edits files; the file        *)
(* watcher's goroutine turns file events into a debounced timer; the main  *)
(* goroutine restarts the container when that timer fires; the log         *)
(* streamer's goroutine follows the container's logs by name, across its   *)
(* restarts, and ends the session when the runtime has crashed.            *)
(*                                                                         *)
(* Files are abstracted to the directories they are in.  A container       *)
(* serves the directories that PopulatePerFunctionConfigs found when it    *)
(* read the functions and their imports.                                   *)
(***************************************************************************)
EXTENDS Naturals

CONSTANTS
  Dirs,       \* directories that source files are in
  MaxEdits,   \* bound: changes of files
  MaxFaults   \* bound: containers and Docker calls that fail

ASSUME BoundsAssumption == MaxEdits \in Nat /\ MaxFaults \in Nat

VARIABLES
  uses,       \* directories the enabled functions and their imports are in
  watched,    \* directories the file watcher has been told to watch
  events,     \* file events that Start has not received
  start,      \* file watcher: "idle", or "rearm" between its two Resets
  timer,      \* restartTimer: off, running, or fired and not yet received
  pc,         \* where the main goroutine stands
  served,     \* directories the last restart has read
  restarts,   \* restarts that a fired timer caused
  container,  \* the edge runtime's container
  streamer,   \* where the log streamer stands
  unread,     \* has a change been noticeable since the files were last read?
  noticed,    \* changes that raised an event
  broken,     \* has anything failed that must end the session?
  edits, faults  \* counters of the bounds

files == <<uses, unread, noticed, edits>>
watcher == <<events, start, timer>>
docker == <<container, streamer>>
bounds == <<broken, faults>>
vars == <<files, watched, watcher, pc, served, restarts, docker, bounds>>

Goto(step) == pc' = step

\* A container's log stream ends with the container.
EndOfLogs == IF streamer = "copy" THEN "eof" ELSE streamer

\* Something fails; if it is fatal, the session must end.
Fail(fatal) ==
  /\ faults < MaxFaults
  /\ faults' = faults + 1
  /\ broken' = IF fatal THEN TRUE ELSE broken

-----------------------------------------------------------------------------
(***************************************************************************)
(* Faulty variants, each a plausible slip in the code.                     *)
(***************************************************************************)

\* The timer is set again whether or not it was active.
ReceiveAlwaysRearms ==
  /\ start = "idle" /\ events > 0
  /\ events' = events - 1
  /\ timer' = "running" /\ start' = "rearm"
  /\ UNCHANGED <<files, watched, pc, served, restarts, docker, bounds>>

\* Directories are watched at the first start only.
WatchOnce ==
  /\ pc = "watch"
  /\ watched' = IF watched = {} THEN served ELSE watched
  /\ Goto("create")
  /\ UNCHANGED <<files, watcher, served, restarts, docker, bounds>>

\* A timer that was active is stopped and not started again.
RearmStops ==
  /\ start = "rearm" /\ start' = "idle"
  /\ timer' = "off"
  /\ UNCHANGED <<files, watched, events, pc, served, restarts, docker, bounds>>

\* A container that no longer exists is an error like any other.
InspectMissingIsFatal ==
  /\ streamer = "eof"
  /\ streamer' = IF container \in {"none", "crashed"} THEN "error" ELSE "fetch"
  /\ UNCHANGED <<files, watched, watcher, pc, served, restarts, container, bounds>>

\* The streamer retries only when the container was killed or removed.
InspectGracefulIsEnd ==
  /\ streamer = "eof"
  /\ streamer' = CASE container = "crashed" -> "error"
                   [] container \in {"none", "killed"} -> "fetch"
                   [] OTHER -> "off"
  /\ UNCHANGED <<files, watched, watcher, pc, served, restarts, container, bounds>>

-----------------------------------------------------------------------------
Init ==
  /\ uses \in SUBSET Dirs
  /\ watched = {} /\ served = {}
  /\ events = 0 /\ start = "idle" /\ timer = "off"
  /\ pc = "load" /\ restarts = 0
  /\ container \in {"none", "running"}   \* "supabase start" runs one, too
  /\ streamer = "off"
  /\ unread = FALSE /\ noticed = 0 /\ broken = FALSE
  /\ edits = 0 /\ faults = 0

(***************************************************************************)
(* The developer changes files of directory d; what the functions import   *)
(* may be different then.  The operating system reports the change if the  *)
(* directory is watched.                                                   *)
(***************************************************************************)

\* A change that the session should act on: it is in a directory that the
\* runtime was given, and that directory has had its chance to be watched.
Noticeable(d) == d \in served /\ (pc # "watch" \/ d \in watched)

Edit(d) ==
  /\ edits < MaxEdits /\ edits' = edits + 1
  /\ \E u \in SUBSET Dirs :
       /\ u = uses \/ d \in uses \/ uses = {}
       /\ uses' = u
  /\ events' = IF d \in watched THEN events + 1 ELSE events
  /\ noticed' = IF d \in watched THEN noticed + 1 ELSE noticed
  /\ unread' = (unread \/ Noticeable(d))
  /\ UNCHANGED <<watched, start, timer, pc, served, restarts, docker, bounds>>

(***************************************************************************)
(* debounceFileWatcher.Start: a file event resets the timer to fire at     *)
(* once.  If it had been active, or had fired without being received, the  *)
(* next statement resets it to the debounce duration.                      *)
(***************************************************************************)
Receive ==
  /\ start = "idle" /\ events > 0
  /\ events' = events - 1
  /\ timer' = "running"
  /\ start' = IF timer = "off" THEN "idle" ELSE "rearm"
  /\ UNCHANGED <<files, watched, pc, served, restarts, docker, bounds>>

Rearm ==
  /\ start = "rearm" /\ start' = "idle"
  /\ timer' = "running"
  /\ UNCHANGED <<files, watched, events, pc, served, restarts, docker, bounds>>

TimerFires ==
  /\ timer = "running" /\ timer' = "fired"
  /\ UNCHANGED <<files, watched, events, start, pc, served, restarts, docker, bounds>>

-----------------------------------------------------------------------------
(***************************************************************************)
(* The main goroutine: Run and restartEdgeRuntime.                         *)
(***************************************************************************)

\* The timer's value arrives in the select of Run.
RestartDue ==
  /\ pc = "select" /\ timer = "fired"
  /\ timer' = "off" /\ restarts' = restarts + 1
  /\ Goto("load")
  /\ UNCHANGED <<files, watched, events, start, served, docker, bounds>>

\* The streamer's error arrives instead, and Run returns it.
StreamerErred ==
  /\ pc = "select" /\ streamer = "error"
  /\ streamer' = "off"
  /\ Goto("done")
  /\ UNCHANGED <<files, watched, watcher, served, restarts, container, bounds>>

\* LoadConfig and AssertSupabaseDbIsRunning succeed.
Load ==
  /\ pc = "load"
  /\ Goto("kill")
  /\ UNCHANGED <<files, watched, watcher, served, restarts, docker, bounds>>

\* ContainerRemove with Force: Docker kills the container if it runs,
Kill ==
  /\ pc = "kill"
  /\ IF container = "running"
       THEN container' = "killed" /\ streamer' = EndOfLogs
       ELSE UNCHANGED docker
  /\ Goto("remove")
  /\ UNCHANGED <<files, watched, watcher, served, restarts, bounds>>

\* then removes it.
Remove ==
  /\ pc = "remove"
  /\ container' = "none"
  /\ Goto("populate")
  /\ UNCHANGED <<files, watched, watcher, served, restarts, streamer, bounds>>

\* An error of ContainerRemove is ignored; the container's name stays taken.
RemoveFails ==
  /\ pc = "remove" /\ container # "none"
  /\ Fail(TRUE)
  /\ Goto("populate")
  /\ UNCHANGED <<files, watched, watcher, served, restarts, docker>>

\* PopulatePerFunctionConfigs reads the functions and what they import.
Populate ==
  /\ pc = "populate"
  /\ served' = uses /\ unread' = FALSE
  /\ Goto("watch")
  /\ UNCHANGED <<uses, noticed, edits, watched, watcher, restarts, docker, bounds>>

\* SetWatchPaths adds the directories of the binds and removes all others.
SetWatchPaths ==
  /\ pc = "watch"
  /\ watched' = served
  /\ Goto("create")
  /\ UNCHANGED <<files, watcher, served, restarts, docker, bounds>>

\* DockerStart creates the container, unless its name is taken,
Create ==
  /\ pc = "create"
  /\ IF container = "none"
       THEN container' = "created" /\ Goto("start")
       ELSE UNCHANGED container /\ Goto("done")
  /\ UNCHANGED <<files, watched, watcher, served, restarts, streamer, bounds>>

\* and starts it.  Run starts the log streamer after the first start; a kong
\* that fails to reload is only a warning.
Started ==
  /\ pc = "start"
  /\ container' = "running"
  /\ streamer' = IF restarts = 0 THEN "fetch" ELSE streamer
  /\ Goto("select")
  /\ UNCHANGED <<files, watched, watcher, served, restarts, bounds>>

\* An invalid config.toml, a stopped database or a failed Docker call.
RestartFails ==
  /\ pc \in {"load", "populate", "watch", "create", "start"}
  /\ Fail(TRUE)
  /\ Goto("done")
  /\ UNCHANGED <<files, watched, watcher, served, restarts, docker>>

\* The developer interrupts the command; the context is done.
Interrupt ==
  /\ pc \notin {"done", "interrupted"}
  /\ Goto("interrupted")
  /\ UNCHANGED <<files, watched, watcher, served, restarts, docker, bounds>>

-----------------------------------------------------------------------------
(***************************************************************************)
(* logStreamer.Start retries until the container has failed: DockerStream- *)
(* Logs asks for the logs of whatever container has the name, copies them  *)
(* to their end, and then inspects whatever container has the name.        *)
(***************************************************************************)

ContainerLogs ==
  /\ streamer = "fetch"
  /\ \/ container = "running" /\ streamer' = "copy"
     \* The logs of a container that is not running end at once.
     \/ container \notin {"none", "running"} /\ streamer' = "eof"
  /\ UNCHANGED <<files, watched, watcher, pc, served, restarts, container, bounds>>

Inspect ==
  /\ streamer = "eof"
  /\ streamer' = IF container = "crashed" THEN "error" ELSE "fetch"
  /\ UNCHANGED <<files, watched, watcher, pc, served, restarts, container, bounds>>

\* The connection that the logs are copied from breaks.
StreamFails ==
  /\ streamer = "copy" /\ streamer' = "error"
  /\ Fail(TRUE)
  /\ UNCHANGED <<files, watched, watcher, pc, served, restarts, container>>

\* The runtime ends by itself: with an error, in good order, or killed.
RuntimeExits ==
  /\ container = "running"
  /\ container' \in {"crashed", "exited", "killed"}
  /\ Fail(container' = "crashed")
  /\ streamer' = EndOfLogs
  /\ UNCHANGED <<files, watched, watcher, pc, served, restarts>>

-----------------------------------------------------------------------------
Ended == pc \in {"done", "interrupted"}

Restart == RestartDue \/ Load \/ Kill \/ Remove \/ Populate \/ SetWatchPaths
             \/ Create \/ Started

Environment == RemoveFails \/ RestartFails \/ Interrupt \/ StreamFails \/ RuntimeExits

Next ==
  /\ ~Ended
  /\ \/ \E d \in Dirs : Edit(d)
     \/ Receive \/ Rearm \/ TimerFires
     \/ Restart \/ StreamerErred
     \/ ContainerLogs \/ Inspect
     \/ Environment

\* The goroutines and the timer go on; nobody has to edit, fail or interrupt.
Fairness ==
  /\ WF_vars(~Ended /\ (Receive \/ Rearm))
  /\ WF_vars(~Ended /\ TimerFires)
  /\ WF_vars(~Ended /\ Restart)
  /\ WF_vars(~Ended /\ StreamerErred)
  /\ WF_vars(~Ended /\ (ContainerLogs \/ Inspect))

Spec == Init /\ [][Next]_vars /\ Fairness

-----------------------------------------------------------------------------
(***************************************************************************)
(* Properties                                                              *)
(***************************************************************************)

\* The variables have their types; in particular no more restarts are counted
\* than files changed, and logs are only followed of a container that runs.
TypeOK ==
  /\ uses \subseteq Dirs /\ watched \subseteq Dirs /\ served \subseteq Dirs
  /\ events \in 0..MaxEdits /\ noticed \in 0..MaxEdits /\ restarts \in 0..MaxEdits
  /\ start \in {"idle", "rearm"} /\ timer \in {"off", "running", "fired"}
  /\ pc \in {"load", "kill", "remove", "populate", "watch", "create", "start",
             "select", "done", "interrupted"}
  /\ container \in {"none", "created", "running", "crashed", "exited", "killed"}
  /\ streamer \in {"off", "fetch", "copy", "eof", "error"}
  /\ streamer = "copy" => container = "running"
  /\ unread \in BOOLEAN /\ broken \in BOOLEAN
  /\ edits \in 0..MaxEdits /\ faults \in 0..MaxFaults

\* A restart that will read the files is under way or certain to come.
RestartComing ==
  \/ events > 0 \/ start = "rearm" \/ timer # "off"
  \/ pc \in {"load", "kill", "remove", "populate"}

\* No change of a file is lost, whenever it happens: while the timer is being
\* reset, while it has fired and Run is busy with a restart, or while the
\* directories to watch are being exchanged (watcher.go:96-112, serve.go:88-99).
NoChangeMissed == unread /\ ~Ended => RestartComing

\* Debouncing never makes restarts out of nothing: every one of them is owed
\* to a change of its own, so the session cannot keep restarting by itself.
RestartsAreCaused == restarts <= noticed

\* The session outlives every restart: Run returns only when it is
\* interrupted or something failed, however the streamer's steps and the
\* restart's interleave (streamer.go:36-45, serve.go:97-98).
SurvivesRestarts == pc = "done" => broken

\* Once the developer stops editing, the runtime has read the last change.
ServesLatest == unread ~> (~unread \/ Ended)

\* The logs of a running container are followed, after any number of restarts.
LogsFollowed ==
  (pc = "select" /\ container = "running")
    ~> (streamer = "copy" \/ pc # "select" \/ container # "running")
=============================================================================
