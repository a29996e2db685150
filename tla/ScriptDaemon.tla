----------------------------- MODULE ScriptDaemon -----------------------------
(***************************************************************************)
(* The script daemon: it takes the start and stop requests of one client   *)
(* over a local socket, keeps a task per script directory, and runs the    *)
(* scripts as child processes, one at a time.                              *)
(*                                                                         *)
(* One thread, the poller's, runs every handler to its end.  Only the loop *)
(* of HandleChld over the waiting fork requests is a step per request      *)
(* (draining), because the second thread, NotifyState, may come between.   *)
(* Assertions are compiled in: no build type is set, so NDEBUG is not.     *)
(***************************************************************************)
EXTENDS Naturals, FiniteSets, Sequences, SequencesExt

CONSTANTS
  Paths,        \* script directories; a task is known by its path
  Files,        \* their file names, the names of the persistence links
  FileOf,       \* path -> file name
  TypeOf,       \* path -> "temp", "periodic" or "event"
  TaskPriority, \* path -> the task's priority among the fork requests
  PassesUnset,  \* event paths whose conditions hold of values never set
  Conditional,  \* paths whose conditions may fail
  Removable,    \* paths whose task may be impossible to make after a restart
  Pids,         \* process identifiers
  MaxTasks,     \* task_max_
  MaxQueue,     \* bound: how many fork requests wait
  NoPath,
  NoPid

ASSUME DaemonAssumption ==
  /\ FileOf \in [Paths -> Files] /\ TypeOf \in [Paths -> {"temp", "periodic", "event"}]
  /\ TaskPriority \in [Paths -> Nat]
  /\ PassesUnset \subseteq {p \in Paths : TypeOf[p] = "event"} /\ Conditional \subseteq Paths
  /\ Removable \subseteq Paths
  /\ MaxTasks \in Nat \ {0} /\ MaxQueue \in Nat
  /\ NoPath \notin Paths /\ NoPid \notin Pids

VARIABLES
  up,        \* "down", "loading" (in Init) or "running" (in Poller::Run)
  toload,    \* links that LoadPersistenceTasks has still to visit
  connected, \* client_sk_ is open
  tasks,     \* the keys of tasks_
  armed,     \* periodic tasks whose timer runs
  awaiting,  \* event tasks with a promise in pending_ready_
  sent,      \* tasks that have sent a result (result_sent_)
  pid,       \* task -> pid_
  queue,     \* fork_queue_, in the order of the requests
  current,   \* current_pid_
  process,   \* pid -> what runs there, or how it ended, and of which task
  sigchld,   \* SIGCHLD is pending at the signal descriptor
  draining,  \* HandleChld is in its loop over fork_queue_
  stopping,  \* the task whose end the poller's task queue holds
  links,     \* file name -> the task its persistence link leads to
  notifier,  \* the NotifyState thread between its two looks at current_pid_
  written,   \* the messages the last step wrote to the client
  raced,     \* history: the notifier acted on a look that was stale
  left_out   \* history: the links that the last start left without a task

daemon_vars == <<up, toload, connected, tasks, armed, awaiting, sent, pid, queue, current,
                 process, sigchld, draining, stopping, links, notifier, written, raced,
                 left_out>>

(* What a step of one task's script touches, and what it leaves alone.     *)
launch_vars == <<sent, pid, queue, current, process>>
poller_vars == <<up, toload, connected, draining, stopping>>
notifier_vars == <<notifier, raced>>
link_vars == <<links, left_out>>

Persistent(p) == TypeOf[p] # "temp"
PersistentPaths == {p \in Paths : Persistent(p)}

ScriptOpc == {"kTooMany", "kExcutedOver", "kExcutedFaile", "kNoscript", "kConditionNotAllow",
              "kStopSuccess", "kScriptRunning", "kUnKnown", "kStoping", "kWaiting"}
Messages == [opc : ScriptOpc, path : Paths]

(* A "script" is one its task waits for, a "stopped" one has SIGTERM       *)
(* pending for good: the daemon blocks all signals and its children keep   *)
(* the mask.  A "stray" one has outlived its daemon, a "clone" is a copy   *)
(* of the daemon forked for a request without a continuation.              *)
Scripts == {"script", "stopped", "stray"}
Running == Scripts \cup {"clone"}
Ended == {"ok", "failed"}
Free == [is |-> "none", path |-> NoPath]
Child(kind, p) == [is |-> kind, path |-> p]
Quiet == [path |-> NoPath, busy |-> FALSE]

(* A request is "orphaned" when its task has taken a newer future: the     *)
(* promise is pending, and nobody continues it.                            *)
ForkRequests == [path : Paths, state : {"pending", "cancelling", "orphaned"}]

TypeOK ==
  /\ up \in {"down", "loading", "running"}
  /\ toload \subseteq Files
  /\ connected \in BOOLEAN
  /\ tasks \subseteq Paths
  /\ armed \subseteq tasks /\ awaiting \subseteq tasks /\ sent \subseteq tasks
  /\ pid \in [Paths -> Pids \cup {NoPid}]
  /\ queue \in Seq(ForkRequests)
  /\ current \in Pids \cup {NoPid}
  /\ process \in [Pids -> {Free} \cup [is : Scripts \cup Ended, path : Paths]
                              \cup [is : {"clone"} \cup Ended, path : {NoPath}]]
  /\ sigchld \in BOOLEAN /\ draining \in BOOLEAN
  /\ stopping \in Paths \cup {NoPath}
  /\ links \in [Files -> PersistentPaths \cup {NoPath}]
  /\ notifier \in [path : Paths \cup {NoPath}, busy : BOOLEAN]
  /\ written \in Seq(Messages)
  /\ raced \in BOOLEAN
  /\ left_out \subseteq Files

Init ==
  /\ up = "down" /\ toload = {} /\ connected = FALSE
  /\ tasks = {} /\ armed = {} /\ awaiting = {} /\ sent = {}
  /\ pid = [p \in Paths |-> NoPid]
  /\ queue = <<>> /\ current = NoPid
  /\ process = [c \in Pids |-> Free]
  /\ sigchld = FALSE /\ draining = FALSE
  /\ stopping = NoPath
  /\ links = [f \in Files |-> NoPath]
  /\ notifier = Quiet
  /\ written = <<>>
  /\ raced = FALSE
  /\ left_out = {}

-----------------------------------------------------------------------------
(* Messages to the client: lost when none is connected.                    *)

Message(opc, p) == [opc |-> opc, path |-> p]

SendMessage(messages) == written' = IF connected THEN messages ELSE <<>>

Answerable(p, result_sent) == p \notin result_sent \/ TypeOf[p] = "periodic"

(* SendResult, after the messages the handler has sent already.            *)
SendResult(opc, p, said) ==
  /\ SendMessage(IF Answerable(p, sent) THEN Append(said, Message(opc, p)) ELSE said)
  /\ sent' = sent \cup {p}

-----------------------------------------------------------------------------
(* Forking.                                                                *)

(* The daemon dies, by abort() or a signal.  The client's socket closes,   *)
(* the links stay, and so do its scripts: the SIGTERM of PR_SET_PDEATHSIG  *)
(* is blocked in them.                                                     *)
DaemonGone ==
  /\ up' = "down" /\ toload' = {} /\ connected' = FALSE
  /\ tasks' = {} /\ armed' = {} /\ awaiting' = {} /\ sent' = {}
  /\ pid' = [p \in Paths |-> NoPid]
  /\ queue' = <<>> /\ current' = NoPid
  /\ process' = [c \in Pids |-> IF process[c].is \in Scripts
                                THEN Child("stray", process[c].path) ELSE Free]
  /\ sigchld' = FALSE /\ draining' = FALSE
  /\ stopping' = NoPath /\ notifier' = Quiet
  /\ written' = <<>>
  /\ raced' = FALSE
  /\ left_out' = {}
  /\ UNCHANGED links

(* Manager::Fork with HandleForked as its continuation.                    *)
ForkFor(p, said) ==
  \/ \E c \in Pids :
       /\ process[c] = Free
       /\ current' = c
       /\ process' = [process EXCEPT ![c] = Child("script", p)]
       /\ pid' = [pid EXCEPT ![p] = c]
       /\ SendMessage(Append(said, Message("kScriptRunning", p)))
       /\ UNCHANGED sent
  \/ /\ current' = NoPid
     /\ SendResult("kUnKnown", p, said)
     /\ UNCHANGED <<process, pid>>

(* The same for a request without a continuation: the child returns into   *)
(* the poller's loop, a copy of the daemon without its sockets.            *)
ForkOrphan ==
  /\ \/ \E c \in Pids :
          /\ process[c] = Free
          /\ current' = c
          /\ process' = [process EXCEPT ![c] = Child("clone", NoPath)]
     \/ /\ current' = NoPid
        /\ UNCHANGED process
  /\ written' = <<>>
  /\ UNCHANGED <<sent, pid>>

(* async_fork_ is assigned: an older request of the task loses its future. *)
PushRequest(p) ==
  /\ Len(queue) < MaxQueue
  /\ queue' = Append([i \in DOMAIN queue |->
                        IF queue[i].path = p /\ queue[i].state = "pending"
                        THEN [queue[i] EXCEPT !.state = "orphaned"] ELSE queue[i]],
                     [path |-> p, state |-> "pending"])

(* Mutant: whether a child runs is not looked at.                          *)
ForkAtOnce(p, said) == ForkFor(p, said) /\ UNCHANGED queue

AsyncFork(p, said) ==
  \/ /\ current # NoPid
     /\ PushRequest(p)
     /\ SendMessage(said)
     /\ UNCHANGED <<sent, pid, current, process>>
  \/ /\ current = NoPid
     /\ ForkFor(p, said)
     /\ UNCHANGED queue

(* The vehicle's states are abstract: each look finds them as it may.      *)
(* Those of an event task are looked at when its promise is set.           *)
MayFail(p) == TypeOf[p] # "event" /\ p \in Conditional

StartProcess(p, said) ==
  \/ /\ pid[p] # NoPid
     /\ SendMessage(said)
     /\ UNCHANGED launch_vars
  \/ /\ pid[p] = NoPid /\ MayFail(p)
     /\ SendResult("kConditionNotAllow", p, said)
     /\ UNCHANGED <<pid, queue, current, process>>
  \/ /\ pid[p] = NoPid
     /\ AsyncFork(p, said)

(* Task::Start of a task just made: a temp task runs at once, a periodic   *)
(* one when its timer, armed for now, fires, an event task when its        *)
(* conditions hold, which they may of values never set.                    *)
StartTask(p, said) ==
  /\ tasks' = tasks \cup {p}
  /\ armed' = IF TypeOf[p] = "periodic" THEN armed \cup {p} ELSE armed
  /\ \/ /\ TypeOf[p] = "temp" \/ p \in PassesUnset
        /\ StartProcess(p, said)
        /\ UNCHANGED awaiting
     \/ /\ TypeOf[p] = "event" /\ p \notin PassesUnset
        /\ awaiting' = awaiting \cup {p}
        /\ SendMessage(said)
        /\ UNCHANGED launch_vars
     \/ /\ TypeOf[p] = "periodic"
        /\ SendMessage(said)
        /\ UNCHANGED <<awaiting, launch_vars>>

-----------------------------------------------------------------------------
(* Start, end and restart.                                                 *)

(* Daemon::Init up to LoadPersistenceTasks.                                *)
StartDaemon ==
  /\ up = "down"
  /\ up' = "loading"
  /\ toload' = {f \in Files : links[f] # NoPath}
  /\ UNCHANGED <<connected, tasks, armed, awaiting, launch_vars, sigchld, draining,
                 stopping, link_vars, notifier_vars, written>>

(* The directory's order is any; at task_max_ the rest is left out.  One   *)
(* whose directory is gone, or whose task cannot be made, is skipped.      *)
LoadPersistenceTask(f) ==
  LET skips == UNCHANGED <<tasks, armed, awaiting, launch_vars, written>>
  IN /\ up = "loading" /\ f \in toload
     /\ \/ /\ Cardinality(tasks) >= MaxTasks
           /\ toload' = {} /\ left_out' = left_out \cup toload
           /\ skips
        \/ /\ Cardinality(tasks) < MaxTasks /\ links[f] \in Removable
           /\ toload' = toload \ {f} /\ left_out' = left_out \cup {f}
           /\ skips
        \/ /\ Cardinality(tasks) < MaxTasks
           /\ toload' = toload \ {f}
           /\ StartTask(links[f], <<>>)
           /\ UNCHANGED <<left_out>>
     /\ UNCHANGED <<up, connected, sigchld, draining, stopping, links, notifier_vars>>

RunPoller ==
  /\ up = "loading" /\ toload = {}
  /\ up' = "running"
  /\ UNCHANGED <<toload, connected, tasks, armed, awaiting, launch_vars, sigchld, draining,
                 stopping, link_vars, notifier_vars, written>>

(* A crash, or SIGTERM: what a graceful end does beyond it is not seen.    *)
DaemonEnds ==
  /\ up # "down"
  /\ DaemonGone

-----------------------------------------------------------------------------
(* The poller's loop: every handler runs between two others, and the task  *)
(* queue is emptied before the client's next message is read.              *)

Polling == up = "running" /\ ~draining

ClientReadable == Polling /\ connected /\ stopping = NoPath

ClientConnects ==
  /\ Polling /\ ~connected
  /\ connected' = TRUE
  /\ written' = <<>>
  /\ UNCHANGED <<up, toload, tasks, armed, awaiting, launch_vars, sigchld, draining,
                 stopping, link_vars, notifier_vars>>

ClientDisconnects ==
  /\ ClientReadable
  /\ connected' = FALSE
  /\ written' = <<>>
  /\ UNCHANGED <<up, toload, tasks, armed, awaiting, launch_vars, sigchld, draining,
                 stopping, link_vars, notifier_vars>>

(* Mutant: an event task gets no link.                                     *)
LinkPeriodic(p) ==
  links' = IF TypeOf[p] = "periodic" /\ links[FileOf[p]] = NoPath
           THEN [links EXCEPT ![FileOf[p]] = p] ELSE links

LinkPersistent(p) ==
  links' = IF Persistent(p) /\ links[FileOf[p]] = NoPath
           THEN [links EXCEPT ![FileOf[p]] = p] ELSE links

(* found: whether the directory exists and holds a script.                 *)
HandleStartTaskRequest(p, found) ==
  LET waiting == <<Message("kWaiting", p)>>
      Refuse(opcs) == SendMessage(waiting \o opcs)
      exists == p \in tasks
      full == Cardinality(tasks) >= MaxTasks
  IN /\ ClientReadable
     /\ \/ /\ found = "missing" \/ exists \/ full \/ found = "empty"
           /\ Refuse(CASE found = "missing" -> <<Message("kUnKnown", p)>>
                       [] found # "missing" /\ exists ->
                            <<Message("kUnKnown", p), Message("kUnKnown", p)>>
                       [] found # "missing" /\ ~exists /\ full ->
                            <<Message("kTooMany", p), Message("kUnKnown", p)>>
                       [] OTHER -> <<Message("kNoscript", p)>>)
           /\ UNCHANGED <<tasks, armed, awaiting, launch_vars, links>>
        \/ /\ found = "script" /\ ~exists /\ ~full
           /\ StartTask(p, waiting)
           /\ LinkPersistent(p)
     /\ UNCHANGED <<poller_vars, sigchld, notifier_vars, left_out>>

(* Task::Stop: the waiting request is cancelled, the script is sent a      *)
(* SIGTERM and is no longer the task's; only a temp task goes for good.    *)
StopTask(p) ==
  /\ queue' = [i \in DOMAIN queue |->
                 IF queue[i].path = p /\ queue[i].state = "pending"
                 THEN [queue[i] EXCEPT !.state = "cancelling"] ELSE queue[i]]
  /\ pid' = [pid EXCEPT ![p] = NoPid]
  /\ process' = [c \in Pids |-> IF pid[p] = c /\ process[c].is = "script"
                                THEN Child("stopped", p) ELSE process[c]]
  /\ armed' = armed \ {p}
  /\ awaiting' = awaiting \ {p}
  /\ stopping' = IF TypeOf[p] = "temp" THEN p ELSE stopping

HandleStopTaskRequest(p) ==
  /\ ClientReadable
  /\ \/ /\ p \notin tasks
        /\ SendMessage(<<Message("kUnKnown", p)>>)
        /\ UNCHANGED <<queue, pid, process, armed, awaiting, stopping>>
     \/ /\ p \in tasks
        /\ SendMessage(<<Message("kStoping", p)>>)
        /\ StopTask(p)
  /\ UNCHANGED <<up, toload, connected, tasks, sent, current, sigchld, draining,
                 link_vars, notifier_vars>>

(* Mutant: the result of the task that goes is not forgotten with it.      *)
KeepResult ==
  /\ Polling /\ stopping # NoPath
  /\ links' = [links EXCEPT ![FileOf[stopping]] = NoPath]
  /\ left_out' = left_out \ {FileOf[stopping]}
  /\ tasks' = tasks \ {stopping}
  /\ SendMessage(<<Message("kStopSuccess", stopping)>>)
  /\ stopping' = NoPath
  /\ UNCHANGED <<up, toload, connected, armed, awaiting, sent, pid, queue, current, process,
                 sigchld, draining, notifier_vars>>

(* The scheduled end of a stopped task: the link of its file name goes,    *)
(* the task goes, its destructor sending kExcutedOver if nothing was sent. *)
RunTaskQueue ==
  LET p == stopping
      result == IF Answerable(p, sent) THEN <<Message("kExcutedOver", p)>> ELSE <<>>
  IN /\ Polling /\ stopping # NoPath
     /\ links' = [links EXCEPT ![FileOf[p]] = NoPath]
     /\ left_out' = left_out \ {FileOf[p]}
     /\ tasks' = tasks \ {p}
     /\ sent' = sent \ {p}
     /\ SendMessage(Append(result, Message("kStopSuccess", p)))
     /\ stopping' = NoPath
     /\ UNCHANGED <<up, toload, connected, armed, awaiting, pid, queue, current, process,
                    sigchld, draining, notifier_vars>>

TimerFires(p) ==
  /\ Polling /\ p \in armed
  /\ StartProcess(p, <<>>)
  /\ UNCHANGED <<poller_vars, tasks, armed, awaiting, sigchld, link_vars, notifier_vars>>

-----------------------------------------------------------------------------
(* Child processes.                                                        *)

(* A script ends by itself only.  A clone shares the timers: the tick it   *)
(* wins makes it fork with its own current_pid_ at 0, and abort.           *)
ScriptEnds(c) ==
  /\ process[c].is \in Scripts
  /\ IF process[c].is = "stray"
     THEN process' = [process EXCEPT ![c] = Free] /\ UNCHANGED sigchld
     ELSE /\ \E result \in Ended : process' = [process EXCEPT ![c].is = result]
          /\ sigchld' = TRUE
  /\ written' = <<>>
  /\ UNCHANGED <<poller_vars, tasks, armed, awaiting, sent, pid, queue, current, link_vars,
                 notifier_vars>>

CloneEnds(c) ==
  /\ process[c].is = "clone" /\ armed # {}
  /\ process' = [process EXCEPT ![c].is = "failed"]
  /\ sigchld' = TRUE
  /\ written' = <<>>
  /\ UNCHANGED <<poller_vars, tasks, armed, awaiting, sent, pid, queue, current, link_vars,
                 notifier_vars>>

(* Mutants: the exit code is not looked at; a failure is not sent.         *)
ReapUntested ==
  /\ process' = [process EXCEPT ![current] = Free]
  /\ current' = NoPid
  /\ \E p \in tasks :
       pid[p] = current /\ pid' = [pid EXCEPT ![p] = NoPid] /\ SendResult("kExcutedOver", p, <<>>)

ReapSilently ==
  /\ process' = [process EXCEPT ![current] = Free]
  /\ current' = NoPid
  /\ pid' = [p \in Paths |-> IF pid[p] = current THEN NoPid ELSE pid[p]]
  /\ written' = <<>> /\ UNCHANGED sent

(* HandleExited: exit code 0 counts only if the result file can be built.  *)
ReapCurrent ==
  /\ process' = [process EXCEPT ![current] = Free]
  /\ current' = NoPid
  /\ \/ \E p \in tasks :
          /\ pid[p] = current
          /\ pid' = [pid EXCEPT ![p] = NoPid]
          /\ \/ process[current].is = "ok" /\ SendResult("kExcutedOver", p, <<>>)
             \/ SendResult("kExcutedFaile", p, <<>>)
     \/ /\ \A p \in tasks : pid[p] # current
        /\ written' = <<>>
        /\ UNCHANGED <<pid, sent>>

(* Mutant: the fork queue is not looked at.                                *)
ReapOnly ==
  /\ Polling /\ sigchld /\ current # NoPid /\ process[current].is \in Ended
  /\ sigchld' = FALSE
  /\ ReapCurrent
  /\ UNCHANGED <<up, toload, connected, tasks, armed, awaiting, queue, draining, stopping,
                 link_vars, notifier_vars>>

HandleChld ==
  /\ Polling /\ sigchld
  /\ sigchld' = FALSE
  /\ draining' = TRUE
  /\ \/ /\ current # NoPid /\ process[current].is \in Ended
        /\ ReapCurrent
     \/ /\ current # NoPid => process[current].is \notin Ended
        /\ written' = <<>>
        /\ UNCHANGED <<sent, pid, current, process>>
  /\ UNCHANGED <<up, toload, connected, tasks, armed, awaiting, queue, stopping, link_vars,
                 notifier_vars>>

(* The top of the priority queue: of equal priorities the latest request.  *)
Above(i, j) ==
  \/ TaskPriority[queue[i].path] > TaskPriority[queue[j].path]
  \/ TaskPriority[queue[i].path] = TaskPriority[queue[j].path] /\ i > j

Top == CHOOSE i \in DOMAIN queue : \A j \in DOMAIN queue \ {i} : Above(i, j)

(* One turn of the loop over fork_queue_.  Fork asserts that no child is   *)
(* current.                                                                *)
DrainForkQueue ==
  LET top == queue[Top]
      popped == queue' = RemoveAt(queue, Top)
  IN /\ up = "running" /\ draining
     /\ \/ /\ queue # <<>> /\ top.state # "cancelling" /\ current # NoPid
           /\ DaemonGone
        \/ /\ queue # <<>> /\ (top.state = "cancelling" \/ current = NoPid)
           /\ popped
           /\ CASE top.state = "pending" -> ForkFor(top.path, <<>>)
                [] top.state = "orphaned" -> ForkOrphan
                [] top.state = "cancelling" ->
                     written' = <<>> /\ UNCHANGED <<sent, pid, current, process>>
           /\ UNCHANGED <<poller_vars, tasks, armed, awaiting, sigchld, link_vars, notifier_vars>>
        \/ /\ queue = <<>>
           /\ draining' = FALSE
           /\ written' = <<>>
           /\ UNCHANGED <<up, toload, connected, tasks, armed, awaiting, launch_vars, sigchld,
                          stopping, link_vars, notifier_vars>>

-----------------------------------------------------------------------------
(* Vehicle states and the thread that reports them.                        *)

(* NotifyState reports a state, all conditions of a waiting event task     *)
(* hold and it starts, on this thread: AsyncFork looks at current_pid_ ... *)
NotifyTests(p) ==
  /\ up # "down" /\ notifier = Quiet
  /\ p \in awaiting
  /\ awaiting' = awaiting \ {p}
  /\ notifier' = [path |-> p, busy |-> current # NoPid]
  /\ written' = <<>>
  /\ UNCHANGED <<raced, poller_vars, tasks, armed, launch_vars, sigchld, link_vars>>

(* ... and acts on what it has seen.  The assertion in Fork may still be   *)
(* before or already behind a fork of the poller's thread.                 *)
NotifyLaunches ==
  LET p == notifier.path
  IN /\ p # NoPath
     /\ \/ ~notifier.busy /\ current # NoPid /\ DaemonGone
        \/ /\ \/ notifier.busy /\ PushRequest(p) /\ SendMessage(<<>>)
                               /\ UNCHANGED <<sent, pid, current, process>>
              \/ ~notifier.busy /\ ForkFor(p, <<>>) /\ UNCHANGED queue
           /\ notifier' = Quiet
           /\ raced' = (raced \/ notifier.busy # (current # NoPid))
           /\ UNCHANGED <<poller_vars, tasks, armed, awaiting, sigchld, link_vars>>

-----------------------------------------------------------------------------
Next ==
  \/ StartDaemon \/ RunPoller \/ DaemonEnds
  \/ ClientConnects \/ ClientDisconnects
  \/ HandleChld \/ DrainForkQueue \/ RunTaskQueue
  \/ NotifyLaunches
  \/ \E f \in Files : LoadPersistenceTask(f)
  \/ \E p \in Paths : \/ \E found \in {"missing", "empty", "script"} : HandleStartTaskRequest(p, found)
                      \/ HandleStopTaskRequest(p)
                      \/ TimerFires(p) \/ NotifyTests(p)
  \/ \E c \in Pids : ScriptEnds(c) \/ CloneEnds(c)

Spec == Init /\ [][Next]_daemon_vars


(* The poller runs on, emptying its task queue before each select, however *)
(* often it drains the fork queue (SF); a script ends by itself, as a      *)
(* check of an ECU does.  Nothing forces a client, a timer, a crash or a   *)
(* clone's end.                                                            *)
Fairness ==
  /\ WF_daemon_vars(HandleChld) /\ WF_daemon_vars(DrainForkQueue)
  /\ SF_daemon_vars(RunTaskQueue) /\ WF_daemon_vars(NotifyLaunches)
  /\ \A c \in Pids : WF_daemon_vars(ScriptEnds(c))

FairSpec == Spec /\ Fairness

-----------------------------------------------------------------------------
(* Properties.                                                             *)

Pending(i) == queue[i].state # "cancelling"

(* HandleChld reaps current_pid_ and nobody else: a child that is not it   *)
(* stays a zombie, its task never learns that it ended, and two scripts    *)
(* would talk to the vehicle at once.  This and the next property hold     *)
(* until the notifying thread acts on a look that is stale (raced): that   *)
(* thread breaks both.                                                     *)
ChildIsCurrent ==
  ~raced =>
    /\ \A c \in Pids : process[c].is \notin {"none", "stray"} => current = c
    /\ \A p \in tasks : pid[p] # NoPid => current = pid[p]

(* No lost wake-up: fork requests wait only behind a child whose end is    *)
(* still to come or still to be handled; nothing else drains the queue.    *)
WaitingIsWoken ==
  (~raced /\ ~draining /\ \E i \in DOMAIN queue : Pending(i)) =>
    /\ current # NoPid
    /\ process[current].is \in Running \/ sigchld

(* What survives a restart: in service, each link leads to a task that     *)
(* was started or revived, or the last start left it out; a persistent     *)
(* task has its link, unless another task directory has the same file name *)
(* (which takes it away).  There is room for every link where no directory *)
(* is ever gone: elsewhere a link may stay without a task, which counts    *)
(* for nothing when later tasks are counted.                               *)
Unshared(p) == \A q \in Paths \ {p} : FileOf[q] # FileOf[p]

PersistenceMatches ==
  up = "running" =>
    /\ \A f \in Files : links[f] # NoPath => links[f] \in tasks \/ f \in left_out
    /\ \A p \in tasks : Persistent(p) /\ Unshared(p) => links[FileOf[p]] = p
    /\ left_out # {} => Removable # {}

(* A task started for a client sends it a result, unless it is stopped or  *)
(* the daemon ends: no start request waits for ever in the fork queue.  A  *)
(* clone of the daemon may hold the only place for good, and the notifying *)
(* thread may leave a request that nothing wakes (raced).                  *)
TaskIsAnswered ==
  \A p \in Paths :
    TypeOf[p] = "temp" =>
      ((p \in tasks /\ p \notin sent)
         ~> (raced \/ p \in sent \/ p \notin tasks \/ \E c \in Pids : process[c].is = "clone"))

(* assert(current_pid_ == -1) in Manager::Fork: the loop over the queue    *)
(* never forks while a child runs.                                         *)
ForkIsAlone ==
  (draining /\ queue # <<>> /\ Pending(Top)) => current = NoPid

(* kExcutedOver "script had executed": it is sent about a task only when   *)
(* its script has exited with 0, but for a task that is stopped, which may *)
(* never have run.  (HandleExited, ~Task.)                                 *)
ExecutedMeansExecuted ==
  [][\A i \in DOMAIN written' :
       LET p == written'[i].path
       IN written'[i].opc = "kExcutedOver" =>
            stopping = p \/ \E c \in Pids : pid[p] = c /\ process[c].is = "ok"]_daemon_vars

(* kStopSuccess "stop script", and the log "Successfully killed process":  *)
(* when it is sent, the script of the stopped task runs no more.           *)
StopMeansStopped ==
  [][\A i \in DOMAIN written' :
       written'[i].opc = "kStopSuccess" =>
         \A c \in Pids : process[c] # Child("stopped", written'[i].path)]_daemon_vars
=============================================================================
