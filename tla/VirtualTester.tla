----------------------------- MODULE VirtualTester -----------------------------
(***************************************************************************)
(* The virtual diagnostic tester and the script daemon together.  The      *)
(* tester takes diagnostic tasks from the cloud, asks the vehicle's user   *)
(* where the task wants it, downloads and unpacks a script, has the daemon *)
(* run it, and reports to the cloud what became of it.  Each task has a    *)
(* thread of its own; one more thread reads the daemon's messages into a   *)
(* cache that keeps the last one about each path.                          *)
(***************************************************************************)
EXTENDS ScriptDaemon

CONSTANTS
  Tasks,      \* diagnostic tasks of the cloud (taskId)
  PathOf,     \* task -> directory its script is unpacked to
  AsksUser,   \* tasks whose conditionCheck holds diagTaskUserAuth
  AuthCodes,  \* what the user may answer, a subset of 0..3
  MaxInbox,   \* bound: messages unread when a periodic task's timer fires
  NoTask,
  Unconfigured

ASSUME TesterAssumption ==
  /\ PathOf \in [Tasks -> Paths] /\ AsksUser \subseteq Tasks
  /\ AuthCodes \subseteq 0..3 /\ MaxInbox \in Nat \ {0}
  /\ NoTask \notin Tasks /\ Unconfigured \notin Tasks \cup {NoTask}

VARIABLES
  task,           \* task -> where its thread is
  reported,       \* task -> the run states reported to the cloud
  answers,        \* task -> the user's answer in idcu_response_map_
  user_auth_code, \* the last answer that was about all tasks
  socket,         \* the tester's connection to the daemon
  outbox, inbox,  \* messages on their way to the daemon, and from it
  cache,          \* path -> the last message about it, "none" before one
  disk,           \* path -> the task whose configuration is there, Unconfigured
                  \* for a directory without one, NoTask for none
  succeeded,      \* history: paths whose script has exited with 0
  presumed        \* history: tasks reported "failed" before the daemon answered

asking_vars == <<answers, user_auth_code>>
channel_vars == <<socket, outbox, inbox>>
history_vars == <<succeeded, presumed>>
tester_vars == <<task, reported, asking_vars, channel_vars, cache, disk, history_vars>>
vars == <<daemon_vars, tester_vars>>

Unset == 255

(* Run states: 216 "failed", 213 "launched", 218 "executed", 215           *)
(* "condition", 224 "stopped", 225 "unstopped"; "unprepared" is any of     *)
(* 227, 204, 206, 210 and 212, for a script that cannot be made ready.     *)
RunStates == {"failed", "launched", "executed", "condition", "stopped", "unstopped", "unprepared"}
Final == RunStates \ {"launched"}

TesterTypeOK ==
  /\ task \in [Tasks -> {"new", "asking", "preparing", "decompressed", "unpacked", "running",
                         "stopping", "leaving", "done"}]
  /\ reported \in [Tasks -> SUBSET RunStates]
  /\ answers \in [Tasks -> AuthCodes \cup {Unset}]
  /\ user_auth_code \in {2, 3, Unset}
  /\ socket \in {"none", "open", "broken"}
  /\ outbox \in Seq([opc : {"kStartTask", "kStopTask"}, path : Paths])
  /\ inbox \in Seq(Messages)
  /\ cache \in [Paths -> ScriptOpc \cup {"none"}]
  /\ disk \in [Paths -> Tasks \cup {NoTask, Unconfigured}]
  /\ succeeded \subseteq Paths /\ presumed \subseteq Tasks

TesterInit ==
  /\ Init
  /\ task = [r \in Tasks |-> "new"] /\ reported = [r \in Tasks |-> {}]
  /\ answers = [r \in Tasks |-> Unset] /\ user_auth_code = Unset
  /\ socket = "none" /\ outbox = <<>> /\ inbox = <<>>
  /\ cache = [p \in Paths |-> "none"]
  /\ disk = [p \in Paths |-> NoTask]
  /\ succeeded = {} /\ presumed = {}

Go(r, position) == task' = [task EXCEPT ![r] = position]
Report(r, states) == reported' = [reported EXCEPT ![r] = @ \cup states]

(* A write to the socket of a daemon that is gone fails, and is only       *)
(* logged: the tester never connects again.                                *)
Send(opc, p) ==
  outbox' = IF socket = "open" THEN Append(outbox, Message(opc, p)) ELSE outbox

-----------------------------------------------------------------------------
(* receiveDiagData: messages of the cloud and the user's authorisation.    *)

(* From here the task's own thread is started, whatever the answer was.    *)
Launch(r, states) ==
  LET refused == states \cup IF user_auth_code' = 2 THEN {"failed"} ELSE {}
  IN /\ Go(r, "preparing")
     /\ Report(r, refused)
     /\ presumed' = IF refused = {} THEN presumed ELSE presumed \cup {r}
     /\ UNCHANGED succeeded

ReceiveDiagData(r) ==
  /\ task[r] = "new"
  /\ \/ /\ r \notin AsksUser \/ user_auth_code # Unset
        /\ UNCHANGED user_auth_code
        /\ Launch(r, {})
     \/ /\ r \in AsksUser /\ user_auth_code = Unset
        /\ UNCHANGED user_auth_code
        /\ \/ Go(r, "asking") /\ UNCHANGED <<reported, history_vars>>
           \/ Launch(r, {"failed"})
  /\ UNCHANGED <<daemon_vars, answers, channel_vars, cache, disk>>

(* The first answer about a task stays in the map (emplace), one that      *)
(* comes too late is not looked at.                                        *)
UserAnswers(r, code) ==
  /\ task[r] = "asking" /\ answers[r] = Unset
  /\ answers' = [answers EXCEPT ![r] = code]
  /\ UNCHANGED <<daemon_vars, task, reported, user_auth_code, channel_vars, cache, disk, history_vars>>

(* Mutant: an answer about one task is taken for all.                      *)
TakeAnyAnswer(r) ==
  /\ task[r] = "asking" /\ answers[r] # Unset
  /\ user_auth_code' = answers[r]
  /\ Launch(r, IF answers[r] = 0 THEN {"failed"} ELSE {})
  /\ UNCHANGED <<daemon_vars, answers, channel_vars, cache, disk>>

ReadAnswer(r) ==
  /\ task[r] = "asking" /\ answers[r] # Unset
  /\ user_auth_code' = IF answers[r] \in {2, 3} THEN answers[r] ELSE user_auth_code
  /\ Launch(r, IF answers[r] = 0 THEN {"failed"} ELSE {})
  /\ UNCHANGED <<daemon_vars, answers, channel_vars, cache, disk>>

AnswerTimesOut(r) ==
  /\ task[r] = "asking" /\ answers[r] = Unset
  /\ UNCHANGED user_auth_code
  /\ Launch(r, {"failed"})
  /\ UNCHANGED <<daemon_vars, answers, channel_vars, cache, disk>>

-----------------------------------------------------------------------------
(* RemoteDiagTaskProcess: the thread of one task.                          *)

(* Key, download, signature, decryption or unpacking failed.               *)
PreparationFails(r) ==
  /\ task[r] = "preparing"
  /\ Go(r, "done")
  /\ Report(r, {"unprepared"})
  /\ UNCHANGED <<daemon_vars, asking_vars, channel_vars, cache, disk, history_vars>>

(* The script is unpacked over what is there, ...                          *)
Unpack(r) ==
  /\ task[r] = "preparing"
  /\ Go(r, "decompressed")
  /\ disk' = [disk EXCEPT ![PathOf[r]] = IF @ = NoTask THEN Unconfigured ELSE @]
  /\ UNCHANGED <<daemon_vars, reported, asking_vars, channel_vars, cache, history_vars>>

(* ... and its configuration after it; a file that cannot be written is    *)
(* only logged.                                                            *)
WriteConfiguration(r) ==
  /\ task[r] = "decompressed"
  /\ Go(r, "unpacked")
  /\ disk' \in {disk, [disk EXCEPT ![PathOf[r]] = r]}
  /\ UNCHANGED <<daemon_vars, reported, asking_vars, channel_vars, cache, history_vars>>

(* A thread stays only with a script that runs once.                       *)
SendStart(r) ==
  /\ task[r] = "unpacked"
  /\ Go(r, IF Persistent(PathOf[r]) THEN "done" ELSE "running")
  /\ Send("kStartTask", PathOf[r])
  /\ UNCHANGED <<daemon_vars, reported, asking_vars, socket, inbox, cache, disk, history_vars>>

(* Mutant: a waiting script is not known.                                  *)
ReportsWaiting(opc) ==
  CASE opc = "kExcutedOver" -> {"executed"}
    [] opc = "kConditionNotAllow" -> {"condition"}
    [] opc = "kScriptRunning" -> {"launched"}
    [] opc \in {"kStoping", "kStopSuccess"} -> {}
    [] OTHER -> {"failed"}

(* ProcessDiagTaskResult: what is reported, and whether it is the end.     *)
Reports(opc) ==
  CASE opc = "kExcutedOver" -> {"executed"}
    [] opc = "kConditionNotAllow" -> {"condition"}
    [] opc = "kScriptRunning" -> {"launched"}
    [] opc \in {"kWaiting", "kStoping", "kStopSuccess"} -> {}
    [] OTHER -> {"failed"}

Finishes(opc) == opc \notin {"kScriptRunning", "kWaiting", "kStoping"}

(* Mutant: the cache is not looked up by path.                             *)
AnyResult(p) ==
  IF \E q \in Paths : cache[q] = "kExcutedOver" THEN "kExcutedOver"
  ELSE IF cache[p] = "none" THEN "kUnKnown" ELSE cache[p]

(* ReceiveDatas: nothing received about a path reads as kUnKnown.          *)
ReceiveDatas(p) == IF cache[p] = "none" THEN "kUnKnown" ELSE cache[p]

PollResult(r) ==
  LET result == ReceiveDatas(PathOf[r])
  IN /\ task[r] = "running"
     /\ Go(r, IF Finishes(result) THEN "leaving" ELSE "running")
     /\ Report(r, Reports(result))
     /\ presumed' = IF cache[PathOf[r]] = "none" THEN presumed \cup {r} ELSE presumed
     /\ UNCHANGED <<daemon_vars, asking_vars, channel_vars, cache, disk, succeeded>>

(* Mutant: the task ends only when the daemon could be told.               *)
StopWhenSent(r) ==
  /\ task[r] = "running" /\ socket = "open"
  /\ Go(r, "stopping")
  /\ Send("kStopTask", PathOf[r])
  /\ UNCHANGED <<daemon_vars, reported, asking_vars, socket, inbox, cache, disk, history_vars>>

(* taskTimeout has passed; three seconds later the thread looks again.     *)
TaskTimesOut(r) ==
  /\ task[r] = "running"
  /\ Go(r, "stopping")
  /\ Send("kStopTask", PathOf[r])
  /\ UNCHANGED <<daemon_vars, reported, asking_vars, socket, inbox, cache, disk, history_vars>>

StopTimesOut(r) ==
  /\ task[r] = "stopping"
  /\ Go(r, "leaving")
  /\ Report(r, IF ReceiveDatas(PathOf[r]) = "kStopSuccess" THEN {"stopped"} ELSE {"unstopped"})
  /\ UNCHANGED <<daemon_vars, asking_vars, channel_vars, cache, disk, history_vars>>

(* After the upload the directory goes, whoever uses it.                   *)
RemoveScript(r) ==
  /\ task[r] = "leaving"
  /\ Go(r, "done")
  /\ disk' = [disk EXCEPT ![PathOf[r]] = NoTask]
  /\ UNCHANGED <<daemon_vars, reported, asking_vars, channel_vars, cache, history_vars>>

-----------------------------------------------------------------------------
(* ScriptProcess::ReceiveTask, the reading thread.  Results of event and   *)
(* periodic tasks are reported here, for the task whose configuration is   *)
(* in the directory now; one that is just being written cannot be read.    *)
(* That the message enters the cache and is reported is one step: what is  *)
(* reported here concerns no task that looks into the cache.               *)

Readable(p) == disk[p] \in Tasks

BeingConfigured(p) == \E r \in Tasks : task[r] = "decompressed" /\ PathOf[r] = p

ReceiveTask ==
  LET m == Head(inbox)
  IN /\ inbox # <<>>
     /\ inbox' = Tail(inbox)
     /\ cache' = [cache EXCEPT ![m.path] = m.opc]
     /\ \/ /\ Persistent(m.path) /\ Readable(m.path)
           /\ Report(disk[m.path], Reports(m.opc))
        \/ /\ ~Persistent(m.path) \/ ~Readable(m.path) \/ BeingConfigured(m.path)
           /\ UNCHANGED reported
     /\ UNCHANGED <<daemon_vars, task, asking_vars, socket, outbox, disk, history_vars>>

-----------------------------------------------------------------------------
(* The daemon's side of the socket.                                        *)

(* ScriptProcess::Start connects once; the cloud's messages are received   *)
(* before that already.                                                    *)
TesterConnects ==
  /\ socket = "none"
  /\ ClientConnects
  /\ socket' = "open"
  /\ UNCHANGED <<task, reported, asking_vars, outbox, inbox, cache, disk, history_vars>>

DaemonHandlesRequest ==
  LET m == Head(outbox)
      found == CASE disk[m.path] = NoTask -> {"missing"}
                 [] disk[m.path] = Unconfigured -> {"empty"}
                 [] OTHER -> {"empty", "script"}
  IN /\ outbox # <<>>
     /\ outbox' = Tail(outbox)
     /\ \/ m.opc = "kStartTask" /\ \E f \in found : HandleStartTaskRequest(m.path, f)
        \/ m.opc = "kStopTask" /\ HandleStopTaskRequest(m.path)
     /\ inbox' = inbox \o written'
     /\ UNCHANGED <<task, reported, asking_vars, socket, cache, disk, history_vars>>

(* What the daemon wrote before it died can still be read, what it has not *)
(* read is lost.                                                           *)
Relay ==
  /\ inbox' = inbox \o written'
  /\ IF up' = "down" /\ socket = "open"
     THEN socket' = "broken" /\ outbox' = <<>>
     ELSE UNCHANGED <<socket, outbox>>
  /\ succeeded' = succeeded \cup
       {process[c].path : c \in {d \in Pids : process[d].is \in Scripts /\ process'[d].is = "ok"}}
  /\ UNCHANGED <<task, reported, asking_vars, cache, disk, presumed>>

DaemonChld == HandleChld /\ Relay
DaemonDrains == DrainForkQueue /\ Relay
DaemonTasks == RunTaskQueue /\ Relay
DaemonScriptEnds(c) == ScriptEnds(c) /\ Relay

(* Bound: what a periodic task does once its connection has broken, for    *)
(* good, reaches nobody, and is left out.                                  *)
DaemonElse ==
  /\ \/ StartDaemon \/ RunPoller \/ DaemonEnds
     \/ \E f \in Files : LoadPersistenceTask(f)
     \/ \E p \in Paths : \/ Len(inbox) < MaxInbox /\ socket # "broken" /\ TimerFires(p)
                         \/ NotifyTests(p)
     \/ NotifyLaunches \/ \E c \in Pids : CloneEnds(c)
  /\ Relay

-----------------------------------------------------------------------------
TesterNext ==
  \/ ReceiveTask \/ TesterConnects \/ DaemonHandlesRequest
  \/ DaemonChld \/ DaemonDrains \/ DaemonTasks \/ DaemonElse
  \/ \E c \in Pids : DaemonScriptEnds(c)
  \/ \E r \in Tasks :
       \/ ReceiveDiagData(r) \/ ReadAnswer(r) \/ AnswerTimesOut(r)
       \/ \E code \in AuthCodes : UserAnswers(r, code)
       \/ PreparationFails(r) \/ Unpack(r) \/ WriteConfiguration(r) \/ SendStart(r)
       \/ PollResult(r) \/ TaskTimesOut(r) \/ StopTimesOut(r) \/ RemoveScript(r)

TesterSpec == TesterInit /\ [][TesterNext]_vars

(* A task's thread runs, and its clock does.  Nothing is asked of the      *)
(* daemon, the cloud or the user.                                          *)
TesterFairness ==
  \A r \in Tasks : WF_vars(SendStart(r)) /\ WF_vars(TaskTimesOut(r)) /\ WF_vars(StopTimesOut(r))

TesterFairSpec == TesterSpec /\ TesterFairness

-----------------------------------------------------------------------------
(* Properties.                                                             *)

(* Two tasks with one directory read each other's messages: both           *)
(* properties are about a task that has its directory to itself.           *)
Alone(r) == \A q \in Tasks \ {r} : PathOf[q] # PathOf[r]

(* What the cloud is told is true of the script, though it has gone by the *)
(* daemon's queue, a lagging cache and a timeout: "executed" only after a  *)
(* script of that path has exited with 0, "stopped" only when the daemon   *)
(* has let the task go.                                                    *)
ReportIsTrue ==
  \A r \in Tasks : Alone(r) =>
    /\ "executed" \in reported[r] => PathOf[r] \in succeeded
    /\ "stopped" \in reported[r] => PathOf[r] \notin tasks

(* No script runs of which the cloud was told that it failed: every other  *)
(* answer of the daemon for which 216 is reported comes when its process   *)
(* has ended or cannot start any more.  Left out are the tasks that the    *)
(* tester itself took for failed, refused by the user or not answered yet. *)
RunsUnder(p) == \E c \in Pids : process[c].is \in Scripts /\ process[c].path = p

FailedIsOver ==
  \A r \in Tasks :
    (~Persistent(PathOf[r]) /\ Alone(r) /\ "failed" \in reported[r] /\ r \notin presumed) =>
      ~RunsUnder(PathOf[r])

(* A script that is to run once is never left without an end in the cloud, *)
(* whatever becomes of the daemon and of its messages.                     *)
EachTaskIsReported ==
  \A r \in Tasks :
    ~Persistent(PathOf[r]) /\ Alone(r) =>
      (task[r] \in {"unpacked", "running"} ~> reported[r] \cap Final # {})

(* diag_client_interface.h of the answers: 0 forbids the task, 2 all tasks *)
(* of this power cycle.  The daemon is not to be asked to start them.      *)
ForbiddenIsNotStarted ==
  [][\A r \in Tasks :
       (task[r] = "unpacked" /\ outbox' = Append(outbox, Message("kStartTask", PathOf[r]))) =>
         ~(r \in AsksUser /\ (user_auth_code = 2 \/ answers[r] = 0))]_vars
=============================================================================
