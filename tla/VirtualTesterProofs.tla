-------------------------- MODULE VirtualTesterProofs --------------------------
(***************************************************************************)
(* What TLAPS proves of the virtual tester and the script daemon together, *)
(* for every set of tasks, directories and users' answers.                 *)
(*                                                                         *)
(* The tester only adds to the daemon: every step of the two is a step of  *)
(* ScriptDaemon or leaves it alone, so what ScriptDaemonProofs proves      *)
(* holds here too.  On it stands that the reports to the cloud are true.   *)
(***************************************************************************)
EXTENDS VirtualTester, ScriptDaemonProofs

-----------------------------------------------------------------------------
(* The daemon within.                                                      *)

(* A step of the tester's own threads.                                     *)
TesterStep ==
  \/ ReceiveTask
  \/ \E r \in Tasks :
       \/ ReceiveDiagData(r) \/ ReadAnswer(r) \/ AnswerTimesOut(r)
       \/ \E code \in AuthCodes : UserAnswers(r, code)
       \/ PreparationFails(r) \/ Unpack(r) \/ WriteConfiguration(r) \/ SendStart(r)
       \/ PollResult(r) \/ TaskTimesOut(r) \/ StopTimesOut(r) \/ RemoveScript(r)

(* A step the daemon takes without the tester.                             *)
DaemonStep ==
  \/ DaemonChld \/ DaemonDrains \/ DaemonTasks \/ DaemonElse
  \/ \E c \in Pids : DaemonScriptEnds(c)

(* The four kinds of steps: the tester's, the daemon's, the one connection *)
(* and the one reading of a request.                                       *)
LEMMA StepsOfTheTwo ==
  [TesterNext]_vars => \/ TesterStep \/ DaemonStep \/ TesterConnects \/ DaemonHandlesRequest
                       \/ UNCHANGED vars
  BY DEF TesterNext, TesterStep, DaemonStep

(* The tester's own threads share no state with the daemon.                *)
LEMMA TesterLeavesDaemon == TesterStep => UNCHANGED daemon_vars
  BY DEF TesterStep, ReceiveTask, ReceiveDiagData, ReadAnswer, AnswerTimesOut, UserAnswers,
         PreparationFails, Unpack, WriteConfiguration, SendStart, PollResult, TaskTimesOut, StopTimesOut, RemoveScript

(* Each of the daemon's steps is one of ScriptDaemon's, and is relayed.    *)
LEMMA DaemonStepIsOne == DaemonStep => Next /\ Relay
  BY DEF DaemonStep, DaemonChld, DaemonDrains, DaemonTasks, DaemonElse, DaemonScriptEnds, Next

(* What can be in the outbox.                                              *)
Requests == [opc : {"kStartTask", "kStopTask"}, path : Paths]

(* The request at the head, and those behind it.                           *)
LEMMA HeadIsRequest ==
  ASSUME TesterTypeOK, outbox # <<>>
  PROVE  /\ Head(outbox) \in Requests /\ Head(outbox).path \in Paths
         /\ Tail(outbox) \in Seq(Requests) /\ Len(Tail(outbox)) = Len(outbox) - 1
         /\ \A i \in 1 .. Len(Tail(outbox)) : Tail(outbox)[i] = outbox[i + 1]
         /\ Len(outbox) \in Nat \ {0} /\ Head(outbox) = outbox[1]
<1>1. outbox \in Seq(Requests) BY DEF TesterTypeOK, Requests
<1>2. Len(outbox) \in Nat \ {0} BY <1>1, EmptySeq
<1>3. /\ Head(outbox) \in Requests /\ Tail(outbox) \in Seq(Requests)
      /\ Len(Tail(outbox)) = Len(outbox) - 1
      /\ \A i \in 1 .. Len(Tail(outbox)) : Tail(outbox)[i] = outbox[i + 1]
  BY <1>1, HeadTailProperties
<1>4. Head(outbox) = outbox[1] BY <1>1
<1> QED BY <1>2, <1>3, <1>4 DEF Requests

(* Reading a request is a step of the daemon.                              *)
LEMMA RequestIsHandled ==
  ASSUME TesterTypeOK, DaemonHandlesRequest
  PROVE  Next
<1>1. Head(outbox).path \in Paths BY HeadIsRequest DEF DaemonHandlesRequest
<1>2. \/ \E found \in {"missing", "empty", "script"} :
           HandleStartTaskRequest(Head(outbox).path, found)
      \/ HandleStopTaskRequest(Head(outbox).path)
  BY DEF DaemonHandlesRequest
<1> QED BY <1>1, <1>2 DEF Next

(* Every step of the two is a step of the daemon, or none.                 *)
LEMMA DaemonIsWithin == TesterTypeOK /\ [TesterNext]_vars => [Next]_daemon_vars
<1> SUFFICES ASSUME TesterTypeOK, [TesterNext]_vars
             PROVE  [Next]_daemon_vars
  OBVIOUS
<1>1. CASE TesterStep BY <1>1, TesterLeavesDaemon
<1>2. CASE DaemonStep BY <1>2, DaemonStepIsOne
<1>3. CASE TesterConnects BY <1>3 DEF TesterConnects, Next
<1>4. CASE DaemonHandlesRequest BY <1>4, RequestIsHandled
<1>5. CASE UNCHANGED vars BY <1>5 DEF vars
<1> QED BY <1>1, <1>2, <1>3, <1>4, <1>5, StepsOfTheTwo

-----------------------------------------------------------------------------
(* Types.                                                                  *)

(* The types at the start.                                                 *)
LEMMA InitTesterTypes == TesterInit => TesterTypeOK
<1>1. <<>> \in Seq(Requests) /\ <<>> \in Seq(Messages) BY EmptySeq
<1> QED BY <1>1 DEF TesterInit, TesterTypeOK, Unset, Requests

(* A script that has ended with 0 has a path.                              *)
LEMMA SucceededArePaths ==
  ASSUME TypeOK, succeeded \subseteq Paths, Relay
  PROVE  succeeded' \subseteq Paths
<1>1. ASSUME NEW c \in Pids, process[c].is \in Scripts
      PROVE  process[c].path \in Paths
  <2>1. process[c] \in Cells BY DEF TypeOK, Cells
  <2>2. "ok" \in Ended BY DEF Ended
  <2> QED BY <1>1, <2>1, <2>2, CellEnds
<1>2. {process[c].path : c \in {d \in Pids : process[d].is \in Scripts /\ process'[d].is = "ok"}}
        \subseteq Paths
  BY <1>1
<1> QED BY <1>2 DEF Relay

(* What is appended to the messages under way is of the daemon's.          *)
LEMMA InboxTyped ==
  ASSUME TesterTypeOK, TypeOK', inbox' = inbox \o written'
  PROVE  inbox' \in Seq(Messages)
<1>1. inbox \in Seq(Messages) /\ written' \in Seq(Messages) BY DEF TesterTypeOK, TypeOK
<1> QED BY <1>1, ConcatProperties

(* What a message makes the tester report is a set of run states.          *)
LEMMA ReportsAreStates == \A opc \in ScriptOpc : Reports(opc) \subseteq RunStates
  BY DEF ScriptOpc, Reports, RunStates

(* Where a task's thread can be.                                           *)
Positions ==
  {"new", "asking", "preparing", "decompressed", "unpacked", "running", "stopping", "leaving", "done"}

(* What a directory may hold.                                              *)
Holdings == Tasks \cup {NoTask, Unconfigured}

(* A report adds run states.                                               *)
LEMMA MoreReported ==
  ASSUME reported \in [Tasks -> SUBSET RunStates],
         \/ reported' = reported
         \/ \E r \in Tasks : \E more \in SUBSET RunStates :
              reported' = [reported EXCEPT ![r] = @ \cup more]
  PROVE  reported' \in [Tasks -> SUBSET RunStates]
<1>1. CASE reported' = reported BY <1>1
<1>2. ASSUME NEW r \in Tasks, NEW more \in SUBSET RunStates,
             reported' = [reported EXCEPT ![r] = @ \cup more]
      PROVE  reported' \in [Tasks -> SUBSET RunStates]
  <2>1. reported[r] \cup more \in SUBSET RunStates OBVIOUS
  <2> QED BY <1>2, <2>1
<1> QED BY <1>1, <1>2

(* Each step of the tester's own threads keeps the types.                  *)
LEMMA StepKeepsTesterTypes ==
  ASSUME TesterTypeOK, TesterStep
  PROVE  TesterTypeOK'
<1> USE TesterAssumption
<1>1. /\ task \in [Tasks -> Positions]
      /\ reported \in [Tasks -> SUBSET RunStates]
      /\ answers \in [Tasks -> AuthCodes \cup {Unset}]
      /\ user_auth_code \in {2, 3, Unset}
      /\ socket \in {"none", "open", "broken"}
      /\ outbox \in Seq(Requests) /\ inbox \in Seq(Messages)
      /\ cache \in [Paths -> ScriptOpc \cup {"none"}]
      /\ disk \in [Paths -> Holdings]
      /\ succeeded \subseteq Paths /\ presumed \subseteq Tasks
  BY DEF TesterTypeOK, Requests, Positions, Holdings
<1>2. ASSUME NEW r \in Tasks, NEW opc \in {"kStartTask", "kStopTask"}, Send(opc, PathOf[r])
      PROVE  outbox' \in Seq(Requests)
  <2>1. Message(opc, PathOf[r]) \in Requests BY DEF Message, Requests
  <2> QED BY <1>1, <1>2, <2>1 DEF Send
<1>3. \A p \in Paths : ReceiveDatas(p) \in ScriptOpc BY <1>1 DEF ReceiveDatas, ScriptOpc
<1>4. ASSUME NEW r \in Tasks,
             \/ ReceiveDiagData(r) \/ ReadAnswer(r) \/ AnswerTimesOut(r)
             \/ \E code \in AuthCodes : UserAnswers(r, code)
      PROVE  TesterTypeOK'
  <2>1. UNCHANGED <<channel_vars, cache, disk, succeeded>> /\ presumed' \subseteq Tasks
    BY <1>1, <1>4
    DEF ReceiveDiagData, ReadAnswer, AnswerTimesOut, UserAnswers, Launch, history_vars
  <2>2. answers' \in [Tasks -> AuthCodes \cup {Unset}] /\ user_auth_code' \in {2, 3, Unset}
    BY <1>1, <1>4 DEF ReceiveDiagData, ReadAnswer, AnswerTimesOut, UserAnswers
  <2>3. \A states \in SUBSET RunStates : Launch(r, states) =>
          /\ task' = [task EXCEPT ![r] = "preparing"]
          /\ \E more \in SUBSET RunStates : reported' = [reported EXCEPT ![r] = @ \cup more]
    BY DEF Launch, Go, Report, RunStates
  <2>4. /\ {} \in SUBSET RunStates /\ {"failed"} \in SUBSET RunStates
        /\ (IF answers[r] = 0 THEN {"failed"} ELSE {}) \in SUBSET RunStates
    BY DEF RunStates
  <2>5. \/ task' = [task EXCEPT ![r] = "asking"] /\ reported' = reported
        \/ task' = task /\ reported' = reported
        \/ /\ task' = [task EXCEPT ![r] = "preparing"]
           /\ \E more \in SUBSET RunStates : reported' = [reported EXCEPT ![r] = @ \cup more]
    BY <1>4, <2>3, <2>4 DEF ReceiveDiagData, ReadAnswer, AnswerTimesOut, UserAnswers, Go
  <2>6. task' \in [Tasks -> Positions]
    <3>1. \E position \in Positions : task' = [task EXCEPT ![r] = position] \/ task' = task
      BY <2>5 DEF Positions
    <3> QED BY <1>1, <3>1
  <2>7. reported' \in [Tasks -> SUBSET RunStates] BY <1>1, <2>5, MoreReported
  <2> QED BY <1>1, <2>1, <2>2, <2>6, <2>7
    DEF Positions, Holdings, TesterTypeOK, Requests, channel_vars
<1>5. ASSUME NEW r \in Tasks,
             PreparationFails(r) \/ Unpack(r) \/ WriteConfiguration(r) \/ RemoveScript(r)
      PROVE  TesterTypeOK'
  <2>1. /\ \E position \in Positions : task' = [task EXCEPT ![r] = position]
        /\ reported' = reported \/ reported' = [reported EXCEPT ![r] = @ \cup {"unprepared"}]
        /\ disk' = disk \/ \E q \in Holdings : disk' = [disk EXCEPT ![PathOf[r]] = q]
        /\ UNCHANGED <<asking_vars, channel_vars, cache, succeeded, presumed>>
    <3>1. UNCHANGED <<asking_vars, channel_vars, cache, succeeded, presumed>>
      BY <1>5 DEF PreparationFails, Unpack, WriteConfiguration, RemoveScript, history_vars
    <3>2. /\ \E position \in Positions : task' = [task EXCEPT ![r] = position]
          /\ reported' = reported \/ reported' = [reported EXCEPT ![r] = @ \cup {"unprepared"}]
      BY <1>5 DEF PreparationFails, Unpack, WriteConfiguration, RemoveScript, Go, Report, Positions
    <3>3. disk' = disk \/ \E q \in Holdings : disk' = [disk EXCEPT ![PathOf[r]] = q]
      <4>1. CASE PreparationFails(r) BY <4>1 DEF PreparationFails
      <4>2. CASE Unpack(r)
        <5>1. disk[PathOf[r]] \in Holdings BY <1>1
        <5>2. (IF disk[PathOf[r]] = NoTask THEN Unconfigured ELSE disk[PathOf[r]]) \in Holdings
          BY <5>1 DEF Holdings
        <5> QED BY <4>2, <5>2 DEF Unpack
      <4>3. CASE WriteConfiguration(r) BY <4>3 DEF WriteConfiguration, Holdings
      <4>4. CASE RemoveScript(r) BY <4>4 DEF RemoveScript, Holdings
      <4> QED BY <1>5, <4>1, <4>2, <4>3, <4>4
    <3> QED BY <3>1, <3>2, <3>3
  <2>2. task' \in [Tasks -> Positions] BY <1>1, <2>1
  <2>3. {"unprepared"} \in SUBSET RunStates BY DEF RunStates
  <2>4. reported' \in [Tasks -> SUBSET RunStates] BY <1>1, <2>1, <2>3, MoreReported
  <2>5. disk' \in [Paths -> Holdings]
    <3>1. CASE disk' = disk BY <1>1, <3>1
    <3>2. CASE \E q \in Holdings : disk' = [disk EXCEPT ![PathOf[r]] = q]
      BY <1>1, <3>2
    <3> QED BY <2>1, <3>1, <3>2
  <2> QED BY <1>1, <2>1, <2>2, <2>4, <2>5
    DEF Positions, Holdings, TesterTypeOK, Requests, asking_vars, channel_vars
<1>6. ASSUME NEW r \in Tasks,
             SendStart(r) \/ PollResult(r) \/ TaskTimesOut(r) \/ StopTimesOut(r)
      PROVE  TesterTypeOK'
  <2>1. /\ \E position \in Positions : task' = [task EXCEPT ![r] = position]
        /\ \/ reported' = reported
           \/ \E more \in SUBSET RunStates : reported' = [reported EXCEPT ![r] = @ \cup more]
        /\ outbox' = outbox \/ \E opc \in {"kStartTask", "kStopTask"} : Send(opc, PathOf[r])
        /\ UNCHANGED <<asking_vars, socket, inbox, cache, disk, succeeded>>
        /\ presumed' \subseteq Tasks
    BY <1>1, <1>3, <1>6, ReportsAreStates
    DEF SendStart, PollResult, TaskTimesOut, StopTimesOut, Go, Report, channel_vars, RunStates,
        Positions, history_vars
  <2>2. task' \in [Tasks -> Positions] /\ reported' \in [Tasks -> SUBSET RunStates]
    BY <1>1, <2>1, MoreReported
  <2>3. outbox' \in Seq(Requests) BY <1>1, <1>2, <2>1
  <2> QED BY <1>1, <2>1, <2>2, <2>3 DEF Positions, Holdings, TesterTypeOK, Requests, asking_vars
<1>7. CASE ReceiveTask
  <2>1. Head(inbox) \in Messages /\ Tail(inbox) \in Seq(Messages)
    BY <1>1, <1>7, HeadTailProperties DEF ReceiveTask
  <2>2. Head(inbox).path \in Paths /\ Head(inbox).opc \in ScriptOpc BY <2>1 DEF Messages
  <2>3. cache' \in [Paths -> ScriptOpc \cup {"none"}] /\ inbox' \in Seq(Messages)
    BY <1>1, <1>7, <2>1, <2>2 DEF ReceiveTask
  <2>4. reported' \in [Tasks -> SUBSET RunStates]
    <3>1. CASE reported' = reported BY <1>1, <3>1
    <3>2. CASE Readable(Head(inbox).path) /\ Report(disk[Head(inbox).path], Reports(Head(inbox).opc))
      <4>1. disk[Head(inbox).path] \in Tasks BY <3>2 DEF Readable
      <4>2. Reports(Head(inbox).opc) \in SUBSET RunStates BY <2>2, ReportsAreStates
      <4> QED BY <1>1, <3>2, <4>1, <4>2, MoreReported DEF Report
    <3> QED BY <1>7, <3>1, <3>2 DEF ReceiveTask
  <2>5. UNCHANGED <<task, asking_vars, socket, outbox, disk, succeeded, presumed>>
    BY <1>7 DEF ReceiveTask, history_vars
  <2> QED BY <1>1, <2>3, <2>4, <2>5 DEF Positions, Holdings, TesterTypeOK, Requests, asking_vars
<1> QED BY <1>4, <1>5, <1>6, <1>7 DEF TesterStep

(* Every step of the two keeps the types.                                  *)
LEMMA NextKeepsTesterTypes ==
  ASSUME TesterTypeOK, TypeOK, TypeOK', [TesterNext]_vars
  PROVE  TesterTypeOK'
<1>1. CASE TesterStep BY <1>1, StepKeepsTesterTypes
<1>2. CASE DaemonStep
  <2>1. Relay BY <1>2, DaemonStepIsOne
  <2>2. inbox' \in Seq(Messages) BY <2>1, InboxTyped DEF Relay
  <2>3. succeeded' \subseteq Paths BY <2>1, SucceededArePaths DEF TesterTypeOK
  <2>4. outbox' \in Seq(Requests) /\ socket' \in {"none", "open", "broken"}
    BY <2>1, EmptySeq DEF Relay, TesterTypeOK, Requests
  <2> QED BY <2>1, <2>2, <2>3, <2>4 DEF Relay, TesterTypeOK, Requests, asking_vars
<1>3. CASE TesterConnects BY <1>3 DEF TesterConnects, TesterTypeOK, asking_vars, history_vars
<1>4. CASE DaemonHandlesRequest
  <2>1. inbox' \in Seq(Messages) BY <1>4, InboxTyped DEF DaemonHandlesRequest
  <2>2. outbox' \in Seq(Requests) BY <1>4, HeadIsRequest DEF DaemonHandlesRequest
  <2> QED BY <1>4, <2>1, <2>2 DEF DaemonHandlesRequest, TesterTypeOK, Requests, asking_vars,
       history_vars
<1>5. CASE UNCHANGED vars
  BY <1>5 DEF vars, tester_vars, asking_vars, channel_vars, history_vars, TesterTypeOK
<1> QED BY <1>1, <1>2, <1>3, <1>4, <1>5, StepsOfTheTwo

Both == Shape /\ TesterTypeOK

(* The types, and what is known of the daemon alone, are kept together.    *)
LEMMA NextKeepsBoth == Both /\ [TesterNext]_vars => Both'
<1> SUFFICES ASSUME Both, [TesterNext]_vars
             PROVE  Both'
  OBVIOUS
<1>1. Shape /\ TesterTypeOK /\ TypeOK BY DEF Both, Shape
<1>2. Shape' BY <1>1, DaemonIsWithin, NextKeepsShape
<1>3. TypeOK' BY <1>2 DEF Shape
<1> QED BY <1>1, <1>2, <1>3, NextKeepsTesterTypes DEF Both

(* The two keep their types and the shape of the daemon for good.          *)
THEOREM BothInvariant == TesterSpec => []Both
<1>1. TesterInit => Both
  <2>1. TesterInit => Init BY DEF TesterInit
  <2> QED BY <2>1, InitShape, InitTesterTypes DEF Both
<1>2. Both /\ [TesterNext]_vars => Both' BY NextKeepsBoth
<1> QED BY <1>1, <1>2, PTL DEF TesterSpec

(* The tester's variables keep to their types: only messages of the daemon *)
(* are on their way, and every report is one of the run states.            *)
THEOREM TesterTypeCorrect == TesterSpec => []TesterTypeOK
<1>1. Both => TesterTypeOK BY DEF Both
<1> QED BY <1>1, BothInvariant, PTL

(* The daemon of the two is the daemon alone: whatever the tester does, it *)
(* sees a client it could have anyway, so each of the daemon's properties  *)
(* holds for the two as well.                                              *)
THEOREM ImplementsDaemon == TesterSpec => Spec
<1>1. TesterInit => Init BY DEF TesterInit
<1>2. Both /\ [TesterNext]_vars => [Next]_daemon_vars BY DaemonIsWithin DEF Both
<1> QED BY <1>1, <1>2, BothInvariant, PTL DEF TesterSpec, Spec

-----------------------------------------------------------------------------
(* What the daemon's steps leave behind.                                   *)

(* No process has come to an end with 0 that had not.                      *)
NoneSucceeds == \A c \in Pids : process'[c].is = "ok" => process'[c] = process[c]

(* A start ends no script.                                                 *)
LEMMA StartSucceedsNot ==
  ASSUME TypeOK, NEW p \in Paths, NEW said, StartTask(p, said) \/ StartProcess(p, said) \/ ForkFor(p, said)
  PROVE  NoneSucceeds
<1>1. process \in [Pids -> Cells] BY DEF TypeOK, Cells
<1>2. ForkFor(p, said) => NoneSucceeds
  <2>1. Child("script", p).is # "ok" BY DEF Child
  <2> QED BY <1>1, <2>1 DEF ForkFor, NoneSucceeds
<1>3. StartProcess(p, said) => NoneSucceeds
  BY <1>2 DEF StartProcess, AsyncFork, launch_vars, NoneSucceeds
<1> QED BY <1>2, <1>3 DEF StartTask, launch_vars, NoneSucceeds

(* Nor does the daemon's end.                                              *)
LEMMA GoneSucceedsNot ==
  ASSUME TypeOK, DaemonGone
  PROVE  NoneSucceeds
<1>1. \A p : Child("stray", p).is # "ok" /\ Free.is # "ok" BY DEF Child, Free
<1> QED BY <1>1 DEF DaemonGone, NoneSucceeds

(* A request of the client: it ends no script, starts none but the task it *)
(* names, and is not handled while a stopped task is still to go.          *)
LEMMA RequestStartsItsOwn ==
  ASSUME TypeOK, NEW p \in Paths,
         NEW found \in {"missing", "empty", "script"}, HandleStartTaskRequest(p, found)
  PROVE  NoneSucceeds /\ tasks' \subseteq tasks \cup {p} /\ stopping = NoPath /\ stopping' = NoPath
<1>1. stopping = NoPath /\ stopping' = stopping
  BY DEF HandleStartTaskRequest, ClientReadable, poller_vars
<1>2. \/ UNCHANGED <<tasks, process>>
      \/ \E said : StartTask(p, said)
  BY DEF HandleStartTaskRequest, launch_vars
<1>3. \A said : StartTask(p, said) => tasks' = tasks \cup {p} BY DEF StartTask
<1>4. \A said : StartTask(p, said) => NoneSucceeds BY StartSucceedsNot
<1>5. UNCHANGED process => NoneSucceeds BY DEF NoneSucceeds
<1> QED BY <1>1, <1>2, <1>3, <1>4, <1>5

(* A stop request ends no script and takes no task away yet.               *)
LEMMA RequestStopsItsOwn ==
  ASSUME TypeOK, NEW p \in Paths, HandleStopTaskRequest(p)
  PROVE  NoneSucceeds /\ tasks' = tasks /\ stopping = NoPath /\ stopping' \in {NoPath, p}
<1>1. stopping = NoPath BY DEF HandleStopTaskRequest, ClientReadable
<1>2. Child("stopped", p).is # "ok" BY DEF Child
<1>3. \A c \in Pids : process'[c] = process[c] \/ process'[c] = Child("stopped", p)
  BY DEF HandleStopTaskRequest, StopTask
<1>4. NoneSucceeds BY <1>2, <1>3 DEF NoneSucceeds
<1> QED BY <1>1, <1>4 DEF HandleStopTaskRequest, StopTask

(* What has come to an end with 0 was a script of that path.               *)
ScriptsSucceed ==
  \A c \in Pids : process'[c].is = "ok" =>
    \/ process'[c] = process[c]
    \/ process[c].is \in Scripts /\ process'[c].path = process[c].path

(* The request on top of the queue.                                        *)
LEMMA RequestOnTop ==
  ASSUME TypeOK, queue # <<>>
  PROVE  queue[Top].path \in Paths /\ queue[Top].state \in {"pending", "orphaned", "cancelling"}
<1>1. queue \in Seq(ForkRequests) BY DEF TypeOK
<1>2. Top \in DOMAIN queue BY TopIsRequest
<1> HIDE DEF Top
<1>3. DOMAIN queue = 1 .. Len(queue) BY <1>1
<1>4. queue[Top] \in ForkRequests BY <1>1, <1>2, <1>3, ElementOfSeq
<1> QED BY <1>4 DEF ForkRequests

(* A step of the daemon alone: what ends with 0 was a script with that     *)
(* path, only persistent tasks come back, and no task is being stopped     *)
(* that was not.                                                           *)
LEMMA DaemonStartsNone ==
  ASSUME Shape, DaemonStep
  PROVE  /\ ScriptsSucceed
         /\ tasks' \subseteq tasks \cup PersistentPaths
         /\ stopping' \in {stopping, NoPath}
<1>0. TypeOK /\ LinksAreLoaded BY DEF Shape
<1>1. process \in [Pids -> Cells] BY <1>0 DEF TypeOK, Cells
<1>2. NoneSucceeds => ScriptsSucceed BY DEF NoneSucceeds, ScriptsSucceed
<1>3. UNCHANGED process => ScriptsSucceed BY DEF ScriptsSucceed
<1>4. DaemonGone => ScriptsSucceed /\ tasks' = {} /\ stopping' = NoPath
  BY <1>0, <1>2, GoneSucceedsNot DEF DaemonGone
<1>5. CASE DaemonChld
  <2>1. ReapCurrent /\ current # NoPid => NoneSucceeds
    BY <1>1 DEF ReapCurrent, NoneSucceeds, Free
  <2>2. ScriptsSucceed BY <1>2, <1>3, <1>5, <2>1 DEF DaemonChld, HandleChld
  <2> QED BY <1>5, <2>2 DEF DaemonChld, HandleChld
<1>6. CASE DaemonDrains
  <2>1. ForkOrphan => NoneSucceeds
    BY <1>1 DEF ForkOrphan, NoneSucceeds, Child
  <2>2. CASE ~DaemonGone
    <3>1. /\ tasks' = tasks /\ stopping' = stopping
          /\ \/ UNCHANGED process
             \/ ForkOrphan
             \/ queue # <<>> /\ ForkFor(queue[Top].path, <<>>)
      <4>1. DrainForkQueue BY <1>6 DEF DaemonDrains
      <4>2. CASE queue = <<>> BY <2>2, <4>1, <4>2 DEF DrainForkQueue, launch_vars
      <4>3. CASE /\ queue # <<>>
                 /\ CASE queue[Top].state = "pending" -> ForkFor(queue[Top].path, <<>>)
                      [] queue[Top].state = "orphaned" -> ForkOrphan
                      [] queue[Top].state = "cancelling" ->
                           written' = <<>> /\ UNCHANGED <<sent, pid, current, process>>
                 /\ UNCHANGED <<poller_vars, tasks>>
        <5>1. queue[Top].state \in {"pending", "orphaned", "cancelling"}
          BY <1>0, <4>3, RequestOnTop
        <5>2. queue[Top].state = "pending" => ForkFor(queue[Top].path, <<>>) BY <4>3
        <5>3. queue[Top].state = "orphaned" => ForkOrphan BY <4>3
        <5>4. queue[Top].state = "cancelling" => UNCHANGED process BY <4>3
        <5>5. tasks' = tasks /\ stopping' = stopping BY <4>3 DEF poller_vars
        <5> QED BY <4>3, <5>1, <5>2, <5>3, <5>4, <5>5
      <4> QED BY <2>2, <4>1, <4>2, <4>3 DEF DrainForkQueue
    <3>2. queue # <<>> => queue[Top].path \in Paths BY <1>0, RequestOnTop
    <3>3. ScriptsSucceed BY <1>0, <1>2, <1>3, <2>1, <3>1, <3>2, StartSucceedsNot
    <3> QED BY <3>1, <3>3
  <2> QED BY <1>4, <2>2
<1>7. CASE DaemonTasks BY <1>3, <1>7 DEF DaemonTasks, RunTaskQueue
<1>8. CASE \E c \in Pids : DaemonScriptEnds(c)
  <2>1. PICK c \in Pids : ScriptEnds(c) BY <1>8 DEF DaemonScriptEnds
  <2>2. process[c] \in Cells BY <1>1
  <2>3. ASSUME process[c].is = "stray" PROVE ScriptsSucceed
    <3>1. process' = [process EXCEPT ![c] = Free] BY <2>1, <2>3 DEF ScriptEnds
    <3>2. process'[c].is = "none" BY <1>1, <3>1 DEF Free
    <3>3. \A d \in Pids \ {c} : process'[d] = process[d] BY <1>1, <3>1
    <3> QED BY <1>2, <3>2, <3>3 DEF NoneSucceeds
  <2>4. ASSUME process[c].is # "stray" PROVE ScriptsSucceed
    <3>1. PICK result \in Ended : process' = [process EXCEPT ![c].is = result]
      BY <2>1, <2>4 DEF ScriptEnds
    <3>2. process'[c].path = process[c].path BY <1>1, <2>2, <3>1, CellEnds
    <3>3. \A d \in Pids \ {c} : process'[d] = process[d] BY <1>1, <3>1
    <3>4. process[c].is \in Scripts BY <2>1 DEF ScriptEnds
    <3>5. ASSUME NEW d \in Pids, process'[d].is = "ok"
          PROVE  \/ process'[d] = process[d]
                 \/ process[d].is \in Scripts /\ process'[d].path = process[d].path
      BY <3>2, <3>3, <3>4
    <3> QED BY <3>5 DEF ScriptsSucceed
  <2>5. ScriptsSucceed BY <2>3, <2>4
  <2> QED BY <2>1, <2>5 DEF ScriptEnds, poller_vars
<1>9. CASE DaemonElse
  <2>1. CASE StartDaemon \/ RunPoller \/ \E p \in Paths : NotifyTests(p)
    BY <1>3, <2>1 DEF StartDaemon, RunPoller, NotifyTests, launch_vars, poller_vars
  <2>2. CASE DaemonEnds BY <1>4, <2>2 DEF DaemonEnds
  <2>3. CASE \E f \in Files : LoadPersistenceTask(f)
    <3>1. PICK f \in Files : LoadPersistenceTask(f) BY <2>3
    <3>2. CASE UNCHANGED <<tasks, process>>
      BY <1>3, <3>1, <3>2 DEF LoadPersistenceTask
    <3>3. CASE StartTask(links[f], <<>>)
      <4>1. links[f] \in PersistentPaths
        BY <1>0, <3>1 DEF LoadPersistenceTask, LinksAreLoaded, TypeOK
      <4>2. links[f] \in Paths BY <4>1 DEF PersistentPaths
      <4>3. ScriptsSucceed BY <1>0, <1>2, <3>3, <4>2, StartSucceedsNot
      <4>4. tasks' = tasks \cup {links[f]} BY <3>3 DEF StartTask
      <4> QED BY <3>1, <4>1, <4>3, <4>4 DEF LoadPersistenceTask
    <3>4. stopping' = stopping BY <3>1 DEF LoadPersistenceTask
    <3> QED BY <3>1, <3>2, <3>3, <3>4 DEF LoadPersistenceTask, launch_vars
  <2>4. CASE \E p \in Paths : TimerFires(p)
    BY <1>0, <1>2, <2>4, StartSucceedsNot DEF TimerFires, poller_vars
  <2>5. CASE NotifyLaunches
    <3>1. CASE ~DaemonGone
      <4>1. /\ tasks' = tasks /\ stopping' = stopping
            /\ UNCHANGED process \/ ForkFor(notifier.path, <<>>)
            /\ notifier.path # NoPath
        BY <2>5, <3>1 DEF NotifyLaunches, poller_vars
      <4>2. notifier.path \in Paths BY <1>0, <4>1 DEF TypeOK
      <4> QED BY <1>0, <1>2, <1>3, <4>1, <4>2, StartSucceedsNot
    <3> QED BY <1>4, <3>1
  <2>6. CASE \E c \in Pids : CloneEnds(c)
    <3>1. PICK c \in Pids : CloneEnds(c) BY <2>6
    <3>2. process[c] \in Cells BY <1>1
    <3>3. NoneSucceeds
      <4>1. "failed" \in Ended BY DEF Ended
      <4>2. process'[c].is = "failed" BY <1>1, <3>1, <3>2, <4>1, CellEnds DEF CloneEnds
      <4>3. \A d \in Pids \ {c} : process'[d] = process[d] BY <1>1, <3>1 DEF CloneEnds
      <4> QED BY <4>2, <4>3 DEF NoneSucceeds
    <3> QED BY <1>2, <3>1, <3>3 DEF CloneEnds, poller_vars
  <2> QED BY <1>9, <2>1, <2>2, <2>3, <2>4, <2>5, <2>6 DEF DaemonElse
<1> QED BY <1>5, <1>6, <1>7, <1>8, <1>9 DEF DaemonStep

-----------------------------------------------------------------------------
(* The reports are true.                                                   *)

StartOf(p) == Message("kStartTask", p)
StopOf(p) == Message("kStopTask", p)

(* No start request about p is on its way, nor behind the i-th message.    *)
NoStart(p) == \A i \in DOMAIN outbox : outbox[i] # StartOf(p)
NoStartAfter(i, p) == \A j \in DOMAIN outbox : j > i => outbox[j] # StartOf(p)

(* A message about p has been read by the tester, or is on its way to it.  *)
Known(opc, p) ==
  cache[p] = opc \/ \E i \in DOMAIN inbox : inbox[i].opc = opc /\ inbox[i].path = p

(* The task's thread has asked for its end, or gone: it starts no script.  *)
Late(r) == task[r] \in {"stopping", "leaving", "done"}

(* The configuration in a directory is of a script unpacked to it.         *)
DiskIsOwn == \A p \in Paths : disk[p] \in Tasks => PathOf[disk[p]] = p

(* What has ended with 0 and is not reaped is among what has succeeded.    *)
SuccessIsKept == \A c \in Pids : process[c].is = "ok" => process[c].path \in succeeded

(* Only a task that runs once is watched by a thread.                      *)
OnceIsWatched ==
  \A r \in Tasks : task[r] \in {"running", "stopping", "leaving"} => ~Persistent(PathOf[r])

(* When the daemon stops r's task, or is asked to, no start is to follow.  *)
StopIsLast(r) ==
  /\ stopping = PathOf[r] => Late(r) /\ NoStart(PathOf[r])
  /\ \A i \in DOMAIN outbox :
       outbox[i] = StopOf(PathOf[r]) => Late(r) /\ NoStartAfter(i, PathOf[r])

(* Once r's task is known to have been stopped, it never comes back.       *)
StopIsFinal(r) ==
  Known("kStopSuccess", PathOf[r]) \/ "stopped" \in reported[r] =>
    /\ Late(r) /\ ~Persistent(PathOf[r])
    /\ PathOf[r] \notin tasks /\ NoStart(PathOf[r])

(* kExcutedOver means success, but for the one a stopped task is sent off  *)
(* with: that one finds the task's thread no longer looking for results.   *)
SuccessIsTold(r) ==
  /\ Known("kExcutedOver", PathOf[r]) =>
       PathOf[r] \in succeeded \/ (Late(r) /\ ~Persistent(PathOf[r]))
  /\ "executed" \in reported[r] => PathOf[r] \in succeeded

Truthful(r) == StopIsLast(r) /\ StopIsFinal(r) /\ SuccessIsTold(r)

TrueReports ==
  /\ DiskIsOwn /\ SuccessIsKept /\ OnceIsWatched
  /\ \A r \in Tasks : Alone(r) => Truthful(r)

(* What a step of the tester's own threads does to a task that has its     *)
(* directory to itself.                                                    *)
TesterMoves(r) ==
  LET p == PathOf[r]
  IN /\ Late(r) => Late(r)'
     /\ \/ outbox' = outbox
        \/ \E m \in Requests : /\ outbox' = Append(outbox, m)
                               /\ m = StartOf(p) => ~Late(r)
                               /\ m = StopOf(p) => Late(r)'
     /\ \A opc \in ScriptOpc : Known(opc, p)' => Known(opc, p)
     /\ "stopped" \in reported'[r] => "stopped" \in reported[r] \/ Known("kStopSuccess", p)
     /\ "executed" \in reported'[r] =>
          \/ "executed" \in reported[r]
          \/ Known("kExcutedOver", p) /\ (~Late(r) \/ Persistent(p))

(* What is known after a message is read was known before.                 *)
LEMMA KnownByRead ==
  ASSUME TesterTypeOK, ReceiveTask, NEW p \in Paths, NEW opc \in ScriptOpc, Known(opc, p)'
  PROVE  Known(opc, p)
<1>1. inbox \in Seq(Messages) /\ inbox # <<>> BY DEF TesterTypeOK, ReceiveTask
<1>2. Head(inbox) = inbox[1] /\ 1 \in DOMAIN inbox /\ Head(inbox).path \in Paths
  <2>1. Len(inbox) \in Nat \ {0} BY <1>1, EmptySeq
  <2>2. Head(inbox) \in Messages BY <1>1, HeadTailProperties
  <2> QED BY <1>1, <2>1, <2>2 DEF Messages
<1>3. CASE cache'[p] = opc
  <2>1. cache \in [Paths -> ScriptOpc \cup {"none"}] BY DEF TesterTypeOK
  <2>2. cache' = [cache EXCEPT ![Head(inbox).path] = Head(inbox).opc] BY DEF ReceiveTask
  <2>3. CASE Head(inbox).path = p BY <1>2, <1>3, <2>1, <2>2, <2>3 DEF Known
  <2>4. CASE Head(inbox).path # p BY <1>2, <1>3, <2>1, <2>2, <2>4 DEF Known
  <2> QED BY <2>3, <2>4
<1>4. ASSUME NEW i \in DOMAIN inbox', inbox'[i].opc = opc, inbox'[i].path = p
      PROVE  Known(opc, p)
  <2>1. inbox' = Tail(inbox) BY DEF ReceiveTask
  <2>2. i + 1 \in DOMAIN inbox /\ inbox'[i] = inbox[i + 1] BY <1>1, <2>1
  <2> QED BY <1>4, <2>2 DEF Known
<1> QED BY <1>3, <1>4 DEF Known

(* What is known once the daemon has written is known or just written.     *)
LEMMA KnownByRelay ==
  ASSUME TesterTypeOK, TypeOK', inbox' = inbox \o written', cache' = cache,
         NEW p, NEW opc, Known(opc, p)'
  PROVE  Known(opc, p) \/ \E i \in DOMAIN written' : written'[i].opc = opc /\ written'[i].path = p
<1>1. inbox \in Seq(Messages) /\ written' \in Seq(Messages) BY DEF TesterTypeOK, TypeOK
<1>2. CASE cache'[p] = opc BY <1>2 DEF Known
<1>3. ASSUME NEW i \in DOMAIN inbox', inbox'[i].opc = opc, inbox'[i].path = p
      PROVE  \/ Known(opc, p)
             \/ \E j \in DOMAIN written' : written'[j].opc = opc /\ written'[j].path = p
  <2>1. /\ Len(inbox') = Len(inbox) + Len(written') /\ inbox' \in Seq(Messages)
        /\ \A j \in 1 .. Len(inbox) + Len(written') :
             inbox'[j] = IF j <= Len(inbox) THEN inbox[j] ELSE written'[j - Len(inbox)]
    BY <1>1, ConcatProperties
  <2>2. /\ DOMAIN inbox = 1 .. Len(inbox) /\ DOMAIN written' = 1 .. Len(written')
        /\ DOMAIN inbox' = 1 .. Len(inbox') /\ Len(inbox) \in Nat /\ Len(written') \in Nat
    BY <1>1, <2>1
  <2>3. CASE i <= Len(inbox) BY <1>3, <2>1, <2>2, <2>3 DEF Known
  <2>4. CASE i > Len(inbox)
    <3>1. i - Len(inbox) \in DOMAIN written' /\ inbox'[i] = written'[i - Len(inbox)]
      BY <2>1, <2>2, <2>4
    <3> QED BY <1>3, <3>1
  <2> QED BY <2>2, <2>3, <2>4
<1> QED BY <1>2, <1>3 DEF Known

(* The tester's own steps move a task as TesterMoves says.                 *)
LEMMA TesterStepMoves ==
  ASSUME TesterTypeOK, TrueReports, TesterStep, NEW r \in Tasks, Alone(r)
  PROVE  TesterMoves(r)
<1> USE TesterAssumption
<1>1. /\ task \in [Tasks -> Positions] /\ reported \in [Tasks -> SUBSET RunStates]
      /\ PathOf[r] \in Paths /\ \A q \in Tasks \ {r} : PathOf[q] # PathOf[r]
  BY DEF TesterTypeOK, Positions, Alone
<1>2. ASSUME NEW q \in Tasks, NEW position,
             task' = [task EXCEPT ![q] = position],
             q = r /\ Late(r) => position \in {"stopping", "leaving", "done"}
      PROVE  Late(r) => Late(r)'
  BY <1>1, <1>2 DEF Late
<1>3. UNCHANGED <<cache, inbox>> => \A opc \in ScriptOpc : Known(opc, PathOf[r])' => Known(opc, PathOf[r])
  BY DEF Known
<1>4. ASSUME NEW q \in Tasks, NEW more, reported' = [reported EXCEPT ![q] = @ \cup more]
      PROVE  reported'[r] = reported[r] \/ (q = r /\ reported'[r] = reported[r] \cup more)
  BY <1>1, <1>4
<1>5. "kExcutedOver" \in ScriptOpc /\ "kStopSuccess" \in ScriptOpc BY DEF ScriptOpc
<1>6. \A opc \in ScriptOpc : /\ "stopped" \notin Reports(opc)
                             /\ "executed" \in Reports(opc) => opc = "kExcutedOver"
  BY DEF ScriptOpc, Reports
<1>7. \A opc : Message("kStartTask", opc) = StartOf(opc) /\ Message("kStopTask", opc) = StopOf(opc)
  BY DEF StartOf, StopOf
<1>8. \A p, q : /\ StartOf(p) # StopOf(q) /\ (StartOf(p) = StartOf(q) => p = q)
                /\ (StopOf(p) = StopOf(q) => p = q)
  <2>1. \A p : /\ StartOf(p).opc = "kStartTask" /\ StartOf(p).path = p
               /\ StopOf(p).opc = "kStopTask" /\ StopOf(p).path = p
    BY DEF StartOf, StopOf, Message
  <2> QED BY <2>1
<1>9. \A p \in Paths : StartOf(p) \in Requests /\ StopOf(p) \in Requests
  BY DEF StartOf, StopOf, Message, Requests
<1>10. CASE ReceiveTask
  <2>1. UNCHANGED <<task, outbox>> BY <1>10 DEF ReceiveTask
  <2>2. \A opc \in ScriptOpc : Known(opc, PathOf[r])' => Known(opc, PathOf[r])
    BY <1>1, <1>10, KnownByRead
  <2>3. /\ "stopped" \in reported'[r] => "stopped" \in reported[r]
        /\ "executed" \in reported'[r] =>
             \/ "executed" \in reported[r]
             \/ Known("kExcutedOver", PathOf[r]) /\ Persistent(PathOf[r])
    <3>1. CASE reported' = reported BY <3>1
    <3>2. CASE /\ Readable(Head(inbox).path) /\ Persistent(Head(inbox).path)
               /\ Report(disk[Head(inbox).path], Reports(Head(inbox).opc))
      <4> DEFINE m == Head(inbox)
      <4>1. inbox \in Seq(Messages) /\ inbox # <<>> BY <1>10 DEF TesterTypeOK, ReceiveTask
      <4>2. m \in Messages BY <4>1, HeadTailProperties
      <4>3. m = inbox[1] /\ 1 \in DOMAIN inbox
        <5>1. Len(inbox) \in Nat \ {0} BY <4>1, EmptySeq
        <5> QED BY <4>1, <5>1
      <4>4. m.path \in Paths /\ m.opc \in ScriptOpc BY <4>2 DEF Messages
      <4>5. disk[m.path] \in Tasks /\ PathOf[disk[m.path]] = m.path
        BY <3>2, <4>4 DEF Readable, TrueReports, DiskIsOwn
      <4>6. reported' = [reported EXCEPT ![disk[m.path]] = @ \cup Reports(m.opc)]
        BY <3>2 DEF Report
      <4> HIDE DEF m
      <4>7. \/ reported'[r] = reported[r]
            \/ disk[m.path] = r /\ reported'[r] = reported[r] \cup Reports(m.opc)
        BY <1>4, <4>5, <4>6
      <4>8. disk[m.path] = r /\ m.opc = "kExcutedOver" => Known("kExcutedOver", PathOf[r])
        BY <4>3, <4>5 DEF Known
      <4>9. Persistent(m.path) BY <3>2 DEF m
      <4> QED BY <1>6, <4>4, <4>5, <4>7, <4>8, <4>9
    <3> QED BY <1>10, <3>1, <3>2 DEF ReceiveTask
  <2>4. Late(r) => Late(r)' BY <2>1 DEF Late
  <2> QED BY <2>1, <2>2, <2>3, <2>4 DEF TesterMoves
<1>11. ASSUME NEW q \in Tasks,
              \/ ReceiveDiagData(q) \/ ReadAnswer(q) \/ AnswerTimesOut(q)
              \/ \E code \in AuthCodes : UserAnswers(q, code)
              \/ PreparationFails(q) \/ Unpack(q) \/ WriteConfiguration(q) \/ RemoveScript(q)
       PROVE  TesterMoves(r)
  <2>1. UNCHANGED <<outbox, cache, inbox>>
    BY <1>11 DEF ReceiveDiagData, ReadAnswer, AnswerTimesOut, UserAnswers, PreparationFails, Unpack,
                 WriteConfiguration, RemoveScript, channel_vars
  <2>2. \/ task' = task
        \/ \E position : /\ task' = [task EXCEPT ![q] = position]
                         /\ Late(q) => position = "done"
    BY <1>11 DEF ReceiveDiagData, ReadAnswer, AnswerTimesOut, UserAnswers, PreparationFails, Unpack,
                 WriteConfiguration, RemoveScript, Launch, Go, Late
  <2>3. Late(r) => Late(r)' BY <1>1, <2>2 DEF Late
  <2>4. \/ reported' = reported
        \/ \E more \in SUBSET {"failed", "unprepared"} : reported' = [reported EXCEPT ![q] = @ \cup more]
    <3>1. CASE PreparationFails(q) BY <3>1 DEF PreparationFails, Report
    <3>2. CASE reported' = reported BY <3>2
    <3>3. ASSUME NEW states \in SUBSET {"failed"}, Launch(q, states)
          PROVE  \E more \in SUBSET {"failed", "unprepared"} : reported' = [reported EXCEPT ![q] = @ \cup more]
      BY <3>3 DEF Launch, Report
    <3> QED BY <1>11, <3>1, <3>2, <3>3
        DEF ReceiveDiagData, ReadAnswer, AnswerTimesOut, UserAnswers, Unpack,
            WriteConfiguration, RemoveScript
  <2>5. /\ "stopped" \in reported'[r] => "stopped" \in reported[r]
        /\ "executed" \in reported'[r] => "executed" \in reported[r]
    BY <1>1, <2>4
  <2> QED BY <1>3, <2>1, <2>3, <2>5 DEF TesterMoves
<1>12. ASSUME NEW q \in Tasks, PollResult(q) \/ StopTimesOut(q)
       PROVE  TesterMoves(r)
  <2>1. UNCHANGED <<outbox, cache, inbox>> BY <1>12 DEF PollResult, StopTimesOut, channel_vars
  <2>2. \E position : /\ task' = [task EXCEPT ![q] = position]
                      /\ Late(q) => position = "leaving"
    BY <1>12 DEF PollResult, StopTimesOut, Go, Late
  <2>3. Late(r) => Late(r)' BY <1>1, <2>2 DEF Late
  <2>4. PathOf[q] \in Paths /\ cache \in [Paths -> ScriptOpc \cup {"none"}]
    BY DEF TesterTypeOK
  <2>5. /\ ReceiveDatas(PathOf[q]) \in ScriptOpc
        /\ \A opc \in {"kExcutedOver", "kStopSuccess"} :
             ReceiveDatas(PathOf[q]) = opc => Known(opc, PathOf[q])
    BY <2>4 DEF ReceiveDatas, ScriptOpc, Known
  <2>6. CASE PollResult(q)
    <3>1. reported' = [reported EXCEPT ![q] = @ \cup Reports(ReceiveDatas(PathOf[q]))]
      BY <2>6 DEF PollResult, Report
    <3>2. ~Late(q) BY <2>6 DEF PollResult, Late
    <3>3. /\ "stopped" \in reported'[r] => "stopped" \in reported[r]
          /\ "executed" \in reported'[r] =>
               \/ "executed" \in reported[r]
               \/ q = r /\ ReceiveDatas(PathOf[q]) = "kExcutedOver"
      BY <1>4, <1>6, <2>5, <3>1
    <3> QED BY <1>3, <2>1, <2>3, <2>5, <3>2, <3>3 DEF TesterMoves
  <2>7. CASE StopTimesOut(q)
    <3>1. reported' = [reported EXCEPT ![q] = @ \cup
                        (IF ReceiveDatas(PathOf[q]) = "kStopSuccess" THEN {"stopped"} ELSE {"unstopped"})]
      BY <2>7 DEF StopTimesOut, Report
    <3>2. /\ "executed" \in reported'[r] => "executed" \in reported[r]
          /\ "stopped" \in reported'[r] =>
               \/ "stopped" \in reported[r]
               \/ q = r /\ ReceiveDatas(PathOf[q]) = "kStopSuccess"
      BY <1>4, <3>1
    <3> QED BY <1>3, <2>1, <2>3, <2>5, <3>2 DEF TesterMoves
  <2> QED BY <1>12, <2>6, <2>7
<1>13. ASSUME NEW q \in Tasks, SendStart(q) \/ TaskTimesOut(q)
       PROVE  TesterMoves(r)
  <2>1. UNCHANGED <<reported, cache, inbox>> BY <1>13 DEF SendStart, TaskTimesOut
  <2>2. ~Late(q) BY <1>13 DEF SendStart, TaskTimesOut, Late
  <2>3. \E position : task' = [task EXCEPT ![q] = position]
    BY <1>13 DEF SendStart, TaskTimesOut, Go
  <2>4. Late(r) => Late(r)' BY <1>1, <2>2, <2>3 DEF Late
  <2>5. PathOf[q] \in Paths OBVIOUS
  <2>6. CASE SendStart(q)
    <3>1. outbox' = outbox \/ outbox' = Append(outbox, StartOf(PathOf[q]))
      BY <2>6 DEF SendStart, Send, StartOf
    <3>2. /\ StartOf(PathOf[q]) = StartOf(PathOf[r]) => ~Late(r)
          /\ StartOf(PathOf[q]) # StopOf(PathOf[r])
      BY <1>1, <1>8, <2>2
    <3> QED BY <1>3, <1>9, <2>1, <2>4, <2>5, <3>1, <3>2 DEF TesterMoves
  <2>7. CASE TaskTimesOut(q)
    <3>1. outbox' = outbox \/ outbox' = Append(outbox, StopOf(PathOf[q]))
      BY <2>7 DEF TaskTimesOut, Send, StopOf
    <3>2. task'[q] = "stopping" BY <1>1, <2>7 DEF TaskTimesOut, Go
    <3>3. /\ StopOf(PathOf[q]) # StartOf(PathOf[r])
          /\ StopOf(PathOf[q]) = StopOf(PathOf[r]) => Late(r)'
      <4>1. StopOf(PathOf[q]) = StopOf(PathOf[r]) => q = r BY <1>1, <1>8
      <4>2. q = r => Late(r)' BY <3>2 DEF Late
      <4> QED BY <1>8, <4>1, <4>2
    <3> QED BY <1>3, <1>9, <2>1, <2>4, <2>5, <3>1, <3>3 DEF TesterMoves
  <2> QED BY <1>13, <2>6, <2>7
<1> QED BY <1>10, <1>11, <1>12, <1>13 DEF TesterStep

(* A step of the tester's own threads keeps the reports true.              *)
LEMMA TesterStepTruthful ==
  ASSUME TesterTypeOK, TrueReports, TesterStep, NEW r \in Tasks, Alone(r)
  PROVE  Truthful(r)'
<1> DEFINE p == PathOf[r]
<1>1. TesterMoves(r) /\ Truthful(r) BY TesterStepMoves DEF TrueReports
<1>2. UNCHANGED <<stopping, tasks, succeeded>>
  <2>1. UNCHANGED succeeded
    BY DEF TesterStep, ReceiveTask, ReceiveDiagData, ReadAnswer, AnswerTimesOut, UserAnswers,
           PreparationFails, Unpack, WriteConfiguration, SendStart, PollResult, TaskTimesOut, StopTimesOut, RemoveScript, Launch,
           history_vars
  <2> QED BY <2>1, TesterLeavesDaemon DEF daemon_vars
<1>3. "kExcutedOver" \in ScriptOpc /\ "kStopSuccess" \in ScriptOpc BY DEF ScriptOpc
<1>4. outbox \in Seq(Requests) BY DEF TesterTypeOK, Requests
<1>5. (Late(r) => Late(r)') /\ \A opc \in ScriptOpc : Known(opc, p)' => Known(opc, p)
  BY <1>1 DEF TesterMoves
<1>6. Late(r) /\ NoStart(p) => NoStart(p)'
  <2>1. CASE outbox' = outbox BY <2>1 DEF NoStart
  <2>2. ASSUME NEW m \in Requests, outbox' = Append(outbox, m), m = StartOf(p) => ~Late(r),
               Late(r), NoStart(p), NEW i \in DOMAIN outbox'
        PROVE  outbox'[i] # StartOf(p)
    BY <1>4, <2>2 DEF NoStart
  <2> QED BY <1>1, <2>1, <2>2 DEF TesterMoves, NoStart
<1>7. StopIsLast(r)'
  <2>1. stopping' = p => Late(r)' /\ NoStart(p)'
    BY <1>1, <1>2, <1>5, <1>6 DEF Truthful, StopIsLast
  <2>2. ASSUME NEW i \in DOMAIN outbox', outbox'[i] = StopOf(p)
        PROVE  Late(r)' /\ NoStartAfter(i, p)'
    <3>1. CASE outbox' = outbox
      BY <1>1, <1>5, <2>2, <3>1 DEF Truthful, StopIsLast, NoStartAfter
    <3>2. ASSUME NEW m \in Requests, outbox' = Append(outbox, m),
                 m = StartOf(p) => ~Late(r), m = StopOf(p) => Late(r)'
          PROVE  Late(r)' /\ NoStartAfter(i, p)'
      <4>1. /\ DOMAIN outbox = 1 .. Len(outbox) /\ DOMAIN outbox' = 1 .. Len(outbox) + 1
            /\ Len(outbox) \in Nat /\ outbox'[Len(outbox) + 1] = m
            /\ \A j \in 1 .. Len(outbox) : outbox'[j] = outbox[j]
        BY <1>4, <3>2
      <4>2. CASE i = Len(outbox) + 1
        BY <2>2, <3>2, <4>1, <4>2 DEF NoStartAfter
      <4>3. CASE i \in DOMAIN outbox
        <5>1. Late(r) /\ NoStartAfter(i, p)
          BY <1>1, <2>2, <4>1, <4>3 DEF Truthful, StopIsLast
        <5> QED BY <1>5, <3>2, <4>1, <5>1 DEF NoStartAfter
      <4> QED BY <4>1, <4>2, <4>3
    <3> QED BY <1>1, <3>1, <3>2 DEF TesterMoves
  <2> QED BY <2>1, <2>2 DEF StopIsLast
<1>8. StopIsFinal(r)'
  BY <1>1, <1>2, <1>3, <1>5, <1>6 DEF TesterMoves, Truthful, StopIsFinal
<1>9. SuccessIsTold(r)'
  BY <1>1, <1>2, <1>3, <1>5 DEF TesterMoves, Truthful, SuccessIsTold
<1> QED BY <1>7, <1>8, <1>9 DEF Truthful

(* A step of the daemon alone does too: what it tells of a stopped task is *)
(* told of one whose thread has asked for that.                            *)
LEMMA DaemonStepTruthful ==
  ASSUME Shape, Shape', TesterTypeOK, TrueReports, DaemonStep, NEW r \in Tasks, Alone(r)
  PROVE  Truthful(r)'
<1> DEFINE p == PathOf[r]
<1>1. Relay /\ Truthful(r) /\ p \in Paths /\ p # NoPath
  BY DaemonStepIsOne, TesterAssumption, DaemonAssumption DEF TrueReports
<1>2. /\ ToldTruly /\ tasks' \subseteq tasks \cup PersistentPaths
      /\ stopping' \in {stopping, NoPath}
  BY DaemonStepIsOne, NextTellsTruly, DaemonStartsNone
<1>3. /\ UNCHANGED <<task, reported, cache>> /\ inbox' = inbox \o written'
      /\ succeeded \subseteq succeeded'
      /\ outbox' = outbox \/ outbox' = <<>>
  BY <1>1 DEF Relay
<1>4. TypeOK' /\ PidsAreHeld /\ KindsAreKept BY DEF Shape
<1>5. \A opc : Known(opc, p)' =>
        Known(opc, p) \/ \E i \in DOMAIN written' : written'[i].opc = opc /\ written'[i].path = p
  BY <1>3, <1>4, KnownByRelay
<1>6. stopping = p => Late(r) /\ NoStart(p) /\ ~Persistent(p)
  BY <1>1, <1>4 DEF Truthful, StopIsLast, KindsAreKept, Persistent
<1>7. (NoStart(p) => NoStart(p)') /\ (Late(r)' <=> Late(r)) BY <1>3 DEF NoStart, Late
<1>8. StopIsLast(r)'
  <2>1. stopping' = p => Late(r)' /\ NoStart(p)' BY <1>1, <1>2, <1>6, <1>7
  <2>2. \A i \in DOMAIN outbox' : outbox'[i] = StopOf(p) => Late(r)' /\ NoStartAfter(i, p)'
    BY <1>1, <1>3, <1>7 DEF Truthful, StopIsLast, NoStartAfter
  <2> QED BY <2>1, <2>2 DEF StopIsLast
<1>9. StopIsFinal(r)'
  <2>1. CASE \E i \in DOMAIN written' : written'[i].opc = "kStopSuccess" /\ written'[i].path = p
    <3>1. stopping = p /\ p \notin tasks' BY <1>2, <2>1 DEF ToldTruly
    <3> QED BY <1>6, <1>7, <3>1 DEF StopIsFinal
  <2>2. CASE Known("kStopSuccess", p) \/ "stopped" \in reported[r]
    <3>1. Late(r) /\ ~Persistent(p) /\ p \notin tasks /\ NoStart(p)
      BY <1>1, <2>2 DEF Truthful, StopIsFinal
    <3>2. p \notin tasks' BY <1>2, <3>1 DEF PersistentPaths
    <3> QED BY <1>7, <3>1, <3>2 DEF StopIsFinal
  <2>3. reported'[r] = reported[r] BY <1>3
  <2> QED BY <1>5, <2>1, <2>2, <2>3 DEF StopIsFinal
<1>10. SuccessIsTold(r)'
  <2>1. ASSUME NEW i \in DOMAIN written', written'[i].opc = "kExcutedOver", written'[i].path = p
        PROVE  p \in succeeded' \/ (Late(r)' /\ ~Persistent(p))
    <3>1. CASE stopping = p BY <1>6, <1>7, <3>1
    <3>2. ASSUME NEW c \in Pids, pid[p] = c, process[c].is = "ok"
          PROVE  p \in succeeded'
      <4>1. process[c].path = p BY <1>1, <1>4, <3>2, DaemonAssumption DEF PidsAreHeld
      <4> QED BY <1>3, <3>2, <4>1 DEF TrueReports, SuccessIsKept
    <3> QED BY <1>2, <2>1, <3>1, <3>2 DEF ToldTruly
  <2>2. Known("kExcutedOver", p) => p \in succeeded' \/ (Late(r)' /\ ~Persistent(p))
    BY <1>1, <1>3, <1>7 DEF Truthful, SuccessIsTold
  <2>3. "executed" \in reported'[r] => p \in succeeded'
    BY <1>1, <1>3 DEF Truthful, SuccessIsTold
  <2> QED BY <1>5, <2>1, <2>2, <2>3 DEF SuccessIsTold
<1> QED BY <1>8, <1>9, <1>10 DEF Truthful

(* The reading of a request ends no script.                                *)
LEMMA RequestSucceedsNot ==
  ASSUME TypeOK, TesterTypeOK, DaemonHandlesRequest
  PROVE  NoneSucceeds
<1>1. Head(outbox).path \in Paths BY HeadIsRequest DEF DaemonHandlesRequest
<1>2. \/ \E found \in {"missing", "empty", "script"} :
           HandleStartTaskRequest(Head(outbox).path, found)
      \/ HandleStopTaskRequest(Head(outbox).path)
  BY DEF DaemonHandlesRequest
<1> QED BY <1>1, <1>2, RequestStartsItsOwn, RequestStopsItsOwn

(* So does the reading of a request: a stop comes behind every start.      *)
LEMMA RequestTruthful ==
  ASSUME Shape, Shape', TesterTypeOK, TrueReports, DaemonHandlesRequest, NEW r \in Tasks, Alone(r)
  PROVE  Truthful(r)'
<1> DEFINE p == PathOf[r]
           m == Head(outbox)
<1>1. Truthful(r) /\ p \in Paths /\ p # NoPath
  BY TesterAssumption, DaemonAssumption DEF TrueReports
<1>2. /\ m.path \in Paths /\ m \in Requests /\ m = outbox[1] /\ 1 \in DOMAIN outbox
      /\ \A i \in DOMAIN outbox' : i + 1 \in DOMAIN outbox /\ outbox'[i] = outbox[i + 1] /\ i + 1 > 1
  <2>1. outbox # <<>> /\ outbox' = Tail(outbox) BY DEF DaemonHandlesRequest
  <2>2. /\ m \in Requests /\ m.path \in Paths
        /\ Tail(outbox) \in Seq(Requests) /\ Len(Tail(outbox)) = Len(outbox) - 1
        /\ \A i \in 1 .. Len(Tail(outbox)) : Tail(outbox)[i] = outbox[i + 1]
        /\ Len(outbox) \in Nat \ {0} /\ m = outbox[1]
    BY <2>1, HeadIsRequest
  <2>3. outbox \in Seq(Requests) BY DEF TesterTypeOK, Requests
  <2> QED BY <2>1, <2>2, <2>3
<1>3. \/ /\ m = StartOf(m.path)
         /\ \E found \in {"missing", "empty", "script"} : HandleStartTaskRequest(m.path, found)
      \/ m = StopOf(m.path) /\ HandleStopTaskRequest(m.path)
  <2>1. m = Message(m.opc, m.path) BY <1>2 DEF Message, Requests
  <2>2. \/ /\ m.opc = "kStartTask"
           /\ \E found \in {"missing", "empty", "script"} : HandleStartTaskRequest(m.path, found)
        \/ m.opc = "kStopTask" /\ HandleStopTaskRequest(m.path)
    BY DEF DaemonHandlesRequest
  <2> HIDE DEF m
  <2> QED BY <2>1, <2>2 DEF StartOf, StopOf
<1>4. TypeOK /\ TypeOK' /\ PidsAreHeld BY DEF Shape
<1> HIDE DEF m
<1>5. /\ stopping = NoPath
      /\ \/ m = StartOf(m.path) /\ tasks' \subseteq tasks \cup {m.path} /\ stopping' = NoPath
         \/ m = StopOf(m.path) /\ tasks' = tasks /\ stopping' \in {NoPath, m.path}
  <2>1. ASSUME NEW found \in {"missing", "empty", "script"}, HandleStartTaskRequest(m.path, found)
        PROVE  tasks' \subseteq tasks \cup {m.path} /\ stopping = NoPath /\ stopping' = NoPath
    BY <1>2, <1>4, <2>1, RequestStartsItsOwn
  <2>2. HandleStopTaskRequest(m.path) =>
          tasks' = tasks /\ stopping = NoPath /\ stopping' \in {NoPath, m.path}
    BY <1>2, <1>4, RequestStopsItsOwn
  <2> QED BY <1>3, <2>1, <2>2
<1>6. /\ UNCHANGED <<task, reported, cache, succeeded>> /\ inbox' = inbox \o written'
  BY DEF DaemonHandlesRequest, history_vars
<1>7. \A opc : Known(opc, p)' =>
        Known(opc, p) \/ \E i \in DOMAIN written' : written'[i].opc = opc /\ written'[i].path = p
  BY <1>4, <1>6, KnownByRelay
<1>8. ToldTruly BY RequestIsHandled, NextTellsTruly
<1>9. (NoStart(p) => NoStart(p)') /\ (Late(r)' <=> Late(r)) BY <1>2, <1>6 DEF NoStart, Late
<1>10. StopIsLast(r)'
  <2>1. ASSUME stopping' = p PROVE Late(r)' /\ NoStart(p)'
    <3>1. m = StopOf(p) BY <1>1, <1>5, <2>1
    <3>2. Late(r) /\ NoStartAfter(1, p) BY <1>1, <1>2, <3>1 DEF Truthful, StopIsLast
    <3> QED BY <1>2, <1>9, <3>2 DEF NoStart, NoStartAfter
  <2>2. ASSUME NEW i \in DOMAIN outbox', outbox'[i] = StopOf(p)
        PROVE  Late(r)' /\ NoStartAfter(i, p)'
    <3>1. Late(r) /\ NoStartAfter(i + 1, p)
      BY <1>1, <1>2, <2>2 DEF Truthful, StopIsLast
    <3>2. outbox \in Seq(Requests) /\ outbox' \in Seq(Requests)
      <4>1. outbox # <<>> /\ outbox' = Tail(outbox) BY DEF DaemonHandlesRequest
      <4> QED BY <4>1, HeadIsRequest DEF TesterTypeOK, Requests
    <3>3. \A j \in DOMAIN outbox' : j > i => j + 1 > i + 1 BY <2>2, <3>2
    <3> QED BY <1>2, <1>9, <3>1, <3>3 DEF NoStartAfter
  <2> QED BY <2>1, <2>2 DEF StopIsLast
<1>11. StopIsFinal(r)'
  <2>1. ~ \E i \in DOMAIN written' : written'[i].opc = "kStopSuccess" /\ written'[i].path = p
    BY <1>1, <1>5, <1>8 DEF ToldTruly
  <2>2. ASSUME Known("kStopSuccess", p) \/ "stopped" \in reported[r]
        PROVE  Late(r)' /\ ~Persistent(p) /\ p \notin tasks' /\ NoStart(p)'
    <3>1. Late(r) /\ ~Persistent(p) /\ p \notin tasks /\ NoStart(p)
      BY <1>1, <2>2 DEF Truthful, StopIsFinal
    <3>2. m # StartOf(p) BY <1>2, <3>1 DEF NoStart
    <3> QED BY <1>5, <1>9, <3>1, <3>2
  <2> QED BY <1>6, <1>7, <2>1, <2>2 DEF StopIsFinal
<1>12. SuccessIsTold(r)'
  <2>1. ASSUME NEW i \in DOMAIN written', written'[i].opc = "kExcutedOver", written'[i].path = p
        PROVE  p \in succeeded'
    <3>1. PICK c \in Pids : pid[p] = c /\ process[c].is = "ok"
      BY <1>1, <1>5, <1>8, <2>1 DEF ToldTruly
    <3>2. process[c].path = p BY <1>1, <1>4, <3>1, DaemonAssumption DEF PidsAreHeld
    <3> QED BY <1>6, <3>1, <3>2 DEF TrueReports, SuccessIsKept
  <2> QED BY <1>1, <1>6, <1>7, <1>9, <2>1 DEF Truthful, SuccessIsTold
<1> QED BY <1>10, <1>11, <1>12 DEF Truthful

(* The rest of it, for each kind of step.                                  *)
LEMMA TesterStepKeepsRest ==
  ASSUME TesterTypeOK, TrueReports, TesterStep
  PROVE  (DiskIsOwn /\ SuccessIsKept /\ OnceIsWatched)'
<1> USE TesterAssumption
<1>1. /\ task \in [Tasks -> Positions] /\ disk \in [Paths -> Holdings]
      /\ DiskIsOwn /\ SuccessIsKept /\ OnceIsWatched
  BY DEF TesterTypeOK, Positions, Holdings, TrueReports
<1>2. UNCHANGED succeeded /\ UNCHANGED process
  <2>1. UNCHANGED succeeded
    BY DEF TesterStep, ReceiveTask, ReceiveDiagData, ReadAnswer, AnswerTimesOut, UserAnswers,
           PreparationFails, Unpack, WriteConfiguration, SendStart, PollResult, TaskTimesOut, StopTimesOut, RemoveScript, Launch,
           history_vars
  <2> QED BY <2>1, TesterLeavesDaemon DEF daemon_vars
<1>3. SuccessIsKept' BY <1>1, <1>2 DEF SuccessIsKept
<1>4. DiskIsOwn'
  <2>1. ASSUME NEW r \in Tasks, NEW q \in {r, NoTask, Unconfigured}, disk' = [disk EXCEPT ![PathOf[r]] = q]
        PROVE  DiskIsOwn'
    BY <1>1, <2>1 DEF DiskIsOwn
  <2>2. CASE disk' = disk BY <1>1, <2>2 DEF DiskIsOwn
  <2>3. CASE \E r \in Tasks : Unpack(r)
    <3>1. PICK r \in Tasks : Unpack(r) BY <2>3
    <3>2. CASE disk[PathOf[r]] = NoTask BY <2>1, <3>1, <3>2 DEF Unpack
    <3>3. CASE disk[PathOf[r]] # NoTask
      <4>1. disk' = disk BY <1>1, <3>1, <3>3 DEF Unpack
      <4> QED BY <2>2, <4>1
    <3> QED BY <3>2, <3>3
  <2>4. CASE \E r \in Tasks : WriteConfiguration(r) \/ RemoveScript(r)
    BY <2>1, <2>2, <2>4 DEF WriteConfiguration, RemoveScript
  <2>5. CASE ~ \E r \in Tasks : Unpack(r) \/ WriteConfiguration(r) \/ RemoveScript(r)
    <3>1. disk' = disk
      BY <2>5 DEF TesterStep, ReceiveTask, ReceiveDiagData, ReadAnswer, AnswerTimesOut, UserAnswers,
             PreparationFails, SendStart, PollResult, TaskTimesOut, StopTimesOut
    <3> QED BY <2>2, <3>1
  <2> QED BY <2>3, <2>4, <2>5
<1>5. OnceIsWatched'
  <2>1. \/ task' = task
        \/ \E r \in Tasks, position \in Positions :
             /\ task' = [task EXCEPT ![r] = position]
             /\ position \in {"running", "stopping", "leaving"} =>
                  ~Persistent(PathOf[r]) \/ task[r] \in {"running", "stopping", "leaving"}
    <3>1. ASSUME NEW r \in Tasks, SendStart(r)
          PROVE  /\ task' = [task EXCEPT ![r] = IF Persistent(PathOf[r]) THEN "done" ELSE "running"]
      BY <3>1 DEF SendStart, Go
    <3>2. CASE \E r \in Tasks : SendStart(r) BY <3>1, <3>2 DEF Positions
    <3>3. CASE ~ \E r \in Tasks : SendStart(r)
      BY <3>3 DEF TesterStep, ReceiveTask, ReceiveDiagData, ReadAnswer, AnswerTimesOut, UserAnswers,
           PreparationFails, Unpack, WriteConfiguration, PollResult, TaskTimesOut, StopTimesOut, RemoveScript,
           Go, Launch, Positions
    <3> QED BY <3>2, <3>3
  <2>2. CASE task' = task BY <1>1, <2>2 DEF OnceIsWatched
  <2>3. ASSUME NEW r \in Tasks, NEW position \in Positions,
               task' = [task EXCEPT ![r] = position],
               position \in {"running", "stopping", "leaving"} =>
                 ~Persistent(PathOf[r]) \/ task[r] \in {"running", "stopping", "leaving"}
        PROVE  OnceIsWatched'
    BY <1>1, <2>3 DEF OnceIsWatched
  <2> QED BY <2>1, <2>2, <2>3
<1> QED BY <1>3, <1>4, <1>5

(* Every step of the two keeps all of it.                                  *)
LEMMA NextKeepsReportsTrue ==
  ASSUME Both, Both', TrueReports, [TesterNext]_vars
  PROVE  TrueReports'
<1>1. Shape /\ Shape' /\ TypeOK /\ TesterTypeOK BY DEF Both, Shape
<1>2. /\ DiskIsOwn /\ SuccessIsKept /\ OnceIsWatched
      /\ \A r \in Tasks : Alone(r) => Truthful(r)
  BY DEF TrueReports
<1>3. (\A r \in Tasks : Alone(r) => Truthful(r)') => \A r \in Tasks : (Alone(r) => Truthful(r))'
  BY DEF Alone
<1>4. CASE TesterStep
  <2>1. (DiskIsOwn /\ SuccessIsKept /\ OnceIsWatched)' BY <1>1, <1>4, TesterStepKeepsRest
  <2>2. \A r \in Tasks : Alone(r) => Truthful(r)' BY <1>1, <1>4, TesterStepTruthful
  <2> QED BY <1>3, <2>1, <2>2 DEF TrueReports
<1>5. CASE DaemonStep
  <2>1. Relay BY <1>5, DaemonStepIsOne
  <2>2. DiskIsOwn' /\ OnceIsWatched' BY <1>2, <2>1 DEF Relay, DiskIsOwn, OnceIsWatched
  <2>3. SuccessIsKept'
    <3>1. ASSUME NEW c \in Pids, process'[c].is = "ok"
          PROVE  process'[c].path \in succeeded'
      <4>1. \/ process'[c] = process[c]
            \/ process[c].is \in Scripts /\ process'[c].path = process[c].path
        BY <1>1, <1>5, <3>1, DaemonStartsNone DEF ScriptsSucceed
      <4>2. CASE process'[c] = process[c]
        BY <1>2, <2>1, <3>1, <4>2 DEF SuccessIsKept, Relay
      <4>3. CASE process[c].is \in Scripts /\ process'[c].path = process[c].path
        BY <2>1, <3>1, <4>3 DEF Relay
      <4> QED BY <4>1, <4>2, <4>3
    <3> QED BY <3>1 DEF SuccessIsKept
  <2>4. \A r \in Tasks : Alone(r) => Truthful(r)' BY <1>1, <1>5, DaemonStepTruthful
  <2> QED BY <1>3, <2>2, <2>3, <2>4 DEF TrueReports
<1>6. CASE TesterConnects
  <2>1. UNCHANGED <<task, reported, outbox, inbox, cache, disk, succeeded, stopping, tasks, process>>
    BY <1>6 DEF TesterConnects, ClientConnects, launch_vars, history_vars
  <2> QED BY <2>1 DEF TrueReports, DiskIsOwn, SuccessIsKept, OnceIsWatched, Alone, Truthful,
       StopIsLast, StopIsFinal, SuccessIsTold, Known, NoStart, NoStartAfter, Late
<1>7. CASE DaemonHandlesRequest
  <2>1. UNCHANGED <<task, disk, succeeded>> BY <1>7 DEF DaemonHandlesRequest, history_vars
  <2>2. DiskIsOwn' /\ OnceIsWatched' BY <1>2, <2>1 DEF DiskIsOwn, OnceIsWatched
  <2>3. NoneSucceeds BY <1>1, <1>7, RequestSucceedsNot
  <2>4. SuccessIsKept' BY <1>2, <2>1, <2>3 DEF NoneSucceeds, SuccessIsKept
  <2>5. \A r \in Tasks : Alone(r) => Truthful(r)' BY <1>1, <1>7, RequestTruthful
  <2> QED BY <1>3, <2>2, <2>4, <2>5 DEF TrueReports
<1>8. CASE UNCHANGED vars
  BY <1>8 DEF vars, tester_vars, channel_vars, history_vars, daemon_vars, TrueReports, DiskIsOwn, SuccessIsKept,
       OnceIsWatched, Alone, Truthful, StopIsLast, StopIsFinal, SuccessIsTold, Known, NoStart,
       NoStartAfter, Late
<1> QED BY <1>4, <1>5, <1>6, <1>7, <1>8, StepsOfTheTwo

(* At the start nothing has been said.                                     *)
LEMMA InitTrueReports == TesterInit => TrueReports
<1> SUFFICES ASSUME TesterInit PROVE TrueReports OBVIOUS
<1>1. /\ outbox = <<>> /\ inbox = <<>> /\ stopping = NoPath
      /\ \A p \in Paths : cache[p] = "none" /\ disk[p] \notin Tasks
      /\ \A r \in Tasks : task[r] = "new" /\ reported[r] = {}
      /\ \A c \in Pids : process[c].is = "none"
  BY TesterAssumption DEF TesterInit, Init, Free
<1>2. \A r \in Tasks : PathOf[r] \in Paths /\ PathOf[r] # NoPath
  BY TesterAssumption, DaemonAssumption
<1>3. \A r \in Tasks : Truthful(r)
  BY <1>1, <1>2 DEF Truthful, StopIsLast, StopIsFinal, SuccessIsTold, Known
<1> QED BY <1>1, <1>3 DEF TrueReports, DiskIsOwn, SuccessIsKept, OnceIsWatched

(* What the cloud is told is true of the script: ProcessDiagTaskResult and *)
(* ReceiveTask report "executed" of a task only when a script of its       *)
(* directory has exited with 0, and "stopped" only when the daemon has let *)
(* it go for good, although a stopped task is sent off with a kExcutedOver *)
(* that means nothing and both threads see the messages late.              *)
THEOREM ReportsAreTrue == TesterSpec => []ReportIsTrue
<1>1. TesterInit => TrueReports BY InitTrueReports
<1>2. Both /\ Both' /\ TrueReports /\ [TesterNext]_vars => TrueReports' BY NextKeepsReportsTrue
<1>3. TrueReports => ReportIsTrue
  BY DEF TrueReports, Truthful, StopIsFinal, SuccessIsTold, ReportIsTrue
<1> QED BY <1>1, <1>2, <1>3, BothInvariant, PTL DEF TesterSpec
=============================================================================
