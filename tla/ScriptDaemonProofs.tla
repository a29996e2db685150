-------------------------- MODULE ScriptDaemonProofs --------------------------
(***************************************************************************)
(* What TLAPS proves of ScriptDaemon, for every set of task directories,   *)
(* file names, types and priorities, and however many process identifiers. *)
(*                                                                         *)
(* Shape is what all the others need: who may hold a process, a timer or a *)
(* request, and that an ended child leaves a signal.  The rest stand on    *)
(* it, each with the strengthening it needs.                               *)
(***************************************************************************)
EXTENDS ScriptDaemon, TLAPS, FiniteSetTheorems, WellFoundedInduction, SequenceTheorems

-----------------------------------------------------------------------------
(* The invariants.                                                         *)

Cells == {Free} \cup [is : Scripts \cup Ended, path : Paths]
                \cup [is : {"clone"} \cup Ended, path : {NoPath}]

(* Nobody is connected, and nothing is written, unless the poller runs.    *)
IdleUnlessRunning == up # "running" => ~connected /\ written = <<>>

(* A process identifier is held by a task that is there and not about to   *)
(* go, and leads to a script of that task, which SIGTERM was not sent to.  *)
PidsAreHeld ==
  \A p \in Paths : pid[p] # NoPid =>
    /\ p \in tasks /\ p # stopping
    /\ process[pid[p]].path = p /\ process[pid[p]].is \in {"script"} \cup Ended

(* So is a fork request that has a continuation.                           *)
PendingAreHeld ==
  \A i \in DOMAIN queue : queue[i].state = "pending" =>
    queue[i].path \in tasks /\ queue[i].path # stopping

(* Only a temp task goes, only a periodic one has a timer, and only an     *)
(* event task waits for vehicle states.                                    *)
KindsAreKept ==
  /\ \A p \in armed : TypeOf[p] = "periodic"
  /\ \A p \in awaiting : TypeOf[p] = "event"
  /\ stopping # NoPath => TypeOf[stopping] = "temp" /\ stopping \in tasks
  /\ notifier.path # NoPath => TypeOf[notifier.path] = "event" /\ notifier.path \in tasks

(* Links are loaded while the daemon starts, and before anything else.     *)
LinksAreLoaded ==
  /\ \A f \in toload : up = "loading" /\ links[f] # NoPath
  /\ up # "running" => stopping = NoPath

(* current_pid_ leads to a child of this daemon, and when that has ended,  *)
(* its SIGCHLD is still to be read.                                        *)
EndIsSignalled ==
  current # NoPid =>
    /\ process[current].is \notin {"none", "stray"}
    /\ process[current].is \in Ended => sigchld

Shape ==
  /\ TypeOK /\ IdleUnlessRunning /\ PidsAreHeld /\ PendingAreHeld
  /\ KindsAreKept /\ LinksAreLoaded /\ EndIsSignalled

-----------------------------------------------------------------------------
(* The top of the fork queue.                                              *)

(* A set of natural numbers that is not empty has a least one.             *)
LEMMA LeastNatural ==
  ASSUME NEW T, T \subseteq Nat, T # {}
  PROVE  \E x \in T : \A y \in T : x <= y
<1>1. \A m, n \in Nat : m < n => <<m, n>> \in OpToRel(<, Nat) BY DEF OpToRel
<1>2. IsWellFoundedOn(OpToRel(<, Nat), Nat) BY NatLessThanWellFounded
<1>3. \E R : (\A m, n \in Nat : m < n => <<m, n>> \in R) /\ IsWellFoundedOn(R, Nat)
  BY <1>1, <1>2, Zenon
<1>4. PICK R : (\A m, n \in Nat : m < n => <<m, n>> \in R) /\ IsWellFoundedOn(R, Nat)
  BY <1>3
<1>5. IsWellFoundedOn(R, Nat) BY <1>4
<1>6. \E x \in T : \A y \in T : ~(<<y, x>> \in R) BY <1>5, WFMin
<1>7. PICK x \in T : \A y \in T : ~(<<y, x>> \in R) BY <1>6
<1>8. \A y \in T : ~(y < x) BY <1>4, <1>7
<1> QED BY <1>7, <1>8

(* The priority queue has a top: the request that the fewest are above.    *)
LEMMA TopIsRequest ==
  ASSUME TypeOK, queue # <<>>
  PROVE  Top \in DOMAIN queue
<1> DEFINE Ahead(i) == {j \in DOMAIN queue : Above(j, i)}
           Ranks == {Cardinality(Ahead(i)) : i \in DOMAIN queue}
<1>1. DOMAIN queue = 1 .. Len(queue) /\ Len(queue) \in Nat /\ Len(queue) # 0
  BY LenProperties, EmptySeq DEF TypeOK
<1>2. \A i \in DOMAIN queue : queue[i].path \in Paths /\ TaskPriority[queue[i].path] \in Nat
  <2>1. queue \in Seq(ForkRequests) BY DEF TypeOK
  <2>2. \A i \in DOMAIN queue : queue[i] \in ForkRequests BY <1>1, <2>1, ElementOfSeq
  <2> QED BY <2>2, DaemonAssumption DEF ForkRequests
<1>3. \A i \in DOMAIN queue : IsFiniteSet(Ahead(i)) /\ Cardinality(Ahead(i)) \in Nat
  <2> SUFFICES ASSUME NEW i \in DOMAIN queue
               PROVE  IsFiniteSet(Ahead(i)) /\ Cardinality(Ahead(i)) \in Nat
    OBVIOUS
  <2>1. IsFiniteSet(1 .. Len(queue)) BY <1>1, FS_Interval
  <2>2. Ahead(i) \in SUBSET (1 .. Len(queue)) BY <1>1
  <2>3. IsFiniteSet(Ahead(i)) BY <2>1, <2>2, FS_Subset
  <2> QED BY <2>3, FS_CardinalityType
<1>4. Ranks \subseteq Nat /\ Ranks # {}
  <2> HIDE DEF Ahead
  <2>1. 1 \in DOMAIN queue BY <1>1
  <2> QED BY <1>3, <2>1
<1> HIDE DEF Ranks
<1>5. PICK r \in Ranks : \A y \in Ranks : r <= y BY <1>4, LeastNatural
<1>6. PICK i \in DOMAIN queue : r = Cardinality(Ahead(i)) BY <1>5 DEF Ranks
<1>7. ASSUME NEW j \in DOMAIN queue \ {i}
      PROVE  Above(i, j)
  <2> SUFFICES ASSUME ~Above(i, j)
               PROVE  FALSE
    OBVIOUS
  <2>1. Above(j, i) BY <1>1, <1>2, <1>7 DEF Above
  <2>2. ~Above(j, j) BY <1>1, <1>2, <1>7 DEF Above
  <2>3. Ahead(j) \subseteq Ahead(i) BY <1>1, <1>2, <1>7, <2>1 DEF Above
  <2>4. Ahead(j) # Ahead(i) BY <2>1, <2>2
  <2>5. Cardinality(Ahead(j)) < Cardinality(Ahead(i))
    <3>1. IsFiniteSet(Ahead(i)) /\ Cardinality(Ahead(i)) \in Nat BY <1>3
    <3>2. Cardinality(Ahead(j)) \in Nat BY <1>3
    <3>3. Ahead(j) \in SUBSET Ahead(i) BY <2>3
    <3> HIDE DEF Ahead
    <3> QED BY <2>4, <3>1, <3>2, <3>3, FS_Subset
  <2>6. Cardinality(Ahead(j)) \in Ranks BY DEF Ranks
  <2>7. Cardinality(Ahead(i)) <= Cardinality(Ahead(j)) BY <1>5, <1>6, <2>6
  <2>8. Cardinality(Ahead(i)) \in Nat /\ Cardinality(Ahead(j)) \in Nat BY <1>3
  <2> HIDE DEF Ahead
  <2> QED BY <2>5, <2>7, <2>8
<1>8. \A j \in DOMAIN queue \ {i} : Above(i, j) BY <1>7
<1> QED BY <1>8 DEF Top

(* Popping a request leaves the others.                                    *)
LEMMA RequestRemoved ==
  ASSUME queue \in Seq(ForkRequests), NEW i \in DOMAIN queue, queue' = RemoveAt(queue, i)
  PROVE  /\ queue' \in Seq(ForkRequests)
         /\ \A j \in DOMAIN queue' : \E k \in DOMAIN queue : queue'[j] = queue[k]
<1> DEFINE before == SubSeq(queue, 1, i - 1)
           after == SubSeq(queue, i + 1, Len(queue))
<1>1. DOMAIN queue = 1 .. Len(queue) /\ Len(queue) \in Nat BY LenProperties
<1>2. \A j \in 1 .. Len(queue) : queue[j] \in ForkRequests BY ElementOfSeq
<1>3. /\ before \in Seq(ForkRequests) /\ Len(before) = i - 1
      /\ \A j \in 1 .. i - 1 : before[j] = queue[j]
  <2>1. \A j \in 1 .. i - 1 : queue[j] \in ForkRequests BY <1>1, <1>2
  <2>2. /\ before \in Seq(ForkRequests)
        /\ Len(before) = IF 1 <= i - 1 THEN i - 1 - 1 + 1 ELSE 0
        /\ \A j \in 1 .. i - 1 - 1 + 1 : before[j] = queue[1 + j - 1]
    BY <1>1, <2>1, SubSeqProperties
  <2> QED BY <1>1, <2>2
<1>4. /\ after \in Seq(ForkRequests) /\ Len(after) = Len(queue) - i
      /\ \A j \in 1 .. Len(queue) - i : after[j] = queue[i + j]
  <2>1. \A j \in i + 1 .. Len(queue) : queue[j] \in ForkRequests BY <1>1, <1>2
  <2>2. /\ after \in Seq(ForkRequests)
        /\ Len(after) = IF i + 1 <= Len(queue) THEN Len(queue) - (i + 1) + 1 ELSE 0
        /\ \A j \in 1 .. Len(queue) - (i + 1) + 1 : after[j] = queue[i + 1 + j - 1]
    BY <1>1, <2>1, SubSeqProperties
  <2> QED BY <1>1, <2>2
<1> HIDE DEF before, after
<1>5. queue' = before \o after BY DEF RemoveAt, before, after
<1>6. /\ queue' \in Seq(ForkRequests)
      /\ Len(queue') = Len(before) + Len(after)
      /\ \A j \in 1 .. Len(before) + Len(after) :
           queue'[j] = IF j <= Len(before) THEN before[j] ELSE after[j - Len(before)]
  <2>1. /\ before \o after \in Seq(ForkRequests)
        /\ Len(before \o after) = Len(before) + Len(after)
        /\ \A j \in 1 .. Len(before) + Len(after) :
             (before \o after)[j] = IF j <= Len(before) THEN before[j] ELSE after[j - Len(before)]
    BY <1>3, <1>4, ConcatProperties
  <2> QED BY <1>5, <2>1
<1>7. DOMAIN queue' = 1 .. Len(queue') BY <1>6, LenProperties
<1>8. ASSUME NEW j \in DOMAIN queue'
      PROVE  \E k \in DOMAIN queue : queue'[j] = queue[k]
  <2>1. CASE j <= i - 1 BY <1>1, <1>3, <1>4, <1>6, <1>7, <1>8, <2>1
  <2>2. CASE ~(j <= i - 1)
    <3>1. j - (i - 1) \in 1 .. Len(queue) - i BY <1>1, <1>3, <1>4, <1>6, <1>7, <1>8, <2>2
    <3>2. after[j - (i - 1)] = queue[i + (j - (i - 1))] BY <1>4, <3>1
    <3>3. queue'[j] = after[j - (i - 1)] BY <1>1, <1>3, <1>4, <1>6, <1>7, <1>8, <2>2
    <3>4. i + (j - (i - 1)) \in DOMAIN queue BY <1>1, <3>1
    <3> QED BY <3>2, <3>3, <3>4
  <2> QED BY <2>1, <2>2
<1> QED BY <1>6, <1>8

(* A request put into the queue is the only new one with a continuation.   *)
LEMMA RequestPushed ==
  ASSUME queue \in Seq(ForkRequests), NEW p \in Paths, PushRequest(p)
  PROVE  /\ queue' \in Seq(ForkRequests)
         /\ \A j \in DOMAIN queue' : queue'[j].state = "pending" =>
              queue'[j].path = p \/ \E k \in DOMAIN queue : queue'[j] = queue[k]
<1> DEFINE old == [i \in DOMAIN queue |->
                     IF queue[i].path = p /\ queue[i].state = "pending"
                     THEN [queue[i] EXCEPT !.state = "orphaned"] ELSE queue[i]]
           new == [path |-> p, state |-> "pending"]
<1>1. DOMAIN queue = 1 .. Len(queue) /\ Len(queue) \in Nat BY LenProperties
<1>2. \A i \in DOMAIN queue : queue[i] \in ForkRequests BY <1>1, ElementOfSeq
<1>3. \A i \in DOMAIN queue : [queue[i] EXCEPT !.state = "orphaned"] \in ForkRequests
  BY <1>2 DEF ForkRequests
<1>4. new \in ForkRequests BY DEF ForkRequests
<1>5. \A i \in DOMAIN queue : old[i] \in ForkRequests BY <1>2, <1>3
<1>6. old \in [1 .. Len(queue) -> ForkRequests] BY <1>1, <1>5
<1>7. old \in Seq(ForkRequests) /\ Len(old) = Len(queue) BY <1>1, <1>6
<1>8. \A i \in DOMAIN queue : old[i].state = "pending" => old[i] = queue[i]
  BY <1>2 DEF ForkRequests
<1> HIDE DEF old, new
<1>9. queue' = Append(old, new) BY DEF PushRequest, old, new
<1>10. /\ Append(old, new) \in Seq(ForkRequests)
       /\ DOMAIN Append(old, new) = 1 .. Len(queue) + 1
       /\ \A i \in 1 .. Len(queue) : Append(old, new)[i] = old[i]
       /\ Append(old, new)[Len(queue) + 1] = new
  BY <1>1, <1>4, <1>7
<1>11. new.path = p BY DEF new
<1> QED BY <1>1, <1>8, <1>9, <1>10, <1>11

(* Task::Stop leaves the task no request with a continuation.              *)
LEMMA RequestsCancelled ==
  ASSUME queue \in Seq(ForkRequests), NEW p \in Paths, StopTask(p)
  PROVE  /\ queue' \in Seq(ForkRequests) /\ DOMAIN queue' = DOMAIN queue
         /\ \A i \in DOMAIN queue : queue'[i].state = "pending" =>
              queue'[i] = queue[i] /\ queue[i].path # p
<1>1. DOMAIN queue = 1 .. Len(queue) /\ Len(queue) \in Nat BY LenProperties
<1>2. \A i \in DOMAIN queue : queue[i] \in ForkRequests BY <1>1, ElementOfSeq
<1>3. queue' = [i \in DOMAIN queue |->
                  IF queue[i].path = p /\ queue[i].state = "pending"
                  THEN [queue[i] EXCEPT !.state = "cancelling"] ELSE queue[i]]
  BY DEF StopTask
<1>4. \A i \in DOMAIN queue : [queue[i] EXCEPT !.state = "cancelling"] \in ForkRequests
  BY <1>2 DEF ForkRequests
<1>5. \A i \in DOMAIN queue : queue'[i] \in ForkRequests BY <1>2, <1>3, <1>4
<1>6. queue' \in [1 .. Len(queue) -> ForkRequests] BY <1>1, <1>3, <1>5
<1>7. queue' \in Seq(ForkRequests) /\ DOMAIN queue' = DOMAIN queue BY <1>1, <1>6
<1>8. \A i \in DOMAIN queue : queue'[i].state = "pending" =>
        queue'[i] = queue[i] /\ queue[i].path # p
  BY <1>2, <1>3 DEF ForkRequests
<1> QED BY <1>7, <1>8

-----------------------------------------------------------------------------
(* What starting a script does.                                            *)

(* The entries of the process table that the daemon makes.                 *)
LEMMA CellsMade ==
  ASSUME NEW p \in Paths
  PROVE  /\ Free \in Cells
         /\ Child("script", p) \in Cells /\ Child("stopped", p) \in Cells
         /\ Child("stray", p) \in Cells /\ Child("clone", NoPath) \in Cells
         /\ Child("script", p).is = "script" /\ Child("script", p).path = p
         /\ Child("stopped", p).is = "stopped" /\ Child("clone", NoPath).is = "clone"
         /\ Child("stray", p).is = "stray" /\ Free.is = "none"
  BY DEF Cells, Child, Free, Scripts, Ended

(* A running child belongs to a path, but for a clone of the daemon, and   *)
(* still does when it has ended.                                           *)
LEMMA CellEnds ==
  ASSUME NEW cell \in Cells, NEW result \in Ended
  PROVE  /\ cell.is \in Scripts => cell.path \in Paths
         /\ cell.is \in Running => [cell EXCEPT !.is = result] \in Cells
         /\ [cell EXCEPT !.is = result].is = result
         /\ [cell EXCEPT !.is = result].path = cell.path
<1>1. CASE cell = Free BY <1>1 DEF Free, Running, Scripts
<1>2. CASE cell \in [is : Scripts \cup Ended, path : Paths]
  BY <1>2 DEF Cells, Scripts, Ended
<1>3. CASE cell \in [is : {"clone"} \cup Ended, path : {NoPath}]
  BY <1>3 DEF Cells, Scripts, Ended
<1> QED BY <1>1, <1>2, <1>3 DEF Cells

(* A message to the client, and what is said before it.                    *)
LEMMA MessageIsOne ==
  ASSUME NEW p \in Paths, NEW opc \in ScriptOpc, NEW said \in Seq(Messages)
  PROVE  Message(opc, p) \in Messages /\ Append(said, Message(opc, p)) \in Seq(Messages)
<1>1. Message(opc, p) \in Messages BY DEF Message, Messages
<1> QED BY <1>1

(* SendResult sends at most one message more, and only to a client.        *)
LEMMA ResultSent ==
  ASSUME NEW p \in Paths, NEW opc \in ScriptOpc, NEW said \in Seq(Messages),
         SendResult(opc, p, said)
  PROVE  /\ written' \in Seq(Messages) /\ (~connected => written' = <<>>)
         /\ sent' = sent \cup {p}
<1>1. Append(said, Message(opc, p)) \in Seq(Messages) BY MessageIsOne
<1>2. <<>> \in Seq(Messages) BY EmptySeq
<1> QED BY <1>1, <1>2 DEF SendResult, SendMessage

(* What a step does that starts the script of p, or asks for it: the       *)
(* process identifiers and requests of others are left alone, what is sent *)
(* is a message of p, and the child that is current runs.                  *)
Launches(p) ==
  /\ queue' \in Seq(ForkRequests)
  /\ current' \in Pids \cup {NoPid}
  /\ process' \in [Pids -> Cells]
  /\ pid' \in [Paths -> Pids \cup {NoPid}]
  /\ written' \in Seq(Messages) /\ (~connected => written' = <<>>)
  /\ sent \subseteq sent' /\ sent' \subseteq sent \cup {p}
  /\ \A j \in DOMAIN queue' : queue'[j].state = "pending" =>
       queue'[j].path = p \/ \E k \in DOMAIN queue : queue'[j] = queue[k]
  /\ \A q \in Paths \ {p} : pid'[q] = pid[q]
  /\ \A q \in Paths : pid'[q] # NoPid =>
       process'[pid'[q]].path = q /\ process'[pid'[q]].is \in {"script"} \cup Ended
  /\ current' # NoPid =>
       /\ process'[current'].is \notin {"none", "stray"}
       /\ process'[current'].is \in Ended => sigchld

(* A fork for p takes a free process identifier and makes it current, or   *)
(* fails, whether its request was just taken out of the queue or not.      *)
LEMMA ForkForLaunches ==
  ASSUME Shape, NEW p \in Paths, NEW said \in Seq(Messages), ForkFor(p, said),
         queue' \in Seq(ForkRequests),
         \A j \in DOMAIN queue' : \E k \in DOMAIN queue : queue'[j] = queue[k]
  PROVE  Launches(p)
<1>1. /\ queue \in Seq(ForkRequests) /\ pid \in [Paths -> Pids \cup {NoPid}]
      /\ process \in [Pids -> Cells]
  BY DEF Shape, TypeOK, Cells
<1>2. \A q \in Paths : pid[q] # NoPid =>
        pid[q] \in Pids /\ process[pid[q]].path = q
        /\ process[pid[q]].is \in {"script"} \cup Ended
  BY <1>1 DEF Shape, PidsAreHeld
<1>3. queue' \in Seq(ForkRequests)
      /\ \A j \in DOMAIN queue' : queue'[j].state = "pending" =>
           \E k \in DOMAIN queue : queue'[j] = queue[k]
  OBVIOUS
<1>4. CASE \E c \in Pids :
             /\ process[c] = Free
             /\ current' = c
             /\ process' = [process EXCEPT ![c] = Child("script", p)]
             /\ pid' = [pid EXCEPT ![p] = c]
             /\ SendMessage(Append(said, Message("kScriptRunning", p)))
             /\ UNCHANGED sent
  <2> PICK c \in Pids :
        /\ process[c] = Free
        /\ current' = c
        /\ process' = [process EXCEPT ![c] = Child("script", p)]
        /\ pid' = [pid EXCEPT ![p] = c]
        /\ SendMessage(Append(said, Message("kScriptRunning", p)))
        /\ UNCHANGED sent
    BY <1>4
  <2>1. written' \in Seq(Messages) /\ (~connected => written' = <<>>)
    BY MessageIsOne, EmptySeq DEF SendMessage, ScriptOpc
  <2>2. process' \in [Pids -> Cells] /\ pid' \in [Paths -> Pids \cup {NoPid}]
    BY <1>1, CellsMade
  <2>3. \A q \in Paths \ {p} : pid'[q] = pid[q] BY <1>1
  <2>4. pid'[p] = c /\ process'[c] = Child("script", p) BY <1>1
  <2>5. \A q \in Paths : pid'[q] # NoPid =>
          process'[pid'[q]].path = q /\ process'[pid'[q]].is \in {"script"} \cup Ended
    <3> SUFFICES ASSUME NEW q \in Paths, pid'[q] # NoPid
                 PROVE  process'[pid'[q]].path = q
                        /\ process'[pid'[q]].is \in {"script"} \cup Ended
      OBVIOUS
    <3>1. CASE q = p BY <2>4, <3>1, CellsMade
    <3>2. CASE q # p
      <4>1. pid'[q] = pid[q] /\ pid[q] # NoPid BY <2>3, <3>2
      <4>2. process[c].is = "none" BY DEF Free
      <4>3. pid[q] # c BY <1>2, <4>1, <4>2 DEF Ended
      <4>4. process'[pid[q]] = process[pid[q]] BY <1>1, <1>2, <4>1, <4>3
      <4> QED BY <1>2, <4>1, <4>4
    <3> QED BY <3>1, <3>2
  <2>6. process'[current'].is = "script" BY <2>4, CellsMade
  <2> QED BY <1>1, <1>3, <2>1, <2>2, <2>3, <2>5, <2>6 DEF Launches, Ended
<1>5. CASE current' = NoPid /\ SendResult("kUnKnown", p, said) /\ UNCHANGED <<process, pid>>
  <2>1. /\ written' \in Seq(Messages) /\ (~connected => written' = <<>>)
        /\ sent' = sent \cup {p}
    BY <1>5, ResultSent DEF ScriptOpc
  <2> QED BY <1>1, <1>2, <1>3, <1>5, <2>1 DEF Launches
<1> QED BY <1>4, <1>5 DEF ForkFor

(* So does Task::StartProcess, whichever way it goes.                      *)
LEMMA StartProcessLaunches ==
  ASSUME Shape, NEW p \in Paths, NEW said \in Seq(Messages), StartProcess(p, said)
  PROVE  Launches(p)
<1>1. /\ queue \in Seq(ForkRequests) /\ pid \in [Paths -> Pids \cup {NoPid}]
      /\ process \in [Pids -> Cells] /\ current \in Pids \cup {NoPid}
  BY DEF Shape, TypeOK, Cells
<1>2. \A q \in Paths : pid[q] # NoPid =>
        process[pid[q]].path = q /\ process[pid[q]].is \in {"script"} \cup Ended
  BY DEF Shape, PidsAreHeld
<1>3. current # NoPid =>
        /\ process[current].is \notin {"none", "stray"}
        /\ process[current].is \in Ended => sigchld
  BY DEF Shape, EndIsSignalled
<1>4. ASSUME SendMessage(said)
      PROVE  written' \in Seq(Messages) /\ (~connected => written' = <<>>)
  BY <1>4, EmptySeq DEF SendMessage
<1>5. CASE SendMessage(said) /\ UNCHANGED launch_vars
  BY <1>1, <1>2, <1>3, <1>4, <1>5 DEF Launches, launch_vars
<1>6. CASE SendResult("kConditionNotAllow", p, said) /\ UNCHANGED <<pid, queue, current, process>>
  <2>1. /\ written' \in Seq(Messages) /\ (~connected => written' = <<>>)
        /\ sent' = sent \cup {p}
    BY <1>6, ResultSent DEF ScriptOpc
  <2> QED BY <1>1, <1>2, <1>3, <1>6, <2>1 DEF Launches
<1>7. CASE PushRequest(p) /\ SendMessage(said) /\ UNCHANGED <<sent, pid, current, process>>
  BY <1>1, <1>2, <1>3, <1>4, <1>7, RequestPushed DEF Launches
<1>8. CASE ForkFor(p, said) /\ UNCHANGED queue BY <1>1, <1>8, ForkForLaunches
<1> QED BY <1>5, <1>6, <1>7, <1>8 DEF StartProcess, AsyncFork

(* Task::Start: the task is there, it runs, is asked for, or waits for its *)
(* timer or its conditions, as its type has it.                            *)
LEMMA StartTaskLaunches ==
  ASSUME Shape, NEW p \in Paths, NEW said \in Seq(Messages), StartTask(p, said)
  PROVE  /\ Launches(p) /\ tasks' = tasks \cup {p}
         /\ armed' = IF TypeOf[p] = "periodic" THEN armed \cup {p} ELSE armed
         /\ awaiting' = awaiting \/ (TypeOf[p] = "event" /\ awaiting' = awaiting \cup {p})
<1>1. /\ queue \in Seq(ForkRequests) /\ pid \in [Paths -> Pids \cup {NoPid}]
      /\ process \in [Pids -> Cells] /\ current \in Pids \cup {NoPid}
  BY DEF Shape, TypeOK, Cells
<1>2. \A q \in Paths : pid[q] # NoPid =>
        process[pid[q]].path = q /\ process[pid[q]].is \in {"script"} \cup Ended
  BY DEF Shape, PidsAreHeld
<1>3. current # NoPid =>
        /\ process[current].is \notin {"none", "stray"}
        /\ process[current].is \in Ended => sigchld
  BY DEF Shape, EndIsSignalled
<1>4. SendMessage(said) /\ UNCHANGED launch_vars => Launches(p)
  BY <1>1, <1>2, <1>3, EmptySeq DEF Launches, launch_vars, SendMessage
<1>5. StartProcess(p, said) => Launches(p) BY StartProcessLaunches
<1>6. Launches(p)
  <2>1. CASE StartProcess(p, said) BY <1>5, <2>1
  <2>2. CASE SendMessage(said) /\ UNCHANGED launch_vars BY <1>4, <2>2
  <2> QED BY <2>1, <2>2 DEF StartTask
<1>7. awaiting' = awaiting \/ (TypeOf[p] = "event" /\ awaiting' = awaiting \cup {p})
  BY DEF StartTask
<1> QED BY <1>6, <1>7 DEF StartTask

(* A launch for a task that is there and stays keeps the holders of        *)
(* processes and requests apart, and what is known of the current child.   *)
LEMMA LaunchIsHeld ==
  ASSUME Shape, NEW p \in Paths, Launches(p), p \in tasks', tasks \subseteq tasks',
         p # stopping, stopping' = stopping, sigchld' = sigchld
  PROVE  PidsAreHeld' /\ PendingAreHeld' /\ EndIsSignalled'
<1>1. PidsAreHeld /\ PendingAreHeld BY DEF Shape
<1>2. PidsAreHeld'
  <2> SUFFICES ASSUME NEW q \in Paths, pid'[q] # NoPid
               PROVE  q \in tasks' /\ q # stopping'
    BY DEF PidsAreHeld, Launches
  <2>1. q # p => pid[q] # NoPid BY DEF Launches
  <2> QED BY <1>1, <2>1 DEF PidsAreHeld
<1>3. PendingAreHeld'
  <2> SUFFICES ASSUME NEW j \in DOMAIN queue', queue'[j].state = "pending"
               PROVE  queue'[j].path \in tasks' /\ queue'[j].path # stopping'
    BY DEF PendingAreHeld
  <2>1. queue'[j].path = p \/ \E k \in DOMAIN queue : queue'[j] = queue[k] BY DEF Launches
  <2> QED BY <1>1, <2>1 DEF PendingAreHeld
<1>4. EndIsSignalled' BY DEF EndIsSignalled, Launches
<1> QED BY <1>2, <1>3, <1>4

-----------------------------------------------------------------------------
(* The steps.                                                              *)

(* At first nothing is there.                                              *)
LEMMA InitShape == Init => Shape
<1> SUFFICES ASSUME Init
             PROVE  Shape
  OBVIOUS
<1>1. TypeOK
  <2>1. <<>> \in Seq(ForkRequests) /\ <<>> \in Seq(Messages) BY EmptySeq
  <2>2. Quiet \in [path : Paths \cup {NoPath}, busy : BOOLEAN] BY DEF Quiet
  <2> QED BY <2>1, <2>2 DEF Init, TypeOK
<1>2. IdleUnlessRunning /\ PidsAreHeld /\ PendingAreHeld /\ LinksAreLoaded /\ EndIsSignalled
  BY DEF Init, IdleUnlessRunning, PidsAreHeld, PendingAreHeld, LinksAreLoaded, EndIsSignalled
<1>3. KindsAreKept BY DEF Init, KindsAreKept, Quiet
<1> QED BY <1>1, <1>2, <1>3 DEF Shape

(* When the daemon is gone, only its links and its scripts are left.       *)
LEMMA GoneKeepsShape ==
  ASSUME Shape, DaemonGone
  PROVE  Shape'
<1>1. TypeOK BY DEF Shape
<1>2. process \in [Pids -> Cells] BY <1>1 DEF TypeOK, Cells
<1>3. process' \in [Pids -> Cells]
  <2>1. \A c \in Pids : (IF process[c].is \in Scripts
                         THEN Child("stray", process[c].path) ELSE Free) \in Cells
    <3> SUFFICES ASSUME NEW c \in Pids
                 PROVE  (IF process[c].is \in Scripts
                         THEN Child("stray", process[c].path) ELSE Free) \in Cells
      OBVIOUS
    <3>1. CASE process[c].is \in Scripts
      <4>1. process[c] \in Cells BY <1>2
      <4>2. "ok" \in Ended BY DEF Ended
      <4>3. process[c].path \in Paths BY <3>1, <4>1, <4>2, CellEnds
      <4> QED BY <3>1, <4>3, CellsMade
    <3>2. CASE process[c].is \notin Scripts BY <3>2 DEF Cells
    <3> QED BY <3>1, <3>2
  <2> QED BY <2>1 DEF DaemonGone
<1>4. TypeOK'
  <2>1. <<>> \in Seq(ForkRequests) /\ <<>> \in Seq(Messages) BY EmptySeq
  <2>2. Quiet \in [path : Paths \cup {NoPath}, busy : BOOLEAN] BY DEF Quiet
  <2> QED BY <1>1, <1>3, <2>1, <2>2 DEF DaemonGone, TypeOK, Cells
<1>5. /\ IdleUnlessRunning' /\ PidsAreHeld' /\ PendingAreHeld' /\ LinksAreLoaded'
      /\ EndIsSignalled'
  BY DEF DaemonGone, IdleUnlessRunning, PidsAreHeld, PendingAreHeld, LinksAreLoaded, EndIsSignalled
<1>6. KindsAreKept' BY DEF DaemonGone, KindsAreKept, Quiet
<1> QED BY <1>4, <1>5, <1>6 DEF Shape

(* HandleExited frees the identifier and tells the one task that holds it. *)
LEMMA ReapKeeps ==
  ASSUME Shape, current # NoPid, ReapCurrent
  PROVE  /\ process' \in [Pids -> Cells] /\ current' = NoPid
         /\ pid' \in [Paths -> Pids \cup {NoPid}]
         /\ written' \in Seq(Messages) /\ (~connected => written' = <<>>)
         /\ sent \subseteq sent' /\ sent' \subseteq tasks
         /\ \A q \in Paths : pid'[q] # NoPid =>
              /\ pid'[q] = pid[q] /\ pid[q] # current
              /\ process'[pid[q]] = process[pid[q]]
<1>1. /\ pid \in [Paths -> Pids \cup {NoPid}] /\ process \in [Pids -> Cells]
      /\ current \in Pids /\ sent \subseteq tasks /\ tasks \subseteq Paths
  BY DEF Shape, TypeOK, Cells
<1>2. \A q \in Paths : pid[q] # NoPid => q \in tasks /\ pid[q] \in Pids /\ process[pid[q]].path = q
  BY <1>1 DEF Shape, PidsAreHeld
<1>3. process' = [process EXCEPT ![current] = Free] /\ current' = NoPid BY DEF ReapCurrent
<1>4. process' \in [Pids -> Cells] BY <1>1, <1>3 DEF Cells
<1>5. \A q \in Paths : pid[q] # NoPid /\ pid[q] # current => process'[pid[q]] = process[pid[q]]
  BY <1>1, <1>2, <1>3
<1>6. CASE \E p \in tasks :
             /\ pid[p] = current
             /\ pid' = [pid EXCEPT ![p] = NoPid]
             /\ \/ process[current].is = "ok" /\ SendResult("kExcutedOver", p, <<>>)
                \/ SendResult("kExcutedFaile", p, <<>>)
  <2> PICK p \in tasks :
        /\ pid[p] = current
        /\ pid' = [pid EXCEPT ![p] = NoPid]
        /\ \/ process[current].is = "ok" /\ SendResult("kExcutedOver", p, <<>>)
           \/ SendResult("kExcutedFaile", p, <<>>)
    BY <1>6
  <2>1. p \in Paths /\ <<>> \in Seq(Messages) BY <1>1, EmptySeq
  <2>2. written' \in Seq(Messages) /\ (~connected => written' = <<>>) /\ sent' = sent \cup {p}
    BY <2>1, ResultSent DEF ScriptOpc
  <2>3. pid' \in [Paths -> Pids \cup {NoPid}] BY <1>1
  <2>4. \A q \in Paths : pid'[q] # NoPid => pid'[q] = pid[q] /\ pid[q] # current
    BY <1>1, <1>2, <2>1
  <2> QED BY <1>1, <1>3, <1>4, <1>5, <2>2, <2>3, <2>4
<1>7. CASE /\ \A p \in tasks : pid[p] # current
           /\ written' = <<>>
           /\ UNCHANGED <<pid, sent>>
  BY <1>1, <1>2, <1>3, <1>4, <1>5, <1>7, EmptySeq
<1> QED BY <1>6, <1>7 DEF ReapCurrent

(* A persistence link is loaded: its task is started, if there is room.    *)
LEMMA LoadKeepsShape ==
  ASSUME Shape, NEW f \in Files, LoadPersistenceTask(f)
  PROVE  Shape'
<1>1. TypeOK /\ IdleUnlessRunning /\ PidsAreHeld /\ PendingAreHeld
      /\ KindsAreKept /\ LinksAreLoaded /\ EndIsSignalled
  BY DEF Shape
<1>2. /\ up = "loading" /\ f \in toload /\ stopping = NoPath
      /\ toload' \subseteq toload /\ toload' \subseteq Files
      /\ left_out' \subseteq Files
      /\ UNCHANGED <<up, connected, sigchld, draining, stopping, links, notifier_vars>>
  BY <1>1 DEF LoadPersistenceTask, LinksAreLoaded, TypeOK
<1>3. CASE UNCHANGED <<tasks, armed, awaiting, launch_vars, written>>
  <2>1. TypeOK' BY <1>1, <1>2, <1>3 DEF TypeOK, launch_vars, notifier_vars
  <2>2. IdleUnlessRunning' /\ PidsAreHeld' /\ PendingAreHeld'
    BY <1>1, <1>2, <1>3
    DEF IdleUnlessRunning, PidsAreHeld, PendingAreHeld, launch_vars
  <2>3. KindsAreKept' BY <1>1, <1>2, <1>3 DEF KindsAreKept, notifier_vars
  <2>4. LinksAreLoaded' /\ EndIsSignalled'
    BY <1>1, <1>2, <1>3 DEF LinksAreLoaded, EndIsSignalled, launch_vars
  <2> QED BY <2>1, <2>2, <2>3, <2>4 DEF Shape
<1>4. CASE StartTask(links[f], <<>>)
  <2>1. links[f] \in PersistentPaths /\ links[f] \in Paths /\ links[f] # stopping
    BY <1>1, <1>2, DaemonAssumption DEF TypeOK, LinksAreLoaded, PersistentPaths
  <2>2. <<>> \in Seq(Messages) BY EmptySeq
  <2>3. /\ Launches(links[f]) /\ tasks' = tasks \cup {links[f]}
        /\ armed' = IF TypeOf[links[f]] = "periodic" THEN armed \cup {links[f]} ELSE armed
        /\ \/ awaiting' = awaiting
           \/ TypeOf[links[f]] = "event" /\ awaiting' = awaiting \cup {links[f]}
    BY <1>4, <2>1, <2>2, StartTaskLaunches
  <2>4. TypeOK' BY <1>1, <1>2, <1>4, <2>1, <2>3 DEF TypeOK, Launches, Cells, notifier_vars
  <2>5. PidsAreHeld' /\ PendingAreHeld' /\ EndIsSignalled'
    BY <1>2, <2>1, <2>3, LaunchIsHeld
  <2>6. IdleUnlessRunning' BY <1>1, <1>2, <2>3 DEF IdleUnlessRunning, Launches
  <2>7. KindsAreKept' BY <1>1, <1>2, <2>1, <2>3 DEF KindsAreKept, notifier_vars
  <2>8. LinksAreLoaded' BY <1>1, <1>2, <1>4 DEF LinksAreLoaded
  <2> QED BY <2>4, <2>5, <2>6, <2>7, <2>8 DEF Shape
<1> QED BY <1>3, <1>4 DEF LoadPersistenceTask

(* A start request: refused with messages only, or a task more.            *)
LEMMA StartKeepsShape ==
  ASSUME Shape, NEW p \in Paths, NEW found \in {"missing", "empty", "script"},
         HandleStartTaskRequest(p, found)
  PROVE  Shape'
<1>1. TypeOK /\ IdleUnlessRunning /\ PidsAreHeld /\ PendingAreHeld
      /\ KindsAreKept /\ LinksAreLoaded /\ EndIsSignalled
  BY DEF Shape
<1> DEFINE waiting == <<Message("kWaiting", p)>>
<1>2. /\ up = "running" /\ connected /\ stopping = NoPath
      /\ UNCHANGED <<poller_vars, sigchld, notifier_vars, left_out>>
  BY DEF HandleStartTaskRequest, ClientReadable, Polling
<1>3. \A opc \in ScriptOpc : Message(opc, p) \in Messages BY DEF Message, Messages
<1>4. waiting \in Seq(Messages) BY <1>3 DEF ScriptOpc
<1>5. CASE /\ \E opcs \in Seq(Messages) : SendMessage(waiting \o opcs)
           /\ UNCHANGED <<tasks, armed, awaiting, launch_vars, links>>
  <2>1. PICK opcs \in Seq(Messages) : SendMessage(waiting \o opcs) BY <1>5
  <2>2. waiting \o opcs \in Seq(Messages) BY <1>4, ConcatProperties
  <2>3. written' \in Seq(Messages) BY <1>2, <2>1, <2>2 DEF SendMessage
  <2>4. TypeOK' BY <1>1, <1>2, <1>5, <2>3 DEF TypeOK, launch_vars, poller_vars, notifier_vars
  <2>5. IdleUnlessRunning' /\ PidsAreHeld' /\ PendingAreHeld'
    BY <1>1, <1>2, <1>5
    DEF IdleUnlessRunning, PidsAreHeld, PendingAreHeld, launch_vars, poller_vars
  <2>6. KindsAreKept' BY <1>1, <1>2, <1>5 DEF KindsAreKept, poller_vars, notifier_vars
  <2>7. LinksAreLoaded' /\ EndIsSignalled'
    BY <1>1, <1>2, <1>5 DEF LinksAreLoaded, EndIsSignalled, launch_vars, poller_vars
  <2> QED BY <2>4, <2>5, <2>6, <2>7 DEF Shape
<1>6. CASE StartTask(p, waiting) /\ LinkPersistent(p)
  <2>1. p # stopping BY <1>2, DaemonAssumption
  <2>2. /\ Launches(p) /\ tasks' = tasks \cup {p}
        /\ armed' = IF TypeOf[p] = "periodic" THEN armed \cup {p} ELSE armed
        /\ \/ awaiting' = awaiting
           \/ TypeOf[p] = "event" /\ awaiting' = awaiting \cup {p}
    BY <1>4, <1>6, StartTaskLaunches
  <2>3. links' \in [Files -> PersistentPaths \cup {NoPath}]
    BY <1>1, <1>6, DaemonAssumption DEF TypeOK, LinkPersistent, PersistentPaths, Persistent
  <2>4. TypeOK' BY <1>1, <1>2, <2>2, <2>3 DEF TypeOK, Launches, Cells, poller_vars, notifier_vars
  <2>5. PidsAreHeld' /\ PendingAreHeld' /\ EndIsSignalled'
    BY <1>2, <2>1, <2>2, LaunchIsHeld DEF poller_vars
  <2>6. IdleUnlessRunning' BY <1>2 DEF IdleUnlessRunning, poller_vars
  <2>7. KindsAreKept' BY <1>1, <1>2, <2>2 DEF KindsAreKept, poller_vars, notifier_vars
  <2>8. LinksAreLoaded' BY <1>1, <1>2 DEF LinksAreLoaded, poller_vars
  <2> QED BY <2>4, <2>5, <2>6, <2>7, <2>8 DEF Shape
<1>7. \A opc1, opc2 \in ScriptOpc :
        /\ <<Message(opc1, p)>> \in Seq(Messages)
        /\ <<Message(opc1, p), Message(opc2, p)>> \in Seq(Messages)
  BY <1>3
<1>8. /\ <<Message("kUnKnown", p)>> \in Seq(Messages)
      /\ <<Message("kNoscript", p)>> \in Seq(Messages)
      /\ <<Message("kUnKnown", p), Message("kUnKnown", p)>> \in Seq(Messages)
      /\ <<Message("kTooMany", p), Message("kUnKnown", p)>> \in Seq(Messages)
  BY <1>7 DEF ScriptOpc
<1>9. CASE ~(StartTask(p, waiting) /\ LinkPersistent(p))
  <2> DEFINE opcs == CASE found = "missing" -> <<Message("kUnKnown", p)>>
                       [] found # "missing" /\ p \in tasks ->
                            <<Message("kUnKnown", p), Message("kUnKnown", p)>>
                       [] found # "missing" /\ p \notin tasks /\ Cardinality(tasks) >= MaxTasks ->
                            <<Message("kTooMany", p), Message("kUnKnown", p)>>
                       [] OTHER -> <<Message("kNoscript", p)>>
  <2>1. /\ SendMessage(waiting \o opcs)
        /\ UNCHANGED <<tasks, armed, awaiting, launch_vars, links>>
    BY <1>9 DEF HandleStartTaskRequest
  <2>2. opcs \in Seq(Messages)
    <3>1. CASE found = "missing" BY <1>8, <3>1
    <3>2. CASE found # "missing" /\ p \in tasks BY <1>8, <3>2
    <3>3. CASE found # "missing" /\ p \notin tasks /\ Cardinality(tasks) >= MaxTasks
      BY <1>8, <3>3
    <3>4. CASE found # "missing" /\ p \notin tasks /\ ~(Cardinality(tasks) >= MaxTasks)
      BY <1>8, <3>4
    <3> QED BY <3>1, <3>2, <3>3, <3>4
  <2> HIDE DEF opcs
  <2> QED BY <1>5, <2>1, <2>2
<1> QED BY <1>6, <1>9

(* A stop request.                                                         *)
LEMMA StopKeepsShape ==
  ASSUME Shape, NEW p \in Paths, HandleStopTaskRequest(p)
  PROVE  Shape'
<1>1. TypeOK /\ IdleUnlessRunning /\ PidsAreHeld /\ PendingAreHeld
      /\ KindsAreKept /\ LinksAreLoaded /\ EndIsSignalled
  BY DEF Shape
<1>2. /\ up = "running" /\ connected /\ stopping = NoPath
      /\ UNCHANGED <<up, toload, connected, tasks, sent, current, sigchld, draining,
                     link_vars, notifier_vars>>
  BY DEF HandleStopTaskRequest, ClientReadable, Polling
<1>3. /\ <<Message("kUnKnown", p)>> \in Seq(Messages)
      /\ <<Message("kStoping", p)>> \in Seq(Messages)
  BY DEF Message, Messages, ScriptOpc
<1>4. CASE /\ SendMessage(<<Message("kUnKnown", p)>>)
           /\ UNCHANGED <<queue, pid, process, armed, awaiting, stopping>>
  <2>1. written' \in Seq(Messages) BY <1>2, <1>3, <1>4 DEF SendMessage
  <2>2. TypeOK' BY <1>1, <1>2, <1>4, <2>1 DEF TypeOK, notifier_vars, link_vars
  <2>3. IdleUnlessRunning' /\ PidsAreHeld' /\ PendingAreHeld'
    BY <1>1, <1>2, <1>4 DEF IdleUnlessRunning, PidsAreHeld, PendingAreHeld
  <2>4. KindsAreKept' BY <1>1, <1>2, <1>4 DEF KindsAreKept, notifier_vars
  <2>5. LinksAreLoaded' /\ EndIsSignalled'
    BY <1>1, <1>2, <1>4 DEF LinksAreLoaded, EndIsSignalled
  <2> QED BY <2>2, <2>3, <2>4, <2>5 DEF Shape
<1>5. CASE p \in tasks /\ SendMessage(<<Message("kStoping", p)>>) /\ StopTask(p)
  <2>1. written' \in Seq(Messages) BY <1>2, <1>3, <1>5 DEF SendMessage
  <2>2. /\ queue' \in Seq(ForkRequests) /\ DOMAIN queue' = DOMAIN queue
        /\ \A i \in DOMAIN queue : queue'[i].state = "pending" =>
             queue'[i] = queue[i] /\ queue[i].path # p
    BY <1>1, <1>5, RequestsCancelled DEF TypeOK
  <2>3. /\ pid' = [pid EXCEPT ![p] = NoPid]
        /\ process' = [c \in Pids |-> IF pid[p] = c /\ process[c].is = "script"
                                      THEN Child("stopped", p) ELSE process[c]]
        /\ armed' = armed \ {p} /\ awaiting' = awaiting \ {p}
        /\ stopping' = IF TypeOf[p] = "temp" THEN p ELSE stopping
    BY <1>5 DEF StopTask
  <2>4. process \in [Pids -> Cells] /\ pid \in [Paths -> Pids \cup {NoPid}] BY <1>1 DEF TypeOK, Cells
  <2>5. process' \in [Pids -> Cells] BY <2>3, <2>4, CellsMade
  <2>6. pid'[p] = NoPid /\ \A q \in Paths \ {p} : pid'[q] = pid[q] BY <2>3, <2>4
  <2>7. TypeOK' BY <1>1, <1>2, <2>1, <2>2, <2>3, <2>5 DEF TypeOK, Cells, notifier_vars, link_vars
  <2>8. IdleUnlessRunning' BY <1>2 DEF IdleUnlessRunning
  <2>9. PidsAreHeld'
    <3> SUFFICES ASSUME NEW q \in Paths, pid'[q] # NoPid
                 PROVE  /\ q \in tasks /\ q # stopping'
                        /\ process'[pid[q]].path = q
                        /\ process'[pid[q]].is \in {"script"} \cup Ended
                        /\ pid'[q] = pid[q]
      BY <1>2 DEF PidsAreHeld
    <3>1. q # p /\ pid'[q] = pid[q] /\ pid[q] # NoPid BY <2>6
    <3>2. /\ q \in tasks /\ process[pid[q]].path = q
          /\ process[pid[q]].is \in {"script"} \cup Ended
      BY <1>1, <3>1 DEF PidsAreHeld
    <3>3. q # stopping' BY <1>2, <2>3, <3>1, DaemonAssumption
    <3>4. pid[p] # pid[q]
      <4>1. pid[p] # NoPid => process[pid[p]].path = p BY <1>1 DEF PidsAreHeld
      <4> QED BY <3>1, <3>2, <4>1
    <3>5. process'[pid[q]] = process[pid[q]] BY <2>3, <2>4, <3>1, <3>4
    <3> QED BY <3>1, <3>2, <3>3, <3>5
  <2>10. PendingAreHeld'
    <3> SUFFICES ASSUME NEW i \in DOMAIN queue, queue'[i].state = "pending"
                 PROVE  queue'[i].path \in tasks /\ queue'[i].path # stopping'
      BY <1>2, <2>2 DEF PendingAreHeld
    <3>1. queue'[i] = queue[i] /\ queue[i].path # p BY <2>2
    <3>2. queue[i].path \in tasks BY <1>1, <3>1 DEF PendingAreHeld
    <3>3. queue[i].path \in Paths BY <1>1, <3>2 DEF TypeOK
    <3> QED BY <1>2, <2>3, <3>1, <3>2, <3>3, DaemonAssumption
  <2>11. KindsAreKept' BY <1>1, <1>2, <1>5, <2>3 DEF KindsAreKept, notifier_vars
  <2>12. LinksAreLoaded' BY <1>1, <1>2 DEF LinksAreLoaded
  <2>13. EndIsSignalled'
    <3> SUFFICES ASSUME current # NoPid
                 PROVE  /\ process'[current].is \notin {"none", "stray"}
                        /\ process'[current].is \in Ended => sigchld
      BY <1>2 DEF EndIsSignalled
    <3>1. current \in Pids BY <1>1 DEF TypeOK
    <3>2. process'[current] = process[current] \/ process'[current] = Child("stopped", p)
      BY <2>3, <3>1
    <3>3. /\ process[current].is \notin {"none", "stray"}
          /\ process[current].is \in Ended => sigchld
      BY <1>1 DEF EndIsSignalled
    <3> QED BY <3>2, <3>3, CellsMade DEF Ended
  <2> QED BY <2>7, <2>8, <2>9, <2>10, <2>11, <2>12, <2>13 DEF Shape
<1> QED BY <1>4, <1>5 DEF HandleStopTaskRequest

(* The scheduled end of a temp task, which nothing waits for any more.     *)
LEMMA TaskQueueKeepsShape ==
  ASSUME Shape, RunTaskQueue
  PROVE  Shape'
<1>1. TypeOK /\ IdleUnlessRunning /\ PidsAreHeld /\ PendingAreHeld
      /\ KindsAreKept /\ LinksAreLoaded /\ EndIsSignalled
  BY DEF Shape
<1>2. /\ up = "running" /\ stopping # NoPath /\ stopping' = NoPath
      /\ links' = [links EXCEPT ![FileOf[stopping]] = NoPath]
      /\ tasks' = tasks \ {stopping} /\ sent' = sent \ {stopping}
      /\ left_out' = left_out \ {FileOf[stopping]}
      /\ UNCHANGED <<up, toload, connected, armed, awaiting, pid, queue, current, process,
                     sigchld, draining, notifier_vars>>
  BY DEF RunTaskQueue, Polling
<1>3. stopping \in Paths /\ TypeOf[stopping] = "temp" BY <1>1, <1>2 DEF TypeOK, KindsAreKept
<1>4. written' \in Seq(Messages)
  <2>1. /\ <<>> \in Seq(Messages)
        /\ <<Message("kExcutedOver", stopping)>> \in Seq(Messages)
    BY <1>3, EmptySeq DEF Message, Messages, ScriptOpc
  <2>2. \A said \in Seq(Messages) : Append(said, Message("kStopSuccess", stopping)) \in Seq(Messages)
    BY <1>3, MessageIsOne DEF ScriptOpc
  <2> QED BY <2>1, <2>2 DEF RunTaskQueue, SendMessage
<1>5. armed \subseteq tasks' /\ awaiting \subseteq tasks' /\ sent' \subseteq tasks'
  BY <1>1, <1>2, <1>3 DEF TypeOK, KindsAreKept
<1>6. links' \in [Files -> PersistentPaths \cup {NoPath}] BY <1>1, <1>2 DEF TypeOK
<1>7. TypeOK' BY <1>1, <1>2, <1>4, <1>5, <1>6 DEF TypeOK, notifier_vars
<1>8. IdleUnlessRunning' BY <1>2 DEF IdleUnlessRunning
<1>9. PidsAreHeld' BY <1>1, <1>2, DaemonAssumption DEF PidsAreHeld
<1>10. PendingAreHeld' BY <1>1, <1>2, DaemonAssumption DEF PendingAreHeld, TypeOK
<1>11. KindsAreKept' BY <1>1, <1>2, <1>3 DEF KindsAreKept, notifier_vars
<1>12. LinksAreLoaded' BY <1>1, <1>2 DEF LinksAreLoaded
<1>13. EndIsSignalled' BY <1>1, <1>2 DEF EndIsSignalled
<1> QED BY <1>7, <1>8, <1>9, <1>10, <1>11, <1>12, <1>13 DEF Shape

(* The timer of a periodic task.                                           *)
LEMMA TimerKeepsShape ==
  ASSUME Shape, NEW p \in Paths, TimerFires(p)
  PROVE  Shape'
<1>1. TypeOK /\ IdleUnlessRunning /\ KindsAreKept /\ LinksAreLoaded BY DEF Shape
<1>2. /\ up = "running" /\ p \in armed /\ StartProcess(p, <<>>)
      /\ UNCHANGED <<poller_vars, tasks, armed, awaiting, sigchld, link_vars, notifier_vars>>
  BY DEF TimerFires, Polling
<1>3. p \in tasks /\ TypeOf[p] = "periodic" BY <1>1, <1>2 DEF TypeOK, KindsAreKept
<1>4. p # stopping BY <1>1, <1>3, DaemonAssumption DEF KindsAreKept
<1>5. Launches(p) BY <1>2, EmptySeq, StartProcessLaunches
<1>6. TypeOK' BY <1>1, <1>2, <1>3, <1>5 DEF TypeOK, Launches, Cells, poller_vars, notifier_vars, link_vars
<1>7. PidsAreHeld' /\ PendingAreHeld' /\ EndIsSignalled'
  BY <1>2, <1>3, <1>4, <1>5, LaunchIsHeld DEF poller_vars
<1>8. IdleUnlessRunning' BY <1>2 DEF IdleUnlessRunning, poller_vars
<1>9. KindsAreKept' /\ LinksAreLoaded'
  BY <1>1, <1>2 DEF KindsAreKept, LinksAreLoaded, poller_vars, notifier_vars, link_vars
<1> QED BY <1>6, <1>7, <1>8, <1>9 DEF Shape

(* A child ends, and leaves a signal, or, from before, nothing.            *)
LEMMA EndKeepsShape ==
  ASSUME Shape, NEW c \in Pids, ScriptEnds(c) \/ CloneEnds(c)
  PROVE  Shape'
<1>1. TypeOK /\ IdleUnlessRunning /\ PidsAreHeld /\ PendingAreHeld
      /\ KindsAreKept /\ LinksAreLoaded /\ EndIsSignalled
  BY DEF Shape
<1>2. /\ written' = <<>>
      /\ UNCHANGED <<poller_vars, tasks, armed, awaiting, sent, pid, queue, current, link_vars,
                     notifier_vars>>
  BY DEF ScriptEnds, CloneEnds
<1>3. process \in [Pids -> Cells] /\ process[c] \in Cells BY <1>1 DEF TypeOK, Cells
<1>4. \/ /\ process[c].is = "stray" /\ process' = [process EXCEPT ![c] = Free]
         /\ sigchld' = sigchld
      \/ /\ process[c].is \in Running /\ process[c].is # "stray" /\ sigchld' = TRUE
         /\ \E result \in Ended : process' = [process EXCEPT ![c] = [process[c] EXCEPT !.is = result]]
  <2>1. CASE ScriptEnds(c) BY <2>1 DEF ScriptEnds, Running
  <2>2. CASE CloneEnds(c) BY <1>3, <2>2 DEF CloneEnds, Running, Ended
  <2> QED BY <2>1, <2>2
<1>5. process[c].is # "stray" =>
         \E cell \in Cells : /\ process' = [process EXCEPT ![c] = cell]
                             /\ cell.is \in Ended /\ cell.path = process[c].path
  <2> SUFFICES ASSUME process[c].is # "stray"
               PROVE  \E cell \in Cells : /\ process' = [process EXCEPT ![c] = cell]
                                          /\ cell.is \in Ended /\ cell.path = process[c].path
    OBVIOUS
  <2>1. process[c].is \in Running BY <1>4
  <2>2. PICK result \in Ended : process' = [process EXCEPT ![c] = [process[c] EXCEPT !.is = result]]
    BY <1>4
  <2>3. /\ [process[c] EXCEPT !.is = result] \in Cells
        /\ [process[c] EXCEPT !.is = result].is = result
        /\ [process[c] EXCEPT !.is = result].path = process[c].path
    BY <1>3, <2>1, CellEnds
  <2> QED BY <2>2, <2>3
<1>6. sigchld' \in BOOLEAN /\ process' \in [Pids -> Cells]
  <2>1. CASE process[c].is = "stray" BY <1>1, <1>3, <1>4, <2>1 DEF TypeOK, Cells
  <2>2. CASE process[c].is # "stray" BY <1>3, <1>4, <1>5, <2>2
  <2> QED BY <2>1, <2>2
<1>7. TypeOK'
  BY <1>1, <1>2, <1>6, EmptySeq DEF TypeOK, Cells, poller_vars, notifier_vars, link_vars
<1>8. \A d \in Pids :
        \/ process'[d] = process[d] /\ (sigchld => sigchld')
        \/ process[d].is = "stray"
        \/ process'[d].is \in Ended /\ process'[d].path = process[d].path /\ sigchld'
  <2>1. CASE process[c].is = "stray" BY <1>3, <1>4, <2>1
  <2>2. CASE process[c].is # "stray" BY <1>3, <1>4, <1>5, <2>2
  <2> QED BY <2>1, <2>2
<1>9. PidsAreHeld'
  <2> SUFFICES ASSUME NEW q \in Paths, pid[q] # NoPid
               PROVE  process'[pid[q]].path = q /\ process'[pid[q]].is \in {"script"} \cup Ended
    BY <1>1, <1>2 DEF PidsAreHeld, poller_vars
  <2>1. pid[q] \in Pids BY <1>1 DEF TypeOK
  <2>2. process[pid[q]].path = q /\ process[pid[q]].is \in {"script"} \cup Ended
    BY <1>1 DEF PidsAreHeld
  <2> QED BY <1>8, <2>1, <2>2 DEF Ended
<1>10. EndIsSignalled'
  <2> SUFFICES ASSUME current # NoPid
               PROVE  /\ process'[current].is \notin {"none", "stray"}
                      /\ process'[current].is \in Ended => sigchld'
    BY <1>2 DEF EndIsSignalled
  <2>1. current \in Pids BY <1>1 DEF TypeOK
  <2> QED BY <1>1, <1>8, <2>1 DEF EndIsSignalled, Ended
<1>11. IdleUnlessRunning' /\ PendingAreHeld'
  BY <1>1, <1>2 DEF IdleUnlessRunning, PendingAreHeld, poller_vars
<1>12. KindsAreKept' /\ LinksAreLoaded'
  BY <1>1, <1>2 DEF KindsAreKept, LinksAreLoaded, poller_vars, notifier_vars, link_vars
<1> QED BY <1>7, <1>9, <1>10, <1>11, <1>12 DEF Shape

(* SIGCHLD: the current child, if it has ended, is reaped.                 *)
LEMMA HandleChldKeepsShape ==
  ASSUME Shape, HandleChld
  PROVE  Shape'
<1>1. TypeOK /\ IdleUnlessRunning /\ PidsAreHeld /\ PendingAreHeld
      /\ KindsAreKept /\ LinksAreLoaded /\ EndIsSignalled
  BY DEF Shape
<1>2. /\ up = "running" /\ sigchld' = FALSE /\ draining' = TRUE
      /\ UNCHANGED <<up, toload, connected, tasks, armed, awaiting, queue, stopping, link_vars,
                     notifier_vars>>
  BY DEF HandleChld, Polling
<1>3. IdleUnlessRunning' /\ PendingAreHeld' /\ LinksAreLoaded'
  BY <1>1, <1>2 DEF IdleUnlessRunning, PendingAreHeld, LinksAreLoaded
<1>4. KindsAreKept' BY <1>1, <1>2 DEF KindsAreKept, notifier_vars
<1>5. CASE current # NoPid /\ ReapCurrent
  <2>1. /\ process' \in [Pids -> Cells] /\ current' = NoPid
        /\ pid' \in [Paths -> Pids \cup {NoPid}]
        /\ written' \in Seq(Messages) /\ sent' \subseteq tasks
        /\ \A q \in Paths : pid'[q] # NoPid =>
             pid'[q] = pid[q] /\ process'[pid[q]] = process[pid[q]]
    BY <1>5, ReapKeeps
  <2>2. TypeOK' BY <1>1, <1>2, <2>1 DEF TypeOK, Cells, notifier_vars, link_vars
  <2>3. PidsAreHeld' BY <1>1, <1>2, <2>1 DEF PidsAreHeld
  <2>4. EndIsSignalled' BY <2>1 DEF EndIsSignalled
  <2> QED BY <1>3, <1>4, <2>2, <2>3, <2>4 DEF Shape
<1>6. CASE /\ current # NoPid => process[current].is \notin Ended
           /\ written' = <<>>
           /\ UNCHANGED <<sent, pid, current, process>>
  <2>1. TypeOK' BY <1>1, <1>2, <1>6, EmptySeq DEF TypeOK, notifier_vars, link_vars
  <2>2. PidsAreHeld' BY <1>1, <1>2, <1>6 DEF PidsAreHeld
  <2>3. EndIsSignalled' BY <1>1, <1>6 DEF EndIsSignalled
  <2> QED BY <1>3, <1>4, <2>1, <2>2, <2>3 DEF Shape
<1> QED BY <1>5, <1>6 DEF HandleChld

(* One turn of the loop over the fork queue.                               *)
LEMMA DrainKeepsShape ==
  ASSUME Shape, DrainForkQueue
  PROVE  Shape'
<1>1. TypeOK /\ IdleUnlessRunning /\ PidsAreHeld /\ PendingAreHeld
      /\ KindsAreKept /\ LinksAreLoaded /\ EndIsSignalled
  BY DEF Shape
<1>2. queue \in Seq(ForkRequests) /\ up = "running" BY <1>1 DEF TypeOK, DrainForkQueue
<1>3. CASE DaemonGone BY <1>3, GoneKeepsShape
<1>4. CASE /\ queue # <<>> /\ queue' = RemoveAt(queue, Top)
           /\ CASE queue[Top].state = "pending" -> ForkFor(queue[Top].path, <<>>)
                [] queue[Top].state = "orphaned" -> ForkOrphan
                [] queue[Top].state = "cancelling" ->
                     written' = <<>> /\ UNCHANGED <<sent, pid, current, process>>
           /\ UNCHANGED <<poller_vars, tasks, armed, awaiting, sigchld, link_vars, notifier_vars>>
  <2>1. Top \in DOMAIN queue BY <1>1, <1>4, TopIsRequest
  <2>2. queue[Top] \in ForkRequests
    <3>1. DOMAIN queue = 1 .. Len(queue) BY <1>2, LenProperties
    <3> QED BY <1>2, <2>1, <3>1, ElementOfSeq
  <2>3. /\ queue' \in Seq(ForkRequests)
        /\ \A j \in DOMAIN queue' : \E k \in DOMAIN queue : queue'[j] = queue[k]
    <3>1. queue' = RemoveAt(queue, Top) BY <1>4
    <3> HIDE DEF Top
    <3> QED BY <1>2, <2>1, <3>1, RequestRemoved
  <2>4. IdleUnlessRunning' BY <1>2, <1>4 DEF IdleUnlessRunning, poller_vars
  <2>5. KindsAreKept' /\ LinksAreLoaded'
    BY <1>1, <1>4 DEF KindsAreKept, LinksAreLoaded, poller_vars, notifier_vars, link_vars
  <2>6. CASE queue[Top].state = "pending"
    <3>1. queue[Top].path \in Paths BY <2>2 DEF ForkRequests
    <3>2. queue[Top].path \in tasks /\ queue[Top].path # stopping
      BY <1>1, <2>1, <2>6 DEF PendingAreHeld
    <3>3. ForkFor(queue[Top].path, <<>>) BY <1>4, <2>6
    <3>4. Launches(queue[Top].path) BY <2>3, <3>1, <3>3, EmptySeq, ForkForLaunches
    <3>5. TypeOK'
      BY <1>1, <1>4, <3>2, <3>4 DEF TypeOK, Launches, Cells, poller_vars, notifier_vars, link_vars
    <3>6. PidsAreHeld' /\ PendingAreHeld' /\ EndIsSignalled'
      BY <1>4, <3>1, <3>2, <3>4, LaunchIsHeld DEF poller_vars
    <3> QED BY <2>4, <2>5, <3>5, <3>6 DEF Shape
  <2>7. PendingAreHeld' BY <1>1, <1>4, <2>3 DEF PendingAreHeld, poller_vars
  <2>8. CASE queue[Top].state = "orphaned"
    <3>1. /\ written' = <<>> /\ UNCHANGED <<sent, pid>>
          /\ \/ \E c \in Pids :
                  /\ process[c] = Free /\ current' = c
                  /\ process' = [process EXCEPT ![c] = Child("clone", NoPath)]
             \/ current' = NoPid /\ UNCHANGED process
      BY <1>4, <2>8 DEF ForkOrphan
    <3>2. process \in [Pids -> Cells] BY <1>1 DEF TypeOK, Cells
    <3>3. CASE current' = NoPid /\ UNCHANGED process
      <4>1. TypeOK'
        BY <1>1, <1>4, <2>3, <3>1, <3>3, EmptySeq DEF TypeOK, poller_vars, notifier_vars, link_vars
      <4>2. PidsAreHeld' /\ EndIsSignalled'
        BY <1>1, <1>4, <3>1, <3>3 DEF PidsAreHeld, EndIsSignalled, poller_vars
      <4> QED BY <2>4, <2>5, <2>7, <4>1, <4>2 DEF Shape
    <3>4. ASSUME NEW c \in Pids, process[c] = Free, current' = c,
                 process' = [process EXCEPT ![c] = Child("clone", NoPath)]
          PROVE  Shape'
      <4>1. /\ Child("clone", NoPath) \in Cells /\ Child("clone", NoPath).is = "clone"
            /\ Free.is = "none"
        BY DEF Child, Cells, Free
      <4>2. process' \in [Pids -> Cells] BY <3>2, <3>4, <4>1
      <4>3. TypeOK'
        BY <1>1, <1>4, <2>3, <3>1, <3>4, <4>2, EmptySeq
        DEF TypeOK, Cells, poller_vars, notifier_vars, link_vars
      <4>4. PidsAreHeld'
        <5> SUFFICES ASSUME NEW q \in Paths, pid[q] # NoPid
                     PROVE  process'[pid[q]] = process[pid[q]]
          BY <1>1, <1>4, <3>1 DEF PidsAreHeld, poller_vars
        <5>1. process[pid[q]].is # "none" BY <1>1 DEF PidsAreHeld, Ended
        <5>2. pid[q] \in Pids BY <1>1 DEF TypeOK
        <5> QED BY <3>2, <3>4, <4>1, <5>1, <5>2
      <4>5. EndIsSignalled' BY <3>2, <3>4, <4>1 DEF EndIsSignalled, Ended
      <4> QED BY <2>4, <2>5, <2>7, <4>3, <4>4, <4>5 DEF Shape
    <3> QED BY <3>1, <3>3, <3>4
  <2>9. CASE queue[Top].state = "cancelling"
    <3>1. written' = <<>> /\ UNCHANGED <<sent, pid, current, process>> BY <1>4, <2>9
    <3>2. TypeOK' BY <1>1, <1>4, <2>3, <3>1, EmptySeq DEF TypeOK, poller_vars, notifier_vars, link_vars
    <3>3. PidsAreHeld' /\ EndIsSignalled'
      BY <1>1, <1>4, <3>1 DEF PidsAreHeld, EndIsSignalled, poller_vars
    <3> QED BY <2>4, <2>5, <2>7, <3>2, <3>3 DEF Shape
  <2> QED BY <2>2, <2>6, <2>8, <2>9 DEF ForkRequests
<1>5. CASE /\ draining' = FALSE /\ written' = <<>>
           /\ UNCHANGED <<up, toload, connected, tasks, armed, awaiting, launch_vars, sigchld,
                          stopping, link_vars, notifier_vars>>
  <2>1. TypeOK' BY <1>1, <1>5, EmptySeq DEF TypeOK, launch_vars, notifier_vars, link_vars
  <2>2. IdleUnlessRunning' /\ PidsAreHeld' /\ PendingAreHeld'
    BY <1>1, <1>5 DEF IdleUnlessRunning, PidsAreHeld, PendingAreHeld, launch_vars
  <2>3. KindsAreKept' /\ LinksAreLoaded' /\ EndIsSignalled'
    BY <1>1, <1>5 DEF KindsAreKept, LinksAreLoaded, EndIsSignalled, launch_vars, notifier_vars, link_vars
  <2> QED BY <2>1, <2>2, <2>3 DEF Shape
<1> QED BY <1>3, <1>4, <1>5 DEF DrainForkQueue

(* NotifyState's first look: the task no longer waits for states.          *)
LEMMA NotifyTestsKeepsShape ==
  ASSUME Shape, NEW p \in Paths, NotifyTests(p)
  PROVE  Shape'
<1>1. TypeOK /\ IdleUnlessRunning /\ PidsAreHeld /\ PendingAreHeld
      /\ KindsAreKept /\ LinksAreLoaded /\ EndIsSignalled
  BY DEF Shape
<1>2. /\ p \in awaiting /\ awaiting' = awaiting \ {p}
      /\ notifier' = [path |-> p, busy |-> current # NoPid]
      /\ written' = <<>>
      /\ UNCHANGED <<raced, poller_vars, tasks, armed, launch_vars, sigchld, link_vars>>
  BY DEF NotifyTests
<1>3. notifier'.path = p /\ notifier' \in [path : Paths \cup {NoPath}, busy : BOOLEAN]
  BY <1>2
<1>4. TypeOK' BY <1>1, <1>2, <1>3, EmptySeq DEF TypeOK, poller_vars, launch_vars, link_vars
<1>5. IdleUnlessRunning' /\ PidsAreHeld' /\ PendingAreHeld'
  BY <1>1, <1>2 DEF IdleUnlessRunning, PidsAreHeld, PendingAreHeld, poller_vars, launch_vars
<1>6. KindsAreKept' BY <1>1, <1>2, <1>3 DEF TypeOK, KindsAreKept, poller_vars
<1>7. LinksAreLoaded' /\ EndIsSignalled'
  BY <1>1, <1>2 DEF LinksAreLoaded, EndIsSignalled, poller_vars, launch_vars, link_vars
<1> QED BY <1>4, <1>5, <1>6, <1>7 DEF Shape

(* ... and what it does after it.                                          *)
LEMMA NotifyLaunchesKeepsShape ==
  ASSUME Shape, NotifyLaunches
  PROVE  Shape'
<1> DEFINE p == notifier.path
<1>1. TypeOK /\ IdleUnlessRunning /\ PidsAreHeld /\ PendingAreHeld
      /\ KindsAreKept /\ LinksAreLoaded /\ EndIsSignalled
  BY DEF Shape
<1>2. CASE DaemonGone BY <1>2, GoneKeepsShape
<1>3. CASE /\ \/ PushRequest(p) /\ SendMessage(<<>>) /\ UNCHANGED <<sent, pid, current, process>>
              \/ ForkFor(p, <<>>) /\ UNCHANGED queue
           /\ notifier' = Quiet
           /\ raced' = (raced \/ notifier.busy # (current # NoPid))
           /\ UNCHANGED <<poller_vars, tasks, armed, awaiting, sigchld, link_vars>>
  <2>1. p # NoPath /\ p \in tasks /\ TypeOf[p] = "event" BY <1>1 DEF NotifyLaunches, KindsAreKept
  <2>2. p \in Paths /\ p # stopping BY <1>1, <2>1, DaemonAssumption DEF TypeOK, KindsAreKept
  <2>3. Launches(p)
    <3>1. queue \in Seq(ForkRequests) BY <1>1 DEF TypeOK
    <3>2. CASE PushRequest(p) /\ SendMessage(<<>>) /\ UNCHANGED <<sent, pid, current, process>>
      <4>1. /\ queue' \in Seq(ForkRequests)
            /\ \A j \in DOMAIN queue' : queue'[j].state = "pending" =>
                 queue'[j].path = p \/ \E k \in DOMAIN queue : queue'[j] = queue[k]
        BY <2>2, <3>1, <3>2, RequestPushed
      <4>2. written' = <<>> /\ <<>> \in Seq(Messages) BY <3>2, EmptySeq DEF SendMessage
      <4>3. /\ pid \in [Paths -> Pids \cup {NoPid}] /\ current \in Pids \cup {NoPid}
            /\ process \in [Pids -> Cells]
        BY <1>1 DEF TypeOK, Cells
      <4>4. /\ \A q \in Paths : pid[q] # NoPid =>
                 process[pid[q]].path = q /\ process[pid[q]].is \in {"script"} \cup Ended
            /\ current # NoPid =>
                 /\ process[current].is \notin {"none", "stray"}
                 /\ process[current].is \in Ended => sigchld
        BY <1>1 DEF PidsAreHeld, EndIsSignalled
      <4> HIDE DEF p
      <4> QED BY <3>2, <4>1, <4>2, <4>3, <4>4 DEF Launches
    <3>3. CASE ForkFor(p, <<>>) /\ UNCHANGED queue
      BY <2>2, <3>1, <3>3, EmptySeq, ForkForLaunches
    <3> QED BY <1>3, <3>2, <3>3
  <2>4. raced' \in BOOLEAN
    <3>1. (raced \/ notifier.busy # (current # NoPid)) \in BOOLEAN OBVIOUS
    <3> QED BY <1>3, <3>1
  <2>5. notifier' \in [path : Paths \cup {NoPath}, busy : BOOLEAN] /\ notifier'.path = NoPath
    BY <1>3 DEF Quiet
  <2> HIDE DEF p
  <2>6. /\ UNCHANGED <<up, toload, connected, draining, stopping>>
        /\ UNCHANGED <<tasks, armed, awaiting, sigchld, link_vars>>
    BY <1>3 DEF poller_vars
  <2>7. TypeOK' BY <1>1, <2>1, <2>3, <2>4, <2>5, <2>6
    DEF TypeOK, Launches, Cells, link_vars
  <2>8. PidsAreHeld' /\ PendingAreHeld' /\ EndIsSignalled'
    BY <2>1, <2>2, <2>3, <2>6, LaunchIsHeld
  <2>9. IdleUnlessRunning' BY <1>1, <2>3, <2>6 DEF IdleUnlessRunning, Launches
  <2>10. KindsAreKept' /\ LinksAreLoaded'
    BY <1>1, <2>5, <2>6 DEF KindsAreKept, LinksAreLoaded, link_vars
  <2> QED BY <2>7, <2>8, <2>9, <2>10 DEF Shape
<1> QED BY <1>2, <1>3 DEF NotifyLaunches

(* The steps that only connect or start.                                   *)
LEMMA PlainKeepsShape ==
  ASSUME Shape,
         StartDaemon \/ RunPoller \/ ClientConnects \/ ClientDisconnects \/ UNCHANGED daemon_vars
  PROVE  Shape'
<1>1. TypeOK /\ IdleUnlessRunning /\ PidsAreHeld /\ PendingAreHeld
      /\ KindsAreKept /\ LinksAreLoaded /\ EndIsSignalled
  BY DEF Shape
<1>2. UNCHANGED <<tasks, armed, awaiting, sent, pid, queue, current, process, sigchld,
                  draining, stopping, links, left_out, notifier, raced>>
  BY DEF StartDaemon, RunPoller, ClientConnects, ClientDisconnects, daemon_vars, launch_vars,
         notifier_vars, link_vars
<1>3. PidsAreHeld' /\ PendingAreHeld' /\ KindsAreKept' /\ EndIsSignalled'
  BY <1>1, <1>2 DEF PidsAreHeld, PendingAreHeld, KindsAreKept, EndIsSignalled
<1>4. TypeOK'
  <2>1. /\ up' \in {"down", "loading", "running"} /\ toload' \subseteq Files
        /\ connected' \in BOOLEAN /\ (written' = written \/ written' = <<>>)
    BY <1>1 DEF TypeOK, StartDaemon, RunPoller, ClientConnects, ClientDisconnects, daemon_vars
  <2>2. written' \in Seq(Messages) BY <1>1, <2>1, EmptySeq DEF TypeOK
  <2> QED BY <1>1, <1>2, <2>1, <2>2 DEF TypeOK
<1>5. IdleUnlessRunning'
  BY <1>1 DEF IdleUnlessRunning, StartDaemon, RunPoller, ClientConnects, ClientDisconnects,
              ClientReadable, Polling, daemon_vars
<1>6. LinksAreLoaded'
  <2>1. CASE StartDaemon BY <1>1, <1>2, <2>1 DEF LinksAreLoaded, StartDaemon
  <2>2. CASE RunPoller BY <1>1, <1>2, <2>2 DEF LinksAreLoaded, RunPoller
  <2>3. CASE ClientConnects \/ ClientDisconnects \/ UNCHANGED daemon_vars
    <3>1. up' = up /\ toload' = toload BY <2>3 DEF ClientConnects, ClientDisconnects, daemon_vars
    <3> QED BY <1>1, <1>2, <3>1 DEF LinksAreLoaded
  <2> QED BY <2>1, <2>2, <2>3
<1> QED BY <1>3, <1>4, <1>5, <1>6 DEF Shape

(* Every step keeps Shape.                                                 *)
LEMMA NextKeepsShape == Shape /\ [Next]_daemon_vars => Shape'
<1> SUFFICES ASSUME Shape, [Next]_daemon_vars
             PROVE  Shape'
  OBVIOUS
<1>1. CASE StartDaemon \/ RunPoller \/ ClientConnects \/ ClientDisconnects \/ UNCHANGED daemon_vars
  BY <1>1, PlainKeepsShape
<1>2. CASE DaemonEnds BY <1>2, GoneKeepsShape DEF DaemonEnds
<1>3. CASE HandleChld BY <1>3, HandleChldKeepsShape
<1>4. CASE DrainForkQueue BY <1>4, DrainKeepsShape
<1>5. CASE RunTaskQueue BY <1>5, TaskQueueKeepsShape
<1>6. CASE NotifyLaunches BY <1>6, NotifyLaunchesKeepsShape
<1>7. ASSUME NEW f \in Files, LoadPersistenceTask(f)
      PROVE  Shape'
  BY <1>7, LoadKeepsShape
<1>8. ASSUME NEW p \in Paths,
             \/ \E found \in {"missing", "empty", "script"} : HandleStartTaskRequest(p, found)
             \/ HandleStopTaskRequest(p) \/ TimerFires(p) \/ NotifyTests(p)
      PROVE  Shape'
  BY <1>8, StartKeepsShape, StopKeepsShape, TimerKeepsShape, NotifyTestsKeepsShape
<1>9. ASSUME NEW c \in Pids, ScriptEnds(c) \/ CloneEnds(c)
      PROVE  Shape'
  BY <1>9, EndKeepsShape
<1> QED BY <1>1, <1>2, <1>3, <1>4, <1>5, <1>6, <1>7, <1>8, <1>9 DEF Next

(* Shape is invariant: in every state, whatever the two threads and the    *)
(* children have done, processes, requests and timers have their holders.  *)
THEOREM ShapeInvariant == Spec => []Shape
<1>1. Init => Shape BY InitShape
<1>2. Shape /\ [Next]_daemon_vars => Shape' BY NextKeepsShape
<1> QED BY <1>1, <1>2, PTL DEF Spec

(* Every variable keeps to its type; in particular the top of the fork     *)
(* queue is always one of its requests, and every message names a task.    *)
THEOREM TypeCorrect == Spec => []TypeOK
<1>1. Shape => TypeOK BY DEF Shape
<1> QED BY <1>1, ShapeInvariant, PTL

-----------------------------------------------------------------------------
(* What the client is told.                                                *)

EndOpc == {"kExcutedOver", "kStopSuccess"}

EndsNothing(messages) == \A i \in DOMAIN messages : messages[i].opc \notin EndOpc

(* Replies that tell of no end, put together.                              *)
LEMMA EndsNothingAppended ==
  ASSUME NEW said \in Seq(Messages), EndsNothing(said), NEW opc, opc \notin EndOpc, NEW p
  PROVE  EndsNothing(Append(said, Message(opc, p)))
<1>1. Message(opc, p).opc \notin EndOpc BY DEF Message
<1>2. /\ DOMAIN said = 1 .. Len(said) /\ Len(said) \in Nat
      /\ DOMAIN Append(said, Message(opc, p)) = 1 .. Len(said) + 1
      /\ \A i \in 1 .. Len(said) : Append(said, Message(opc, p))[i] = said[i]
      /\ Append(said, Message(opc, p))[Len(said) + 1] = Message(opc, p)
  OBVIOUS
<1> QED BY <1>1, <1>2 DEF EndsNothing

(* ... with more of them behind.                                           *)
LEMMA EndsNothingJoined ==
  ASSUME NEW said \in Seq(Messages), EndsNothing(said), NEW more \in Seq(Messages), EndsNothing(more)
  PROVE  EndsNothing(said \o more)
<1>1. /\ said \o more \in Seq(Messages) /\ Len(said \o more) = Len(said) + Len(more)
      /\ \A i \in 1 .. Len(said) + Len(more) :
           (said \o more)[i] = IF i <= Len(said) THEN said[i] ELSE more[i - Len(said)]
  BY ConcatProperties
<1>2. /\ DOMAIN (said \o more) = 1 .. Len(said) + Len(more)
      /\ DOMAIN said = 1 .. Len(said) /\ DOMAIN more = 1 .. Len(more)
      /\ Len(said) \in Nat /\ Len(more) \in Nat
  BY <1>1, LenProperties
<1> QED BY <1>1, <1>2 DEF EndsNothing

(* Nothing said ends nothing.                                              *)
LEMMA EndsNothingEmpty == EndsNothing(<<>>)
  BY DEF EndsNothing

(* Replies of one or two messages.                                         *)
LEMMA RepliesOfOneTask ==
  ASSUME NEW p \in Paths, NEW opc1 \in ScriptOpc, NEW opc2 \in ScriptOpc
  PROVE  /\ <<Message(opc1, p)>> \in Seq(Messages)
         /\ <<Message(opc1, p), Message(opc2, p)>> \in Seq(Messages)
         /\ opc1 \notin EndOpc => EndsNothing(<<Message(opc1, p)>>)
         /\ opc1 \notin EndOpc /\ opc2 \notin EndOpc =>
              EndsNothing(<<Message(opc1, p), Message(opc2, p)>>)
<1>1. Message(opc1, p) \in Messages /\ Message(opc2, p) \in Messages BY DEF Message, Messages
<1>2. Message(opc1, p).opc = opc1 /\ Message(opc2, p).opc = opc2 BY DEF Message
<1> QED BY <1>1, <1>2 DEF EndsNothing

(* Starting a script says nothing of its end.                              *)
LEMMA ForkForEndsNothing ==
  ASSUME NEW p \in Paths, NEW said \in Seq(Messages), EndsNothing(said), ForkFor(p, said)
  PROVE  EndsNothing(written')
<1>1. \A opc \in {"kScriptRunning", "kUnKnown"} : EndsNothing(Append(said, Message(opc, p)))
  BY EndsNothingAppended DEF EndOpc
<1> QED BY <1>1, EndsNothingEmpty DEF ForkFor, SendResult, SendMessage

(* Nor does the check of the conditions before it.                         *)
LEMMA StartProcessEndsNothing ==
  ASSUME NEW p \in Paths, NEW said \in Seq(Messages), EndsNothing(said), StartProcess(p, said)
  PROVE  EndsNothing(written')
<1>1. EndsNothing(Append(said, Message("kConditionNotAllow", p)))
  BY EndsNothingAppended DEF EndOpc
<1>2. ForkFor(p, said) => EndsNothing(written') BY ForkForEndsNothing
<1> QED BY <1>1, <1>2, EndsNothingEmpty DEF StartProcess, AsyncFork, SendResult, SendMessage

(* Nor does a new task, of whatever type.                                  *)
LEMMA StartTaskEndsNothing ==
  ASSUME NEW p \in Paths, NEW said \in Seq(Messages), EndsNothing(said), StartTask(p, said)
  PROVE  EndsNothing(written')
<1>1. StartProcess(p, said) => EndsNothing(written') BY StartProcessEndsNothing
<1>2. SendMessage(said) => EndsNothing(written') BY EndsNothingEmpty DEF SendMessage
<1> QED BY <1>1, <1>2 DEF StartTask

(* kExcutedOver is told of a task that is stopped, or of one whose script, *)
(* the one it waits for, has ended with 0; kStopSuccess of one that goes.  *)
ToldTruly ==
  \A i \in DOMAIN written' :
    /\ written'[i].opc = "kExcutedOver" =>
         \/ stopping = written'[i].path
         \/ \E c \in Pids : pid[written'[i].path] = c /\ process[c].is = "ok"
    /\ written'[i].opc = "kStopSuccess" =>
         stopping = written'[i].path /\ written'[i].path \notin tasks'

(* Every step tells its client the truth about ends.                       *)
LEMMA NextTellsTruly == Shape /\ Next => ToldTruly
<1> SUFFICES ASSUME Shape, Next
             PROVE  ToldTruly
  OBVIOUS
<1>1. TypeOK /\ IdleUnlessRunning BY DEF Shape
<1>2. EndsNothing(written') => ToldTruly BY DEF EndsNothing, EndOpc, ToldTruly
<1>3. \A p \in Paths : \A opc1, opc2 \in ScriptOpc \ EndOpc :
        /\ EndsNothing(<<Message(opc1, p)>>) /\ EndsNothing(<<Message(opc1, p), Message(opc2, p)>>)
  BY DEF EndsNothing, Message
<1>4. written' = <<>> => ToldTruly BY <1>2, EndsNothingEmpty
<1>5. CASE StartDaemon \/ RunPoller
  <2>1. written' = <<>> BY <1>1, <1>5 DEF StartDaemon, RunPoller, IdleUnlessRunning
  <2> QED BY <1>4, <2>1
<1>6. CASE DaemonEnds \/ ClientConnects \/ ClientDisconnects
  BY <1>4, <1>6 DEF DaemonEnds, DaemonGone, ClientConnects, ClientDisconnects
<1>7. CASE HandleChld
  <2>1. CASE current # NoPid /\ ReapCurrent
    <3>1. \A p \in tasks : SendResult("kExcutedFaile", p, <<>>) => EndsNothing(written')
      BY <1>3, EndsNothingEmpty DEF SendResult, SendMessage, EndsNothing, EndOpc, Message
    <3>2. ASSUME NEW p \in tasks, pid[p] = current, process[current].is = "ok",
                 SendResult("kExcutedOver", p, <<>>)
          PROVE  ToldTruly
      <4>1. written' = <<Message("kExcutedOver", p)>> \/ written' = <<>>
        BY <3>2 DEF SendResult, SendMessage
      <4>2. current \in Pids BY <1>1, <2>1 DEF TypeOK
      <4>3. CASE written' = <<Message("kExcutedOver", p)>>
        <5>1. \A i \in DOMAIN written' : written'[i].path = p /\ written'[i].opc = "kExcutedOver"
          BY <4>3 DEF Message
        <5> QED BY <3>2, <4>2, <5>1 DEF ToldTruly
      <4> QED BY <1>4, <4>1, <4>3
    <3> QED BY <1>2, <1>4, <2>1, <3>1, <3>2 DEF ReapCurrent
  <2> QED BY <1>4, <1>7, <2>1 DEF HandleChld
<1>8. CASE DrainForkQueue
  <2>1. CASE written' = <<>> BY <1>4, <2>1
  <2>2. CASE queue # <<>> /\ queue[Top].state = "pending" /\ ForkFor(queue[Top].path, <<>>)
    <3>1. queue \in Seq(ForkRequests) /\ Top \in DOMAIN queue
      BY <1>1, <2>2, TopIsRequest DEF TypeOK
    <3>2. queue[Top].path \in Paths
      <4>1. DOMAIN queue = 1 .. Len(queue) BY <3>1, LenProperties
      <4>2. queue[Top] \in ForkRequests BY <3>1, <4>1, ElementOfSeq
      <4> QED BY <4>2 DEF ForkRequests
    <3>3. <<>> \in Seq(Messages) BY EmptySeq
    <3> QED BY <1>2, <2>2, <3>2, <3>3, EndsNothingEmpty, ForkForEndsNothing
  <2>3. queue # <<>> => queue[Top].state \in {"pending", "cancelling", "orphaned"}
    <3> SUFFICES ASSUME queue # <<>>
                 PROVE  queue[Top].state \in {"pending", "cancelling", "orphaned"}
      OBVIOUS
    <3>1. queue \in Seq(ForkRequests) /\ Top \in DOMAIN queue BY <1>1, TopIsRequest DEF TypeOK
    <3>2. DOMAIN queue = 1 .. Len(queue) BY <3>1, LenProperties
    <3>3. queue[Top] \in ForkRequests BY <3>1, <3>2, ElementOfSeq
    <3> QED BY <3>3 DEF ForkRequests
  <2> QED BY <1>8, <2>1, <2>2, <2>3 DEF DrainForkQueue, DaemonGone, ForkOrphan
<1>9. CASE RunTaskQueue
  <2>1. stopping \in Paths /\ stopping \notin tasks' BY <1>1, <1>9 DEF RunTaskQueue, TypeOK
  <2>2. PICK result \in {<<>>, <<Message("kExcutedOver", stopping)>>} :
          written' = Append(result, Message("kStopSuccess", stopping)) \/ written' = <<>>
    BY <1>9 DEF RunTaskQueue, SendMessage
  <2>3. result \in Seq(Messages) /\ \A i \in DOMAIN result : result[i].path = stopping
    <3>1. CASE result = <<>> BY <3>1, EmptySeq
    <3>2. CASE result = <<Message("kExcutedOver", stopping)>>
      BY <2>1, <3>2 DEF Message, Messages, ScriptOpc
    <3> QED BY <3>1, <3>2
  <2> DEFINE told == Append(result, Message("kStopSuccess", stopping))
  <2>4. /\ DOMAIN result = 1 .. Len(result) /\ Len(result) \in Nat
        /\ DOMAIN told = 1 .. Len(result) + 1
        /\ \A i \in 1 .. Len(result) : told[i] = result[i]
        /\ told[Len(result) + 1] = Message("kStopSuccess", stopping)
    BY <2>3
  <2>5. Message("kStopSuccess", stopping).path = stopping BY DEF Message
  <2>6. CASE written' = told
    <3>1. \A i \in DOMAIN told : told[i].path = stopping BY <2>3, <2>4, <2>5
    <3> HIDE DEF told
    <3> QED BY <2>1, <2>6, <3>1 DEF ToldTruly
  <2> QED BY <1>4, <2>2, <2>6
<1>10. CASE NotifyLaunches
  <2>1. CASE written' = <<>> BY <1>4, <2>1
  <2>2. CASE notifier.path # NoPath /\ ForkFor(notifier.path, <<>>)
    <3>1. notifier.path \in Paths BY <1>1, <2>2 DEF TypeOK
    <3>2. <<>> \in Seq(Messages) BY EmptySeq
    <3> QED BY <1>2, <2>2, <3>1, <3>2, EndsNothingEmpty, ForkForEndsNothing
  <2> QED BY <1>10, <2>1, <2>2 DEF NotifyLaunches, DaemonGone, SendMessage
<1>11. ASSUME NEW f \in Files, LoadPersistenceTask(f)
       PROVE  ToldTruly
  <2>1. up = "loading" /\ f \in toload /\ links[f] # NoPath
    BY <1>11 DEF LoadPersistenceTask, Shape, LinksAreLoaded
  <2>2. CASE UNCHANGED written BY <1>1, <1>4, <2>1, <2>2 DEF IdleUnlessRunning
  <2>3. CASE StartTask(links[f], <<>>)
    <3>1. links[f] \in Paths BY <1>1, <2>1 DEF TypeOK, PersistentPaths
    <3>2. <<>> \in Seq(Messages) BY EmptySeq
    <3> QED BY <1>2, <2>3, <3>1, <3>2, EndsNothingEmpty, StartTaskEndsNothing
  <2> QED BY <1>11, <2>2, <2>3 DEF LoadPersistenceTask
<1>12. ASSUME NEW p \in Paths, NEW found \in {"missing", "empty", "script"},
              HandleStartTaskRequest(p, found)
       PROVE  ToldTruly
  <2>1. CASE StartTask(p, <<Message("kWaiting", p)>>)
    <3>1. Message("kWaiting", p) \in Messages BY DEF Message, Messages, ScriptOpc
    <3>2. <<Message("kWaiting", p)>> \in Seq(Messages) BY <3>1
    <3>3. EndsNothing(<<Message("kWaiting", p)>>) BY <1>3 DEF ScriptOpc, EndOpc
    <3> QED BY <1>2, <2>1, <3>2, <3>3, StartTaskEndsNothing
  <2>2. CASE ~StartTask(p, <<Message("kWaiting", p)>>)
    <3> DEFINE opcs == CASE found = "missing" -> <<Message("kUnKnown", p)>>
                         [] found # "missing" /\ p \in tasks ->
                              <<Message("kUnKnown", p), Message("kUnKnown", p)>>
                         [] found # "missing" /\ p \notin tasks /\ Cardinality(tasks) >= MaxTasks ->
                              <<Message("kTooMany", p), Message("kUnKnown", p)>>
                         [] OTHER -> <<Message("kNoscript", p)>>
    <3>1. written' = <<Message("kWaiting", p)>> \o opcs \/ written' = <<>>
      BY <1>12, <2>2 DEF HandleStartTaskRequest, SendMessage
    <3>2. \/ opcs = <<Message("kUnKnown", p)>> \/ opcs = <<Message("kNoscript", p)>>
          \/ opcs = <<Message("kUnKnown", p), Message("kUnKnown", p)>>
          \/ opcs = <<Message("kTooMany", p), Message("kUnKnown", p)>>
      <4>1. CASE found = "missing" BY <4>1
      <4>2. CASE found # "missing" /\ p \in tasks BY <4>2
      <4>3. CASE found # "missing" /\ p \notin tasks /\ Cardinality(tasks) >= MaxTasks BY <4>3
      <4>4. CASE found # "missing" /\ p \notin tasks /\ ~(Cardinality(tasks) >= MaxTasks)
        BY <4>4
      <4> QED BY <4>1, <4>2, <4>3, <4>4
    <3> HIDE DEF opcs
    <3>3. {"kWaiting", "kUnKnown", "kNoscript", "kTooMany"} \subseteq ScriptOpc \ EndOpc
      BY DEF ScriptOpc, EndOpc
    <3>4. <<Message("kWaiting", p)>> \in Seq(Messages) /\ EndsNothing(<<Message("kWaiting", p)>>)
      BY <3>3, RepliesOfOneTask
    <3>5. opcs \in Seq(Messages) /\ EndsNothing(opcs)
      <4>1. CASE opcs = <<Message("kUnKnown", p)>> BY <3>3, <4>1, RepliesOfOneTask
      <4>2. CASE opcs = <<Message("kNoscript", p)>> BY <3>3, <4>2, RepliesOfOneTask
      <4>3. CASE opcs = <<Message("kUnKnown", p), Message("kUnKnown", p)>>
        BY <3>3, <4>3, RepliesOfOneTask
      <4>4. CASE opcs = <<Message("kTooMany", p), Message("kUnKnown", p)>>
        BY <3>3, <4>4, RepliesOfOneTask
      <4> QED BY <3>2, <4>1, <4>2, <4>3, <4>4
    <3>6. EndsNothing(<<Message("kWaiting", p)>> \o opcs) BY <3>4, <3>5, EndsNothingJoined
    <3> QED BY <1>2, <1>4, <3>1, <3>6
  <2> QED BY <2>1, <2>2
<1>13. ASSUME NEW p \in Paths, HandleStopTaskRequest(p)
       PROVE  ToldTruly
  <2>1. \E opc \in {"kUnKnown", "kStoping"} : SendMessage(<<Message(opc, p)>>)
    BY <1>13 DEF HandleStopTaskRequest
  <2>2. \A opc \in {"kUnKnown", "kStoping"} : EndsNothing(<<Message(opc, p)>>)
    BY <1>3 DEF ScriptOpc, EndOpc
  <2> QED BY <1>2, <1>4, <2>1, <2>2 DEF SendMessage
<1>14. ASSUME NEW p \in Paths, TimerFires(p)
       PROVE  ToldTruly
  <2>1. StartProcess(p, <<>>) /\ <<>> \in Seq(Messages) BY <1>14, EmptySeq DEF TimerFires
  <2> QED BY <1>2, <2>1, EndsNothingEmpty, StartProcessEndsNothing
<1>15. ASSUME NEW p \in Paths, NotifyTests(p)
       PROVE  ToldTruly
  BY <1>4, <1>15 DEF NotifyTests
<1>16. ASSUME NEW c \in Pids, ScriptEnds(c) \/ CloneEnds(c)
       PROVE  ToldTruly
  BY <1>4, <1>16 DEF ScriptEnds, CloneEnds
<1> QED BY <1>5, <1>6, <1>7, <1>8, <1>9, <1>10, <1>11, <1>12, <1>13, <1>14, <1>15, <1>16 DEF Next

(* The client is told that a script was executed only about a task whose   *)
(* script has exited with 0, or that is being stopped: HandleExited looks  *)
(* the identifier up, and Shape has it that only its own task holds it.    *)
THEOREM ExecutedIsTrue == Spec => ExecutedMeansExecuted
<1>1. Shape /\ [Next]_daemon_vars => [ToldTruly]_daemon_vars BY NextTellsTruly
<1>2. [ToldTruly]_daemon_vars =>
        [\A i \in DOMAIN written' :
           LET p == written'[i].path
           IN written'[i].opc = "kExcutedOver" =>
                stopping = p \/ \E c \in Pids : pid[p] = c /\ process[c].is = "ok"]_daemon_vars
  BY DEF ToldTruly
<1> QED BY <1>1, <1>2, ShapeInvariant, PTL DEF Spec, ExecutedMeansExecuted

-----------------------------------------------------------------------------
(* One child, and the requests behind it.                                  *)

(* The daemon has at most one child, and it is the one it will reap.       *)
OneChild ==
  /\ \A c \in Pids : process[c].is \notin {"none", "stray"} => current = c
  /\ \A p \in Paths : pid[p] # NoPid => current = pid[p]

(* A fork while no child is current leaves one child, or none.             *)
LEMMA ForkForLeavesOne ==
  ASSUME TypeOK, OneChild, current = NoPid, NEW p \in Paths, NEW said, ForkFor(p, said)
  PROVE  OneChild'
<1>1. pid \in [Paths -> Pids \cup {NoPid}] /\ process \in [Pids -> Cells] /\ NoPid \notin Pids
  BY DaemonAssumption DEF TypeOK, Cells
<1>2. /\ \A c \in Pids : process[c].is \in {"none", "stray"}
      /\ \A q \in Paths : pid[q] = NoPid
  BY <1>1 DEF OneChild
<1>3. ASSUME NEW c \in Pids, current' = c,
             process' = [process EXCEPT ![c] = Child("script", p)], pid' = [pid EXCEPT ![p] = c]
      PROVE  OneChild'
  BY <1>1, <1>2, <1>3 DEF OneChild
<1>4. CASE current' = NoPid /\ UNCHANGED <<process, pid>> BY <1>1, <1>2, <1>4 DEF OneChild
<1> QED BY <1>3, <1>4 DEF ForkFor

(* A new task starts a child only when there is none.                      *)
LEMMA StartTaskLeavesOne ==
  ASSUME TypeOK, OneChild, NEW p \in Paths, NEW said,
         StartProcess(p, said) \/ StartTask(p, said)
  PROVE  OneChild'
<1>1. UNCHANGED <<pid, current, process>> => OneChild' BY DEF OneChild
<1>2. current = NoPid /\ ForkFor(p, said) => OneChild' BY ForkForLeavesOne
<1>3. StartProcess(p, said) => OneChild'
  BY <1>1, <1>2 DEF StartProcess, AsyncFork, launch_vars
<1>4. StartTask(p, said) => StartProcess(p, said) \/ UNCHANGED <<pid, current, process>>
  BY DEF StartTask, launch_vars
<1> QED BY <1>1, <1>3, <1>4

(* Every step keeps to one child, until the notifier has raced.            *)
LEMMA NextKeepsOne == Shape /\ (raced \/ OneChild) /\ [Next]_daemon_vars => (raced' \/ OneChild')
<1> SUFFICES ASSUME Shape, raced \/ OneChild, [Next]_daemon_vars
             PROVE  raced' \/ OneChild'
  OBVIOUS
<1>1. TypeOK /\ PidsAreHeld BY DEF Shape
<1>2. pid \in [Paths -> Pids \cup {NoPid}] /\ process \in [Pids -> Cells] /\ NoPid \notin Pids
  BY <1>1, DaemonAssumption DEF TypeOK, Cells
<1>3. DaemonGone => OneChild'
  BY <1>2, CellsMade DEF DaemonGone, OneChild, Child, Free
<1>4. CASE NotifyLaunches
  <2>1. CASE DaemonGone BY <1>3, <2>1
  <2>2. CASE raced' = (raced \/ notifier.busy # (current # NoPid)) /\ ~raced
    <3>1. CASE notifier.busy # (current # NoPid) BY <2>2, <3>1
    <3>2. CASE notifier.busy = (current # NoPid)
      <4>1. CASE UNCHANGED <<pid, current, process>> BY <2>2, <4>1 DEF OneChild
      <4>2. CASE ~notifier.busy /\ ForkFor(notifier.path, <<>>)
        <5>1. current = NoPid BY <3>2, <4>2
        <5>2. notifier.path \in Paths BY <1>1, <1>4 DEF NotifyLaunches, TypeOK
        <5> QED BY <1>1, <2>2, <4>2, <5>1, <5>2, ForkForLeavesOne
      <4> QED BY <1>3, <1>4, <4>1, <4>2 DEF NotifyLaunches
    <3> QED BY <3>1, <3>2
  <2>3. CASE raced /\ raced' = (raced \/ notifier.busy # (current # NoPid)) BY <2>3
  <2> QED BY <1>4, <2>1, <2>2, <2>3 DEF NotifyLaunches
<1>5. CASE DaemonEnds BY <1>3, <1>5 DEF DaemonEnds
<1>6. CASE DrainForkQueue
  <2>1. CASE DaemonGone BY <1>3, <2>1
  <2>2. CASE UNCHANGED <<pid, current, process, raced>> BY <2>2 DEF OneChild
  <2>3. CASE queue # <<>> /\ current = NoPid /\ queue[Top].state = "pending"
             /\ ForkFor(queue[Top].path, <<>>) /\ UNCHANGED raced
    <3>1. queue \in Seq(ForkRequests) /\ Top \in DOMAIN queue
      BY <1>1, <2>3, TopIsRequest DEF TypeOK
    <3>2. queue[Top].path \in Paths
      <4>1. DOMAIN queue = 1 .. Len(queue) BY <3>1, LenProperties
      <4>2. queue[Top] \in ForkRequests BY <3>1, <4>1, ElementOfSeq
      <4> QED BY <4>2 DEF ForkRequests
    <3> QED BY <1>1, <2>3, <3>2, ForkForLeavesOne
  <2>4. CASE current = NoPid /\ ForkOrphan /\ UNCHANGED raced
    <3> SUFFICES ASSUME OneChild
                 PROVE  OneChild'
      BY <2>4
    <3>1. /\ \A c \in Pids : process[c].is \in {"none", "stray"}
          /\ \A q \in Paths : pid[q] = NoPid
      BY <1>2, <2>4 DEF OneChild
    <3>2. ASSUME NEW c \in Pids, current' = c, pid' = pid,
                 process' = [process EXCEPT ![c] = Child("clone", NoPath)]
          PROVE  OneChild'
      BY <1>2, <3>1, <3>2 DEF OneChild
    <3>3. CASE current' = NoPid /\ UNCHANGED <<process, pid>> BY <1>2, <3>1, <3>3 DEF OneChild
    <3> QED BY <2>4, <3>2, <3>3 DEF ForkOrphan
  <2>5. queue # <<>> => queue[Top].state \in {"pending", "cancelling", "orphaned"}
    <3> SUFFICES ASSUME queue # <<>>
                 PROVE  queue[Top].state \in {"pending", "cancelling", "orphaned"}
      OBVIOUS
    <3>1. queue \in Seq(ForkRequests) /\ Top \in DOMAIN queue BY <1>1, TopIsRequest DEF TypeOK
    <3>2. DOMAIN queue = 1 .. Len(queue) BY <3>1, LenProperties
    <3>3. queue[Top] \in ForkRequests BY <3>1, <3>2, ElementOfSeq
    <3> QED BY <3>3 DEF ForkRequests
  <2>6. CASE queue # <<>> /\ queue[Top].state = "pending"
    BY <1>6, <2>1, <2>2, <2>3, <2>6 DEF DrainForkQueue, launch_vars, notifier_vars
  <2>7. CASE queue # <<>> /\ queue[Top].state = "orphaned"
    BY <1>6, <2>1, <2>2, <2>4, <2>7 DEF DrainForkQueue, launch_vars, notifier_vars
  <2>8. CASE queue = <<>> \/ queue[Top].state = "cancelling"
    BY <1>6, <2>1, <2>2, <2>8 DEF DrainForkQueue, launch_vars, notifier_vars
  <2> QED BY <2>5, <2>6, <2>7, <2>8
<1>7. CASE HandleChld
  <2>1. raced' = raced BY <1>7 DEF HandleChld, notifier_vars
  <2>2. CASE UNCHANGED <<pid, current, process>> BY <2>1, <2>2 DEF OneChild
  <2>3. CASE current # NoPid /\ ReapCurrent
    <3> SUFFICES ASSUME OneChild
                 PROVE  OneChild'
      BY <2>1
    <3>1. current' = NoPid /\ process' = [process EXCEPT ![current] = Free] BY <2>3 DEF ReapCurrent
    <3>2. \A q \in Paths : pid'[q] # NoPid => pid[q] # current /\ pid'[q] = pid[q]
      BY <2>3, ReapKeeps
    <3>3. current \in Pids BY <1>1, <2>3 DEF TypeOK
    <3>4. \A c \in Pids : process'[c].is \in {"none", "stray"}
      BY <1>2, <3>1, <3>3 DEF OneChild, Free
    <3> QED BY <1>2, <3>1, <3>2, <3>4 DEF OneChild
  <2> QED BY <1>7, <2>2, <2>3 DEF HandleChld
<1>8. ASSUME NEW f \in Files, LoadPersistenceTask(f)
      PROVE  raced' \/ OneChild'
  <2>1. raced' = raced BY <1>8 DEF LoadPersistenceTask, notifier_vars
  <2>2. CASE UNCHANGED <<pid, current, process>> BY <2>1, <2>2 DEF OneChild
  <2>3. CASE StartTask(links[f], <<>>)
    <3>1. links[f] \in Paths
      BY <1>8 DEF LoadPersistenceTask, Shape, TypeOK, LinksAreLoaded, PersistentPaths
    <3> QED BY <1>1, <2>1, <2>3, <3>1, StartTaskLeavesOne
  <2> QED BY <1>8, <2>2, <2>3 DEF LoadPersistenceTask, launch_vars
<1>9. ASSUME NEW p \in Paths, NEW found \in {"missing", "empty", "script"},
             HandleStartTaskRequest(p, found)
      PROVE  raced' \/ OneChild'
  <2>1. raced' = raced BY <1>9 DEF HandleStartTaskRequest, notifier_vars
  <2>2. CASE UNCHANGED <<pid, current, process>> BY <2>1, <2>2 DEF OneChild
  <2>3. CASE StartTask(p, <<Message("kWaiting", p)>>) BY <1>1, <2>1, <2>3, StartTaskLeavesOne
  <2> QED BY <1>9, <2>2, <2>3 DEF HandleStartTaskRequest, launch_vars
<1>10. ASSUME NEW p \in Paths, HandleStopTaskRequest(p)
       PROVE  raced' \/ OneChild'
  <2>1. raced' = raced /\ current' = current BY <1>10 DEF HandleStopTaskRequest, notifier_vars
  <2>2. CASE UNCHANGED <<pid, process>> BY <2>1, <2>2 DEF OneChild
  <2>3. CASE StopTask(p)
    <3>1. pid' = [pid EXCEPT ![p] = NoPid] BY <2>3 DEF StopTask
    <3>2. \A c \in Pids : process'[c].is \notin {"none", "stray"} =>
                            process[c].is \notin {"none", "stray"}
      BY <1>2, <2>3 DEF StopTask
    <3> QED BY <1>2, <2>1, <3>1, <3>2 DEF OneChild
  <2> QED BY <1>10, <2>2, <2>3 DEF HandleStopTaskRequest
<1>11. ASSUME NEW p \in Paths, TimerFires(p)
       PROVE  raced' \/ OneChild'
  BY <1>1, <1>11, StartTaskLeavesOne DEF TimerFires, notifier_vars
<1>12. ASSUME NEW c \in Pids, ScriptEnds(c) \/ CloneEnds(c)
       PROVE  raced' \/ OneChild'
  <2>1. UNCHANGED <<raced, pid, current>> BY <1>12 DEF ScriptEnds, CloneEnds, notifier_vars
  <2>2. \A d \in Pids : process'[d].is \notin {"none", "stray"} =>
                          process[d].is \notin {"none", "stray"}
    <3>1. process[c].is = "stray" => process' = [process EXCEPT ![c] = Free]
      BY <1>12 DEF ScriptEnds, CloneEnds
    <3>2. \A d \in Pids \ {c} : process'[d] = process[d]
      BY <1>2, <1>12 DEF ScriptEnds, CloneEnds
    <3>3. process[c].is # "none" BY <1>12 DEF ScriptEnds, CloneEnds, Scripts
    <3> QED BY <1>2, <3>1, <3>2, <3>3 DEF Free
  <2> QED BY <2>1, <2>2 DEF OneChild
<1>13. CASE UNCHANGED <<pid, current, process, raced>> BY <1>13 DEF OneChild
<1>14. CASE \/ StartDaemon \/ RunPoller \/ ClientConnects \/ ClientDisconnects \/ RunTaskQueue
            \/ \E p \in Paths : NotifyTests(p)
            \/ UNCHANGED daemon_vars
  BY <1>13, <1>14 DEF StartDaemon, RunPoller, ClientConnects, ClientDisconnects, RunTaskQueue,
                      NotifyTests, daemon_vars, launch_vars, notifier_vars
<1> QED BY <1>4, <1>5, <1>6, <1>7, <1>8, <1>9, <1>10, <1>11, <1>12, <1>14 DEF Next

(* Until the notifying thread acts on a stale look at current_pid_, the    *)
(* daemon has at most one child, which it reaps when it ends, and a task   *)
(* that waits for a script waits for that child.                           *)
THEOREM OnlyChild == Spec => []ChildIsCurrent
<1>1. Init => raced \/ OneChild BY DEF Init, OneChild, Free
<1>2. Shape /\ (raced \/ OneChild) /\ [Next]_daemon_vars => (raced \/ OneChild)' BY NextKeepsOne
<1>3. Shape /\ (raced \/ OneChild) => ChildIsCurrent
  BY DEF Shape, TypeOK, OneChild, ChildIsCurrent
<1> QED BY <1>1, <1>2, <1>3, ShapeInvariant, PTL DEF Spec

(* A request that is not cancelled waits only behind a child.              *)
Behind == raced \/ draining \/ current # NoPid \/ \A i \in DOMAIN queue : ~Pending(i)

(* A request can only be pushed while a child is current, and a fork into  *)
(* an empty place leaves the queue as it was.                              *)
LEMMA StartStaysBehind ==
  ASSUME current # NoPid \/ \A i \in DOMAIN queue : ~Pending(i), NEW p, NEW said,
         StartProcess(p, said) \/ StartTask(p, said)
  PROVE  current' # NoPid \/ \A i \in DOMAIN queue' : ~Pending(i)'
<1>1. UNCHANGED <<queue, current>> => (current' # NoPid \/ \A i \in DOMAIN queue' : ~Pending(i)')
  BY DEF Pending
<1>2. ForkFor(p, said) /\ UNCHANGED queue /\ current = NoPid =>
        (current' # NoPid \/ \A i \in DOMAIN queue' : ~Pending(i)')
  BY DEF Pending
<1>3. StartProcess(p, said) => (current' # NoPid \/ \A i \in DOMAIN queue' : ~Pending(i)')
  BY <1>1, <1>2 DEF StartProcess, AsyncFork, launch_vars
<1>4. StartTask(p, said) => StartProcess(p, said) \/ UNCHANGED <<queue, current>>
  BY DEF StartTask, launch_vars
<1> QED BY <1>1, <1>3, <1>4

(* Every step leaves the requests behind a child that will be reaped.      *)
LEMMA NextStaysBehind == Shape /\ Behind /\ [Next]_daemon_vars => Behind'
<1> SUFFICES ASSUME Shape, Behind, [Next]_daemon_vars
             PROVE  Behind'
  OBVIOUS
<1>1. CASE UNCHANGED <<queue, current, raced, draining>> BY <1>1 DEF Behind, Pending
<1>2. CASE \/ StartDaemon \/ RunPoller \/ ClientConnects \/ ClientDisconnects \/ RunTaskQueue
           \/ \E p \in Paths : NotifyTests(p)
           \/ \E c \in Pids : ScriptEnds(c) \/ CloneEnds(c)
           \/ UNCHANGED daemon_vars
  <2>1. UNCHANGED <<queue, current, raced, draining>>
    BY <1>2 DEF StartDaemon, RunPoller, ClientConnects, ClientDisconnects, RunTaskQueue,
                NotifyTests, ScriptEnds, CloneEnds, daemon_vars, launch_vars, notifier_vars,
                poller_vars
  <2> QED BY <1>1, <2>1
<1>3. DaemonGone => Behind' BY DEF DaemonGone, Behind
<1>4. CASE DaemonEnds BY <1>3, <1>4 DEF DaemonEnds
<1>5. CASE HandleChld BY <1>5 DEF HandleChld, Behind
<1>6. CASE DrainForkQueue
  <2>1. CASE queue = <<>> /\ queue' = queue BY <2>1 DEF Behind
  <2>2. CASE draining /\ draining' = draining BY <2>2 DEF Behind
  <2> QED BY <1>3, <1>6, <2>1, <2>2 DEF DrainForkQueue, launch_vars, poller_vars
<1>7. CASE NotifyLaunches
  <2>1. CASE DaemonGone BY <1>3, <2>1
  <2>2. CASE /\ raced' = (raced \/ notifier.busy # (current # NoPid)) /\ draining' = draining
             /\ \/ notifier.busy /\ UNCHANGED current
                \/ ~notifier.busy /\ UNCHANGED queue
    <3>1. CASE raced' BY <3>1 DEF Behind
    <3>2. CASE ~raced'
      <4>1. ~raced /\ notifier.busy = (current # NoPid) BY <2>2, <3>2
      <4>2. CASE current # NoPid /\ current' = current BY <4>2 DEF Behind
      <4>3. CASE current = NoPid /\ queue' = queue
        BY <2>2, <4>1, <4>3 DEF Behind, Pending
      <4> QED BY <2>2, <4>1, <4>2, <4>3
    <3> QED BY <3>1, <3>2
  <2> QED BY <1>7, <2>1, <2>2 DEF NotifyLaunches, poller_vars
<1>8. ASSUME UNCHANGED <<raced, draining>>,
             NEW p, NEW said, StartProcess(p, said) \/ StartTask(p, said)
      PROVE  Behind'
  BY <1>8, StartStaysBehind DEF Behind
<1>9. ASSUME NEW f \in Files, LoadPersistenceTask(f)
      PROVE  Behind'
  BY <1>1, <1>8, <1>9 DEF LoadPersistenceTask, launch_vars, notifier_vars
<1>10. ASSUME NEW p \in Paths, NEW found \in {"missing", "empty", "script"},
              HandleStartTaskRequest(p, found)
       PROVE  Behind'
  <2>1. UNCHANGED <<raced, draining>>
    BY <1>10 DEF HandleStartTaskRequest, poller_vars, notifier_vars
  <2>2. UNCHANGED <<queue, current>> \/ StartTask(p, <<Message("kWaiting", p)>>)
    BY <1>10 DEF HandleStartTaskRequest, launch_vars
  <2> QED BY <1>1, <1>8, <2>1, <2>2
<1>11. ASSUME NEW p \in Paths, HandleStopTaskRequest(p)
       PROVE  Behind'
  <2>1. UNCHANGED <<raced, draining, current>> BY <1>11 DEF HandleStopTaskRequest, notifier_vars
  <2>2. CASE UNCHANGED queue BY <1>1, <2>1, <2>2
  <2>3. CASE StopTask(p)
    <3>1. queue \in Seq(ForkRequests) BY DEF Shape, TypeOK
    <3>2. \A i \in DOMAIN queue : queue[i] \in ForkRequests
      <4>1. DOMAIN queue = 1 .. Len(queue) BY <3>1, LenProperties
      <4> QED BY <3>1, <4>1, ElementOfSeq
    <3>3. /\ DOMAIN queue' = DOMAIN queue
          /\ \A i \in DOMAIN queue : queue[i].state = "cancelling" => queue'[i].state = "cancelling"
      BY <2>3, <3>2 DEF StopTask, ForkRequests
    <3> QED BY <2>1, <3>3 DEF Behind, Pending
  <2> QED BY <1>11, <2>2, <2>3 DEF HandleStopTaskRequest
<1>12. ASSUME NEW p \in Paths, TimerFires(p)
       PROVE  Behind'
  BY <1>8, <1>12 DEF TimerFires, poller_vars, notifier_vars
<1> QED BY <1>2, <1>4, <1>5, <1>6, <1>7, <1>9, <1>10, <1>11, <1>12 DEF Next

(* No lost wake-up: while a request waits, the child it waits for runs, or *)
(* its SIGCHLD is still to be read, and HandleChld empties the queue.      *)
THEOREM RequestIsWoken == Spec => []WaitingIsWoken
<1>1. Init => Behind BY DEF Init, Behind
<1>2. Shape /\ Behind /\ [Next]_daemon_vars => Behind' BY NextStaysBehind
<1>3. Shape /\ Behind => WaitingIsWoken
  <2> SUFFICES ASSUME Shape, current # NoPid
               PROVE  process[current].is \in Running \/ sigchld
    BY DEF Behind, WaitingIsWoken
  <2>1. /\ process[current].is \notin {"none", "stray"}
        /\ process[current].is \in Ended => sigchld
    BY DEF Shape, EndIsSignalled
  <2>2. process[current] \in Cells BY DEF Shape, TypeOK, Cells
  <2> QED BY <2>1, <2>2 DEF Cells, Free, Running, Scripts
<1> QED BY <1>1, <1>2, <1>3, ShapeInvariant, PTL DEF Spec

-----------------------------------------------------------------------------
(* The links on disk and the tasks in service.                             *)

Linked == {p \in Paths : links[FileOf[p]] = p}

(* Each link is its task's.  Where no directory is ever gone, there are no *)
(* more links than tasks may be, so a restart finds room for every one: the*)
(* tasks loaded so far are those whose link was visited, and fewer than    *)
(* the links.  Elsewhere some may be left out.                             *)
Loaded == {p \in Linked : FileOf[p] \notin toload \cup left_out}

Restored ==
  /\ \A f \in Files : links[f] # NoPath => FileOf[links[f]] = f
  /\ IsFiniteSet(tasks) /\ Cardinality(tasks) <= MaxTasks
  /\ Removable # {} \/ (IsFiniteSet(Linked) /\ Cardinality(Linked) <= MaxTasks /\ left_out = {})
  /\ up = "down" => tasks = {} /\ left_out = {}
  /\ up = "loading" => tasks = Loaded /\ toload \cap left_out = {}
  /\ up = "running" =>
       /\ \A p \in Linked : p \in tasks \/ FileOf[p] \in left_out
       /\ \A p \in tasks : Persistent(p) /\ Unshared(p) => p \in Linked

(* Before the first start there are no links.                              *)
LEMMA InitRestored == Init => Restored
<1> SUFFICES ASSUME Init
             PROVE  Restored
  OBVIOUS
<1>1. /\ tasks = {} /\ Linked = {} /\ up = "down" /\ left_out = {}
      /\ \A f \in Files : links[f] = NoPath
  BY DaemonAssumption DEF Init, Linked
<1> QED BY <1>1, FS_EmptySet, DaemonAssumption DEF Restored

(* A step that touches neither links nor tasks.                            *)
LEMMA RestoredStays ==
  ASSUME Restored, UNCHANGED <<link_vars, tasks, up, toload>>
  PROVE  Restored'
  BY DEF Restored, Linked, Loaded, link_vars

(* Every step keeps the links and the tasks together.                      *)
LEMMA NextRestores == Shape /\ Restored /\ [Next]_daemon_vars => Restored'
<1> SUFFICES ASSUME Shape, Restored, [Next]_daemon_vars
             PROVE  Restored'
  OBVIOUS
<1>1. /\ TypeOK /\ KindsAreKept /\ LinksAreLoaded
      /\ links \in [Files -> PersistentPaths \cup {NoPath}] /\ tasks \subseteq Paths
      /\ FileOf \in [Paths -> Files] /\ NoPath \notin Paths /\ MaxTasks \in Nat \ {0}
  BY DaemonAssumption DEF Shape, TypeOK
<1>2. \A p \in Linked : p \in Paths /\ FileOf[p] \in Files /\ links[FileOf[p]] = p /\ p # NoPath
  BY <1>1 DEF Linked
<1>3. Cardinality(tasks) \in Nat /\ (Removable = {} => Cardinality(Linked) \in Nat)
  BY FS_CardinalityType DEF Restored
<1>4. CASE StartDaemon
  <2>1. /\ up' = "loading" /\ tasks' = tasks /\ tasks = {} /\ left_out = {}
        /\ UNCHANGED link_vars /\ toload' = {f \in Files : links[f] # NoPath}
    BY <1>4 DEF StartDaemon, Restored
  <2>2. Linked' = Linked BY <2>1 DEF Linked, link_vars
  <2>3. \A p \in Linked : FileOf[p] \in toload' BY <1>2, <2>1
  <2>4. Loaded' = {} BY <2>2, <2>3 DEF Loaded
  <2> QED BY <2>1, <2>2, <2>4 DEF Restored, link_vars
<1>5. CASE RunPoller
  <2>1. /\ up = "loading" /\ toload = {} /\ up' = "running" /\ tasks' = tasks
        /\ UNCHANGED link_vars
    BY <1>5 DEF RunPoller
  <2>2. Linked' = Linked /\ tasks = {p \in Linked : FileOf[p] \notin left_out}
    BY <2>1 DEF Linked, Loaded, Restored, link_vars
  <2> QED BY <2>1, <2>2 DEF Restored, link_vars
<1>6. DaemonGone => Restored'
  <2> SUFFICES ASSUME DaemonGone
               PROVE  Restored'
    OBVIOUS
  <2>1. /\ links' = links /\ tasks' = {} /\ left_out' = {} /\ up' = "down"
    BY DEF DaemonGone
  <2>2. Linked' = Linked BY <2>1 DEF Linked
  <2> QED BY <1>1, <2>1, <2>2, FS_EmptySet DEF Restored
<1>7. CASE RunTaskQueue
  <2>1. /\ stopping \in Paths /\ up = "running" /\ up' = up /\ tasks' = tasks \ {stopping}
        /\ links' = [links EXCEPT ![FileOf[stopping]] = NoPath]
        /\ left_out' = left_out \ {FileOf[stopping]}
    BY <1>1, <1>7 DEF RunTaskQueue, Polling, TypeOK
  <2>2. \A f \in Files : links'[f] = IF f = FileOf[stopping] THEN NoPath ELSE links[f]
    BY <1>1, <2>1
  <2>3. /\ Linked' \subseteq Linked
        /\ \A p \in Linked' : p # stopping /\ FileOf[p] # FileOf[stopping]
    BY <1>1, <1>2, <2>1, <2>2 DEF Linked
  <2>4. Removable # {} \/ (IsFiniteSet(Linked') /\ Cardinality(Linked') <= MaxTasks /\ left_out' = {})
    <3> SUFFICES ASSUME Removable = {}
                 PROVE  IsFiniteSet(Linked') /\ Cardinality(Linked') <= MaxTasks /\ left_out' = {}
      BY <2>1
    <3>1. IsFiniteSet(Linked) /\ Linked' \in SUBSET Linked BY <2>3 DEF Restored
    <3>2. IsFiniteSet(Linked') /\ Cardinality(Linked') <= Cardinality(Linked)
      BY <3>1, FS_Subset
    <3>3. Cardinality(Linked') \in Nat BY <3>2, FS_CardinalityType
    <3> QED BY <1>1, <1>3, <2>1, <3>2, <3>3 DEF Restored
  <2>5. IsFiniteSet(tasks') /\ Cardinality(tasks') <= MaxTasks
    <3>1. /\ IsFiniteSet(tasks \ {stopping})
          /\ Cardinality(tasks \ {stopping}) =
               IF stopping \in tasks THEN Cardinality(tasks) - 1 ELSE Cardinality(tasks)
      BY FS_RemoveElement DEF Restored
    <3> QED BY <1>1, <1>3, <2>1, <3>1 DEF Restored
  <2>6. \A p \in Linked' : p \in tasks' \/ FileOf[p] \in left_out'
    BY <2>1, <2>3 DEF Restored
  <2>7. ASSUME NEW p \in tasks', Persistent(p), Unshared(p)
        PROVE  p \in Linked'
    <3>1. p \in Linked /\ p # stopping /\ p \in Paths BY <1>1, <2>1, <2>7 DEF Restored
    <3>2. FileOf[p] # FileOf[stopping] BY <2>1, <2>7, <3>1 DEF Unshared
    <3> QED BY <1>2, <2>2, <3>1, <3>2 DEF Linked
  <2>8. \A f \in Files : links'[f] # NoPath => FileOf[links'[f]] = f BY <2>2 DEF Restored
  <2> QED BY <2>1, <2>4, <2>5, <2>6, <2>7, <2>8 DEF Restored
<1>8. ASSUME NEW f \in Files, LoadPersistenceTask(f)
      PROVE  Restored'
  <2>1. up = "loading" /\ f \in toload /\ up' = up /\ links' = links /\ Linked' = Linked
    BY <1>8 DEF LoadPersistenceTask, Linked
  <2> DEFINE p == links[f]
  <2>2. p \in Paths /\ FileOf[p] = f /\ p \in Linked
    BY <1>1, <2>1 DEF LinksAreLoaded, Restored, PersistentPaths, Linked
  <2>3. tasks = Loaded /\ Loaded' = {q \in Linked : FileOf[q] \notin toload' \cup left_out'}
    BY <2>1 DEF Restored, Loaded
  <2>4. p \notin tasks BY <2>1, <2>2, <2>3 DEF Loaded
  <2>5. \A q \in Linked : FileOf[q] = f <=> q = p BY <1>2, <2>2
  <2> HIDE DEF p
  <2>6. CASE /\ Cardinality(tasks) >= MaxTasks
             /\ toload' = {} /\ left_out' = left_out \cup toload
             /\ UNCHANGED tasks
    <3>1. Removable # {}
      <4> SUFFICES ASSUME Removable = {}
                   PROVE  FALSE
        OBVIOUS
      <4>1. IsFiniteSet(Linked) /\ tasks \in SUBSET Linked /\ tasks # Linked
        BY <2>2, <2>3, <2>4 DEF Restored, Loaded
      <4>2. Cardinality(tasks) <= Cardinality(Linked) /\ Cardinality(tasks) # Cardinality(Linked)
        BY <4>1, FS_Subset
      <4> QED BY <1>1, <1>3, <2>6, <4>2 DEF Restored
    <3>2. tasks' = Loaded' BY <2>3, <2>6 DEF Loaded
    <3> QED BY <2>1, <2>6, <3>1, <3>2 DEF Restored
  <2>7. CASE /\ p \in Removable
             /\ toload' = toload \ {f} /\ left_out' = left_out \cup {f}
             /\ UNCHANGED tasks
    <3>1. tasks' = Loaded' BY <2>1, <2>3, <2>7 DEF Loaded
    <3> QED BY <2>1, <2>7, <3>1 DEF Restored
  <2>8. CASE /\ Cardinality(tasks) < MaxTasks
             /\ toload' = toload \ {f} /\ tasks' = tasks \cup {p}
             /\ UNCHANGED left_out
    <3>1. IsFiniteSet(tasks') /\ Cardinality(tasks') <= MaxTasks
      <4>1. IsFiniteSet(tasks \cup {p}) /\ Cardinality(tasks \cup {p}) = Cardinality(tasks) + 1
        BY <2>4, FS_AddElement DEF Restored
      <4> QED BY <1>1, <1>3, <2>8, <4>1
    <3>2. f \notin left_out /\ toload' \cap left_out' = {} BY <2>1, <2>8 DEF Restored
    <3>3. tasks' = Loaded' BY <2>2, <2>3, <2>5, <2>8, <3>2 DEF Loaded
    <3> QED BY <2>1, <2>8, <3>1, <3>2, <3>3 DEF Restored
  <2> QED BY <1>8, <2>6, <2>7, <2>8 DEF LoadPersistenceTask, StartTask, p
<1>9. ASSUME NEW p \in Paths, NEW found \in {"missing", "empty", "script"},
             HandleStartTaskRequest(p, found)
      PROVE  Restored'
  <2>1. up = "running" /\ UNCHANGED <<up, toload, left_out>>
    BY <1>9 DEF HandleStartTaskRequest, ClientReadable, Polling, poller_vars
  <2>2. CASE UNCHANGED <<tasks, links>> BY <2>1, <2>2, RestoredStays DEF link_vars
  <2>3. CASE /\ p \notin tasks /\ ~(Cardinality(tasks) >= MaxTasks)
             /\ tasks' = tasks \cup {p} /\ LinkPersistent(p)
    <3>1. IsFiniteSet(tasks') /\ Cardinality(tasks') <= MaxTasks
      <4>1. IsFiniteSet(tasks \cup {p}) /\ Cardinality(tasks \cup {p}) = Cardinality(tasks) + 1
        BY <2>3, FS_AddElement DEF Restored
      <4> QED BY <1>1, <1>3, <2>3, <4>1
    <3>2. \A f \in Files : links'[f] = IF Persistent(p) /\ f = FileOf[p] /\ links[f] = NoPath
                                       THEN p ELSE links[f]
      BY <1>1, <2>3 DEF LinkPersistent
    <3>3. \A q \in Linked' : q \in tasks' \/ FileOf[q] \in left_out
      <4>1. Linked' \subseteq Linked \cup {p} BY <1>1, <3>2 DEF Linked
      <4> QED BY <2>1, <2>3, <4>1 DEF Restored
    <3>4. Removable # {} \/ (IsFiniteSet(Linked') /\ Cardinality(Linked') <= MaxTasks /\ left_out = {})
      <4> SUFFICES ASSUME Removable = {}
                   PROVE  IsFiniteSet(Linked') /\ Cardinality(Linked') <= MaxTasks /\ left_out = {}
        OBVIOUS
      <4>1. left_out = {} /\ Linked' \in SUBSET tasks' BY <3>3 DEF Restored
      <4>2. IsFiniteSet(Linked') /\ Cardinality(Linked') <= Cardinality(tasks')
        BY <3>1, <4>1, FS_Subset
      <4>3. Cardinality(Linked') \in Nat /\ Cardinality(tasks') \in Nat
        BY <3>1, <4>2, FS_CardinalityType
      <4> QED BY <1>1, <3>1, <4>1, <4>2, <4>3
    <3>5. \A f \in Files : links'[f] # NoPath => FileOf[links'[f]] = f BY <3>2 DEF Restored
    <3>6. ASSUME NEW q \in tasks', Persistent(q), Unshared(q)
          PROVE  q \in Linked'
      <4>1. CASE q = p
        <5>1. CASE links[FileOf[p]] = NoPath BY <1>1, <3>2, <3>6, <4>1, <5>1 DEF Linked
        <5>2. CASE links[FileOf[p]] # NoPath
          <6>1. links[FileOf[p]] \in Paths /\ FileOf[links[FileOf[p]]] = FileOf[p]
            BY <1>1, <5>2 DEF Restored, PersistentPaths
          <6>2. links[FileOf[p]] = p BY <3>6, <4>1, <6>1 DEF Unshared
          <6> QED BY <1>1, <3>2, <4>1, <5>2, <6>2 DEF Linked
        <5> QED BY <5>1, <5>2
      <4>2. CASE q # p
        <5>1. q \in Linked BY <2>1, <2>3, <3>6, <4>2 DEF Restored
        <5> QED BY <1>2, <3>2, <5>1 DEF Linked
      <4> QED BY <4>1, <4>2
    <3> QED BY <2>1, <3>1, <3>3, <3>4, <3>5, <3>6 DEF Restored
  <2> QED BY <1>9, <2>2, <2>3 DEF HandleStartTaskRequest, StartTask
<1>10. CASE DaemonEnds BY <1>6, <1>10 DEF DaemonEnds
<1>11. CASE DrainForkQueue \/ NotifyLaunches
  <2>1. DaemonGone \/ UNCHANGED <<link_vars, tasks, up, toload>>
    BY <1>11 DEF DrainForkQueue, NotifyLaunches, poller_vars
  <2> QED BY <1>6, <2>1, RestoredStays
<1>12. CASE \/ ClientConnects \/ ClientDisconnects \/ HandleChld
            \/ \E p \in Paths : HandleStopTaskRequest(p) \/ TimerFires(p) \/ NotifyTests(p)
            \/ \E c \in Pids : ScriptEnds(c) \/ CloneEnds(c)
            \/ UNCHANGED daemon_vars
  <2>1. UNCHANGED <<link_vars, tasks, up, toload>>
    BY <1>12 DEF ClientConnects, ClientDisconnects, HandleChld, HandleStopTaskRequest, TimerFires,
                 NotifyTests, ScriptEnds, CloneEnds, daemon_vars, poller_vars, link_vars
  <2> QED BY <2>1, RestoredStays
<1> QED BY <1>4, <1>5, <1>7, <1>8, <1>9, <1>10, <1>11, <1>12 DEF Next

(* In service, however often the daemon was restarted, each link leads to  *)
(* a task that is there or was left out by the last start, and a           *)
(* persistent task that shares its file name with nobody has its link.     *)
(* The limit of tasks leaves out no link where no directory is ever gone:  *)
(* there are never more links than tasks were allowed.                     *)
THEOREM LinksMatch == Spec => []PersistenceMatches
<1>1. Init => Restored BY InitRestored
<1>2. Shape /\ Restored /\ [Next]_daemon_vars => Restored' BY NextRestores
<1>3. Shape /\ Restored => PersistenceMatches
  <2> SUFFICES ASSUME Shape, Restored, up = "running"
               PROVE  /\ \A f \in Files :
                           links[f] # NoPath => links[f] \in tasks \/ f \in left_out
                      /\ \A p \in tasks : Persistent(p) /\ Unshared(p) => links[FileOf[p]] = p
                      /\ left_out # {} => Removable # {}
    BY DEF PersistenceMatches
  <2>1. \A f \in Files : links[f] # NoPath => links[f] \in Linked /\ FileOf[links[f]] = f
    BY DEF Shape, TypeOK, Restored, Linked, PersistentPaths
  <2> QED BY <2>1 DEF Restored, Linked
<1> QED BY <1>1, <1>2, <1>3, ShapeInvariant, PTL DEF Spec
=============================================================================
