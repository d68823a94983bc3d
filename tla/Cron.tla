-------------------------------- MODULE Cron --------------------------------
(***************************************************************************)
(* The scheduler of util/cron/mod.rs: a thread that owns a heap of tasks   *)
(* (CronStateMachine), the channel by which the holders of a CronHandle    *)
(* submit tasks, and the termination flag they share with the thread.      *)
(*                                                                         *)
(* Time is relative: left[t] is how long until task t is due, 0 when it is *)
(* due or late.  It passes while the thread sleeps or runs a task; its own *)
(* steps take none.  The heap is a sequence, earliest first; tasks of one  *)
(* time stand in any order, as in a BinaryHeap.                            *)
(***************************************************************************)
EXTENDS Naturals, Sequences, SequencesExt

CONSTANTS
    Tasks,        \* the tasks that may be submitted, each once
    Recurring,    \* those with a recurrence interval
    Interval,     \* of a recurring task
    PollInterval, \* CronStateMachine.poll_interval_ms
    MaxDelay,     \* bound on the delay with which a task is submitted
    Nothing       \* not a task

ASSUME TasksAssumption ==
    /\ Recurring \subseteq Tasks
    /\ Nothing \notin Tasks

ASSUME TimesAssumption ==
    /\ Interval \in [Recurring -> Nat \ {0}]
    /\ PollInterval \in Nat \ {0}
    /\ MaxDelay \in Nat

VARIABLES
    state,               \* CronStateMachine.state, or that a task is executing
    queue,               \* the heap
    channel,             \* tasks sent and not received
    left,                \* time until the task is due
    running,             \* the task that executes
    alarm,               \* time until the sleep ends
    terminating,         \* the shared flag
    connected,           \* some CronHandle is left
    channelDisconnected, \* CronStateMachine.channel_disconnected
    accepted             \* tasks whose schedule call returned true

vars == <<state, queue, channel, left, running, alarm, terminating, connected,
          channelDisconnected, accepted>>

CronState == {"CheckEvents", "DrainChannel", "ExecutingTask", "Sleeping",
              "Terminated"}

Init ==
    /\ state = "CheckEvents"
    /\ queue = <<>>
    /\ channel = <<>>
    /\ left = [t \in Tasks |-> 0]
    /\ running = Nothing
    /\ alarm = 0
    /\ terminating = FALSE
    /\ connected = TRUE
    /\ channelDisconnected = FALSE
    /\ accepted = {}

---------------------------------------------------------------------------
(* The holders of a CronHandle. *)

\* schedule_after: after the thread has ended, the send fails and the call
\* returns false.
Schedule(t, delay) ==
    /\ connected
    /\ state # "Terminated"
    /\ t \notin accepted
    /\ channel' = Append(channel, t)
    /\ left' = [left EXCEPT ![t] = delay]
    /\ accepted' = accepted \cup {t}
    /\ UNCHANGED <<state, queue, running, alarm, terminating, connected,
                   channelDisconnected>>

\* request_shutdown, or the owner of the shared flag.
RequestShutdown ==
    /\ terminating' = TRUE
    /\ UNCHANGED <<state, queue, channel, left, running, alarm, connected,
                   channelDisconnected, accepted>>

\* The last handle is dropped.
DropHandles ==
    /\ connected
    /\ connected' = FALSE
    /\ UNCHANGED <<state, queue, channel, left, running, alarm, terminating,
                   channelDisconnected, accepted>>

---------------------------------------------------------------------------
(* poll_event and transition: the thread looks first for a due task, then  *)
(* at the termination flag, and then at what its state calls for.          *)

Polling ==
    \/ state \in {"CheckEvents", "DrainChannel"}
    \/ state = "Sleeping" /\ alarm = 0

HeadDue == queue # <<>> /\ left[Head(queue)] = 0

Quiet == Polling /\ ~HeadDue /\ ~terminating

\* execute_one_task pops the head and calls it.
ExecuteTask ==
    /\ Polling
    /\ HeadDue
    /\ running' = Head(queue)
    /\ queue' = Tail(queue)
    /\ state' = "ExecutingTask"
    /\ UNCHANGED <<channel, left, alarm, terminating, connected,
                   channelDisconnected, accepted>>


\* Mutant of Terminate: the flag is looked at before the due tasks.
TerminateFirst ==
    /\ Polling
    /\ terminating
    /\ state' = "Terminated"
    /\ UNCHANGED <<queue, channel, left, running, alarm, terminating,
                   connected, channelDisconnected, accepted>>

Terminate ==
    /\ Polling
    /\ ~HeadDue
    /\ terminating
    /\ state' = "Terminated"
    /\ UNCHANGED <<queue, channel, left, running, alarm, terminating,
                   connected, channelDisconnected, accepted>>

\* Where a heap that orders by time may hold a task due in d.
Positions(d) ==
    {i \in 1..Len(queue) + 1 :
        /\ \A j \in 1..i - 1 : left[queue[j]] <= d
        /\ \A j \in i..Len(queue) : d <= left[queue[j]]}

Push(t, d) == \E i \in Positions(d) : queue' = InsertAt(queue, i, t)


\* try_recv in either state yields a task.
Receive ==
    /\ Quiet
    /\ state \in {"CheckEvents", "DrainChannel"}
    /\ channel # <<>>
    /\ Push(Head(channel), left[Head(channel)])
    /\ channel' = Tail(channel)
    /\ state' = "DrainChannel"
    /\ UNCHANGED <<left, running, alarm, terminating, connected,
                   channelDisconnected, accepted>>

Disconnected == channel = <<>> /\ ~connected


\* Mutant of NoticeDisconnect: the thread ends although tasks are queued.
NoticeDisconnectEnds ==
    /\ Quiet
    /\ state \in {"CheckEvents", "DrainChannel"}
    /\ Disconnected
    /\ channelDisconnected' = TRUE
    /\ state' = "Terminated"
    /\ UNCHANGED <<queue, channel, left, running, alarm, terminating,
                   connected, accepted>>

\* try_recv finds the channel empty and without senders.  In CheckEvents this
\* counts once, and ends the thread if no task is queued.
NoticeDisconnect ==
    /\ Quiet
    /\ Disconnected
    /\ \/ /\ state = "CheckEvents" /\ ~channelDisconnected
          /\ state' = IF queue = <<>> THEN "Terminated" ELSE "CheckEvents"
       \/ state = "DrainChannel" /\ state' = "CheckEvents"
    /\ channelDisconnected' = TRUE
    /\ UNCHANGED <<queue, channel, left, running, alarm, terminating,
                   connected, accepted>>


\* Mutant of RunOut: the check at the top of poll_check_events is gone, and
\* the thread sleeps and wakes for ever.
RunOutSleeps ==
    /\ Quiet
    /\ state = "CheckEvents"
    /\ channelDisconnected
    /\ queue = <<>>
    /\ state' = "Sleeping"
    /\ alarm' = PollInterval
    /\ UNCHANGED <<queue, channel, left, running, terminating, connected,
                   channelDisconnected, accepted>>

\* The last task is gone after the disconnect was noticed.
RunOut ==
    /\ Quiet
    /\ state = "CheckEvents"
    /\ channelDisconnected
    /\ queue = <<>>
    /\ state' = "Terminated"
    /\ UNCHANGED <<queue, channel, left, running, alarm, terminating,
                   connected, channelDisconnected, accepted>>


\* Mutant of SleepTime: do_sleep does not look at the queue.
SleepTimePoll == PollInterval

SleepTime ==
    IF queue # <<>> /\ left[Head(queue)] < PollInterval
    THEN left[Head(queue)]
    ELSE PollInterval

\* NoEvents: the channel is empty, or in CheckEvents known to be closed.
GoToSleep ==
    /\ Quiet
    /\ channel = <<>>
    /\ \/ connected /\ state \in {"CheckEvents", "DrainChannel"}
       \/ state = "CheckEvents" /\ channelDisconnected /\ queue # <<>>
    /\ state' = "Sleeping"
    /\ alarm' = SleepTime
    /\ UNCHANGED <<queue, channel, left, running, terminating, connected,
                   channelDisconnected, accepted>>

WakeUp ==
    /\ Quiet
    /\ state = "Sleeping"
    /\ state' = "CheckEvents"
    /\ UNCHANGED <<queue, channel, left, running, alarm, terminating,
                   connected, channelDisconnected, accepted>>

---------------------------------------------------------------------------
(* The end of execute_one_task. *)


\* A recurring task is due one interval after it ended.
Requeue(t) ==
    /\ left' = [left EXCEPT ![t] = Interval[t]]
    /\ Push(t, Interval[t])

TaskEnds ==
    /\ state = "ExecutingTask"
    /\ state' = "CheckEvents"
    /\ running' = Nothing
    /\ UNCHANGED <<channel, alarm, terminating, connected,
                   channelDisconnected, accepted>>

TaskSucceeds ==
    /\ TaskEnds
    /\ \/ running \in Recurring /\ Requeue(running)
       \/ running \notin Recurring /\ UNCHANGED <<queue, left>>

\* It returned false or panicked: it is dropped, recurring or not.
TaskFails ==
    /\ TaskEnds
    /\ UNCHANGED <<queue, left>>

Minus1(n) == IF n = 0 THEN 0 ELSE n - 1

Tick ==
    /\ state \in {"Sleeping", "ExecutingTask"}
    /\ left' = [t \in Tasks |-> Minus1(left[t])]
    /\ alarm' = Minus1(alarm)
    /\ UNCHANGED <<state, queue, channel, running, terminating, connected,
                   channelDisconnected, accepted>>

\* The thread has ended.
Ended == state = "Terminated" /\ UNCHANGED vars

---------------------------------------------------------------------------
Callers ==
    \/ \E t \in Tasks, delay \in 0..MaxDelay : Schedule(t, delay)
    \/ RequestShutdown
    \/ DropHandles

PollEvent ==
    \/ ExecuteTask \/ Terminate \/ Receive \/ NoticeDisconnect \/ RunOut
    \/ GoToSleep \/ WakeUp

Next == Callers \/ PollEvent \/ TaskSucceeds \/ TaskFails \/ Tick \/ Ended

Spec == Init /\ [][Next]_vars

\* The thread runs on, time passes, and a task that is called returns.
Fairness ==
    /\ WF_vars(PollEvent)
    /\ WF_vars(TaskSucceeds \/ TaskFails)
    /\ WF_vars(Tick)

FairSpec == Spec /\ Fairness

---------------------------------------------------------------------------
(* Properties. *)

Queued == ToSet(queue)

\* A task is in one place at a time: in the channel, in the heap or running.
TypeOK ==
    /\ state \in CronState
    /\ queue \in Seq(Tasks) /\ channel \in Seq(Tasks)
    /\ IsInjective(channel) /\ IsInjective(queue)
    /\ ToSet(channel) \cap Queued = {}
    /\ running \in Tasks \cup {Nothing}
    /\ running # Nothing <=> state = "ExecutingTask"
    /\ running \notin Queued \cup ToSet(channel)
    /\ left \in [Tasks -> Nat] /\ alarm \in 0..PollInterval
    /\ terminating \in BOOLEAN /\ connected \in BOOLEAN
    /\ channelDisconnected \in BOOLEAN
    /\ accepted \subseteq Tasks

\* The thread never sleeps past the time of a task it holds, whichever of them
\* was queued first or came back from a run (mod.rs:610-627).
NoOversleep ==
    state = "Sleeping" => \A t \in Queued : alarm <= left[t]

\* Due tasks "get executed even if termination is requested while the
\* scheduler was sleeping" (mod.rs:402-411): when the thread has terminated,
\* no task it held was due.
NoDueTaskIsLeft ==
    state = "Terminated" => \A t \in Queued : left[t] > 0

Pending(t) == t \in Queued \cup ToSet(channel)

AtMostOneRecurs ==
    \A s, t \in Recurring :
        (Pending(s) \/ running = s) /\ (Pending(t) \/ running = t) => s = t

\* Every accepted task is executed, and a recurring one again and again, unless
\* a shutdown is requested: no task starves in the heap, and none is lost when
\* the last handle is dropped.  A task still in the channel needs that not more
\* than one task recurs: with two, each may be due whenever the other has
\* ended, and the channel is not looked at while a task is due.
AcceptedTasksRun ==
    \A t \in Tasks :
        (t \in Queued \/ (Pending(t) /\ []AtMostOneRecurs))
            ~> (running = t \/ terminating)

\* The thread ends after a shutdown, for the same reason only if not more than
\* one task recurs, and by itself when every handle is dropped and no task
\* recurs any more.
SchedulerEnds ==
    /\ (terminating /\ []AtMostOneRecurs) ~> state = "Terminated"
    /\ (~connected /\ \A t \in Recurring : ~Pending(t) /\ running # t)
          ~> state = "Terminated"

=============================================================================
