------------------------------ MODULE IoWorker ------------------------------
(***************************************************************************)
(* The two threads of the application and the queues that feed them.       *)
(*                                                                         *)
(* "worker" is the thread of IoWorker's k_work_q (src/io_worker.cpp): it   *)
(* takes one work item at a time, in FIFO order, and runs its handler to   *)
(* the end.  "app" is the main thread, which sits in the loop around       *)
(* Nrf::DispatchNextTask() in AppTask::StartApp.  Timer callbacks and      *)
(* button handlers run outside both and only submit to one of the queues.  *)
(*                                                                         *)
(* A handler is a walk through the locations of pc: a step ends where the  *)
(* thread blocks on a bus, and wherever the other thread may get between   *)
(* two accesses to shared state.                                           *)
(***************************************************************************)
EXTENDS Naturals, Sequences, FiniteSets

CONSTANTS
    StrictPriority,  \* TRUE: the worker runs only while the app thread, whose
                     \* priority is higher, waits.  FALSE: any interleaving.
    TaskQueueSize    \* capacity of the message queue behind Nrf::PostTask

ASSUME StrictPriorityIsBoolean == StrictPriority \in BOOLEAN
ASSUME TaskQueueHasRoom == TaskQueueSize \in Nat \ {0}

VARIABLES
    pc,         \* where each thread is in its current handler
    resume,     \* where each thread's call of RefreshDisplay returns to
    workQueue,  \* pending k_work items of the worker
    taskQueue   \* pending tasks of the app thread

threadVars == <<pc, resume, workQueue, taskQueue>>

Threads == {"worker", "app"}

(* One k_work object exists per kind, so the kind identifies the item. *)
WorkItems == {"displayInit", "tick", "toggle", "calibrate", "decon"}

(* Locations at which a thread waits for an I2C or SPI transfer to end. *)
BusLocations ==
    {"readPrimary", "readSecondary", "calibrate", "heaterOn", "heaterOff",
     "fetch", "drawMeasurements", "flush", "commit"}

Locations ==
    BusLocations \cup
    {"idle", "publish", "show", "pushOffset", "activate", "armTimer", "showStart",
     "deactivate", "showStop", "cycleShow", "decide", "refresh", "drawStatusBar"}

(***************************************************************************)
(* Scheduling.  The main thread has a numerically lower, that is a higher, *)
(* priority than the worker (Kconfig: APP_IO_WORKQUEUE_PRIORITY), so the   *)
(* worker advances only when the app thread waits: for the bus, or for a   *)
(* task.                                                                   *)
(***************************************************************************)
AppWaits ==
    \/ pc["app"] \in BusLocations
    \/ pc["app"] = "idle" /\ taskQueue = <<>>

MayRun(t) == t = "worker" /\ StrictPriority => AppWaits

At(t, location) == pc[t] = location /\ MayRun(t)

Goto(t, location) == pc' = [pc EXCEPT ![t] = location]

(* Both threads are where only the passage of time can move them. *)
AllWait ==
    /\ AppWaits
    /\ pc["worker"] \in BusLocations \/ (pc["worker"] = "idle" /\ workQueue = <<>>)

(***************************************************************************)
(* k_work_submit_to_queue: an item that is already queued is not queued    *)
(* again; an item whose handler is running has left the queue and is.      *)
(***************************************************************************)
Queued(item) == \E i \in DOMAIN workQueue : workQueue[i] = item

Submit(item) ==
    workQueue' = IF Queued(item) THEN workQueue ELSE Append(workQueue, item)

(* The worker thread takes the next item and enters its handler. *)
TakeWork(item) ==
    /\ At("worker", "idle")
    /\ workQueue # <<>>
    /\ Head(workQueue) = item
    /\ workQueue' = Tail(workQueue)

(***************************************************************************)
(* Nrf::PostTask puts a task in a bounded queue without waiting: when the  *)
(* queue is full the task is lost.                                         *)
(***************************************************************************)
Task(kind, reading) == [kind |-> kind, reading |-> reading]

(* Variant: the capacity is not looked at. *)
PostTaskUnbounded(task) == taskQueue' = Append(taskQueue, task)

PostTask(task) ==
    taskQueue' = IF Len(taskQueue) < TaskQueueSize
                 THEN Append(taskQueue, task)
                 ELSE taskQueue

(* Nrf::DispatchNextTask: the app thread takes the next task. *)
TakeTask(kind) ==
    /\ At("app", "idle")
    /\ taskQueue # <<>>
    /\ Head(taskQueue).kind = kind
    /\ taskQueue' = Tail(taskQueue)

-----------------------------------------------------------------------------

ThreadInit(items) ==
    /\ pc = [t \in Threads |-> "idle"]
    /\ resume = [t \in Threads |-> "idle"]
    /\ workQueue = items
    /\ taskQueue = <<>>

=============================================================================
