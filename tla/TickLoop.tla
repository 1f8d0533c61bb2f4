------------------------------ MODULE TickLoop ------------------------------
(***************************************************************************)
(* BotLoop (monitor/loop.py): the scheduler starts a coroutine per job,    *)
(* the coroutines queue for _tick_lock, and the one that has it runs its   *)
(* tick in a worker thread.  A coroutine can be cancelled, a thread        *)
(* cannot: after the shutdown a tick goes on without its coroutine.        *)
(***************************************************************************)
EXTENDS Naturals, Sequences

VARIABLES
    job,       \* job -> its coroutine: "none", "new", "waiting", "running"
    queue,     \* the waiters of _tick_lock, an asyncio.Lock is FIFO; the
               \* cancelled ones are no longer "waiting"
    holder,    \* the job that has _tick_lock, or "none"
    ticks,     \* job -> the number of its ticks in worker threads
    halted,    \* the engine's state is HALTED
    loop       \* "up", "stopping" (_stop_event is set), "down", "exited"

loopVars == <<job, queue, holder, ticks, halted, loop>>

Jobs == {"scan", "monitor"}

LoopInit ==
    /\ job = [j \in Jobs |-> "none"]
    /\ queue = <<>>
    /\ holder = "none"
    /\ ticks = [j \in Jobs |-> 0]
    /\ halted = FALSE
    /\ loop = "up"

InTick(j) == ticks[j] > 0

-----------------------------------------------------------------------------

SchedulerRuns == loop \in {"up", "stopping"}

\* The interval is over; max_instances = 1 skips a job that is still there.
Fire(j) ==
    /\ SchedulerRuns
    /\ job[j] = "none"
    /\ job' = [job EXCEPT ![j] = "new"]
    /\ UNCHANGED <<queue, holder, ticks, halted, loop>>

\* async with _tick_lock, and asyncio.to_thread(tick).
Acquire(j) ==
    /\ holder' = j
    /\ job' = [job EXCEPT ![j] = "running"]
    /\ ticks' = [ticks EXCEPT ![j] = @ + 1]

\* Fault: the lock lets a newcomer pass the waiters.
LockIsUnheld == holder = "none"

LockIsFree == holder = "none" /\ queue = <<>>

SkipHalted(j) ==
    /\ job[j] = "new"
    /\ halted
    /\ job' = [job EXCEPT ![j] = "none"]
    /\ UNCHANGED <<queue, holder, ticks, halted, loop>>

BeginAtOnce(j) ==
    /\ job[j] = "new"
    /\ ~halted
    /\ LockIsFree
    /\ Acquire(j)
    /\ UNCHANGED <<queue, halted, loop>>

Queue(j) ==
    /\ job[j] = "new"
    /\ ~halted
    /\ ~LockIsFree
    /\ queue' = Append(queue, j)
    /\ job' = [job EXCEPT ![j] = "waiting"]
    /\ UNCHANGED <<holder, ticks, halted, loop>>

\* The release wakes the first waiter; HALTED is not looked at again here.
Wake ==
    /\ holder = "none"
    /\ queue # <<>>
    /\ job[Head(queue)] = "waiting"
    /\ Acquire(Head(queue))
    /\ queue' = Tail(queue)
    /\ UNCHANGED <<halted, loop>>

\* _check_daily_loss_limit, at the start of a tick.
Halt(j) ==
    /\ InTick(j)
    /\ ~halted
    /\ halted' = TRUE
    /\ UNCHANGED <<job, queue, holder, ticks, loop>>

\* The thread is done; a coroutine that still awaits it leaves the lock and
\* ends, whether the tick returned or raised.
TickEnds(j) ==
    /\ InTick(j)
    /\ ticks' = [ticks EXCEPT ![j] = @ - 1]
    /\ IF job[j] = "running"
       THEN job' = [job EXCEPT ![j] = "none"] /\ holder' = "none"
       ELSE UNCHANGED <<job, holder>>
    /\ UNCHANGED <<queue, halted, loop>>

\* SIGINT or SIGTERM.
Signal ==
    /\ loop = "up"
    /\ loop' = "stopping"
    /\ UNCHANGED <<job, queue, holder, ticks, halted>>

\* Fault: only the jobs whose tick is running are cancelled.
CancelledRunningJobs == {j \in Jobs : job[j] = "running"}

\* The coroutines that scheduler.shutdown(wait=False) cancels: all there are.
CancelledJobs == {j \in Jobs : job[j] # "none"}

\* Fault: the shutdown waits for a moment without a job.
MayShutDownIdle == loop = "stopping" /\ \A j \in Jobs : job[j] = "none"

MayShutDown == loop = "stopping"

\* Cancelled coroutines leave the lock, or wait for it no longer.
Shutdown ==
    /\ MayShutDown
    /\ loop' = "down"
    /\ job' = [j \in Jobs |-> IF j \in CancelledJobs THEN "none" ELSE job[j]]
    /\ holder' = IF holder \in CancelledJobs THEN "none" ELSE holder
    /\ UNCHANGED <<queue, ticks, halted>>

=============================================================================
