------------------------------- MODULE JobPump -------------------------------
(***************************************************************************)
(* How the mini-app runs an operation.  The UI thread (Main.qml) lets one   *)
(* action run at a time.  A short one is a bridge call that answers later.  *)
(* A long one is a *Start call, which only spawns a detached job in the     *)
(* plugin, and a timer that polls jobStatus until the job has a result.     *)
(* The plugin executes the calls it receives one after another; a call that *)
(* waits for longer than the bridge does is reported as unanswered to the   *)
(* UI and executed by the plugin all the same.  A failsafe clears the busy  *)
(* flag after MAX_ATTEMPTS polling intervals, whatever is still running.    *)
(*                                                                         *)
(* Actions are numbered in the order of the clicks.                         *)
(***************************************************************************)
EXTENDS Naturals, Sequences, FiniteSets

CONSTANTS
    MAX_ATTEMPTS,    \* polls before the pump gives up, and the failsafe's time
    MaxActions,      \* bound on the clicks
    CALLS_TIME_OUT \* the bridge may give up on a call

ASSUME JobPumpAssumption ==
    /\ MAX_ATTEMPTS \in Nat \ {0}
    /\ MaxActions \in Nat
    /\ CALLS_TIME_OUT \in BOOLEAN

VARIABLES
    kind,        \* the actions so far: "job" if in startMap, else "call"
    busy,        \* root.busy
    failsafe,    \* intervals until busyFailsafe fires, or Off
    pending,     \* [job, act]: pendingJobId and whose onResult is pending
    attempts,    \* pendingJobAttempts
    poll,        \* jobPollTimer: "off", "set" or "due"
    finished,    \* actions whose onResult has run
    history,     \* root.history: what each action was told
    queue,       \* calls the plugin has received, the first in execution
    replies,     \* calls whose answer is under way to the UI
    registry,    \* the plugin's jobs: whose, and whether the result is there
    gave_up      \* a timeout or the failsafe has ended a wait

pumpVars == <<pending, attempts, poll>>
pluginVars == <<queue, replies, registry>>
jobPumpVars == <<kind, busy, failsafe, pumpVars, finished, history, pluginVars,
                 gave_up>>

Action == 1 .. MaxActions
NoAction == 0
Nothing == 0          \* an answer that is not the result of the operation
Sync == 0             \* the call of syncPrivateBalances
Off == MAX_ATTEMPTS + 1
NoJob == [job |-> 0, act |-> NoAction]

PumpInit ==
    /\ kind = <<>>
    /\ busy = FALSE
    /\ failsafe = Off
    /\ pending = NoJob
    /\ attempts = 0
    /\ poll = "off"
    /\ finished = {}
    /\ history = <<>>
    /\ queue = <<>>
    /\ replies = {}
    /\ registry = <<>>
    /\ gave_up = FALSE

(* A synchronous call is answered when its turn comes; it may be given up   *)
(* when others are before it.                                              *)
Answered == queue = <<>>
Unanswered == CALLS_TIME_OUT /\ queue # <<>>

-----------------------------------------------------------------------------
(* The result of an action, after which the private balances are synced.   *)

Record(act, got) ==
    /\ finished' = finished \cup {act}
    /\ history' = Append(history, [act |-> act, got |-> got])
    /\ busy' = FALSE
    /\ failsafe' = Off
    /\ queue' = IF got = Nothing THEN queue ELSE Append(queue, Sync)

(* Variant: onResult does not remember that it has run.                    *)
OnEveryResult(act, got) == Record(act, got)

OnResult(act, got) ==
    \/ act \notin finished /\ Record(act, got)
    \/ act \in finished /\ UNCHANGED <<finished, history, busy, failsafe, queue>>

(* Variant: a click starts an action whatever is running.                  *)
BeginUnchecked(k) ==
    /\ Len(kind) < MaxActions
    /\ kind' = Append(kind, k)

Begin(k) ==
    /\ ~busy
    /\ Len(kind) < MaxActions
    /\ kind' = Append(kind, k)

Spawned(act) == Append(registry, [of |-> act, done |-> FALSE])

ResetAttempts == attempts' = 0

(* *Start returns "job=<id>", and the polling begins.                      *)
RunJob ==
    LET act == Len(kind) + 1
    IN  /\ Begin("job")
        /\ Answered
        /\ busy' = TRUE
        /\ failsafe' = MAX_ATTEMPTS
        /\ registry' = Spawned(act)
        /\ pending' = [job |-> Len(registry) + 1, act |-> act]
        /\ ResetAttempts
        /\ poll' = "set"
        /\ UNCHANGED <<finished, history, queue, replies, gave_up>>

(* *Start returns something else, which is taken for a validation error.   *)
RunJobUnanswered ==
    LET act == Len(kind) + 1
    IN  /\ Begin("job")
        /\ Unanswered
        /\ finished' = finished \cup {act}
        /\ history' = Append(history, [act |-> act, got |-> Nothing])
        /\ failsafe' = Off
        /\ queue' = Append(queue, act)
        /\ gave_up' = TRUE
        /\ UNCHANGED <<busy, pumpVars, replies, registry>>

RunCall ==
    /\ Begin("call")
    /\ busy' = TRUE
    /\ failsafe' = MAX_ATTEMPTS
    /\ queue' = Append(queue, Len(kind) + 1)
    /\ UNCHANGED <<pumpVars, finished, history, replies, registry, gave_up>>

Reply(act) ==
    /\ act \in replies
    /\ replies' = replies \ {act}
    /\ OnResult(act, act)
    /\ UNCHANGED <<kind, pumpVars, registry, gave_up>>

BridgeTimeout(act) ==
    /\ CALLS_TIME_OUT
    /\ \E i \in 1 .. Len(queue) : queue[i] = act
    /\ kind[act] = "call"
    /\ act \notin finished
    /\ OnResult(act, Nothing)
    /\ gave_up' = TRUE
    /\ UNCHANGED <<kind, pumpVars, replies, registry>>

-----------------------------------------------------------------------------
(* Timers.                                                                 *)

(* Variant: the newest job is asked for.                                   *)
NewestJob == Len(registry)
PolledJob == pending.job

(* Variant: a pending job is not polled again.                             *)
PollNoMore ==
    /\ poll' = "off"
    /\ UNCHANGED <<pending, finished, history, busy, failsafe, queue>>

PollAgain ==
    /\ poll' = "set"
    /\ UNCHANGED <<pending, finished, history, busy, failsafe, queue>>

PollEnds(got) ==
    /\ poll' = "off"
    /\ pending' = [pending EXCEPT !.act = NoAction]
    /\ OnResult(pending.act, got)

Poll ==
    /\ poll = "due"
    /\ pending.act # NoAction
    /\ attempts' = attempts + 1
    /\ \/ /\ attempts' > MAX_ATTEMPTS
          /\ PollEnds(Nothing)
          /\ UNCHANGED gave_up
       \/ /\ attempts' <= MAX_ATTEMPTS
          /\ Unanswered
          /\ PollEnds(Nothing)
          /\ gave_up' = TRUE
       \/ /\ attempts' <= MAX_ATTEMPTS
          /\ Answered
          /\ \/ registry[PolledJob].done /\ PollEnds(registry[PolledJob].of)
             \/ ~registry[PolledJob].done /\ PollAgain
          /\ UNCHANGED gave_up
    /\ UNCHANGED <<kind, replies, registry>>

(* Variant: the failsafe leaves busy alone.                                *)
FailsafeIdle ==
    /\ failsafe = 0
    /\ failsafe' = Off
    /\ gave_up' = (gave_up \/ busy)
    /\ UNCHANGED <<kind, busy, pumpVars, finished, history, pluginVars>>

Failsafe ==
    /\ failsafe = 0
    /\ failsafe' = Off
    /\ busy' = FALSE
    /\ gave_up' = (gave_up \/ busy)
    /\ UNCHANGED <<kind, pumpVars, finished, history, pluginVars>>

(* An interval of the polling timer passes.                                *)
Tick ==
    /\ failsafe # 0
    /\ failsafe # Off \/ poll = "set"
    /\ failsafe' = IF failsafe = Off THEN Off ELSE failsafe - 1
    /\ poll' = IF poll = "set" THEN "due" ELSE poll
    /\ UNCHANGED <<kind, busy, pending, attempts, finished, history, pluginVars,
                   gave_up>>

-----------------------------------------------------------------------------
(* The plugin.                                                             *)

(* The call in execution ends: a sync, a *Start nobody waits for any more,  *)
(* or an operation.                                                        *)
Serve ==
    /\ queue # <<>>
    /\ queue' = Tail(queue)
    /\ LET act == Head(queue)
       IN  \/ act = Sync /\ UNCHANGED <<replies, registry>>
           \/ /\ act # Sync
              /\ kind[act] = "job"
              /\ registry' = Spawned(act)
              /\ UNCHANGED replies
           \/ /\ act # Sync
              /\ kind[act] = "call"
              /\ replies' = replies \cup {act}
              /\ UNCHANGED registry
    /\ UNCHANGED <<kind, busy, failsafe, pumpVars, finished, history, gave_up>>

JobDone(job) ==
    /\ ~registry[job].done
    /\ registry' = [registry EXCEPT ![job].done = TRUE]
    /\ UNCHANGED <<kind, busy, failsafe, pumpVars, finished, history, queue,
                   replies, gave_up>>

PumpNext ==
    \/ RunJob \/ RunJobUnanswered \/ RunCall
    \/ \E act \in 1 .. Len(kind) : Reply(act) \/ BridgeTimeout(act)
    \/ Poll \/ Failsafe \/ Tick
    \/ Serve
    \/ \E job \in 1 .. Len(registry) : JobDone(job)

PumpSpec == PumpInit /\ [][PumpNext]_jobPumpVars

(* Time passes and the UI thread serves its timers.  Nothing is assumed of  *)
(* the bridge, the plugin and its jobs: each may hang for ever.            *)
FairSpec == PumpSpec /\ WF_jobPumpVars(Tick) /\ WF_jobPumpVars(Poll) /\ WF_jobPumpVars(Failsafe)

-----------------------------------------------------------------------------
(* Safety.                                                                 *)

(* Operations that the plugin has been asked for and that have not ended.   *)
InFlight ==
    {act \in 1 .. Len(kind) :
        \/ \E i \in 1 .. Len(queue) : queue[i] = act
        \/ \E j \in 1 .. Len(registry) : registry[j].of = act /\ ~registry[j].done}

(* "double-submits are blocked": at most one operation runs at a time.      *)
OneInFlight == Cardinality(InFlight) <= 1

(* It is so until some wait has been given up, by the bridge or by the      *)
(* failsafe, while what it waited for went on.                             *)
OneInFlightUntilGivenUp == gave_up \/ OneInFlight

(* Whatever was given up, started over or answered late, an action is told  *)
(* one result, and never the result of another action.                     *)
ResultsBelong ==
    /\ \A i \in 1 .. Len(history) : history[i].got \in {history[i].act, Nothing}
    /\ \A i, j \in 1 .. Len(history) : i # j => history[i].act # history[j].act

=============================================================================
