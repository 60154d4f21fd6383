---------------------------- MODULE WindowWorker ----------------------------
(***************************************************************************)
(* Queue workers on a schedule of windows (operations_policy.py, and the   *)
(* loop of queue_cli.py when finish_started_batch is off): a worker claims *)
(* inside the claim window of its schedule and a timer interrupts it at    *)
(* the hard cutoff; workers append notices to one outbox.                  *)
(*                                                                         *)
(* A clock is an hour of the day, a date the number of a day; time zones   *)
(* and their transitions are left out.  The clock does not move past an    *)
(* alarm that is due: the timer thread runs before the next hour.  A       *)
(* heartbeat renews its lease within the hour.  SIGTERM is pending until   *)
(* the main thread comes to it, which may end the step it is in.           *)
(* _execute_claim is one step between its start and its report; its parts  *)
(* are those of QueueWorker.tla.                                           *)
(***************************************************************************)
EXTENDS Coordinator, FiniteSetsExt

CONSTANTS Timed,           \* worker processes
          ScheduleRows,    \* schedule tables of queue files
          NoClock,         \* no hard_cutoff, no later window
          Inherit,         \* an override leaves the field to the schedule
          DayLength, FirstHour, LastHour,
          Shortage,        \* what resources may be short of
          MaxWindowFaults  \* bound: kills and stops

Clocks == 0 .. DayLength - 1
Marks == {NoClock, Inherit}

\* Clocks are parsed as times of a day, and a mark is none of them.
ASSUME WindowAssumption ==
    /\ Marks \cap Int = {}
    /\ DayLength \in Nat \ {0} /\ {FirstHour, LastHour, MaxWindowFaults} \subseteq Nat
    /\ DayLength <= FirstHour /\ FirstHour <= LastHour
    /\ \A s \in ScheduleRows :
         /\ {s.start, s.stop} \subseteq Clocks /\ s.cutoff \in Clocks \cup {NoClock}
         /\ {s.enabled, s.finish} \subseteq BOOLEAN /\ DOMAIN s.overrides \subseteq Nat
         /\ \A date \in DOMAIN s.overrides : LET row == s.overrides[date] IN
              /\ {row.start, row.stop} \subseteq Clocks \cup {Inherit}
              /\ row.cutoff \in Clocks \cup Marks /\ row.enabled \in BOOLEAN

VARIABLES
    schedule, hour,
    hands,       \* [Timed -> where the process is and what it holds]
    outbox,      \* [tail: writers of the line that is open, whole, spoiled
                 \*  lines; abandoned: texts that were cut short]
    outboxLock,  \* the flock: {} or {a process}
    windowFaults

notices == <<outbox, outboxLock>>
windowVars == <<vars, schedule, hour, hands, notices, windowFaults>>

-----------------------------------------------------------------------------
(* SchedulePolicy.                                                         *)

HourOf(date, clock) == date * DayLength + clock
DateOf(h) == h \div DayLength

\* A clock at or before the start is one of the next day.
Boundary(date, start, clock) == HourOf(IF clock <= start THEN date + 1 ELSE date, clock)

\* An override takes the fields it does not name from the schedule.
Field(row, name, s) == IF row[name] = Inherit THEN s[name] ELSE row[name]
RowOf(s, date) ==
    IF date \in DOMAIN s.overrides
    THEN [name \in {"start", "stop", "cutoff"} |-> Field(s.overrides[date], name, s)]
    ELSE s
EnabledOn(s, date) ==
    IF date \in DOMAIN s.overrides THEN s.overrides[date].enabled ELSE date % 7 \in s.days

Window(s, date) ==
    LET row == RowOf(s, date) IN
    [enabled |-> EnabledOn(s, date),
     start |-> HourOf(date, row.start),
     stop |-> Boundary(date, row.start, row.stop),
     cutoff |-> IF row.cutoff = NoClock THEN NoClock
                ELSE Boundary(date, row.start, row.cutoff)]

\* The check of _window.
ValidWindow(w) == w.cutoff # NoClock => w.stop <= w.cutoff

\* load_operations_policy.  It checks the schedule at a date that no override
\* names.  Only a schedule that finishes started batches has no cutoff.
Loads(s) ==
    /\ s.days # {}
    /\ s.chain => s.finish
    /\ s.tail => s.chain /\ s.finish
    /\ s.cutoff = NoClock => s.finish
    /\ ValidWindow(Window(s, 0))
    /\ \A date \in DOMAIN s.overrides : ValidWindow(Window(s, date))

EndOf(w) == IF w.cutoff = NoClock THEN w.stop ELSE w.cutoff
OpenAt(w, h) == w.enabled /\ w.start <= h /\ h < EndOf(w)

\* Yesterday's window and today's.
ActiveDates(s, h) == {d \in {DateOf(h) - 1, DateOf(h)} : OpenAt(Window(s, d), h)}

LaterStarts(s, h) ==
    {Window(s, d).start : d \in {e \in DateOf(h) .. DateOf(h) + 8 : EnabledOn(s, e)}}
    \cap {start \in h + 1 .. h + 9 * DayLength : TRUE}

Evaluate(s, h) ==
    IF ~s.enabled THEN [allowed |-> TRUE, cutoff |-> NoClock, next |-> NoClock]
    ELSE LET active == ActiveDates(s, h)
             window == Window(s, Max(active))  \* the later one replaces the earlier
         IN  [allowed |-> active # {} /\ h < window.stop,
              cutoff |-> IF active = {} THEN NoClock ELSE window.cutoff,
              next |-> IF LaterStarts(s, h) = {} THEN NoClock ELSE Min(LaterStarts(s, h))]

-----------------------------------------------------------------------------
Away(at) ==
    [at |-> at, lease |-> <<>>, cutoff |-> NoClock, timer |-> "off", pending |-> FALSE,
     hearts |-> {}, blocked |-> {}, notice |-> FALSE, half |-> FALSE]

WindowInit ==
    /\ Init
    /\ schedule \in {s \in ScheduleRows : Loads(s)}
    /\ hour = FirstHour
    /\ hands = [w \in Timed |-> Away("down")]
    /\ outbox = [tail |-> <<>>, spoiled |-> 0, abandoned |-> 0] /\ outboxLock = {}
    /\ windowFaults = 0

\* In _execute_claim: before its try, in it, and in its handlers.
InExecution == {"staged", "beats", "executes"}
HandSteps == InExecution \cup {"down", "stopped", "poll", "claim", "leased", "armed",
                               "failing", "interrupted", "reported", "cut"}

WindowTypeOK ==
    /\ hour \in FirstHour .. LastHour
    /\ \A w \in Timed :
         /\ hands[w].at \in HandSteps
         /\ hands[w].timer \in {"off", "armed", "fired"}
         /\ hands[w].half => hands[w].notice
         /\ hands[w].at \in InExecution => hands[w].lease # <<>>
    /\ outboxLock = {w \in Timed : hands[w].half}

\* Back in the loop: threads and a pending signal stay.
Loops(w) == [Away("poll") EXCEPT !.hearts = hands[w].hearts, !.pending = hands[w].pending]

AtStage(w, at) == hands[w].at = at /\ ~hands[w].notice
Set(w, hand) == hands' = [hands EXCEPT ![w] = hand]
JobHeld(w) == hands[w].lease[1]
LeaseHeld(w) == hands[w].lease[2]
LocalStep == UNCHANGED <<vars, schedule, hour, notices, windowFaults>>
LedgerStep == UNCHANGED <<schedule, hour, notices, windowFaults>>

-----------------------------------------------------------------------------
(* The loop of _run_worker.                                                *)

\* Startup requires an armed queue.
StartHand(w) ==
    /\ AtStage(w, "down") /\ armed
    /\ Set(w, Away("poll"))
    /\ LocalStep

\* evaluate_operations.  A shortage is announced when it differs from the last.
EvaluateOperations(w) ==
    LET found == Evaluate(schedule, hour) IN
    /\ AtStage(w, "poll") /\ ~schedule.finish
    /\ found.allowed
    /\ \E reasons \in SUBSET Shortage :
         IF reasons = {}
         THEN Set(w, [Loops(w) EXCEPT !.at = "claim", !.cutoff = found.cutoff])
         ELSE Set(w, [hands[w] EXCEPT !.blocked = reasons, !.notice = (reasons # hands[w].blocked)])
    /\ LocalStep

ClaimInWindow(w) ==
    /\ AtStage(w, "claim")
    /\ \E j \in Job :
         /\ Claim(j, Batch, Job)
         /\ Set(w, [hands[w] EXCEPT !.at = "leased", !.lease = <<j, jobs'[j].generation>>])
    /\ LedgerStep

ClaimFindsNothing(w) ==
    LET rows == Recovered(jobs) IN
    /\ AtStage(w, "claim")
    /\ ~armed \/ paused \/ ~SlotFree(rows) \/ Claimable(rows, Batch, Job) = {}
    /\ jobs' = rows
    /\ Set(w, Loops(w))
    /\ UNCHANGED <<quarantined, state, admissions>> /\ LedgerStep

\* Mutant: no alarm for a cutoff that has passed.
ArmBeforeCutoff(w) ==
    /\ AtStage(w, "leased")
    /\ Set(w, [hands[w] EXCEPT !.at = "armed",
         !.timer = IF hands[w].cutoff # NoClock /\ hour < hands[w].cutoff THEN "armed" ELSE "off"])
    /\ LocalStep

\* The delay is max(0, cutoff - now).
ArmTimer(w) ==
    /\ AtStage(w, "leased")
    /\ Set(w, [hands[w] EXCEPT !.at = "armed",
                               !.timer = IF hands[w].cutoff = NoClock THEN "off" ELSE "armed"])
    /\ LocalStep

\* interrupt_at_cutoff.
AlarmDue(w) == hands[w].timer = "armed" /\ hour >= hands[w].cutoff
FireTimer(w) ==
    /\ AlarmDue(w)
    /\ Set(w, [hands[w] EXCEPT !.timer = "fired", !.pending = TRUE])
    /\ LocalStep

\* Into the try of the loop, the heartbeat, into the try of _execute_claim.
EnterExecution(w) ==
    /\ \/ AtStage(w, "armed") /\ Set(w, [hands[w] EXCEPT !.at = "staged"])
       \/ AtStage(w, "staged")
          /\ Set(w, [hands[w] EXCEPT !.at = "beats", !.hearts = @ \cup {hands[w].lease}])
       \/ AtStage(w, "beats") /\ Set(w, [hands[w] EXCEPT !.at = "executes"])
    /\ LocalStep

\* The heartbeat of the lease is stopped.
EndBeat(w, at) == [hands[w] EXCEPT !.at = at, !.hearts = @ \ {hands[w].lease}]

CompleteInWindow(w) ==
    /\ AtStage(w, "executes")
    /\ Complete(JobHeld(w), LeaseHeld(w))
    /\ Set(w, EndBeat(w, "reported"))
    /\ LedgerStep

\* The cell fails, or a call is refused.
ExecutionFails(w) ==
    /\ AtStage(w, "executes")
    /\ Set(w, [hands[w] EXCEPT !.at = "failing"])
    /\ LocalStep

\* The handlers hand the job back and announce it, unless the lease is lost.
HandBack(w) ==
    /\ AtStage(w, "failing") \/ AtStage(w, "interrupted")
    /\ LET interrupted == hands[w].at = "interrupted"
           after == EndBeat(w, IF interrupted THEN "cut" ELSE "reported")
       IN  \/ /\ \E retryable \in {TRUE, interrupted} :
                    Fail(JobHeld(w), LeaseHeld(w), retryable, FALSE, NoClass)
              /\ Set(w, [after EXCEPT !.notice = TRUE])
           \/ /\ ~HoldsLease(JobHeld(w), LeaseHeld(w)) /\ UNCHANGED vars
              /\ Set(w, after)
    /\ LedgerStep

\* The timer is cancelled, and the loop goes on.
EndExecution(w) ==
    /\ AtStage(w, "reported")
    /\ Set(w, Loops(w))
    /\ LocalStep

\* The interrupt has left _execute_claim: an alarm that has fired makes it the
\* cutoff's, whoever sent it; otherwise the worker exits.
EndCut(w) ==
    /\ AtStage(w, "cut")
    /\ IF hands[w].timer = "fired"
         THEN Set(w, [Loops(w) EXCEPT !.notice = TRUE])
         ELSE Set(w, Away("stopped"))
    /\ LocalStep

\* A notice that is cut short leaves its first part on the open line.
CutShort(w) ==
    /\ outbox' = [outbox EXCEPT !.abandoned = @ + IF hands[w].half THEN 1 ELSE 0]
    /\ outboxLock' = outboxLock \ {w}

\* KeyboardInterrupt, where the main thread is.
TakeInterrupt(w) ==
    LET hand == [hands[w] EXCEPT !.pending = FALSE, !.notice = FALSE, !.half = FALSE]
    IN
    /\ hands[w].pending
    /\ CutShort(w)
    /\ CASE hand.at = "executes" -> Set(w, [hand EXCEPT !.at = "interrupted"])
         [] hand.at \in {"staged", "beats", "reported"} -> Set(w, [hand EXCEPT !.at = "cut"])
         [] hand.at \in {"failing", "interrupted"} ->
              Set(w, [hand EXCEPT !.at = "cut", !.hearts = @ \ {hand.lease}])
         [] OTHER -> Set(w, Away("stopped"))
    /\ UNCHANGED <<vars, schedule, hour, windowFaults>>

-----------------------------------------------------------------------------
(* emit_notification: the outbox is appended to under a lock, in one write *)
(* or more.                                                                *)

Appends(w, expected) ==
    outbox' = [outbox EXCEPT !.tail = <<>>, !.spoiled = @ + IF outbox.tail = expected THEN 0 ELSE 1]
Noted(w) == [hands[w] EXCEPT !.notice = FALSE, !.half = FALSE]

WriteNotice(w) ==
    /\ hands[w].notice /\ ~hands[w].half /\ outboxLock = {}
    /\ Appends(w, <<>>) /\ Set(w, Noted(w))
    /\ UNCHANGED <<vars, schedule, hour, outboxLock, windowFaults>>

WritePart(w) ==
    /\ hands[w].notice /\ ~hands[w].half /\ outboxLock = {}
    /\ outbox' = [outbox EXCEPT !.tail = Append(@, w)]
    /\ outboxLock' = outboxLock \cup {w}
    /\ Set(w, [hands[w] EXCEPT !.half = TRUE])
    /\ UNCHANGED <<vars, schedule, hour, windowFaults>>

WriteRest(w) ==
    /\ hands[w].half
    /\ Appends(w, <<w>>) /\ Set(w, Noted(w)) /\ outboxLock' = outboxLock \ {w}
    /\ UNCHANGED <<vars, schedule, hour, windowFaults>>

-----------------------------------------------------------------------------
KillHand(w) ==
    /\ hands[w].at \notin {"down", "stopped"} /\ windowFaults < MaxWindowFaults
    /\ windowFaults' = windowFaults + 1
    /\ CutShort(w) /\ Set(w, Away("down"))
    /\ UNCHANGED <<vars, schedule, hour>>

\* The operator stops the worker's service.
StopHand(w) ==
    /\ hands[w].at \notin {"down", "stopped"} /\ windowFaults < MaxWindowFaults
    /\ windowFaults' = windowFaults + 1
    /\ Set(w, [hands[w] EXCEPT !.pending = TRUE])
    /\ UNCHANGED <<vars, schedule, hour, notices>>

\* Leases age, except those that a heartbeat renews.
Renewed(j) ==
    \E w \in Timed : \E g \in 1 .. jobs[j].generation :
        <<j, g>> \in hands[w].hearts /\ HoldsLease(j, g)
HourPasses ==
    /\ hour < LastHour
    /\ \A w \in Timed : ~AlarmDue(w) /\ ~hands[w].pending
    /\ hour' = hour + 1
    /\ jobs' = [j \in Job |-> IF Renewed(j) THEN Extend(jobs[j], policy) ELSE Age(jobs[j])]
    /\ UNCHANGED <<quarantined, state, admissions, schedule, hands, notices, windowFaults>>

SyncWindowQueue ==
    /\ order = <<>>
    /\ \E c \in Configs : SyncQueue(c)
    /\ UNCHANGED <<schedule, hour, hands, notices, windowFaults>>

HandStep(w) ==
    \/ StartHand(w) \/ EvaluateOperations(w) \/ ClaimInWindow(w) \/ ClaimFindsNothing(w)
    \/ ArmTimer(w) \/ FireTimer(w) \/ EnterExecution(w) \/ CompleteInWindow(w)
    \/ ExecutionFails(w) \/ HandBack(w) \/ EndExecution(w) \/ EndCut(w) \/ TakeInterrupt(w)
    \/ WriteNotice(w) \/ WritePart(w) \/ WriteRest(w)

WindowNext ==
    \/ SyncWindowQueue
    \/ HourPasses
    \/ \E w \in Timed : HandStep(w) \/ KillHand(w) \/ StopHand(w)

WindowSpec == WindowInit /\ [][WindowNext]_windowVars

-----------------------------------------------------------------------------
\* evaluate looks at two windows and nine days: over all dates, the window that
\* is open and started last decides on claims, work that may be claimed now has
\* time before its cutoff, and the next window is the first that starts later
\* (SchedulePolicy.evaluate).
ScheduleExact ==
    LET found == Evaluate(schedule, hour)
        W(d) == Window(schedule, d)
        open == {d \in 0 .. DateOf(hour) + 9 : OpenAt(W(d), hour)}
        later == {d \in 0 .. DateOf(hour) + 8 : W(d).enabled /\ W(d).start > hour}
    IN  schedule.enabled =>
          /\ found.allowed <=>
               \E d \in open : hour < W(d).stop /\ \A e \in open : W(e).start <= W(d).start
          /\ found.allowed /\ found.cutoff # NoClock => hour < found.cutoff
          /\ IF later = {} THEN found.next = NoClock
             ELSE /\ \E d \in later : found.next = W(d).start
                  /\ \A d \in later : found.next <= W(d).start

\* No cell runs past the hard cutoff of the window it was claimed in, although
\* the claim may come after the schedule was read: then its alarm is due at
\* once, or SIGTERM is on its way (_run_worker, interrupt_at_cutoff).
WorkInWindow ==
    \A w \in Timed :
        hands[w].at \in InExecution /\ hands[w].cutoff # NoClock /\ hour >= hands[w].cutoff
        => AlarmDue(w) \/ hands[w].pending

\* Workers that write notices at the same time spoil no line of the outbox; only
\* a writer that was cut short does, and one line each (emit_notification).
OutboxWhole == outbox.spoiled <= outbox.abandoned

\* What a schedule of windows allows and what its workers write down
\* (operations_policy.py, queue_cli.py).
WindowTrue == ScheduleExact /\ WorkInWindow /\ OutboxWhole
=============================================================================
