--------------------------- MODULE BookingCalendar ---------------------------
(***************************************************************************)
(* The calendar of the rental units: payment holds, bookings and host      *)
(* blocks, as BookingService, BookingRepository, RedisLockService, the     *)
(* expiry worker and the triggers of the bookings tables write them.       *)
(*                                                                         *)
(* A hold request is a process of its own, named by the booking it will    *)
(* insert: request validated, Redis lock taken, transaction opened,        *)
(* conflict read, row inserted under the unit's advisory lock, transaction *)
(* committed, lock released, expiry job scheduled.  A call to confirm,     *)
(* cancel, check in, complete or refund reads the booking first and writes *)
(* it later with a compare-and-swap.  The hold timer, the sweeper, the     *)
(* host's blocks, lock expiry, crashes and a Redis restart interleave with *)
(* every step.                                                             *)
(***************************************************************************)
EXTENDS Integers, FiniteSets

CONSTANTS Booking,     \* bookings, each the name of the request that creates it
          HostBlock,   \* rows of unit_availability_blocks
          Caller,      \* concurrent calls on existing bookings
          Unit,        \* rental units
          Stays,       \* requested windows [from, to), from < to
          Turnarounds, \* cleaning buffers a unit may have
          Cell,        \* instants of the calendar
          Ops,         \* the operations the callers use
          NoOne,       \* the owner of a free lock
          SweepJob,    \* the repeatable job 'sweep' of the expiry queue
          HoldTicks,   \* length of a payment hold (settings.holdMinutes)
          AppSkew,     \* application clock minus database clock
          SweepLimit,  \* p_limit of fn_expire_stale_holds
          MaxTime      \* bound: the database clock stops here

(* The window plus its cleaning buffer, half open: fn_booking_block_range. *)
BlockRange(s, turnaround) == s.from .. (s.to + turnaround - 1)

ASSUME CalendarAssumption ==
  /\ Stays \subseteq [from : Int, to : Int]
  /\ \A s \in Stays : s.from < s.to
  /\ Turnarounds \subseteq Nat
  /\ \A s \in Stays, t \in Turnarounds \cup {0} : BlockRange(s, t) \subseteq Cell
  /\ NoOne \notin Booking /\ SweepJob \notin Booking
  /\ Booking \cap HostBlock = {}
  /\ Unit # {}
  /\ HoldTicks \in Nat /\ AppSkew \in Int /\ SweepLimit \in Nat /\ MaxTime \in Nat

VARIABLES
  now,        \* database clock, now()
  status,     \* bookings.status of the committed row, "NONE" before the commit
  place,      \* unit and block_range of a booking or of a host block
  expires,    \* bookings.hold_expires_at
  pc,         \* where the hold request stands
  lock,       \* Redis key lock:unit:<id>: the request whose token it holds
  blockState, \* host block: none, being inserted, active, inactive
  call,       \* what each caller is doing
  jobs,       \* booking-expiry queue: the delayed job of each booking, the sweeper
  triggered,  \* money jobs ever added to the payments queue
  toldExpired \* bookings whose confirmation was answered HoldExpiredError

vars == <<now, status, place, expires, pc, lock, blockState, call, jobs,
          triggered, toldExpired>>
-----------------------------------------------------------------------------
(* Statuses, transitions and the derived notions of the schema.            *)

Owner == Booking \cup HostBlock

BookingStatus == {"DRAFT", "PENDING_PAYMENT", "CONFIRMED", "CHECKED_IN",
                  "COMPLETED", "CANCELLED", "EXPIRED", "REFUNDED"}

Holding == {"PENDING_PAYMENT", "CONFIRMED", "CHECKED_IN"}

(* A completed stay that can still be cancelled. *)
Transitions_CancelCompleted ==
  {<<"PENDING_PAYMENT", "CONFIRMED">>, <<"PENDING_PAYMENT", "EXPIRED">>,
   <<"PENDING_PAYMENT", "CANCELLED">>, <<"CONFIRMED", "CHECKED_IN">>,
   <<"CONFIRMED", "CANCELLED">>, <<"CONFIRMED", "COMPLETED">>,
   <<"CHECKED_IN", "COMPLETED">>, <<"COMPLETED", "CANCELLED">>}

(* booking_fsm_transitions: the table the trigger and the engine share. *)
Transitions ==
  {<<"DRAFT", "PENDING_PAYMENT">>, <<"DRAFT", "CANCELLED">>,
   <<"PENDING_PAYMENT", "CONFIRMED">>, <<"PENDING_PAYMENT", "EXPIRED">>,
   <<"PENDING_PAYMENT", "CANCELLED">>, <<"CONFIRMED", "CHECKED_IN">>,
   <<"CONFIRMED", "CANCELLED">>, <<"CHECKED_IN", "COMPLETED">>,
   <<"CANCELLED", "REFUNDED">>, <<"COMPLETED", "REFUNDED">>,
   <<"CONFIRMED", "COMPLETED">>, <<"CHECKED_IN", "CANCELLED">>}

Op == {"confirm", "cancel", "checkIn", "complete", "markRefunded"}

ASSUME OpsAssumption == Ops \subseteq Op

(* The status an operation writes. *)
Target(op) ==
  CASE op = "confirm" -> "CONFIRMED"
    [] op = "cancel" -> "CANCELLED"
    [] op = "checkIn" -> "CHECKED_IN"
    [] op = "complete" -> "COMPLETED"
    [] OTHER -> "REFUNDED"

RequestStep == {"idle", "lock", "check", "insert", "inserted", "release",
                "schedule", "done", "failed"}

CallStep == {"idle", "cas", "queued", "calendar", "lost", "after", "enqueue"}

Idle == [op |-> "none", booking |-> NoOne, step |-> "idle", seen |-> "NONE",
         at |-> 0]

Call == [op : Op \cup {"none"}, booking : Booking \cup {NoOne},
         step : CallStep, seen : BookingStatus \cup {"NONE"}, at : Int]

MoneyJob == [name : {"create-refund", "create-payout"}, booking : Booking]

AppNow == now + AppSkew

(* gist && on (unit_id, block_range). *)
Overlap(p, q) == p.unit = q.unit /\ p.cells \cap q.cells # {}

(* A session lock, which survives the transaction that took it. *)
CalendarLocked_Session(u) ==
  \/ \E b \in Booking : /\ pc[b] \in {"inserted", "release", "schedule", "done"}
                        /\ place[b].unit = u
  \/ \E k \in HostBlock : blockState[k] = "inserting" /\ place[k].unit = u

CalendarLocked_Never(u) == FALSE

(* pg_advisory_xact_lock('unit_calendar:<id>'): held from the trigger that *)
(* takes it to the end of the transaction.                                 *)
CalendarLocked(u) ==
  \/ \E b \in Booking : pc[b] = "inserted" /\ place[b].unit = u
  \/ \E k \in HostBlock : blockState[k] = "inserting" /\ place[k].unit = u

(* The trigger's query with the is_active test inverted. *)
HostBlocked_Inactive(o, p) ==
  \E k \in HostBlock \ {o} : blockState[k] = "inactive" /\ Overlap(place[k], p)

(* fn_booking_check_host_blocks, and blocks_no_overlap for another block. *)
HostBlocked(o, p) ==
  \E k \in HostBlock \ {o} : blockState[k] = "active" /\ Overlap(place[k], p)

(* The constraint's WHERE clause without PENDING_PAYMENT. *)
OverlapsHolding_PaidOnly(o, p) ==
  \E b \in Booking \ {o} :
    status[b] \in Holding \ {"PENDING_PAYMENT"} /\ Overlap(place[b], p)

(* bookings_no_double_booking for a booking, fn_block_check_bookings for a *)
(* host block: only committed rows are visible, and a writer of the same   *)
(* unit's calendar that has not committed yet holds the advisory lock.     *)
OverlapsHolding(o, p) ==
  \E b \in Booking \ {o} : status[b] \in Holding /\ Overlap(place[b], p)

(* Cancelled bookings still hide the unit. *)
Shown_NotReleased(p) ==
  /\ ~\E b \in Booking : /\ status[b] \in Holding \cup {"CANCELLED"}
                         /\ Overlap(place[b], p)
  /\ ~\E k \in HostBlock : blockState[k] = "active" /\ Overlap(place[k], p)

(* The pin of a unit is on the map of a guest who searches for a window    *)
(* with these cells: the two NOT EXISTS of MapSearchRepository.search.     *)
Shown(p) ==
  /\ ~\E b \in Booking : status[b] \in Holding /\ Overlap(place[b], p)
  /\ ~\E k \in HostBlock : blockState[k] = "active" /\ Overlap(place[k], p)

(* A row-level lock: the caller's UPDATE has locked the row and waits, in  *)
(* the BEFORE trigger, for the unit's advisory lock.                       *)
RowLocked(b) == \E c \in Caller : call[c].booking = b /\ call[c].step = "calendar"

RowAwaited(b) == \E c \in Caller : call[c].booking = b /\ call[c].step = "queued"
-----------------------------------------------------------------------------
Init ==
  /\ now = 0
  /\ status = [b \in Booking |-> "NONE"]
  /\ place = [o \in Owner |-> [unit |-> CHOOSE u \in Unit : TRUE, cells |-> {}]]
  /\ expires = [b \in Booking |-> 0]
  /\ pc = [b \in Booking |-> "idle"]
  /\ lock = [u \in Unit |-> NoOne]
  /\ blockState = [k \in HostBlock |-> "none"]
  /\ call = [c \in Caller |-> Idle]
  /\ jobs = {SweepJob}
  /\ triggered = {}
  /\ toldExpired = {}
-----------------------------------------------------------------------------
(* createHold *)

(* Validation, findBookable and the quote, all before the lock; the unit's *)
(* turnaround and the deadline are the request's from here on.  Bound: no  *)
(* hold is requested so late that the clock stops before its deadline.     *)
RequestHold(b, u, s, turnaround) ==
  /\ pc[b] = "idle"
  /\ AppNow + HoldTicks < MaxTime
  /\ place' = [place EXCEPT ![b] = [unit |-> u, cells |-> BlockRange(s, turnaround)]]
  /\ expires' = [expires EXCEPT ![b] = AppNow + HoldTicks]
  /\ pc' = [pc EXCEPT ![b] = "lock"]
  /\ UNCHANGED <<now, status, lock, blockState, call, jobs, triggered, toldExpired>>

(* SET NX PX succeeds. *)
AcquireLock(b) ==
  /\ pc[b] = "lock"
  /\ lock[place[b].unit] = NoOne
  /\ lock' = [lock EXCEPT ![place[b].unit] = b]
  /\ pc' = [pc EXCEPT ![b] = "check"]
  /\ UNCHANGED <<now, status, place, expires, blockState, call, jobs, triggered,
                 toldExpired>>

(* Every attempt found the key held: LockNotAcquiredError. *)
LockNotAcquired(b) ==
  /\ pc[b] = "lock"
  /\ lock[place[b].unit] # NoOne
  /\ pc' = [pc EXCEPT ![b] = "failed"]
  /\ UNCHANGED <<now, status, place, expires, lock, blockState, call, jobs,
                 triggered, toldExpired>>

(* The in-transaction pre-check reads committed rows and takes no lock. *)
HasConflict(b) ==
  /\ pc[b] = "check"
  /\ pc' = [pc EXCEPT ![b] = IF OverlapsHolding(b, place[b]) \/ HostBlocked(b, place[b])
                             THEN "release" ELSE "insert"]
  /\ UNCHANGED <<now, status, place, expires, lock, blockState, call, jobs,
                 triggered, toldExpired>>

(* INSERT: the trigger waits for the advisory lock, then refuses the row   *)
(* over a host block (LC409); the constraint refuses it over a booking     *)
(* (23P01).  Either error rolls back and goes to the finally that releases *)
(* the Redis lock.                                                         *)
InsertHold(b) ==
  /\ pc[b] = "insert"
  /\ ~CalendarLocked(place[b].unit)
  /\ pc' = [pc EXCEPT ![b] = IF HostBlocked(b, place[b]) \/ OverlapsHolding(b, place[b])
                             THEN "release" ELSE "inserted"]
  /\ UNCHANGED <<now, status, place, expires, lock, blockState, call, jobs,
                 triggered, toldExpired>>

CommitHold(b) ==
  /\ pc[b] = "inserted"
  /\ status' = [status EXCEPT ![b] = "PENDING_PAYMENT"]
  /\ pc' = [pc EXCEPT ![b] = "release"]
  /\ UNCHANGED <<now, place, expires, lock, blockState, call, jobs, triggered,
                 toldExpired>>

(* COMMIT fails and the transaction is rolled back. *)
CommitFails(b) ==
  /\ pc[b] = "inserted"
  /\ pc' = [pc EXCEPT ![b] = "release"]
  /\ UNCHANGED <<now, status, place, expires, lock, blockState, call, jobs,
                 triggered, toldExpired>>

(* DEL without comparing the token. *)
AfterRelease_Blind(b, u) == NoOne

(* RELEASE_SCRIPT: the key is deleted only while it holds our token. *)
AfterRelease(b, u) == IF lock[u] = b THEN NoOne ELSE lock[u]

(* The finally of withLock; the post-commit side effects follow only a     *)
(* commit.                                                                 *)
ReleaseLock(b) ==
  /\ pc[b] = "release"
  /\ LET u == place[b].unit IN lock' = [lock EXCEPT ![u] = AfterRelease(b, u)]
  /\ pc' = [pc EXCEPT ![b] = IF status[b] = "NONE" THEN "failed" ELSE "schedule"]
  /\ UNCHANGED <<now, status, place, expires, blockState, call, jobs, triggered,
                 toldExpired>>

(* scheduleExpiry swallows a queue failure. *)
ScheduleExpiry(b) ==
  /\ pc[b] = "schedule"
  /\ jobs' \in {jobs, jobs \cup {b}}
  /\ pc' = [pc EXCEPT ![b] = "done"]
  /\ UNCHANGED <<now, status, place, expires, lock, blockState, call, triggered,
                 toldExpired>>

(* The process dies: an open transaction rolls back, the Redis key stays. *)
CrashRequest(b) ==
  /\ pc[b] \in {"lock", "check", "insert", "inserted", "release", "schedule"}
  /\ pc' = [pc EXCEPT ![b] = "failed"]
  /\ UNCHANGED <<now, status, place, expires, lock, blockState, call, jobs,
                 triggered, toldExpired>>

(* The key's TTL runs out, whoever holds it and whatever it is doing. *)
LockExpires(u) ==
  /\ lock[u] # NoOne
  /\ lock' = [lock EXCEPT ![u] = NoOne]
  /\ UNCHANGED <<now, status, place, expires, pc, blockState, call, jobs,
                 triggered, toldExpired>>

(* Redis restarts empty: every lock is lost, every delayed job, and the    *)
(* sweeper, whose repeatable job is kept in the same queue.                *)
RedisRestart ==
  /\ jobs # {}
  /\ lock' = [u \in Unit |-> NoOne]
  /\ jobs' = {}
  /\ UNCHANGED <<now, status, place, expires, pc, blockState, call, triggered,
                 toldExpired>>
-----------------------------------------------------------------------------
(* Calls on an existing booking: read, assertTransition, compare-and-swap. *)

(* mustFind and assertTransition; a refusal changes nothing. *)
StartCall(c, op, b) ==
  /\ call[c] = Idle
  /\ <<status[b], Target(op)>> \in Transitions
  /\ call' = [call EXCEPT ![c] = [op |-> op, booking |-> b, step |-> "cas",
                                  seen |-> status[b], at |-> 0]]
  /\ UNCHANGED <<now, status, place, expires, pc, lock, blockState, jobs,
                 triggered, toldExpired>>

Goto(c, step) == call' = [call EXCEPT ![c].step = step]

Finish(c) == call' = [call EXCEPT ![c] = Idle]

(* The CAS without its deadline. *)
HoldAlive_NoDeadline(b, at) == status[b] = "PENDING_PAYMENT"

(* WHERE status = 'PENDING_PAYMENT' AND hold_expires_at > now(), with the  *)
(* now() of the statement's start.                                         *)
HoldAlive(b, at) == status[b] = "PENDING_PAYMENT" /\ expires[b] > at

(* The row is free: the predicate is evaluated as the statement starts.    *)
ConfirmHold(c) ==
  LET b == call[c].booking IN
  /\ call[c].op = "confirm" /\ call[c].step = "cas"
  /\ ~RowLocked(b) /\ ~RowAwaited(b)
  /\ call' = [call EXCEPT ![c].at = now,
                          ![c].step = IF HoldAlive(b, now) THEN "calendar" ELSE "lost"]
  /\ UNCHANGED <<now, status, place, expires, pc, lock, blockState, jobs,
                 triggered, toldExpired>>

(* The row is locked: the statement has started and waits for it. *)
WaitForRow(c) ==
  LET b == call[c].booking IN
  /\ call[c].op = "confirm" /\ call[c].step = "cas"
  /\ RowLocked(b) \/ RowAwaited(b)
  /\ call' = [call EXCEPT ![c].at = now, ![c].step = "queued"]
  /\ UNCHANGED <<now, status, place, expires, pc, lock, blockState, jobs,
                 triggered, toldExpired>>

(* Waiters are served in the order they came; the predicate is evaluated   *)
(* again on the new row with the old now().                                *)
ConfirmAfterWait(c) ==
  LET b == call[c].booking IN
  /\ call[c].step = "queued"
  /\ ~RowLocked(b)
  /\ \A d \in Caller : call[d].booking = b /\ call[d].step = "queued"
                         => call[c].at <= call[d].at
  /\ Goto(c, IF HoldAlive(b, call[c].at) THEN "calendar" ELSE "lost")
  /\ UNCHANGED <<now, status, place, expires, pc, lock, blockState, jobs,
                 triggered, toldExpired>>

(* checkIn writes a holding status, so its UPDATE takes the calendar lock. *)
CheckInRow(c) ==
  LET b == call[c].booking IN
  /\ call[c].op = "checkIn" /\ call[c].step = "cas"
  /\ ~RowLocked(b)
  /\ Goto(c, IF status[b] = call[c].seen THEN "calendar" ELSE "lost")
  /\ UNCHANGED <<now, status, place, expires, pc, lock, blockState, jobs,
                 triggered, toldExpired>>

(* The trigger gets the advisory lock, looks for host blocks and lets the  *)
(* row through, or the statement fails (LC409).                            *)
UpdateUnderCalendarLock(c) ==
  LET b == call[c].booking IN
  /\ call[c].step = "calendar"
  /\ ~CalendarLocked(place[b].unit)
  /\ IF HostBlocked(b, place[b])
     THEN Finish(c) /\ UNCHANGED status
     ELSE /\ status' = [status EXCEPT ![b] = Target(call[c].op)]
          /\ IF call[c].op = "confirm" THEN Goto(c, "after") ELSE Finish(c)
  /\ UNCHANGED <<now, place, expires, pc, lock, blockState, jobs, triggered,
                 toldExpired>>

(* cancel, complete and markRefunded release inventory: one statement. *)
Transition(c) ==
  LET b == call[c].booking
      op == call[c].op IN
  /\ op \in {"cancel", "complete", "markRefunded"} /\ call[c].step = "cas"
  /\ ~RowLocked(b)
  /\ IF status[b] = call[c].seen
     THEN /\ status' = [status EXCEPT ![b] = Target(op)]
          /\ CASE op = "cancel" -> Goto(c, "after")
               [] op = "complete" -> Goto(c, "enqueue")
               [] OTHER -> Finish(c)
     ELSE Goto(c, "lost") /\ UNCHANGED status
  /\ UNCHANGED <<now, place, expires, pc, lock, blockState, jobs, triggered,
                 toldExpired>>

(* The answer taken from the deadline alone, whatever the status is now. *)
AnswersExpired_ClockOnly(b) == status[b] = "EXPIRED" \/ expires[b] <= AppNow

(* confirm's second read: what makes a lost CAS a HoldExpiredError rather  *)
(* than a StaleStateError.  The deadline is compared with the app's clock. *)
AnswersExpired(b) ==
  status[b] = "EXPIRED" \/ (status[b] = "PENDING_PAYMENT" /\ expires[b] <= AppNow)

CallLost(c) ==
  LET b == call[c].booking IN
  /\ call[c].step = "lost"
  /\ toldExpired' = IF call[c].op = "confirm" /\ AnswersExpired(b)
                    THEN toldExpired \cup {b} ELSE toldExpired
  /\ Finish(c)
  /\ UNCHANGED <<now, status, place, expires, pc, lock, blockState, jobs, triggered>>

(* cancelScheduledExpiry, best effort, after confirm and cancel. *)
CancelScheduledExpiry(c) ==
  /\ call[c].step = "after"
  /\ jobs' \in {jobs, jobs \ {call[c].booking}}
  /\ IF call[c].op = "cancel" THEN Goto(c, "enqueue") ELSE Finish(c)
  /\ UNCHANGED <<now, status, place, expires, pc, lock, blockState, triggered,
                 toldExpired>>

(* paymentsQueue.add: the refund of a cancellation, the payout of a stay. *)
EnqueueMoneyJob(c) ==
  LET name == IF call[c].op = "cancel" THEN "create-refund" ELSE "create-payout" IN
  /\ call[c].step = "enqueue"
  /\ triggered' = triggered \cup {[name |-> name, booking |-> call[c].booking]}
  /\ Finish(c)
  /\ UNCHANGED <<now, status, place, expires, pc, lock, blockState, jobs, toldExpired>>

(* The caller's process dies, or the queue is down: what is left undone of *)
(* the call is never done.                                                 *)
CallDies(c) ==
  /\ call[c] # Idle
  /\ Finish(c)
  /\ UNCHANGED <<now, status, place, expires, pc, lock, blockState, jobs,
                 triggered, toldExpired>>
-----------------------------------------------------------------------------
(* Hold expiry, two layers deep. *)

(* A sweep that writes a status the enum does not have. *)
Expire_Misspelt(S) == status' = [b \in Booking |-> IF b \in S THEN "LAPSED" ELSE status[b]]

Expire(S) == status' = [b \in Booking |-> IF b \in S THEN "EXPIRED" ELSE status[b]]

(* The delayed job: expireIfLapsed, which leaves any other row alone. *)
ExpiryJob(b) ==
  /\ b \in jobs
  /\ expires[b] <= AppNow
  /\ ~RowLocked(b)
  /\ jobs' = jobs \ {b}
  /\ Expire(IF status[b] = "PENDING_PAYMENT" /\ expires[b] <= now THEN {b} ELSE {})
  /\ UNCHANGED <<now, place, expires, pc, lock, blockState, call, triggered,
                 toldExpired>>

(* A sweeper that trusts the queue: only holds whose job still exists. *)
StaleHolds_WithJob ==
  {b \in Booking : status[b] = "PENDING_PAYMENT" /\ expires[b] < now
                   /\ ~RowLocked(b) /\ b \in jobs}

(* FOR UPDATE SKIP LOCKED over the lapsed holds. *)
StaleHolds ==
  {b \in Booking : status[b] = "PENDING_PAYMENT" /\ expires[b] < now /\ ~RowLocked(b)}

(* fn_expire_stale_holds: the oldest p_limit of them. *)
Sweep ==
  \E S \in SUBSET StaleHolds :
    /\ SweepJob \in jobs
    /\ S # {}
    /\ Cardinality(S) <= SweepLimit
    /\ S = StaleHolds \/ Cardinality(S) = SweepLimit
    /\ \A b \in S, d \in StaleHolds \ S : expires[b] <= expires[d]
    /\ Expire(S)
    /\ UNCHANGED <<now, place, expires, pc, lock, blockState, call, jobs,
                   triggered, toldExpired>>

(* onApplicationBootstrap of another instance, or of this one started      *)
(* again: the only code that adds the repeatable job.                      *)
AppStarts ==
  /\ SweepJob \notin jobs
  /\ jobs' = jobs \cup {SweepJob}
  /\ UNCHANGED <<now, status, place, expires, pc, lock, blockState, call, triggered,
                 toldExpired>>

Tick ==
  /\ now < MaxTime
  /\ now' = now + 1
  /\ UNCHANGED <<status, place, expires, pc, lock, blockState, call, jobs,
                 triggered, toldExpired>>
-----------------------------------------------------------------------------
(* Host blocks: rows of unit_availability_blocks. *)

SetBlock(k, state) ==
  /\ blockState' = [blockState EXCEPT ![k] = state]
  /\ UNCHANGED <<now, status, expires, pc, lock, call, jobs, triggered, toldExpired>>

(* INSERT of an active block; the trigger's advisory lock orders it with   *)
(* every other writer of the unit's calendar.                              *)
InsertBlock(k, u, s) ==
  /\ blockState[k] = "none"
  /\ ~CalendarLocked(u)
  /\ LET p == [unit |-> u, cells |-> BlockRange(s, 0)] IN
       /\ ~OverlapsHolding(k, p) /\ ~HostBlocked(k, p)
       /\ place' = [place EXCEPT ![k] = p]
  /\ SetBlock(k, "inserting")

(* UPDATE ... SET is_active = true runs the same trigger. *)
ReactivateBlock(k) ==
  /\ blockState[k] = "inactive"
  /\ ~CalendarLocked(place[k].unit)
  /\ ~OverlapsHolding(k, place[k]) /\ ~HostBlocked(k, place[k])
  /\ SetBlock(k, "inserting")
  /\ UNCHANGED place

CommitBlock(k) ==
  /\ blockState[k] = "inserting"
  /\ SetBlock(k, "active")
  /\ UNCHANGED place

(* UPDATE ... SET is_active = false: the trigger's WHEN is false. *)
DeactivateBlock(k) ==
  /\ blockState[k] = "active"
  /\ SetBlock(k, "inactive")
  /\ UNCHANGED place
-----------------------------------------------------------------------------
RequestStepOf(b) ==
  \/ AcquireLock(b) \/ LockNotAcquired(b) \/ HasConflict(b) \/ InsertHold(b)
  \/ CommitHold(b) \/ CommitFails(b) \/ ReleaseLock(b) \/ ScheduleExpiry(b)

CallStepOf(c) ==
  \/ ConfirmHold(c) \/ WaitForRow(c) \/ ConfirmAfterWait(c) \/ CheckInRow(c)
  \/ UpdateUnderCalendarLock(c) \/ Transition(c) \/ CallLost(c)
  \/ CancelScheduledExpiry(c) \/ EnqueueMoneyJob(c)

BlockStepOf(k) ==
  \/ \E u \in Unit, s \in Stays : InsertBlock(k, u, s)
  \/ ReactivateBlock(k) \/ CommitBlock(k) \/ DeactivateBlock(k)

Next ==
  \/ \E b \in Booking, u \in Unit, s \in Stays, t \in Turnarounds : RequestHold(b, u, s, t)
  \/ \E b \in Booking : RequestStepOf(b) \/ CrashRequest(b) \/ ExpiryJob(b)
  \/ \E c \in Caller, op \in Ops, b \in Booking : StartCall(c, op, b)
  \/ \E c \in Caller : CallStepOf(c) \/ CallDies(c)
  \/ \E k \in HostBlock : BlockStepOf(k)
  \/ \E u \in Unit : LockExpires(u)
  \/ RedisRestart \/ AppStarts \/ Sweep \/ Tick

Spec == Init /\ [][Next]_vars

(* What the runtime keeps running: a live process takes its next step, a   *)
(* transaction ends, the clock never stops, and neither does the sweeper   *)
(* while the queue still has its job.  Nobody has to ask for a hold, call, *)
(* block, crash, lose a lock or a job or start the application again, and  *)
(* the delayed job may never fire: the sweeper alone is relied upon.       *)
(* Strong fairness where PostgreSQL queues the waiters of an advisory or a *)
(* row lock first come, first served.                                      *)
Fairness ==
  /\ \A b \in Booking : WF_vars(RequestStepOf(b)) /\ SF_vars(InsertHold(b))
  /\ \A c \in Caller : SF_vars(CallStepOf(c))
  /\ \A k \in HostBlock : WF_vars(CommitBlock(k))
  /\ WF_vars(Sweep) /\ WF_vars(Tick)

FairSpec == Spec /\ Fairness
-----------------------------------------------------------------------------
TypeOK ==
  /\ now \in Nat
  /\ status \in [Booking -> BookingStatus \cup {"NONE"}]
  /\ place \in [Owner -> [unit : Unit, cells : SUBSET Cell]]
  /\ expires \in [Booking -> Int]
  /\ pc \in [Booking -> RequestStep]
  /\ lock \in [Unit -> Booking \cup {NoOne}]
  /\ blockState \in [HostBlock -> {"none", "inserting", "active", "inactive"}]
  /\ call \in [Caller -> Call]
  /\ jobs \subseteq Booking \cup {SweepJob}
  /\ triggered \subseteq MoneyJob
  /\ toldExpired \subseteq Booking

(* Two bookings that hold the same unit never overlap, cleaning buffers    *)
(* included, whatever happens to the Redis lock (README: "zero             *)
(* double-bookings").                                                      *)
NoDoubleBooking ==
  \A b, d \in Booking :
    b # d /\ status[b] \in {"PENDING_PAYMENT", "CONFIRMED", "CHECKED_IN"}
          /\ status[d] \in {"PENDING_PAYMENT", "CONFIRMED", "CHECKED_IN"}
      => ~Overlap(place[b], place[d])

(* No booking holds a window that an active host block covers: the pair of *)
(* cross-table triggers closes the race of two check-then-insert writers.  *)
NoStayOverHostBlock ==
  \A b \in Booking, k \in HostBlock :
    status[b] \in {"PENDING_PAYMENT", "CONFIRMED", "CHECKED_IN"}
      /\ blockState[k] = "active" => ~Overlap(place[b], place[k])

(* A booking triggers a refund or a payout, never both, however cancel and *)
(* complete race: the escrowed money is not sent two ways.                 *)
OneMoneyTrigger ==
  \A b \in Booking :
    ~({[name |-> "create-refund", booking |-> b],
       [name |-> "create-payout", booking |-> b]} \subseteq triggered)

(* HoldExpiredError is final: the payment pipeline refunds on it, so a     *)
(* booking it was raised for must never be confirmed, by any caller.       *)
HoldExpiredIsFinal ==
  \A b \in toldExpired : status[b] \notin {"CONFIRMED", "CHECKED_IN", "COMPLETED"}

(* The deadline decides between payment and expiry: a hold is confirmed    *)
(* only by a statement (the one whose call this step moves on) that        *)
(* started before hold_expires_at, even if locks made it finish later, and *)
(* is expired only once hold_expires_at has come.                          *)
DeadlineDecides ==
  [][\A b \in Booking :
       /\ status[b] = "PENDING_PAYMENT" /\ status'[b] = "CONFIRMED"
            => \E c \in Caller : /\ call[c].booking = b /\ call[c].at < expires[b]
                                 /\ call[c].step = "calendar"
                                 /\ call'[c].step # "calendar"
       /\ status[b] = "PENDING_PAYMENT" /\ status'[b] = "EXPIRED"
            => expires[b] <= now]_vars

(* A request that outlived its TTL never deletes its successor's lock: the *)
(* key of a request still in its critical section is lost only to the TTL  *)
(* or to a Redis restart, never to a step of another request.              *)
OnlyOwnerReleases ==
  [][\A b \in Booking, u \in Unit :
       lock[u] = b /\ pc[b] \in {"check", "insert", "inserted"} /\ lock'[u] # b
         => UNCHANGED pc]_vars

(* "Search agrees exactly with the EXCLUDE constraint": whatever happened  *)
(* between the search and the insert, a hold is committed only for a       *)
(* window the map shows at that moment, uncommitted rows of others         *)
(* included, and the database refuses only one the map no longer shows.    *)
MapAgrees ==
  [][\A b \in Booking :
       /\ status[b] = "NONE" /\ status'[b] = "PENDING_PAYMENT" => Shown(place[b])
       /\ pc[b] = "insert" /\ pc'[b] = "release" => ~Shown(place[b])]_vars

(* A lapsed hold gives its inventory back although requests crash before   *)
(* scheduling, a swallowed queue failure loses its job, jobs fire early    *)
(* under clock skew and confirmations sit on the row: while the queue has  *)
(* the sweeper's job, the sweeper is enough.  A Redis that loses the queue *)
(* loses that job too, and only the next start of the application repairs  *)
(* it, although the processor's comment names a Redis restart among what   *)
(* the sweeper catches.                                                    *)
LapsedHoldReleased ==
  \A b \in Booking :
    (status[b] = "PENDING_PAYMENT" /\ expires[b] < now)
      ~> (status[b] # "PENDING_PAYMENT" \/ SweepJob \notin jobs)

(* Nobody waits forever: every hold request and every call ends, through   *)
(* the Redis lock, the advisory lock and the row lock, in whatever order   *)
(* the transactions took them.                                             *)
EverybodyAnswered ==
  /\ \A b \in Booking : pc[b] = "lock" ~> pc[b] \in {"done", "failed"}
  /\ \A c \in Caller : call[c] # Idle ~> call[c] = Idle

(* The calendar as its users see it: who occupies which instant of which   *)
(* unit, in committed rows.                                                *)
Occupies(o) == IF o \in Booking THEN status[o] \in Holding
               ELSE blockState[o] = "active"

Occupied == {x \in Owner \X Unit \X Cell :
               Occupies(x[1]) /\ x[2] = place[x[1]].unit /\ x[3] \in place[x[1]].cells}

Calendar == INSTANCE ExclusiveCalendar WITH occupied <- Occupied

(* The layers together implement a calendar whose windows are taken whole, *)
(* only while free, and kept until given back.                             *)
ImplementsCalendar == Calendar!Spec
-----------------------------------------------------------------------------
(* The inductive invariant behind the theorems of BookingCalendarProofs.   *)

(* A row exists only once its request has committed. *)
RowAfterCommit ==
  \A b \in Booking :
    pc[b] \in {"idle", "lock", "check", "insert", "inserted"} => status[b] = "NONE"

(* A call knows a row that exists, was a legal transition when it began,   *)
(* and holds the row lock on the status its UPDATE found.                  *)
CallOK(c) ==
  LET b == call[c].booking IN
  call[c].step # "idle" =>
    /\ b \in Booking /\ status[b] # "NONE"
    /\ call[c].op \in Op /\ call[c].at <= now
    /\ <<call[c].seen, Target(call[c].op)>> \in Transitions
    /\ (call[c].step = "queued" => call[c].op = "confirm")
    /\ (call[c].step = "calendar" =>
         \/ call[c].op = "confirm" /\ HoldAlive(b, call[c].at)
         \/ call[c].op = "checkIn" /\ status[b] = "CONFIRMED")

CallsOK == \A c \in Caller : CallOK(c)

(* The row lock has one owner. *)
RowLockExclusive ==
  \A c, d \in Caller :
    call[c].step = "calendar" /\ call[d].step = "calendar"
      /\ call[c].booking = call[d].booking => c = d

(* Rows written, committed or not, that keep others out of their window. *)
Claims(o) == IF o \in Booking THEN pc[o] = "inserted" \/ status[o] \in Holding
             ELSE blockState[o] \in {"inserting", "active"}

(* No two writers of a calendar ever claim a common instant: NoDoubleBooking *)
(* and NoStayOverHostBlock, extended to rows nobody else can see yet.      *)
DisjointClaims ==
  \A o, q \in Owner : o # q /\ Claims(o) /\ Claims(q) => ~Overlap(place[o], place[q])

(* No confirmation that started in time is still on its way. *)
Lapsed(b) ==
  /\ expires[b] <= now
  /\ \A c \in Caller :
       call[c].booking = b /\ call[c].step \in {"queued", "calendar"}
         => call[c].op = "confirm" /\ call[c].at >= expires[b]

(* A refused confirmation, answered or about to be, means that the hold    *)
(* has left PENDING_PAYMENT or that nothing can confirm it any more.       *)
RefusalIsRight ==
  /\ \A c \in Caller :
       call[c].step = "lost" /\ call[c].op = "confirm"
         /\ status[call[c].booking] = "PENDING_PAYMENT" => Lapsed(call[c].booking)
  /\ \A b \in toldExpired :
       \/ status[b] \in {"EXPIRED", "CANCELLED", "REFUNDED"}
       \/ status[b] = "PENDING_PAYMENT" /\ Lapsed(b)

CalendarInvariant ==
  TypeOK /\ RowAfterCommit /\ CallsOK /\ RowLockExclusive /\ DisjointClaims
         /\ RefusalIsRight

(* The money of a booking goes back, or to the host: the job is queued or   *)
(* a call that has changed the status is about to queue it.                *)
Refunding(b) ==
  \/ [name |-> "create-refund", booking |-> b] \in triggered
  \/ \E c \in Caller : /\ call[c].booking = b /\ call[c].op = "cancel"
                       /\ call[c].step \in {"after", "enqueue"}

Paying(b) ==
  \/ [name |-> "create-payout", booking |-> b] \in triggered
  \/ \E c \in Caller : /\ call[c].booking = b /\ call[c].op = "complete"
                       /\ call[c].step = "enqueue"

(* The status decides the direction of the money before any job is queued, *)
(* and never lets the other direction begin: OneMoneyTrigger is the part   *)
(* of it that the queue shows.                                             *)
MoneyDecided ==
  /\ \A c \in Caller : call[c].step = "enqueue" => call[c].op \in {"cancel", "complete"}
  /\ \A b \in Booking :
       /\ Refunding(b) => status[b] \in {"CANCELLED", "REFUNDED"}
       /\ Paying(b) => status[b] \in {"COMPLETED", "REFUNDED"}
       /\ ~(Refunding(b) /\ Paying(b))
=============================================================================
