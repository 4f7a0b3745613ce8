----------------------- MODULE BookingCalendarProofs -----------------------
(***************************************************************************)
(* Theorems about BookingCalendar, for every value of its constants.       *)
(* CalendarInvariant is inductive; each of its parts is a lemma below, one *)
(* step per group of actions that can disturb it.                          *)
(***************************************************************************)
EXTENDS BookingCalendar, TLAPS

(* Whoever occupies a place has one in range; bookings and host blocks are *)
(* owners.                                                                 *)
LEMMA PlaceType ==
  ASSUME TypeOK
  PROVE  /\ \A b \in Booking : b \in Owner /\ place[b].unit \in Unit
         /\ \A k \in HostBlock : k \in Owner /\ place[k].unit \in Unit
  BY DEF TypeOK, Owner

(* What the variables of a call hold between its steps. *)
LEMMA CallType ==
  ASSUME TypeOK, NEW c \in Caller
  PROVE  /\ call[c] \in Call
         /\ call[c].step \in CallStep
         /\ call[c].at \in Int
         /\ call[c].seen \in BookingStatus \cup {"NONE"}
         /\ call[c].op \in Op \cup {"none"}
         /\ call[c].booking \in Booking \cup {NoOne}
  BY DEF TypeOK, Call

(* The two ways a call's record changes keep its type. *)
LEMMA CallUpdate ==
  ASSUME TypeOK, NEW c \in Caller
  PROVE  /\ Finish(c) => call' \in [Caller -> Call]
         /\ \A step \in CallStep : Goto(c, step) => call' \in [Caller -> Call]
         /\ \A step \in CallStep, at \in Int :
              call' = [call EXCEPT ![c].at = at, ![c].step = step]
                => call' \in [Caller -> Call]
<1>1. Idle \in Call /\ call[c] \in Call /\ call \in [Caller -> Call]
  BY DEF TypeOK, Idle, Call, CallStep
<1>2. ASSUME NEW step \in CallStep
      PROVE  [call[c] EXCEPT !.step = step] \in Call
  BY <1>1 DEF Call
<1>3. ASSUME NEW step \in CallStep, NEW at \in Int
      PROVE  [[call[c] EXCEPT !.at = at] EXCEPT !.step = step] \in Call
  BY <1>1 DEF Call
<1>4. Finish(c) => call' \in [Caller -> Call]
  BY <1>1 DEF Finish
<1>5. ASSUME NEW step \in CallStep, Goto(c, step)
      PROVE  call' \in [Caller -> Call]
  BY <1>1, <1>2, <1>5 DEF Goto
<1>6. ASSUME NEW step \in CallStep, NEW at \in Int,
             call' = [call EXCEPT ![c].at = at, ![c].step = step]
      PROVE  call' \in [Caller -> Call]
  BY <1>1, <1>3, <1>6
<1> QED BY <1>4, <1>5, <1>6

-----------------------------------------------------------------------------
(* Every variable keeps its type. *)
LEMMA TypeStep ==
  ASSUME CalendarInvariant, [Next]_vars
  PROVE  TypeOK'
<1> USE CalendarAssumption, OpsAssumption
<1>0. TypeOK /\ CallsOK
  BY DEF CalendarInvariant
<1>1. ASSUME NEW b \in Booking, NEW u \in Unit, NEW s \in Stays,
             NEW t \in Turnarounds, RequestHold(b, u, s, t)
      PROVE  TypeOK'
  <2>1. BlockRange(s, t) \in SUBSET Cell /\ b \in Owner
    BY DEF Owner
  <2>2. AppNow + HoldTicks \in Int
    BY <1>0 DEF AppNow, TypeOK
  <2> QED BY <1>0, <1>1, <2>1, <2>2 DEF RequestHold, RequestStep, TypeOK
<1>2. ASSUME NEW b \in Booking, RequestStepOf(b) \/ CrashRequest(b) \/ ExpiryJob(b)
      PROVE  TypeOK'
  <2>1. place[b].unit \in Unit
    BY <1>0, PlaceType
  <2> USE <1>0 DEF TypeOK, RequestStep, BookingStatus
  <2>2. CASE AcquireLock(b) \/ LockNotAcquired(b) \/ HasConflict(b) \/ InsertHold(b)
    BY <2>1, <2>2 DEF AcquireLock, LockNotAcquired, HasConflict, InsertHold
  <2>3. CASE CommitHold(b) \/ CommitFails(b)
    BY <2>3 DEF CommitHold, CommitFails
  <2>4. CASE ReleaseLock(b)
    BY <2>1, <2>4 DEF ReleaseLock, AfterRelease
  <2>5. CASE ScheduleExpiry(b)
    BY <2>5 DEF ScheduleExpiry
  <2>6. CASE CrashRequest(b)
    BY <2>6 DEF CrashRequest
  <2>7. CASE ExpiryJob(b)
    BY <2>7 DEF ExpiryJob, Expire
  <2> QED BY <1>2, <2>2, <2>3, <2>4, <2>5, <2>6, <2>7 DEF RequestStepOf
<1>3. ASSUME NEW c \in Caller, NEW op \in Ops, NEW b \in Booking, StartCall(c, op, b)
      PROVE  TypeOK'
  BY <1>0, <1>3 DEF StartCall, Call, CallStep, Op, TypeOK
<1>4. ASSUME NEW c \in Caller, CallStepOf(c) \/ CallDies(c)
      PROVE  TypeOK'
  <2>1. /\ now \in Int
        /\ Target(call[c].op) \in BookingStatus
        /\ {"idle", "cas", "queued", "calendar", "lost", "after", "enqueue"} = CallStep
    BY <1>0 DEF TypeOK, Target, BookingStatus, CallStep
  <2>2. call[c].step # "idle" => call[c].booking \in Booking
    BY <1>0 DEF CallsOK, CallOK
  <2>3. CASE ConfirmHold(c) \/ WaitForRow(c)
    <3>1. call' \in [Caller -> Call]
      BY <1>0, <2>1, <2>3, CallUpdate DEF ConfirmHold, WaitForRow
    <3> QED BY <1>0, <2>3, <3>1 DEF ConfirmHold, WaitForRow, TypeOK
  <2>4. CASE ConfirmAfterWait(c) \/ CheckInRow(c)
    <3>1. call' \in [Caller -> Call]
      BY <1>0, <2>1, <2>4, CallUpdate DEF ConfirmAfterWait, CheckInRow
    <3> QED BY <1>0, <2>4, <3>1 DEF ConfirmAfterWait, CheckInRow, TypeOK
  <2>5. CASE UpdateUnderCalendarLock(c)
    <3>1. call' \in [Caller -> Call]
      BY <1>0, <2>1, <2>5, CallUpdate DEF UpdateUnderCalendarLock
    <3>2. status' \in [Booking -> BookingStatus \cup {"NONE"}]
      BY <1>0, <2>1, <2>5 DEF UpdateUnderCalendarLock, TypeOK
    <3> QED BY <1>0, <2>5, <3>1, <3>2 DEF UpdateUnderCalendarLock, TypeOK
  <2>6. CASE Transition(c)
    <3>1. call' \in [Caller -> Call]
      BY <1>0, <2>1, <2>6, CallUpdate DEF Transition
    <3> QED BY <1>0, <2>1, <2>6, <3>1 DEF Transition, TypeOK
  <2>7. CASE CallLost(c) \/ CancelScheduledExpiry(c) \/ CallDies(c)
    <3>1. call' \in [Caller -> Call]
      BY <1>0, <2>1, <2>7, CallUpdate DEF CallLost, CancelScheduledExpiry, CallDies
    <3> QED BY <1>0, <2>2, <2>7, <3>1
            DEF CallLost, CancelScheduledExpiry, CallDies, TypeOK
  <2>8. CASE EnqueueMoneyJob(c)
    <3>1. call' \in [Caller -> Call]
      BY <1>0, <2>1, <2>8, CallUpdate DEF EnqueueMoneyJob
    <3>2. triggered' \subseteq MoneyJob
      BY <1>0, <2>2, <2>8 DEF EnqueueMoneyJob, MoneyJob, TypeOK
    <3> QED BY <1>0, <2>8, <3>1, <3>2 DEF EnqueueMoneyJob, TypeOK
  <2> QED BY <1>4, <2>3, <2>4, <2>5, <2>6, <2>7, <2>8 DEF CallStepOf
<1>5. ASSUME NEW k \in HostBlock, BlockStepOf(k)
      PROVE  TypeOK'
  <2>1. ASSUME NEW u \in Unit, NEW s \in Stays, InsertBlock(k, u, s)
        PROVE  TypeOK'
    <3>1. BlockRange(s, 0) \in SUBSET Cell /\ k \in Owner
      BY DEF Owner
    <3> QED BY <1>0, <2>1, <3>1 DEF InsertBlock, SetBlock, TypeOK
  <2>2. CASE ReactivateBlock(k) \/ CommitBlock(k) \/ DeactivateBlock(k)
    BY <1>0, <2>2 DEF ReactivateBlock, CommitBlock, DeactivateBlock, SetBlock, TypeOK
  <2> QED BY <1>5, <2>1, <2>2 DEF BlockStepOf
<1>6. ASSUME (\E u \in Unit : LockExpires(u)) \/ RedisRestart \/ AppStarts \/ Tick
      PROVE  TypeOK'
  BY <1>0, <1>6 DEF LockExpires, RedisRestart, AppStarts, Tick, TypeOK
<1>7. ASSUME Sweep
      PROVE  TypeOK'
  <2>1. PICK S \in SUBSET StaleHolds : Expire(S)
    BY <1>7 DEF Sweep
  <2>2. status' \in [Booking -> BookingStatus \cup {"NONE"}]
    BY <1>0, <2>1 DEF Expire, TypeOK, BookingStatus
  <2> QED BY <1>0, <1>7, <2>2 DEF Sweep, TypeOK
<1>8. CASE UNCHANGED vars
  BY <1>0, <1>8 DEF vars, TypeOK
<1> QED BY <1>1, <1>2, <1>3, <1>4, <1>5, <1>6, <1>7, <1>8 DEF Next
-----------------------------------------------------------------------------
(* Every way the status of a committed row changes, and what guards it.    *)
LEMMA StatusStep ==
  ASSUME CalendarInvariant, [Next]_vars, NEW b \in Booking, status'[b] # status[b]
  PROVE  \/ /\ pc[b] = "inserted" /\ pc' = [pc EXCEPT ![b] = "release"]
            /\ status[b] = "NONE" /\ status' = [status EXCEPT ![b] = "PENDING_PAYMENT"]
            /\ UNCHANGED <<place, call, expires, blockState, now, toldExpired>>
         \/ /\ ~RowLocked(b) /\ status[b] = "PENDING_PAYMENT" /\ status'[b] = "EXPIRED"
            /\ expires[b] <= now
            /\ UNCHANGED <<pc, place, call, expires, blockState, now, toldExpired>>
         \/ \E c \in Caller :
              /\ call[c].booking = b /\ call[c].step = "calendar"
              /\ status' = [status EXCEPT ![b] = Target(call[c].op)]
              /\ \/ /\ call[c].op = "confirm" /\ call[c].at < expires[b]
                    /\ status[b] = "PENDING_PAYMENT" /\ status'[b] = "CONFIRMED"
                 \/ /\ call[c].op = "checkIn" /\ status[b] = "CONFIRMED"
                    /\ status'[b] = "CHECKED_IN"
              /\ \A d \in Caller : d # c => call'[d] = call[d]
              /\ call'[c].step \in {"after", "idle"}
              /\ UNCHANGED <<pc, place, expires, blockState, now, toldExpired>>
         \/ \E c \in Caller :
              /\ call[c].booking = b /\ call[c].step = "cas" /\ ~RowLocked(b)
              /\ call[c].op \in {"cancel", "complete", "markRefunded"}
              /\ status[b] = call[c].seen
              /\ status' = [status EXCEPT ![b] = Target(call[c].op)]
              /\ status'[b] = Target(call[c].op)
              /\ \A d \in Caller : d # c => call'[d] = call[d]
              /\ call'[c].step \in {"after", "enqueue", "idle"}
              /\ UNCHANGED <<pc, place, expires, blockState, now, toldExpired>>
<1>0. TypeOK /\ CallsOK /\ RowAfterCommit
  BY DEF CalendarInvariant
<1>1. ASSUME NEW d \in Booking, RequestStepOf(d) \/ CrashRequest(d)
      PROVE  pc[b] = "inserted" /\ CommitHold(b)
  <2>1. CommitHold(d)
    BY <1>1 DEF RequestStepOf, AcquireLock, LockNotAcquired, HasConflict, InsertHold,
                CommitFails, ReleaseLock, ScheduleExpiry, CrashRequest
  <2>2. d = b
    BY <1>0, <2>1 DEF CommitHold, TypeOK
  <2> QED BY <2>1, <2>2 DEF CommitHold
<1>2. CASE CommitHold(b)
  BY <1>0, <1>2 DEF CommitHold, RowAfterCommit, TypeOK
<1>3. ASSUME NEW d \in Booking, ExpiryJob(d)
      PROVE  /\ ~RowLocked(b) /\ status[b] = "PENDING_PAYMENT" /\ status'[b] = "EXPIRED"
             /\ expires[b] <= now
             /\ UNCHANGED <<pc, place, call, expires, blockState, now, toldExpired>>
  BY <1>0, <1>3 DEF ExpiryJob, Expire, TypeOK
<1>4. ASSUME Sweep
      PROVE  /\ ~RowLocked(b) /\ status[b] = "PENDING_PAYMENT" /\ status'[b] = "EXPIRED"
             /\ expires[b] <= now
             /\ UNCHANGED <<pc, place, call, expires, blockState, now, toldExpired>>
  <2>1. PICK S \in SUBSET StaleHolds : Expire(S)
    BY <1>4 DEF Sweep
  <2>2. b \in StaleHolds /\ status'[b] = "EXPIRED"
    BY <2>1 DEF Expire
  <2>3. expires[b] \in Int /\ now \in Int
    BY <1>0 DEF TypeOK
  <2> QED BY <1>4, <2>2, <2>3 DEF StaleHolds, Sweep
<1>5. ASSUME NEW c \in Caller, UpdateUnderCalendarLock(c)
      PROVE  /\ call[c].booking = b /\ call[c].step = "calendar"
             /\ status' = [status EXCEPT ![b] = Target(call[c].op)]
             /\ \/ /\ call[c].op = "confirm" /\ call[c].at < expires[b]
                   /\ status[b] = "PENDING_PAYMENT" /\ status'[b] = "CONFIRMED"
                \/ /\ call[c].op = "checkIn" /\ status[b] = "CONFIRMED"
                   /\ status'[b] = "CHECKED_IN"
             /\ \A d \in Caller : d # c => call'[d] = call[d]
             /\ call'[c].step \in {"after", "idle"}
             /\ UNCHANGED <<pc, place, expires, blockState, now, toldExpired>>
  <2>1. call[c].step = "calendar" /\ CallOK(c)
    BY <1>0, <1>5 DEF CallsOK, UpdateUnderCalendarLock
  <2>2. call[c].booking = b /\ status' = [status EXCEPT ![b] = Target(call[c].op)]
    BY <1>0, <1>5 DEF UpdateUnderCalendarLock, TypeOK
  <2>3. \/ /\ call[c].op = "confirm" /\ expires[b] > call[c].at
           /\ status[b] = "PENDING_PAYMENT" /\ status'[b] = "CONFIRMED"
        \/ /\ call[c].op = "checkIn" /\ status[b] = "CONFIRMED"
           /\ status'[b] = "CHECKED_IN"
    BY <1>0, <2>1, <2>2 DEF CallOK, HoldAlive, Target, TypeOK
  <2>4. call[c].at \in Int /\ expires[b] \in Int
    BY <1>0, CallType DEF TypeOK
  <2>5. /\ \A d \in Caller : d # c => call'[d] = call[d]
        /\ call'[c].step \in {"after", "idle"}
    BY <1>0, <1>5, CallType DEF UpdateUnderCalendarLock, Goto, Finish, Idle, TypeOK, Call
  <2> QED BY <1>5, <2>1, <2>2, <2>3, <2>4, <2>5 DEF UpdateUnderCalendarLock
<1>6. ASSUME NEW c \in Caller, Transition(c)
      PROVE  /\ call[c].booking = b /\ call[c].step = "cas" /\ ~RowLocked(b)
             /\ call[c].op \in {"cancel", "complete", "markRefunded"}
             /\ status[b] = call[c].seen
             /\ status' = [status EXCEPT ![b] = Target(call[c].op)]
             /\ status'[b] = Target(call[c].op)
             /\ \A d \in Caller : d # c => call'[d] = call[d]
             /\ call'[c].step \in {"after", "enqueue", "idle"}
             /\ UNCHANGED <<pc, place, expires, blockState, now, toldExpired>>
  <2>1. call[c].booking = b /\ status[b] = call[c].seen
        /\ status' = [status EXCEPT ![b] = Target(call[c].op)]
    BY <1>0, <1>6 DEF Transition, TypeOK
  <2>2. /\ \A d \in Caller : d # c => call'[d] = call[d]
        /\ call'[c].step \in {"after", "enqueue", "idle"}
    BY <1>0, <1>6, <2>1, CallType DEF Transition, Goto, Finish, Idle, TypeOK, Call
  <2> QED BY <1>0, <1>6, <2>1, <2>2 DEF Transition, TypeOK
<1>7. ASSUME NEW c \in Caller, CallStepOf(c) \/ CallDies(c)
      PROVE  UpdateUnderCalendarLock(c) \/ Transition(c)
  BY <1>7 DEF CallStepOf, CallDies, ConfirmHold, WaitForRow, ConfirmAfterWait,
              CheckInRow, CallLost, CancelScheduledExpiry, EnqueueMoneyJob
<1>8. ASSUME \/ \E d \in Booking, u \in Unit, s \in Stays, t \in Turnarounds :
                  RequestHold(d, u, s, t)
             \/ \E c \in Caller, op \in Ops, d \in Booking : StartCall(c, op, d)
             \/ \E k \in HostBlock : BlockStepOf(k)
             \/ \E u \in Unit : LockExpires(u)
             \/ RedisRestart \/ AppStarts \/ Tick \/ UNCHANGED vars
      PROVE  FALSE
  BY <1>8 DEF RequestHold, StartCall, BlockStepOf, InsertBlock, ReactivateBlock,
              CommitBlock, DeactivateBlock, SetBlock, LockExpires, RedisRestart, AppStarts,
              Tick, vars
<1>9. \/ \E d \in Booking : RequestStepOf(d) \/ CrashRequest(d) \/ ExpiryJob(d)
      \/ \E c \in Caller : CallStepOf(c) \/ CallDies(c)
      \/ Sweep
  BY <1>8 DEF Next
<1> QED BY <1>1, <1>2, <1>3, <1>4, <1>5, <1>6, <1>7, <1>9

(* The status of a row that exists never becomes that of a missing row.    *)
LEMMA RowsStay ==
  ASSUME CalendarInvariant, [Next]_vars, NEW b \in Booking, status[b] # "NONE"
  PROVE  status'[b] # "NONE"
<1>1. CASE status'[b] = status[b]
  BY <1>1
<1>2. CASE status'[b] # status[b]
  BY <1>2, StatusStep DEF Target
<1> QED BY <1>1, <1>2
-----------------------------------------------------------------------------
(* A row exists only once its request has committed. *)
LEMMA RowAfterCommitStep ==
  ASSUME CalendarInvariant, [Next]_vars
  PROVE  RowAfterCommit'
<1> SUFFICES ASSUME NEW b \in Booking,
                    pc'[b] \in {"idle", "lock", "check", "insert", "inserted"}
             PROVE  status'[b] = "NONE"
  BY DEF RowAfterCommit
<1>0. TypeOK /\ CallsOK /\ RowAfterCommit
  BY DEF CalendarInvariant
<1>1. pc[b] \in {"idle", "lock", "check", "insert", "inserted"}
  <2>1. ASSUME NEW d \in Booking, NEW u \in Unit, NEW s \in Stays,
               NEW t \in Turnarounds, RequestHold(d, u, s, t)
        PROVE  <1>1
    BY <1>0, <2>1 DEF RequestHold, TypeOK
  <2>2. ASSUME NEW d \in Booking, RequestStepOf(d) \/ CrashRequest(d) \/ ExpiryJob(d)
        PROVE  <1>1
    BY <1>0, <2>2 DEF RequestStepOf, AcquireLock, LockNotAcquired, HasConflict,
        InsertHold, CommitHold, CommitFails, ReleaseLock, ScheduleExpiry,
        CrashRequest, ExpiryJob, TypeOK
  <2>3. ASSUME \/ \E c \in Caller, op \in Ops, d \in Booking : StartCall(c, op, d)
               \/ \E c \in Caller : CallStepOf(c) \/ CallDies(c)
        PROVE  pc' = pc
    BY <2>3 DEF StartCall, CallStepOf, CallDies, ConfirmHold, WaitForRow,
        ConfirmAfterWait, CheckInRow, UpdateUnderCalendarLock, Transition, CallLost,
        CancelScheduledExpiry, EnqueueMoneyJob
  <2>4. ASSUME \/ \E k \in HostBlock : BlockStepOf(k)
               \/ \E u \in Unit : LockExpires(u)
               \/ RedisRestart \/ AppStarts \/ Sweep \/ Tick \/ UNCHANGED vars
        PROVE  pc' = pc
    BY <2>4 DEF BlockStepOf, InsertBlock, ReactivateBlock, CommitBlock,
        DeactivateBlock, SetBlock, LockExpires, RedisRestart, AppStarts, Sweep, Tick, vars
  <2> QED BY <2>1, <2>2, <2>3, <2>4 DEF Next
<1>2. status[b] = "NONE"
  BY <1>0, <1>1 DEF RowAfterCommit
<1>3. CASE status'[b] # status[b]
  <2>1. \A c \in Caller : call[c].booking = b => call[c].step = "idle"
    BY <1>0, <1>2 DEF CallsOK, CallOK
  <2>2. pc' # [pc EXCEPT ![b] = "release"]
    BY <1>0 DEF TypeOK
  <2> QED BY <1>2, <1>3, <2>1, <2>2, StatusStep
<1> QED BY <1>2, <1>3
-----------------------------------------------------------------------------
(* Calls. *)

(* The clock never goes back. *)
LEMMA ClockGrows ==
  ASSUME CalendarInvariant, [Next]_vars
  PROVE  now <= now' /\ now \in Int /\ now' \in Int
<1>1. now' = now \/ now' = now + 1
  BY DEF Next, RequestHold, RequestStepOf, AcquireLock, LockNotAcquired,
      HasConflict, InsertHold, CommitHold, CommitFails, ReleaseLock, ScheduleExpiry,
      CrashRequest, ExpiryJob, StartCall, CallStepOf, CallDies, ConfirmHold,
      WaitForRow, ConfirmAfterWait, CheckInRow, UpdateUnderCalendarLock, Transition,
      CallLost, CancelScheduledExpiry, EnqueueMoneyJob, BlockStepOf, InsertBlock,
      ReactivateBlock, CommitBlock, DeactivateBlock, SetBlock, LockExpires,
      RedisRestart, AppStarts, Sweep, Tick, vars
<1>2. now \in Int
  BY DEF CalendarInvariant, TypeOK
<1> QED BY <1>1, <1>2

(* The deadline of a row that exists never moves. *)
LEMMA DeadlineFixed ==
  ASSUME CalendarInvariant, [Next]_vars, NEW b \in Booking, status[b] # "NONE"
  PROVE  expires'[b] = expires[b]
<1>0. TypeOK /\ RowAfterCommit
  BY DEF CalendarInvariant
<1>1. ASSUME NEW d \in Booking, NEW u \in Unit, NEW s \in Stays,
             NEW t \in Turnarounds, RequestHold(d, u, s, t)
      PROVE  expires'[b] = expires[b]
  <2>1. d # b
    BY <1>0, <1>1 DEF RequestHold, RowAfterCommit
  <2> QED BY <1>0, <1>1, <2>1 DEF RequestHold, TypeOK
<1>2. ASSUME ~\E d \in Booking, u \in Unit, s \in Stays, t \in Turnarounds :
               RequestHold(d, u, s, t)
      PROVE  expires' = expires
  BY <1>2 DEF Next, RequestStepOf, AcquireLock, LockNotAcquired,
      HasConflict, InsertHold, CommitHold, CommitFails, ReleaseLock, ScheduleExpiry,
      CrashRequest, ExpiryJob, StartCall, CallStepOf, CallDies, ConfirmHold,
      WaitForRow, ConfirmAfterWait, CheckInRow, UpdateUnderCalendarLock, Transition,
      CallLost, CancelScheduledExpiry, EnqueueMoneyJob, BlockStepOf, InsertBlock,
      ReactivateBlock, CommitBlock, DeactivateBlock, SetBlock, LockExpires,
      RedisRestart, AppStarts, Sweep, Tick, vars
<1> QED BY <1>1, <1>2

(* A caller that does not move stays well informed while others act.       *)
LEMMA CallFrame ==
  ASSUME CalendarInvariant, [Next]_vars, NEW c \in Caller, call'[c] = call[c]
  PROVE  CallOK(c)'
<1> SUFFICES ASSUME call[c].step # "idle" PROVE CallOK(c)'
  BY DEF CallOK
<1> DEFINE b == call[c].booking
<1>0. TypeOK /\ CallsOK /\ RowAfterCommit /\ RowLockExclusive
  BY DEF CalendarInvariant
<1>1. CallOK(c) /\ b \in Booking /\ status[b] # "NONE"
  BY <1>0 DEF CallsOK, CallOK
<1>2. status'[b] # "NONE"
  BY <1>1, RowsStay
<1>3. now <= now' /\ call[c].at <= now'
  <2>1. call[c].at \in Int /\ call[c].at <= now
    BY <1>0, <1>1, CallType DEF CallOK
  <2> QED BY <2>1, ClockGrows
<1>4. expires'[b] = expires[b]
  BY <1>1, DeadlineFixed
<1>5. call[c].step = "calendar" => status'[b] = status[b]
  <2> SUFFICES ASSUME call[c].step = "calendar", status'[b] # status[b] PROVE FALSE
    OBVIOUS
  <2>1. RowLocked(b)
    BY DEF RowLocked
  <2>2. PICK d \in Caller : /\ call[d].booking = b /\ call[d].step = "calendar"
                            /\ call'[d].step \in {"after", "idle"}
    BY <1>1, <2>1, StatusStep
  <2>3. d = c
    BY <1>0, <2>2 DEF RowLockExclusive
  <2> QED BY <2>2, <2>3
<1> QED BY <1>1, <1>2, <1>3, <1>4, <1>5 DEF CallOK, HoldAlive

(* What Goto leaves in the call's record. *)
LEMMA GotoFields ==
  ASSUME TypeOK, NEW c \in Caller, NEW step, Goto(c, step)
  PROVE  /\ call'[c].step = step /\ call'[c].booking = call[c].booking
         /\ call'[c].op = call[c].op /\ call'[c].at = call[c].at
         /\ call'[c].seen = call[c].seen
<1>1. call[c] \in Call /\ call'[c] = [call[c] EXCEPT !.step = step]
  BY DEF TypeOK, Goto
<1> QED BY <1>1 DEF Call

(* A caller that moves knows why it may.  *)
LEMMA CallMoves ==
  ASSUME CalendarInvariant, [Next]_vars, NEW c \in Caller, CallStepOf(c) \/ CallDies(c)
  PROVE  /\ CallOK(c)'
         /\ \A d \in Caller : d # c => call'[d] = call[d]
         /\ \/ call'[c].step # "calendar"
            \/ call'[c].booking = call[c].booking /\ ~RowLocked(call[c].booking)
<1> DEFINE b == call[c].booking
<1>0. TypeOK /\ CallsOK /\ CallOK(c)
  BY DEF CalendarInvariant, CallsOK
<1>1. /\ now \in Int /\ call \in [Caller -> Call]
      /\ \A step : Goto(c, step) => /\ call'[c] = [call[c] EXCEPT !.step = step]
                                   /\ \A d \in Caller : d # c => call'[d] = call[d]
      /\ Finish(c) => /\ call'[c].step = "idle"
                      /\ \A d \in Caller : d # c => call'[d] = call[d]
  BY <1>0 DEF TypeOK, Goto, Finish, Idle
<1>2. CASE ConfirmHold(c) \/ WaitForRow(c)
  <2>1. call'[c] = [call[c] EXCEPT !.at = now, !.step = call'[c].step]
        /\ call'[c].step \in {"calendar", "lost", "queued"}
        /\ \A d \in Caller : d # c => call'[d] = call[d]
    BY <1>1, <1>2, CallType DEF ConfirmHold, WaitForRow, Call
  <2>2. call'[c].op = "confirm" /\ call'[c].at = now /\ call'[c].booking = b
        /\ call'[c].seen = call[c].seen /\ call[c].step = "cas"
    BY <1>1, <1>2, <2>1, CallType DEF ConfirmHold, WaitForRow, Call
  <2>3. call'[c].step = "calendar" => HoldAlive(b, now) /\ ~RowLocked(b)
    BY <1>1, <1>2, CallType DEF ConfirmHold, WaitForRow, Call
  <2>4. UNCHANGED <<now, status, expires>>
    BY <1>2 DEF ConfirmHold, WaitForRow
  <2>5. CallOK(c)'
    BY <1>0, <1>1, <1>2, <2>1, <2>2, <2>3, <2>4 DEF CallOK, HoldAlive, ConfirmHold,
       WaitForRow
  <2> QED BY <2>1, <2>2, <2>3, <2>5
<1>3. CASE ConfirmAfterWait(c) \/ CheckInRow(c)
  <2>1. PICK step \in {"calendar", "lost"} : Goto(c, step)
    BY <1>3 DEF ConfirmAfterWait, CheckInRow
  <2>2. /\ call'[c].step = step /\ call'[c].booking = b /\ call'[c].op = call[c].op
        /\ call'[c].at = call[c].at /\ call'[c].seen = call[c].seen
        /\ call[c].step \in {"queued", "cas"} /\ ~RowLocked(b)
    BY <1>0, <1>3, <2>1, GotoFields DEF ConfirmAfterWait, CheckInRow
  <2>3. UNCHANGED <<now, status, expires>>
    BY <1>3 DEF ConfirmAfterWait, CheckInRow
  <2>4. call'[c].step = "calendar" =>
          \/ call[c].op = "confirm" /\ HoldAlive(b, call[c].at)
          \/ call[c].op = "checkIn" /\ status[b] = "CONFIRMED"
    <3>1. CASE ConfirmAfterWait(c)
      BY <1>0, <1>1, <3>1, CallType DEF ConfirmAfterWait, CallOK, Goto, Call
    <3>2. CASE CheckInRow(c)
      <4>1. <<call[c].seen, "CHECKED_IN">> \in Transitions
        BY <1>0, <3>2 DEF CheckInRow, CallOK, Target
      <4>2. call[c].seen = "CONFIRMED"
        BY <4>1 DEF Transitions
      <4> QED BY <1>1, <3>2, <4>2, CallType DEF CheckInRow, Goto, Call
    <3> QED BY <1>3, <3>1, <3>2
  <2>5. CallOK(c)'
    BY <1>0, <2>2, <2>3, <2>4 DEF CallOK, HoldAlive
  <2> QED BY <1>1, <2>1, <2>2, <2>5
<1>4. CASE \/ UpdateUnderCalendarLock(c) \/ Transition(c) \/ CancelScheduledExpiry(c)
           \/ CallLost(c) \/ EnqueueMoneyJob(c) \/ CallDies(c)
  <2>1. Finish(c) \/ \E step \in {"after", "enqueue", "lost"} : Goto(c, step)
    BY <1>4 DEF UpdateUnderCalendarLock, Transition, CancelScheduledExpiry, CallLost,
       EnqueueMoneyJob, CallDies
  <2>2. CASE Finish(c)
    BY <1>1, <2>2 DEF CallOK
  <2>3. ASSUME NEW step \in {"after", "enqueue", "lost"}, Goto(c, step)
        PROVE  /\ CallOK(c)' /\ call'[c].step # "calendar"
               /\ \A d \in Caller : d # c => call'[d] = call[d]
    <3>1. /\ call'[c].step = step /\ call'[c].booking = b /\ call'[c].op = call[c].op
          /\ call'[c].at = call[c].at /\ call'[c].seen = call[c].seen
      BY <1>0, <2>3, GotoFields
    <3>2. call[c].step # "idle" /\ UNCHANGED now
      BY <1>1, <1>4, <3>1 DEF UpdateUnderCalendarLock, Transition, CallLost,
         CancelScheduledExpiry, EnqueueMoneyJob, CallDies
    <3>3. b \in Booking /\ status'[b] # "NONE"
      BY <1>0, <3>2, RowsStay DEF CallOK
    <3> QED BY <1>0, <1>1, <2>3, <3>1, <3>2, <3>3 DEF CallOK
  <2> QED BY <2>1, <2>2, <2>3
<1> QED BY <1>2, <1>3, <1>4 DEF CallStepOf, CallDies

(* Which actions leave a call alone. *)
LEMMA CallerAtRest ==
  ASSUME CalendarInvariant, [Next]_vars, NEW c \in Caller,
         ~(CallStepOf(c) \/ CallDies(c)), call'[c] # call[c]
  PROVE  /\ call'[c].step = "cas" /\ CallOK(c)'
         /\ \A d \in Caller : d # c => call'[d] = call[d]
<1>0. TypeOK /\ CallsOK
  BY DEF CalendarInvariant
<1>1. PICK d \in Caller : \/ \E op \in Ops, b \in Booking : StartCall(d, op, b)
                          \/ CallStepOf(d) \/ CallDies(d)
  <2>1. ASSUME ~\E d \in Caller : \/ \E op \in Ops, b \in Booking : StartCall(d, op, b)
                                  \/ CallStepOf(d) \/ CallDies(d)
        PROVE  call' = call
    BY <2>1 DEF Next, RequestHold, RequestStepOf, AcquireLock, LockNotAcquired,
      HasConflict, InsertHold, CommitHold, CommitFails, ReleaseLock, ScheduleExpiry,
      CrashRequest, ExpiryJob, BlockStepOf, InsertBlock, ReactivateBlock, CommitBlock,
      DeactivateBlock, SetBlock, LockExpires, RedisRestart, AppStarts, Sweep, Tick, vars
  <2> QED BY <2>1
<1>2. CASE d # c
  <2>1. call'[c] = call[c]
    BY <1>0, <1>1, <1>2, CallMoves DEF StartCall, TypeOK
  <2> QED BY <2>1
<1>3. CASE d = c
  <2>1. PICK op \in Ops, b \in Booking : StartCall(c, op, b)
    BY <1>1, <1>3
  <2>2. /\ call'[c] = [op |-> op, booking |-> b, step |-> "cas", seen |-> status[b],
                       at |-> 0]
        /\ \A e \in Caller : e # c => call'[e] = call[e]
        /\ now' = now /\ status' = status /\ 0 <= now
    BY <1>0, <2>1 DEF StartCall, TypeOK
  <2>3. op \in Op /\ <<status[b], Target(op)>> \in Transitions
    BY <2>1, OpsAssumption DEF StartCall
  <2>4. status[b] # "NONE"
    BY <2>3 DEF Transitions
  <2> QED BY <2>2, <2>3, <2>4 DEF CallOK
<1> QED BY <1>2, <1>3

(* Every call stays well informed. *)
LEMMA CallsOKStep ==
  ASSUME CalendarInvariant, [Next]_vars
  PROVE  CallsOK'
<1> SUFFICES ASSUME NEW c \in Caller PROVE CallOK(c)'
  BY DEF CallsOK
<1> QED BY CallFrame, CallMoves, CallerAtRest

(* The row lock keeps one owner. *)
LEMMA RowLockExclusiveStep ==
  ASSUME CalendarInvariant, [Next]_vars
  PROVE  RowLockExclusive'
<1> SUFFICES ASSUME NEW c \in Caller, NEW d \in Caller, c # d,
                    call'[c].step = "calendar", call'[d].step = "calendar",
                    call'[c].booking = call'[d].booking
             PROVE  FALSE
  BY DEF RowLockExclusive
<1>0. RowLockExclusive
  BY DEF CalendarInvariant
<1>1. ASSUME NEW e \in Caller, NEW f \in Caller, e # f, call'[e] # call[e],
             call'[e].step = "calendar", call'[f].step = "calendar",
             call'[e].booking = call'[f].booking
      PROVE  FALSE
  <2>1. CallStepOf(e) \/ CallDies(e)
    BY <1>1, CallerAtRest
  <2>2. call'[f] = call[f] /\ ~RowLocked(call[e].booking)
        /\ call'[e].booking = call[e].booking
    BY <1>1, <2>1, CallMoves
  <2> QED BY <1>1, <2>2 DEF RowLocked
<1>2. call'[c] = call[c] /\ call'[d] = call[d]
  BY <1>1
<1> QED BY <1>0, <1>2 DEF RowLockExclusive
-----------------------------------------------------------------------------
(* The calendar. *)

(* Only a request that has not written yet, or a new block, moves.         *)
LEMMA PlaceStep ==
  ASSUME CalendarInvariant, [Next]_vars, NEW o \in Owner, place'[o] # place[o]
  PROVE  \/ /\ o \in Booking /\ pc[o] = "idle" /\ pc'[o] = "lock"
            /\ status[o] = "NONE" /\ status'[o] = "NONE"
         \/ \E u \in Unit, s \in Stays : o \in HostBlock /\ InsertBlock(o, u, s)
<1>0. TypeOK /\ RowAfterCommit
  BY DEF CalendarInvariant
<1>1. ASSUME NEW b \in Booking, NEW u \in Unit, NEW s \in Stays,
             NEW t \in Turnarounds, RequestHold(b, u, s, t)
      PROVE  /\ o \in Booking /\ pc[o] = "idle" /\ pc'[o] = "lock"
             /\ status[o] = "NONE" /\ status'[o] = "NONE"
  <2>1. o = b
    BY <1>0, <1>1 DEF RequestHold, TypeOK, Owner
  <2> QED BY <1>0, <1>1, <2>1 DEF RequestHold, TypeOK, RowAfterCommit
<1>2. ASSUME NEW k \in HostBlock, NEW u \in Unit, NEW s \in Stays, InsertBlock(k, u, s)
      PROVE  o = k
  BY <1>0, <1>2 DEF InsertBlock, TypeOK, Owner
<1>3. ASSUME NEW k \in HostBlock, ReactivateBlock(k) \/ CommitBlock(k) \/ DeactivateBlock(k)
      PROVE  FALSE
  BY <1>3 DEF ReactivateBlock, CommitBlock, DeactivateBlock
<1>4. ASSUME \/ \E b \in Booking : RequestStepOf(b) \/ CrashRequest(b) \/ ExpiryJob(b)
             \/ \E c \in Caller, op \in Ops, b \in Booking : StartCall(c, op, b)
             \/ \E u \in Unit : LockExpires(u)
             \/ RedisRestart \/ AppStarts \/ Sweep \/ Tick \/ UNCHANGED vars
      PROVE  FALSE
  BY <1>4 DEF RequestStepOf, AcquireLock, LockNotAcquired, HasConflict, InsertHold,
     CommitHold, CommitFails, ReleaseLock, ScheduleExpiry, CrashRequest, ExpiryJob,
     StartCall, LockExpires, RedisRestart, AppStarts, Sweep, Tick, vars
<1>5. ASSUME \E c \in Caller : CallStepOf(c) \/ CallDies(c)
      PROVE  FALSE
  BY <1>5 DEF CallStepOf, CallDies, ConfirmHold, WaitForRow, ConfirmAfterWait,
     CheckInRow, UpdateUnderCalendarLock, Transition, CallLost, CancelScheduledExpiry,
     EnqueueMoneyJob
<1> QED BY <1>1, <1>2, <1>3, <1>4, <1>5 DEF Next, BlockStepOf

(* A write is uncommitted only after the INSERT of its own request. *)
LEMMA InsertedStep ==
  ASSUME CalendarInvariant, [Next]_vars, NEW b \in Booking,
         pc'[b] = "inserted", pc[b] # "inserted"
  PROVE  InsertHold(b)
<1>0. TypeOK
  BY DEF CalendarInvariant
<1>1. ASSUME NEW d \in Booking, NEW u \in Unit, NEW s \in Stays,
             NEW t \in Turnarounds, RequestHold(d, u, s, t)
      PROVE  FALSE
  BY <1>0, <1>1 DEF RequestHold, TypeOK
<1>2. ASSUME NEW d \in Booking, RequestStepOf(d) \/ CrashRequest(d) \/ ExpiryJob(d)
      PROVE  InsertHold(b)
  <2>1. InsertHold(d)
    BY <1>0, <1>2 DEF RequestStepOf, AcquireLock, LockNotAcquired, HasConflict,
       CommitHold, CommitFails, ReleaseLock, ScheduleExpiry, CrashRequest, ExpiryJob,
       TypeOK
  <2>2. d = b
    BY <1>0, <2>1 DEF InsertHold, TypeOK
  <2> QED BY <2>1, <2>2
<1>3. ASSUME \/ \E c \in Caller, op \in Ops, d \in Booking : StartCall(c, op, d)
             \/ \E c \in Caller : CallStepOf(c) \/ CallDies(c)
      PROVE  FALSE
  BY <1>3 DEF StartCall, CallStepOf, CallDies, ConfirmHold, WaitForRow,
     ConfirmAfterWait, CheckInRow, UpdateUnderCalendarLock, Transition, CallLost,
     CancelScheduledExpiry, EnqueueMoneyJob
<1>4. ASSUME \/ \E k \in HostBlock : BlockStepOf(k)
             \/ \E u \in Unit : LockExpires(u)
             \/ RedisRestart \/ AppStarts \/ Sweep \/ Tick \/ UNCHANGED vars
      PROVE  FALSE
  BY <1>4 DEF BlockStepOf, InsertBlock, ReactivateBlock, CommitBlock,
     DeactivateBlock, SetBlock, LockExpires, RedisRestart, AppStarts, Sweep, Tick, vars
<1> QED BY <1>1, <1>2, <1>3, <1>4 DEF Next

(* A block's state changes only by an action of that block. *)
LEMMA BlockStep ==
  ASSUME CalendarInvariant, [Next]_vars, NEW k \in HostBlock,
         blockState'[k] # blockState[k]
  PROVE  \/ \E u \in Unit, s \in Stays : InsertBlock(k, u, s)
         \/ ReactivateBlock(k)
         \/ /\ blockState[k] = "inserting" /\ CommitBlock(k)
         \/ blockState'[k] = "inactive"
<1>0. TypeOK
  BY DEF CalendarInvariant
<1>1. ASSUME NEW j \in HostBlock, BlockStepOf(j), j # k
      PROVE  FALSE
  BY <1>0, <1>1 DEF BlockStepOf, InsertBlock, ReactivateBlock, CommitBlock,
     DeactivateBlock, SetBlock, TypeOK
<1>2. CASE BlockStepOf(k)
  BY <1>0, <1>2 DEF BlockStepOf, CommitBlock, DeactivateBlock, SetBlock, TypeOK
<1>3. ASSUME ~\E j \in HostBlock : BlockStepOf(j)
      PROVE  FALSE
  BY <1>3 DEF Next, RequestHold, RequestStepOf, AcquireLock, LockNotAcquired,
    HasConflict, InsertHold, CommitHold, CommitFails, ReleaseLock, ScheduleExpiry,
    CrashRequest, ExpiryJob, StartCall, CallStepOf, CallDies, ConfirmHold,
    WaitForRow, ConfirmAfterWait, CheckInRow, UpdateUnderCalendarLock, Transition,
    CallLost, CancelScheduledExpiry, EnqueueMoneyJob, LockExpires, RedisRestart,
    AppStarts, Sweep, Tick, vars
<1> QED BY <1>1, <1>2, <1>3

(* A new claim was checked against every other claim of its unit, committed *)
(* or not, and no other claim appears in the same step.                    *)
LEMMA ClaimStep ==
  ASSUME CalendarInvariant, [Next]_vars, NEW o \in Owner, Claims(o)'
  PROVE  \/ Claims(o) /\ place'[o] = place[o]
         \/ /\ ~CalendarLocked(place'[o].unit)
            /\ ~HostBlocked(o, place'[o]) /\ ~OverlapsHolding(o, place'[o])
            /\ \A q \in Owner \ {o} : Claims(q)' => Claims(q) /\ place'[q] = place[q]
<1>0. TypeOK /\ CallsOK /\ RowAfterCommit
  BY DEF CalendarInvariant
<1>1. CASE o \in Booking
  <2>1. pc'[o] = "inserted" \/ status'[o] \in Holding
    BY <1>1 DEF Claims
  <2>2. place'[o] = place[o]
    <3>1. o \notin HostBlock
      BY <1>1, CalendarAssumption
    <3> QED BY <2>1, <3>1, PlaceStep DEF Holding
  <2>3. CASE pc'[o] = "inserted" /\ pc[o] # "inserted"
    <3>1. InsertHold(o)
      BY <1>1, <2>3, InsertedStep
    <3>2. ~CalendarLocked(place[o].unit) /\ ~HostBlocked(o, place[o])
          /\ ~OverlapsHolding(o, place[o])
      BY <1>0, <1>1, <2>3, <3>1 DEF InsertHold, TypeOK
    <3>3. \A q \in Owner \ {o} : Claims(q)' => Claims(q) /\ place'[q] = place[q]
      BY <1>0, <1>1, <3>1 DEF InsertHold, Claims, TypeOK
    <3> QED BY <2>2, <3>2, <3>3
  <2>4. CASE status'[o] \in Holding /\ status[o] \notin Holding
    <3>1. pc[o] = "inserted"
      BY <1>1, <2>4, StatusStep DEF Holding, Target
    <3> QED BY <1>1, <2>2, <3>1 DEF Claims
  <2>5. CASE pc[o] = "inserted" \/ status[o] \in Holding
    BY <1>1, <2>2, <2>5 DEF Claims
  <2> QED BY <2>1, <2>3, <2>4, <2>5
<1>2. CASE o \in HostBlock
  <2>0. o \notin Booking
    BY <1>2, CalendarAssumption
  <2>1. blockState'[o] \in {"inserting", "active"}
    BY <2>0 DEF Claims
  <2>2. ASSUME NEW u \in Unit, NEW s \in Stays, InsertBlock(o, u, s)
        PROVE  /\ ~CalendarLocked(place'[o].unit)
               /\ ~HostBlocked(o, place'[o]) /\ ~OverlapsHolding(o, place'[o])
               /\ \A q \in Owner \ {o} : Claims(q)' => Claims(q) /\ place'[q] = place[q]
    <3>1. place'[o] = [unit |-> u, cells |-> BlockRange(s, 0)]
          /\ place'[o].unit = u
      BY <1>0, <2>2 DEF InsertBlock, TypeOK
    <3>2. \A q \in Owner \ {o} : Claims(q)' => Claims(q) /\ place'[q] = place[q]
      BY <1>0, <2>2 DEF InsertBlock, SetBlock, Claims, TypeOK
    <3> QED BY <2>2, <3>1, <3>2 DEF InsertBlock
  <2>3. CASE ReactivateBlock(o)
    BY <1>0, <2>3 DEF ReactivateBlock, SetBlock, Claims, TypeOK
  <2>4. ASSUME ~\E u \in Unit, s \in Stays : InsertBlock(o, u, s), ~ReactivateBlock(o)
        PROVE  Claims(o) /\ place'[o] = place[o]
    <3>1. blockState[o] \in {"inserting", "active"}
      BY <1>2, <2>1, <2>4, BlockStep
    <3> QED BY <2>0, <2>4, <3>1, PlaceStep DEF Claims
  <2> QED BY <2>2, <2>3, <2>4
<1> QED BY <1>1, <1>2 DEF Owner

(* Claims stay disjoint: the advisory lock keeps uncommitted writers apart, *)
(* the constraint and the triggers keep them off committed rows.           *)
LEMMA DisjointClaimsStep ==
  ASSUME CalendarInvariant, [Next]_vars
  PROVE  DisjointClaims'
<1> SUFFICES ASSUME NEW o \in Owner, NEW q \in Owner, o # q, Claims(o)', Claims(q)'
             PROVE  ~Overlap(place'[o], place'[q])
  BY DEF DisjointClaims, Overlap
<1>0. DisjointClaims
  BY DEF CalendarInvariant
<1>1. ASSUME NEW x \in Owner, NEW y \in Owner, x # y, Claims(y), place'[y] = place[y],
             ~CalendarLocked(place'[x].unit), ~HostBlocked(x, place'[x]),
             ~OverlapsHolding(x, place'[x])
      PROVE  ~Overlap(place'[x], place'[y]) /\ ~Overlap(place'[y], place'[x])
  <2>1. ~Overlap(place[y], place'[x])
    <3>1. CASE y \in Booking
      BY <1>1, <3>1 DEF Claims, CalendarLocked, OverlapsHolding, Overlap
    <3>2. CASE y \in HostBlock /\ y \notin Booking
      BY <1>1, <3>2 DEF Claims, CalendarLocked, HostBlocked, Overlap
    <3> QED BY <3>1, <3>2 DEF Owner
  <2> QED BY <1>1, <2>1 DEF Overlap
<1>2. CASE Claims(o) /\ place'[o] = place[o] /\ Claims(q) /\ place'[q] = place[q]
  BY <1>0, <1>2 DEF DisjointClaims
<1>3. CASE ~(Claims(o) /\ place'[o] = place[o])
  BY <1>1, <1>3, ClaimStep
<1>4. CASE ~(Claims(q) /\ place'[q] = place[q])
  BY <1>1, <1>4, ClaimStep
<1> QED BY <1>2, <1>3, <1>4
-----------------------------------------------------------------------------
(* Refused confirmations. *)

(* A lapsed hold that stays unpaid stays lapsed: every confirmation still  *)
(* to come starts after the deadline.                                      *)
LEMMA LapsedStep ==
  ASSUME CalendarInvariant, [Next]_vars, NEW b \in Booking,
         status[b] = "PENDING_PAYMENT", Lapsed(b)
  PROVE  Lapsed(b)'
<1>0. TypeOK /\ CallsOK
  BY DEF CalendarInvariant
<1>1. expires'[b] = expires[b] /\ expires[b] \in Int
  BY <1>0, DeadlineFixed DEF TypeOK
<1>2. expires'[b] <= now'
  BY <1>1, ClockGrows DEF Lapsed
<1>3. ASSUME NEW c \in Caller, call'[c].booking = b,
             call'[c].step \in {"queued", "calendar"}
      PROVE  call'[c].op = "confirm" /\ call'[c].at >= expires[b]
  <2>1. CASE call'[c] = call[c]
    BY <1>3, <2>1 DEF Lapsed
  <2>2. CASE call'[c] # call[c]
    <3>1. CallStepOf(c) \/ CallDies(c)
      BY <1>3, <2>2, CallerAtRest
    <3>2. CASE ConfirmHold(c) \/ WaitForRow(c)
      <4>1. call[c] \in Call /\ call[c].op = "confirm"
            /\ call'[c] = [[call[c] EXCEPT !.at = now] EXCEPT !.step = call'[c].step]
        BY <1>0, <3>2, CallType DEF ConfirmHold, WaitForRow, TypeOK, Call
      <4>2. call'[c].at = now /\ call'[c].op = call[c].op
        BY <4>1 DEF Call
      <4> QED BY <4>1, <4>2, <1>1, ClockGrows DEF Lapsed
    <3>3. CASE ConfirmAfterWait(c)
      BY <1>0, <1>3, <3>3, GotoFields DEF ConfirmAfterWait, Lapsed
    <3>4. CASE CheckInRow(c)
      <4>1. call[c].booking = b /\ call'[c].step = "lost"
        <5>1. Goto(c, IF status[call[c].booking] = call[c].seen
                      THEN "calendar" ELSE "lost")
          BY <3>4 DEF CheckInRow
        <5>2. call[c].booking = b
          BY <1>0, <1>3, <5>1, GotoFields
        <5>3. <<call[c].seen, "CHECKED_IN">> \in Transitions
          BY <1>0, <3>4 DEF CheckInRow, CallsOK, CallOK, Target
        <5>4. call[c].seen # "PENDING_PAYMENT"
          BY <5>3 DEF Transitions
        <5> QED BY <1>0, <5>1, <5>2, <5>4, GotoFields
      <4> QED BY <1>3, <4>1
    <3>5. CASE \/ UpdateUnderCalendarLock(c) \/ Transition(c) \/ CallDies(c)
               \/ CancelScheduledExpiry(c) \/ CallLost(c) \/ EnqueueMoneyJob(c)
      <4>1. Finish(c) \/ \E step \in {"after", "enqueue", "lost"} : Goto(c, step)
        BY <3>5 DEF UpdateUnderCalendarLock, Transition, CancelScheduledExpiry,
           CallLost, EnqueueMoneyJob, CallDies
      <4>2. Finish(c) => call'[c].step = "idle"
        BY <1>0 DEF Finish, Idle, TypeOK
      <4> QED BY <1>0, <1>3, <4>1, <4>2, GotoFields
    <3> QED BY <3>1, <3>2, <3>3, <3>4, <3>5 DEF CallStepOf
  <2> QED BY <2>1, <2>2
<1> QED BY <1>1, <1>2, <1>3 DEF Lapsed

(* A refusal is final: nothing that comes later can confirm the hold. *)
LEMMA RefusalIsRightStep ==
  ASSUME CalendarInvariant, [Next]_vars
  PROVE  RefusalIsRight'
<1>0. TypeOK /\ CallsOK /\ RefusalIsRight
  BY DEF CalendarInvariant
<1>1. ASSUME NEW b \in Booking, status[b] # "NONE", status'[b] = "PENDING_PAYMENT"
      PROVE  status[b] = "PENDING_PAYMENT"
  BY <1>1, StatusStep DEF Target
<1>2. ASSUME NEW c \in Caller, call'[c].step = "lost", call'[c].op = "confirm",
             NEW b, call'[c].booking = b, status'[b] = "PENDING_PAYMENT"
      PROVE  Lapsed(b)'
  <2>1. CASE call'[c] = call[c]
    <3>1. b \in Booking /\ status[b] # "NONE"
      BY <1>0, <1>2, <2>1 DEF CallsOK, CallOK
    <3>2. status[b] = "PENDING_PAYMENT" /\ Lapsed(b)
      BY <1>0, <1>1, <1>2, <2>1, <3>1 DEF RefusalIsRight
    <3> QED BY <3>1, <3>2, LapsedStep
  <2>2. CASE call'[c] # call[c]
    <3>1. CallStepOf(c) \/ CallDies(c)
      BY <1>2, <2>2, CallerAtRest
    <3>2. ~Finish(c) /\ \A step : Goto(c, step) =>
            /\ step = "lost" /\ call[c].op = "confirm" /\ call[c].booking = b
      BY <1>0, <1>2, GotoFields DEF Finish, Idle, TypeOK
    <3>3. CASE ConfirmHold(c) \/ WaitForRow(c)
      <4>1. call[c] \in Call /\ call[c].op = "confirm" /\ call[c].step = "cas"
            /\ call'[c] = [[call[c] EXCEPT !.at = now] EXCEPT !.step = call'[c].step]
            /\ call'[c].step \in {"calendar", "lost", "queued"}
        BY <1>0, <3>3, CallType DEF ConfirmHold, WaitForRow, TypeOK, Call
      <4>2. call[c].booking = b /\ status' = status
        BY <1>2, <3>3, <4>1 DEF Call, ConfirmHold, WaitForRow
      <4>3. ~HoldAlive(b, now) /\ ~RowLocked(b) /\ ~RowAwaited(b)
        <5>1. CASE ConfirmHold(c)
          <6>1. call'[c].step = IF HoldAlive(b, now) THEN "calendar" ELSE "lost"
            BY <1>0, <4>1, <4>2, <5>1, CallType DEF ConfirmHold, TypeOK, Call
          <6>2. ~HoldAlive(b, now)
            BY <1>2, <6>1
          <6> QED BY <4>2, <5>1, <6>2 DEF ConfirmHold
        <5>2. CASE WaitForRow(c)
          <6>1. call'[c].step = "queued"
            BY <1>0, <5>2, CallType DEF WaitForRow, TypeOK, Call
          <6> QED BY <1>2, <6>1
        <5> QED BY <3>3, <5>1, <5>2
      <4>4. b \in Booking /\ expires[b] \in Int /\ status[b] = "PENDING_PAYMENT"
        BY <1>0, <1>2, <4>1, <4>2 DEF CallsOK, CallOK, TypeOK
      <4>5. Lapsed(b)
        BY <4>3, <4>4, ClockGrows DEF Lapsed, HoldAlive, RowLocked, RowAwaited
      <4> QED BY <4>4, <4>5, LapsedStep
    <3>4. CASE ConfirmAfterWait(c)
      <4>1. ~HoldAlive(b, call[c].at) /\ ~RowLocked(b) /\ call[c].step = "queued"
            /\ call[c].booking = b /\ status' = status
        BY <3>2, <3>4 DEF ConfirmAfterWait
      <4>2. b \in Booking /\ expires[b] \in Int /\ status[b] = "PENDING_PAYMENT"
        BY <1>0, <1>2, <4>1 DEF CallsOK, CallOK, TypeOK
      <4>3. expires[b] <= call[c].at /\ call[c].at <= now /\ call[c].at \in Int
        <5>1. call[c].at \in Int /\ ~(expires[b] > call[c].at)
          BY <1>0, <4>1, <4>2, CallType DEF HoldAlive
        <5>2. call[c].at <= now
          BY <1>0, <4>1 DEF CallsOK, CallOK
        <5> QED BY <4>2, <5>1, <5>2
      <4>4. ASSUME NEW d \in Caller, call[d].booking = b,
                   call[d].step \in {"queued", "calendar"}
            PROVE  call[d].op = "confirm" /\ call[d].at >= expires[b]
        <5>1. call[d].step = "queued" /\ call[d].op = "confirm"
          BY <1>0, <4>1, <4>4 DEF RowLocked, CallsOK, CallOK
        <5>2. call[c].at <= call[d].at
          BY <3>4, <4>1, <4>4, <5>1 DEF ConfirmAfterWait
        <5>3. call[d].at \in Int
          BY <1>0, CallType
        <5> QED BY <4>2, <4>3, <5>1, <5>2, <5>3
      <4>5. Lapsed(b)
        BY <4>2, <4>3, <4>4, ClockGrows DEF Lapsed
      <4> QED BY <4>2, <4>5, LapsedStep
    <3>5. CASE \/ CheckInRow(c) \/ UpdateUnderCalendarLock(c) \/ Transition(c)
               \/ CancelScheduledExpiry(c) \/ CallLost(c) \/ EnqueueMoneyJob(c)
               \/ CallDies(c)
      BY <3>2, <3>5 DEF CheckInRow, UpdateUnderCalendarLock, Transition,
         CancelScheduledExpiry, CallLost, EnqueueMoneyJob, CallDies
    <3> QED BY <3>1, <3>3, <3>4, <3>5 DEF CallStepOf
  <2> QED BY <2>1, <2>2
<1>3. ASSUME NEW b \in toldExpired
      PROVE  \/ status'[b] \in {"EXPIRED", "CANCELLED", "REFUNDED"}
             \/ status'[b] = "PENDING_PAYMENT" /\ Lapsed(b)'
  <2>0. b \in Booking
    BY <1>0 DEF TypeOK
  <2>1. CASE status[b] = "PENDING_PAYMENT"
    <3>1. Lapsed(b)
      BY <1>0, <2>1 DEF RefusalIsRight
    <3>2. Lapsed(b)'
      BY <2>0, <2>1, <3>1, LapsedStep
    <3>3. ASSUME status'[b] # status[b]
          PROVE  status'[b] \in {"EXPIRED", "CANCELLED", "REFUNDED"}
      <4>1. \A c \in Caller : call[c].booking = b /\ call[c].step = "calendar"
                              => ~(call[c].at < expires[b])
        BY <1>0, <2>0, <3>1, CallType DEF Lapsed, TypeOK
      <4>2. \A c \in Caller : call[c].booking = b /\ call[c].step = "cas"
                 /\ status[b] = call[c].seen => Target(call[c].op) # "COMPLETED"
        BY <1>0, <2>1 DEF CallsOK, CallOK, Transitions
      <4> QED BY <2>0, <2>1, <3>3, <4>1, <4>2, StatusStep DEF Target
    <3> QED BY <2>1, <3>2, <3>3
  <2>2. CASE status[b] \in {"EXPIRED", "CANCELLED", "REFUNDED"}
    <3>1. \A c \in Caller : call[c].booking = b /\ call[c].step = "cas"
               /\ status[b] = call[c].seen => Target(call[c].op) = "REFUNDED"
      BY <1>0, <2>2 DEF CallsOK, CallOK, Transitions
    <3> QED BY <2>0, <2>2, <3>1, StatusStep
  <2> QED BY <1>0, <2>1, <2>2 DEF RefusalIsRight
<1>4. ASSUME NEW b \in toldExpired', b \notin toldExpired
      PROVE  \/ status'[b] \in {"EXPIRED", "CANCELLED", "REFUNDED"}
             \/ status'[b] = "PENDING_PAYMENT" /\ Lapsed(b)'
  <2>1. PICK c \in Caller : CallLost(c)
    BY <1>4 DEF Next, RequestHold, RequestStepOf, AcquireLock, LockNotAcquired,
      HasConflict, InsertHold, CommitHold, CommitFails, ReleaseLock, ScheduleExpiry,
      CrashRequest, ExpiryJob, StartCall, CallStepOf, CallDies, ConfirmHold,
      WaitForRow, ConfirmAfterWait, CheckInRow, UpdateUnderCalendarLock, Transition,
      CancelScheduledExpiry, EnqueueMoneyJob, BlockStepOf, InsertBlock,
      ReactivateBlock, CommitBlock, DeactivateBlock, SetBlock, LockExpires,
      RedisRestart, AppStarts, Sweep, Tick, vars
  <2>2. /\ b = call[c].booking /\ call[c].op = "confirm" /\ AnswersExpired(b)
        /\ call[c].step = "lost" /\ status' = status
    BY <1>4, <2>1 DEF CallLost
  <2>3. b \in Booking
    BY <1>0, <2>2 DEF CallsOK, CallOK
  <2>4. status[b] = "PENDING_PAYMENT" => Lapsed(b)'
    BY <1>0, <2>2, <2>3, LapsedStep DEF RefusalIsRight
  <2> QED BY <2>2, <2>4 DEF AnswersExpired
<1> QED BY <1>2, <1>3, <1>4 DEF RefusalIsRight
-----------------------------------------------------------------------------
(* The direction of the money. *)

(* A call reaches its queue.add from the status change it has just made.   *)
LEMMA MoneyBegins ==
  ASSUME CalendarInvariant, MoneyDecided, [Next]_vars, NEW b \in Booking
  PROVE  \/ (Refunding(b)' => Refunding(b)) /\ (Paying(b)' => Paying(b))
         \/ \E c \in Caller :
              /\ Transition(c) /\ call[c].booking = b /\ status[b] = call[c].seen
              /\ \/ call[c].op = "cancel" /\ (Paying(b)' => Paying(b))
                 \/ call[c].op = "complete" /\ (Refunding(b)' => Refunding(b))
<1>0. TypeOK
  BY DEF CalendarInvariant
<1>1. CASE \E c \in Caller : CallStepOf(c) \/ CallDies(c)
  <2>1. PICK c \in Caller : CallStepOf(c) \/ CallDies(c)
    BY <1>1
  <2>2. \A d \in Caller : d # c => call'[d] = call[d]
    BY <2>1, CallMoves
  <2>3. CASE \/ ConfirmHold(c) \/ WaitForRow(c) \/ ConfirmAfterWait(c) \/ CheckInRow(c)
             \/ UpdateUnderCalendarLock(c) \/ CallLost(c) \/ CallDies(c)
    <3>1. /\ triggered' = triggered
          /\ \/ call'[c].step \notin {"after", "enqueue"}
             \/ call'[c].step = "after" /\ call'[c].op = "confirm"
      BY <1>0, <2>3, CallType
         DEF ConfirmHold, WaitForRow, ConfirmAfterWait, CheckInRow,
             UpdateUnderCalendarLock, CallLost, CallDies, Goto, Finish, Idle, TypeOK, Call
    <3> QED BY <2>2, <3>1 DEF Refunding, Paying
  <2>4. CASE Transition(c)
    <3>1. /\ triggered' = triggered
          /\ \/ call'[c].step \notin {"after", "enqueue"}
             \/ /\ call'[c].booking = call[c].booking /\ call'[c].op = call[c].op
                /\ status[call[c].booking] = call[c].seen
                /\ \/ call[c].op = "cancel" /\ call'[c].step = "after"
                   \/ call[c].op = "complete" /\ call'[c].step = "enqueue"
      BY <1>0, <2>4, CallType DEF Transition, Goto, Finish, Idle, TypeOK, Call
    <3> QED BY <2>2, <2>4, <3>1 DEF Refunding, Paying
  <2>5. CASE CancelScheduledExpiry(c)
    <3>1. /\ triggered' = triggered /\ call[c].step = "after"
          /\ \/ call'[c].step = "idle"
             \/ /\ call[c].op = "cancel" /\ call'[c].op = "cancel"
                /\ call'[c].booking = call[c].booking
      BY <1>0, <2>5, CallType DEF CancelScheduledExpiry, Goto, Finish, Idle, TypeOK, Call
    <3> QED BY <2>2, <3>1 DEF Refunding, Paying
  <2>6. CASE EnqueueMoneyJob(c)
    <3>1. /\ call[c].step = "enqueue" /\ call[c].op \in {"cancel", "complete"}
          /\ call'[c].step = "idle"
      BY <1>0, <2>6, CallType DEF EnqueueMoneyJob, MoneyDecided, Finish, Idle, TypeOK
    <3>2. triggered' = triggered \cup
            {[name |-> IF call[c].op = "cancel" THEN "create-refund" ELSE "create-payout",
              booking |-> call[c].booking]}
      BY <2>6 DEF EnqueueMoneyJob
    <3>3. Refunding(b)' => Refunding(b)
      BY <2>2, <3>1, <3>2 DEF Refunding
    <3>4. Paying(b)' => Paying(b)
      BY <2>2, <3>1, <3>2 DEF Paying
    <3> QED BY <3>3, <3>4
  <2> QED BY <2>1, <2>3, <2>4, <2>5, <2>6 DEF CallStepOf
<1>2. CASE ~\E c \in Caller : CallStepOf(c) \/ CallDies(c)
  <2>1. triggered' = triggered
    BY <1>2 DEF Next, RequestHold, RequestStepOf, AcquireLock, LockNotAcquired,
      HasConflict, InsertHold, CommitHold, CommitFails, ReleaseLock, ScheduleExpiry,
      CrashRequest, ExpiryJob, StartCall, BlockStepOf, InsertBlock, ReactivateBlock,
      CommitBlock, DeactivateBlock, SetBlock, LockExpires, RedisRestart, AppStarts, Sweep,
      Tick, vars
  <2>2. \A c \in Caller : call'[c] = call[c] \/ call'[c].step = "cas"
    BY <1>2, CallerAtRest
  <2> QED BY <2>1, <2>2 DEF Refunding, Paying
<1> QED BY <1>1, <1>2

(* Only cancellations and completions queue money. *)
LEMMA MoneyOpsStep ==
  ASSUME CalendarInvariant, MoneyDecided, [Next]_vars, NEW c \in Caller,
         call'[c].step = "enqueue"
  PROVE  call'[c].op \in {"cancel", "complete"}
<1>0. TypeOK
  BY DEF CalendarInvariant
<1>1. CASE call'[c] = call[c]
  BY <1>1 DEF MoneyDecided
<1>2. CASE ~(CallStepOf(c) \/ CallDies(c)) /\ call'[c] # call[c]
  BY <1>2, CallerAtRest
<1>3. CASE CallStepOf(c) \/ CallDies(c)
  <2>1. Transition(c) \/ CancelScheduledExpiry(c)
    BY <1>0, <1>3, CallType
       DEF CallStepOf, ConfirmHold, WaitForRow, ConfirmAfterWait, CheckInRow,
           UpdateUnderCalendarLock, CallLost, EnqueueMoneyJob, CallDies, Goto, Finish,
           Idle, TypeOK, Call
  <2> QED BY <1>0, <2>1, CallType
          DEF Transition, CancelScheduledExpiry, Goto, Finish, Idle, TypeOK, Call
<1> QED BY <1>1, <1>2, <1>3

(* The direction of the money stays decided. *)
LEMMA MoneyDecidedStep ==
  ASSUME CalendarInvariant, MoneyDecided, [Next]_vars
  PROVE  MoneyDecided'
<1>0. TypeOK /\ CallsOK
  BY DEF CalendarInvariant
<1>1. ASSUME NEW b \in Booking
      PROVE  /\ Refunding(b)' => status'[b] \in {"CANCELLED", "REFUNDED"}
             /\ Paying(b)' => status'[b] \in {"COMPLETED", "REFUNDED"}
             /\ ~(Refunding(b)' /\ Paying(b)')
  <2>1. ASSUME status[b] \in {"CANCELLED", "COMPLETED", "REFUNDED"}
        PROVE  status'[b] \in {status[b], "REFUNDED"}
    <3>1. \A c \in Caller : call[c].booking = b /\ call[c].step = "cas"
               /\ status[b] = call[c].seen => Target(call[c].op) = "REFUNDED"
      BY <1>0, <2>1 DEF CallsOK, CallOK, Transitions
    <3> QED BY <2>1, <3>1, StatusStep
  <2>2. CASE (Refunding(b)' => Refunding(b)) /\ (Paying(b)' => Paying(b))
    BY <2>1, <2>2 DEF MoneyDecided
  <2>3. ASSUME NEW c \in Caller, Transition(c), call[c].booking = b,
               status[b] = call[c].seen,
               \/ call[c].op = "cancel" /\ (Paying(b)' => Paying(b))
               \/ call[c].op = "complete" /\ (Refunding(b)' => Refunding(b))
        PROVE  /\ Refunding(b)' => status'[b] \in {"CANCELLED", "REFUNDED"}
               /\ Paying(b)' => status'[b] \in {"COMPLETED", "REFUNDED"}
               /\ ~(Refunding(b)' /\ Paying(b)')
    <3>1. status'[b] = Target(call[c].op)
      BY <1>0, <2>3 DEF Transition, TypeOK
    <3>2. <<status[b], Target(call[c].op)>> \in Transitions
      BY <1>0, <2>3 DEF CallsOK, CallOK, Transition
    <3>3. status[b] \notin {"CANCELLED", "COMPLETED", "REFUNDED"}
      BY <2>3, <3>2 DEF Target, Transitions
    <3>4. ~Refunding(b) /\ ~Paying(b)
      BY <3>3 DEF MoneyDecided
    <3> QED BY <2>3, <3>1, <3>4 DEF Target
  <2> QED BY <2>2, <2>3, MoneyBegins
<1> QED BY <1>1, MoneyOpsStep DEF MoneyDecided

-----------------------------------------------------------------------------
(* The theorems. *)

(* The inductive invariant holds of every behaviour of the calendar.       *)
THEOREM CalendarInvariantHolds == Spec => []CalendarInvariant
<1>1. Init => CalendarInvariant
  <2> SUFFICES ASSUME Init PROVE CalendarInvariant
    OBVIOUS
  <2>1. TypeOK
    BY CalendarAssumption
       DEF Init, TypeOK, Idle, Call, RequestStep, CallStep, BookingStatus, Owner, MoneyJob
  <2>2. RowAfterCommit /\ CallsOK /\ RowLockExclusive /\ RefusalIsRight
    BY DEF Init, Idle, RowAfterCommit, CallsOK, CallOK, RowLockExclusive, RefusalIsRight
  <2>3. DisjointClaims
    BY DEF Init, DisjointClaims, Claims, Holding, Owner
  <2> QED BY <2>1, <2>2, <2>3 DEF CalendarInvariant
<1>2. CalendarInvariant /\ [Next]_vars => CalendarInvariant'
  BY TypeStep, RowAfterCommitStep, CallsOKStep, RowLockExclusiveStep,
     DisjointClaimsStep, RefusalIsRightStep DEF CalendarInvariant
<1> QED BY <1>1, <1>2, PTL DEF Spec

(* Every variable keeps its type: no statement writes a status outside the *)
(* enum, no lock is held by anything but a request's token.                *)
THEOREM TypeCorrect == Spec => []TypeOK
<1>1. CalendarInvariant => TypeOK
  BY DEF CalendarInvariant
<1> QED BY <1>1, CalendarInvariantHolds, PTL

(* Zero double-bookings, for any number of requests, calls, host blocks    *)
(* and units, with the Redis lock lost at any moment.                      *)
THEOREM NeverDoubleBooked == Spec => []NoDoubleBooking
<1>1. CalendarInvariant => NoDoubleBooking
  BY DEF CalendarInvariant, DisjointClaims, Claims, Holding, NoDoubleBooking, Owner
<1> QED BY <1>1, CalendarInvariantHolds, PTL

(* Zero stays over a host block, although neither trigger sees the other's *)
(* uncommitted row.                                                        *)
THEOREM NeverOverHostBlock == Spec => []NoStayOverHostBlock
<1>1. CalendarInvariant => NoStayOverHostBlock
  <2> SUFFICES ASSUME CalendarInvariant, NEW b \in Booking, NEW k \in HostBlock,
                      status[b] \in Holding, blockState[k] = "active"
               PROVE  ~Overlap(place[b], place[k])
    BY DEF NoStayOverHostBlock, Holding
  <2>1. k \notin Booking /\ b # k
    BY CalendarAssumption
  <2>2. Claims(b) /\ Claims(k) /\ b \in Owner /\ k \in Owner
    BY <2>1 DEF Claims, Owner
  <2> QED BY <2>1, <2>2 DEF CalendarInvariant, DisjointClaims
<1> QED BY <1>1, CalendarInvariantHolds, PTL

(* A confirmation refused because the hold lapsed is refused for good: the *)
(* refund it causes is never of a booking that somebody else confirms.     *)
THEOREM RefusalIsFinal == Spec => []HoldExpiredIsFinal
<1>1. CalendarInvariant => HoldExpiredIsFinal
  BY DEF CalendarInvariant, RefusalIsRight, HoldExpiredIsFinal
<1> QED BY <1>1, CalendarInvariantHolds, PTL

(* Payment and expiry never both claim the same hold: the deadline alone   *)
(* separates them, whatever the clocks of the application say.             *)
THEOREM DeadlineSeparates == Spec => DeadlineDecides
<1> DEFINE Step == \A b \in Booking :
       /\ status[b] = "PENDING_PAYMENT" /\ status'[b] = "CONFIRMED"
            => \E c \in Caller : /\ call[c].booking = b /\ call[c].at < expires[b]
                                 /\ call[c].step = "calendar"
                                 /\ call'[c].step # "calendar"
       /\ status[b] = "PENDING_PAYMENT" /\ status'[b] = "EXPIRED"
            => expires[b] <= now
<1>1. CalendarInvariant /\ [Next]_vars => [Step]_vars
  <2> SUFFICES ASSUME CalendarInvariant, [Next]_vars, NEW b \in Booking,
                      status[b] = "PENDING_PAYMENT", status'[b] # status[b]
               PROVE  /\ status'[b] = "CONFIRMED"
                           => \E c \in Caller :
                                /\ call[c].booking = b /\ call[c].at < expires[b]
                                /\ call[c].step = "calendar"
                                /\ call'[c].step # "calendar"
                      /\ status'[b] = "EXPIRED" => expires[b] <= now
    OBVIOUS
  <2> QED BY StatusStep DEF Target
<1> QED BY <1>1, CalendarInvariantHolds, PTL DEF Spec, DeadlineDecides

(* A lock that is lost in the critical section is lost to time or to Redis *)
(* itself, never to another request's release.                             *)
THEOREM LocksAreReleasedByOwners == Spec => OnlyOwnerReleases
<1> DEFINE Step == \A b \in Booking, u \in Unit :
       lock[u] = b /\ pc[b] \in {"check", "insert", "inserted"} /\ lock'[u] # b
         => UNCHANGED pc
<1>1. TypeOK /\ [Next]_vars => [Step]_vars
  <2> SUFFICES ASSUME TypeOK, [Next]_vars, NEW b \in Booking, NEW u \in Unit,
                      lock[u] = b, pc[b] \in {"check", "insert", "inserted"},
                      lock'[u] # b
               PROVE  UNCHANGED pc
    OBVIOUS
  <2>1. ASSUME NEW d \in Booking, AcquireLock(d) \/ ReleaseLock(d)
        PROVE  FALSE
    <3>1. place[d].unit \in Unit
      BY PlaceType
    <3> QED BY <2>1, <3>1, CalendarAssumption
            DEF AcquireLock, ReleaseLock, AfterRelease, TypeOK
  <2>2. (\E v \in Unit : LockExpires(v)) \/ RedisRestart
    BY <2>1 DEF Next, RequestHold, RequestStepOf, LockNotAcquired,
      HasConflict, InsertHold, CommitHold, CommitFails, ScheduleExpiry,
      CrashRequest, ExpiryJob, StartCall, CallStepOf, CallDies, ConfirmHold,
      WaitForRow, ConfirmAfterWait, CheckInRow, UpdateUnderCalendarLock, Transition,
      CallLost, CancelScheduledExpiry, EnqueueMoneyJob, BlockStepOf, InsertBlock,
      ReactivateBlock, CommitBlock, DeactivateBlock, SetBlock, AppStarts, Sweep, Tick, vars
  <2> QED BY <2>2 DEF LockExpires, RedisRestart
<1> QED BY <1>1, TypeCorrect, PTL DEF Spec, OnlyOwnerReleases

(* The request of a hold leaves its INSERT refused only over a row that    *)
(* the map sees as well.                                                   *)
LEMMA RefusedStep ==
  ASSUME CalendarInvariant, [Next]_vars, NEW b \in Booking,
         pc[b] = "insert", pc'[b] = "release"
  PROVE  HostBlocked(b, place[b]) \/ OverlapsHolding(b, place[b])
<1>0. TypeOK
  BY DEF CalendarInvariant
<1>1. ASSUME NEW d \in Booking, NEW u \in Unit, NEW s \in Stays,
             NEW t \in Turnarounds, RequestHold(d, u, s, t)
      PROVE  FALSE
  BY <1>0, <1>1 DEF RequestHold, TypeOK
<1>2. ASSUME NEW d \in Booking, RequestStepOf(d) \/ CrashRequest(d) \/ ExpiryJob(d)
      PROVE  InsertHold(b)
  <2>1. InsertHold(d)
    BY <1>0, <1>2 DEF RequestStepOf, AcquireLock, LockNotAcquired, HasConflict,
       CommitHold, CommitFails, ReleaseLock, ScheduleExpiry, CrashRequest, ExpiryJob,
       TypeOK
  <2>2. d = b
    BY <1>0, <2>1 DEF InsertHold, TypeOK
  <2> QED BY <2>1, <2>2
<1>3. CASE InsertHold(b)
  BY <1>0, <1>3 DEF InsertHold, TypeOK
<1>4. ASSUME \/ \E c \in Caller, op \in Ops, d \in Booking : StartCall(c, op, d)
             \/ \E c \in Caller : CallStepOf(c) \/ CallDies(c)
             \/ \E k \in HostBlock : BlockStepOf(k)
             \/ \E u \in Unit : LockExpires(u)
             \/ RedisRestart \/ AppStarts \/ Sweep \/ Tick \/ UNCHANGED vars
      PROVE  FALSE
  BY <1>4 DEF StartCall, CallStepOf, CallDies, ConfirmHold, WaitForRow,
     ConfirmAfterWait, CheckInRow, UpdateUnderCalendarLock, Transition, CallLost,
     CancelScheduledExpiry, EnqueueMoneyJob, BlockStepOf, InsertBlock, ReactivateBlock,
     CommitBlock, DeactivateBlock, SetBlock, LockExpires, RedisRestart, AppStarts, Sweep,
     Tick, vars
<1> QED BY <1>1, <1>2, <1>3, <1>4 DEF Next

(* The map search and the write path agree on what is free, at the moment  *)
(* of the commit and at the moment of the refusal.                         *)
THEOREM MapAndCalendarAgree == Spec => MapAgrees
<1> DEFINE Step == \A b \in Booking :
       /\ status[b] = "NONE" /\ status'[b] = "PENDING_PAYMENT" => Shown(place[b])
       /\ pc[b] = "insert" /\ pc'[b] = "release" => ~Shown(place[b])
<1>1. CalendarInvariant /\ [Next]_vars => [Step]_vars
  <2> SUFFICES ASSUME CalendarInvariant, [Next]_vars, NEW b \in Booking
               PROVE  /\ status[b] = "NONE" /\ status'[b] = "PENDING_PAYMENT"
                           => Shown(place[b])
                      /\ pc[b] = "insert" /\ pc'[b] = "release" => ~Shown(place[b])
    OBVIOUS
  <2>1. ASSUME status[b] = "NONE", status'[b] = "PENDING_PAYMENT"
        PROVE  Shown(place[b])
    <3>0. pc[b] = "inserted"
      BY <2>1, StatusStep DEF Target
    <3>1. Claims(b) /\ b \in Owner
      BY <3>0 DEF Claims, Owner
    <3>2. ASSUME NEW d \in Booking, status[d] \in Holding
          PROVE  ~Overlap(place[d], place[b])
      <4>1. d # b /\ Claims(d) /\ d \in Owner
        BY <2>1, <3>2 DEF Claims, Owner, Holding
      <4> QED BY <3>1, <4>1 DEF CalendarInvariant, DisjointClaims
    <3>3. ASSUME NEW k \in HostBlock, blockState[k] = "active"
          PROVE  ~Overlap(place[k], place[b])
      <4>1. k # b /\ k \notin Booking /\ Claims(k) /\ k \in Owner
        BY <3>3, CalendarAssumption DEF Claims, Owner
      <4> QED BY <3>1, <4>1 DEF CalendarInvariant, DisjointClaims
    <3> QED BY <3>2, <3>3 DEF Shown
  <2>2. ASSUME pc[b] = "insert", pc'[b] = "release"
        PROVE  ~Shown(place[b])
    BY <2>2, RefusedStep DEF HostBlocked, OverlapsHolding, Shown
  <2> QED BY <2>1, <2>2
<1> QED BY <1>1, CalendarInvariantHolds, PTL DEF Spec, MapAgrees

(* The refund of a cancellation and the payout of a completion are never   *)
(* both queued, however the two calls race.                                *)
THEOREM MoneyGoesOneWay == Spec => []OneMoneyTrigger
<1>1. Init => MoneyDecided
  BY DEF Init, MoneyDecided, Refunding, Paying, Idle
<1>2. CalendarInvariant /\ MoneyDecided /\ [Next]_vars => MoneyDecided'
  BY MoneyDecidedStep
<1>3. MoneyDecided => OneMoneyTrigger
  BY DEF MoneyDecided, OneMoneyTrigger, Refunding, Paying
<1> QED BY <1>1, <1>2, <1>3, CalendarInvariantHolds, PTL DEF Spec
-----------------------------------------------------------------------------
(* Refinement. *)

(* A step that adds no occupant and moves none is a Vacate of the calendar, *)
(* possibly of nobody.                                                     *)
LEMMA VacateStep ==
  ASSUME \A o \in Owner : Occupies(o)' => Occupies(o) /\ place'[o] = place[o]
  PROVE  Calendar!Next \/ UNCHANGED Occupied
<1> DEFINE S == {o \in Owner : ~Occupies(o)'}
<1>1. Occupied' = {x \in Occupied : x[1] \notin S}
  BY DEF Occupied
<1>2. Calendar!Vacate(S) /\ S \in SUBSET Owner
  BY <1>1 DEF Calendar!Vacate
<1> QED BY <1>2 DEF Calendar!Next

(* A commit that publishes a checked claim is an Occupy of the calendar.   *)
LEMMA OccupyStep ==
  ASSUME CalendarInvariant, place' = place, NEW o \in Owner,
         Claims(o), ~Occupies(o), Occupies(o)',
         \A q \in Owner \ {o} : Occupies(q)' <=> Occupies(q)
  PROVE  Calendar!Next
<1> DEFINE u == place[o].unit
           cells == place[o].cells
<1>0. TypeOK /\ DisjointClaims
  BY DEF CalendarInvariant
<1>1. u \in Unit /\ cells \in SUBSET Cell
  BY <1>0 DEF TypeOK
<1>2. o \notin Calendar!OwnersIn(Occupied)
  BY DEF Calendar!OwnersIn, Occupied
<1>3. Calendar!Free(u, cells)
  <2> SUFFICES ASSUME NEW x \in Occupied, x[2] = u, x[3] \in cells PROVE FALSE
    BY DEF Calendar!Free
  <2>1. x[1] \in Owner /\ Occupies(x[1]) /\ place[x[1]].unit = u
        /\ x[3] \in place[x[1]].cells
    BY DEF Occupied
  <2>2. x[1] # o /\ Claims(x[1])
    BY <2>1 DEF Occupies, Claims
  <2>3. Overlap(place[o], place[x[1]])
    BY <2>1 DEF Overlap
  <2> QED BY <1>0, <2>1, <2>2, <2>3 DEF DisjointClaims
<1>4. Occupied' = Occupied \cup ({o} \X {u} \X cells)
  BY <1>1 DEF Occupied
<1>5. Calendar!Occupy(o, u, cells)
  BY <1>2, <1>3, <1>4 DEF Calendar!Occupy
<1> QED BY <1>1, <1>5 DEF Calendar!Next

(* The Redis lock, the pre-check, the advisory lock, the constraint and    *)
(* the triggers implement the exclusive calendar.                          *)
THEOREM CalendarIsExclusive == Spec => ImplementsCalendar
<1>1. Init => Calendar!Init
  BY DEF Init, Calendar!Init, Occupied, Occupies, Holding, Owner
<1>2. CalendarInvariant /\ [Next]_vars => [Calendar!Next]_Occupied
  <2> SUFFICES ASSUME CalendarInvariant, [Next]_vars
               PROVE  Calendar!Next \/ UNCHANGED Occupied
    OBVIOUS
  <2>0. TypeOK /\ RowAfterCommit
    BY DEF CalendarInvariant
  <2>1. ASSUME NEW o \in Owner, Occupies(o)', ~(Occupies(o) /\ place'[o] = place[o])
        PROVE  Calendar!Next
    <3>1. CASE o \in Booking
      <4>1. status'[o] \in Holding /\ o \notin HostBlock
        BY <2>1, <3>1, CalendarAssumption DEF Occupies
      <4>2. place'[o] = place[o]
        BY <4>1, PlaceStep DEF Holding
      <4>3. status[o] \notin Holding
        BY <2>1, <3>1, <4>2 DEF Occupies
      <4>4. /\ pc[o] = "inserted" /\ UNCHANGED <<place, blockState>>
            /\ status' = [status EXCEPT ![o] = "PENDING_PAYMENT"]
        BY <3>1, <4>1, <4>3, StatusStep DEF Holding, Target
      <4>5. \A q \in Owner \ {o} : Occupies(q)' <=> Occupies(q)
        BY <2>0, <3>1, <4>4 DEF Occupies, TypeOK
      <4>6. Claims(o) /\ ~Occupies(o)
        BY <3>1, <4>3, <4>4 DEF Claims, Occupies
      <4> QED BY <2>1, <4>4, <4>5, <4>6, OccupyStep
    <3>2. CASE o \in HostBlock
      <4>0. o \notin Booking
        BY <3>2, CalendarAssumption
      <4>1. blockState'[o] = "active"
        BY <2>1, <4>0 DEF Occupies
      <4>2. ~\E u \in Unit, s \in Stays : InsertBlock(o, u, s)
        BY <2>0, <3>2, <4>1 DEF InsertBlock, SetBlock, TypeOK
      <4>3. ~ReactivateBlock(o)
        BY <2>0, <3>2, <4>1 DEF ReactivateBlock, SetBlock, TypeOK
      <4>4. place'[o] = place[o]
        BY <4>0, <4>2, PlaceStep
      <4>5. blockState[o] = "inserting" /\ CommitBlock(o)
        BY <2>1, <3>2, <4>0, <4>1, <4>2, <4>3, <4>4, BlockStep DEF Occupies
      <4>6. /\ Claims(o) /\ ~Occupies(o) /\ place' = place
            /\ \A q \in Owner \ {o} : Occupies(q)' <=> Occupies(q)
        BY <2>0, <4>0, <4>5 DEF CommitBlock, SetBlock, Claims, Occupies, TypeOK, Owner
      <4> QED BY <2>1, <4>6, OccupyStep
    <3> QED BY <3>1, <3>2 DEF Owner
  <2> QED BY <2>1, VacateStep
<1> QED BY <1>1, <1>2, CalendarInvariantHolds, PTL
        DEF Spec, ImplementsCalendar, Calendar!Spec

(* So whatever two of them are, bookings or host blocks, no instant of a   *)
(* unit is ever occupied by both.                                          *)
THEOREM OneOccupantAtATime == Spec => []Calendar!Exclusive
<1>1. Calendar!Init => Calendar!Exclusive
  BY DEF Calendar!Init, Calendar!Exclusive
<1>2. ASSUME Calendar!Exclusive, [Calendar!Next]_Occupied
      PROVE  Calendar!Exclusive'
  <2>1. ASSUME NEW o \in Owner, NEW u \in Unit, NEW cells \in SUBSET Cell,
               Calendar!Occupy(o, u, cells)
        PROVE  Calendar!Exclusive'
    BY <1>2, <2>1 DEF Calendar!Occupy, Calendar!Free, Calendar!Exclusive
  <2>2. ASSUME NEW S \in SUBSET Owner, Calendar!Vacate(S)
        PROVE  Calendar!Exclusive'
    BY <1>2, <2>2 DEF Calendar!Vacate, Calendar!Exclusive
  <2>3. CASE UNCHANGED Occupied
    BY <1>2, <2>3 DEF Calendar!Exclusive
  <2> QED BY <1>2, <2>1, <2>2, <2>3 DEF Calendar!Next
<1> QED BY <1>1, <1>2, CalendarIsExclusive, PTL DEF ImplementsCalendar, Calendar!Spec
=============================================================================
