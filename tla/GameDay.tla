------------------------------ MODULE GameDay -------------------------------
(***************************************************************************)
(* The weekly schedules (pkg/scheduler/scheduler.go), the handlers that    *)
(* add, toggle and delete them (pkg/server/handler.go), and the resource   *)
(* by which Terraform keeps one (tools/terraform-provider-oshimai).        *)
(*                                                                         *)
(* The clock counts ticks of the check loop, 30 seconds each, so a minute  *)
(* is two of them; days and weeks are shorter than real ones.  The server  *)
(* is Offset minutes ahead of UTC.  The hour and the minute of a schedule  *)
(* are one number, the minute of the day.                                  *)
(***************************************************************************)
EXTENDS Integers, FiniteSets

CONSTANTS
    MinutesPerDay,
    DaysPerWeek,
    Offset,
    Slots,        \* the [weekday, minute] a client may ask for
    MaxTime,      \* bound: ticks
    MaxSchedules, \* bound: schedules added in the life of a server
    MaxRestarts   \* bound: restarts of the server

ASSUME GameDayConstants ==
    /\ MinutesPerDay \in Nat /\ MinutesPerDay > 2
    /\ DaysPerWeek \in Nat \ {0}
    /\ Offset \in Nat
    /\ Slots \subseteq [weekday : Int, minute : Int]
    /\ MaxTime \in Nat /\ MaxSchedules \in Nat /\ MaxRestarts \in Nat

VARIABLES
    time,       \* the clock
    tick,       \* the one tick the ticker's channel holds, or NoTick
    schedules,  \* Scheduler.schedules
    seq,        \* Scheduler.seq
    due,        \* the schedules checkAndFire has still to trigger
    resource,   \* the state Terraform keeps, or NoResource
    boot,       \* history: how often the server was started
    promised,   \* history: per ID, the slot its client asked for
    fired,      \* history: per ID, the ticks it was due at
    passed,     \* history: per ID, the minutes of its slot that a check saw it enabled in
    silenced,   \* history: the IDs a client was told are removed or disabled
    late        \* history: per ID, how often it was triggered since then

serverVars == <<tick, schedules, seq, due, promised, fired, passed, silenced, late>>
gameDayVars == <<time, resource, boot, serverVars>>

NoTick == -1
Never == -4        \* the zero time: more than 90 seconds before the clock starts
NoResource == [id |-> 0]
NoSlot == [weekday |-> 0, minute |-> -1]

Ids == 1..MaxSchedules
Owners == {"terraform", "other"}
(* A negative weekday is one that no day has. *)
Schedule == [weekday : (1 - DaysPerWeek)..(DaysPerWeek - 1), minute : Int, enabled : BOOLEAN,
             lastFired : Int, owner : Owners]
Resource == [id : Ids, slot : [weekday : Int, minute : Int], enabled : BOOLEAN, boot : Nat]

Minute(now) == now \div 2
MinuteOfDay(now) == Minute(now) % MinutesPerDay

(* The weekday is read off the time of the server, hour and minute off UTC. *)
Weekday(now) == ((Minute(now) + Offset) \div MinutesPerDay) % DaysPerWeek

GameDayInit ==
    /\ time = 0
    /\ tick = NoTick
    /\ schedules = [id \in {} |-> {}]
    /\ seq = 0
    /\ due = {}
    /\ resource = NoResource
    /\ boot = 0
    /\ promised = [id \in Ids |-> NoSlot]
    /\ fired = [id \in Ids |-> {}]
    /\ passed = [id \in Ids |-> {}]
    /\ silenced = {}
    /\ late = [id \in Ids |-> 0]

-----------------------------------------------------------------------------
InSlot(s, now) == s.enabled /\ Weekday(now) = s.weekday /\ MinuteOfDay(now) = s.minute

(* Mutant: a firing is forgotten after 20 seconds instead of 90. *)
matches_Twice(s, now) ==
    /\ InSlot(s, now)
    /\ 30 * (now - s.lastFired) > 20

matches(s, now) ==
    /\ InSlot(s, now)
    /\ 30 * (now - s.lastFired) > 90

(* The ticker drops a tick when the last one was not taken yet. *)
Tick ==
    /\ time < MaxTime
    /\ time' = time + 1
    /\ tick' = IF tick = NoTick THEN time + 1 ELSE tick
    /\ UNCHANGED <<schedules, seq, due, resource, boot, promised, fired, passed, silenced, late>>

Matching(now) == {id \in DOMAIN schedules : matches(schedules[id], now)}

(* What is due is marked as fired and copied under the lock. *)
checkAndFire ==
    /\ tick # NoTick /\ due = {}
    /\ tick' = NoTick
    /\ due' = Matching(tick)
    /\ schedules' = [id \in DOMAIN schedules |->
                       [schedules[id] EXCEPT !.lastFired =
                          IF id \in Matching(tick) THEN tick ELSE @]]
    /\ fired' = [id \in Ids |-> IF id \in Matching(tick) THEN fired[id] \cup {tick}
                                ELSE fired[id]]
    /\ passed' = [id \in Ids |-> IF id \in DOMAIN schedules /\ InSlot(schedules[id], tick)
                                 THEN passed[id] \cup {Minute(tick)} ELSE passed[id]]
    /\ UNCHANGED <<time, seq, resource, boot, promised, silenced, late>>

(* The trigger starts a run, or fails and is logged; nothing asks whether the
   schedule is still there. *)
Fire(id) ==
    /\ id \in due
    /\ due' = due \ {id}
    /\ late' = [late EXCEPT ![id] = IF id \in silenced THEN @ + 1 ELSE @]
    /\ UNCHANGED <<time, tick, schedules, seq, resource, boot, promised, fired, passed, silenced>>

-----------------------------------------------------------------------------
(* Mutant: the ID is taken from the number of schedules there are. *)
NextId_Count == Cardinality(DOMAIN schedules) + 1

NextId == seq + 1

(* The remainder of the division that rounds towards zero. *)
Remainder(a, b) == IF a >= 0 THEN a % b ELSE -((-a) % b)

(* AddSchedule refuses a time of day that is none; its caller has taken the
   remainder of the weekday, which of a negative one is negative. *)
AddSchedule(slot, owner) ==
    /\ seq < MaxSchedules
    /\ slot.minute \in 0..(MinutesPerDay - 1)
    /\ seq' = seq + 1
    /\ schedules' =
         [id \in DOMAIN schedules \cup {NextId} |->
            IF id = NextId
            THEN [weekday |-> Remainder(slot.weekday, DaysPerWeek), minute |-> slot.minute,
                  enabled |-> TRUE, lastFired |-> Never, owner |-> owner]
            ELSE schedules[id]]
    /\ promised' = [promised EXCEPT ![NextId] = slot]
    /\ UNCHANGED <<tick, due, fired, passed, silenced, late>>

RemoveSchedule(id) ==
    /\ id \in DOMAIN schedules
    /\ schedules' = [other \in DOMAIN schedules \ {id} |-> schedules[other]]
    /\ silenced' = silenced \cup {id}
    /\ late' = [late EXCEPT ![id] = 0]
    /\ UNCHANGED <<tick, seq, due, promised, fired, passed>>

SetEnabled(id, enabled) ==
    /\ id \in DOMAIN schedules
    /\ schedules' = [schedules EXCEPT ![id].enabled = enabled]
    /\ silenced' = IF enabled THEN silenced \ {id} ELSE silenced \cup {id}
    /\ late' = [late EXCEPT ![id] = 0]
    /\ UNCHANGED <<tick, seq, due, promised, fired, passed>>

(* The clients of the API. *)
ApiCall ==
    /\ \/ \E slot \in Slots : AddSchedule(slot, "other")
       \/ \E id \in Ids : RemoveSchedule(id)
       \/ \E id \in Ids, enabled \in BOOLEAN : SetEnabled(id, enabled)
    /\ UNCHANGED <<time, resource, boot>>

(* Schedules are kept in memory only, and their numbers start again. *)
Restart ==
    /\ boot < MaxRestarts
    /\ boot' = boot + 1
    /\ tick' = NoTick
    /\ schedules' = [id \in {} |-> {}]
    /\ seq' = 0
    /\ due' = {}
    /\ promised' = [id \in Ids |-> NoSlot]
    /\ fired' = [id \in Ids |-> {}]
    /\ passed' = [id \in Ids |-> {}]
    /\ silenced' = {}
    /\ late' = [id \in Ids |-> 0]
    /\ UNCHANGED <<time, resource>>

-----------------------------------------------------------------------------
(* Terraform decides which of the four methods of the resource it calls, with
   a plan of its user; a response that is lost is an error, after which its
   state is what it was. *)
Create(slot, answered) ==
    /\ resource = NoResource
    /\ AddSchedule(slot, "terraform")
    /\ resource' = IF answered
                   THEN [id |-> NextId, slot |-> slot, enabled |-> TRUE, boot |-> boot]
                   ELSE resource
    /\ UNCHANGED <<time, boot>>

(* The schedule is looked for by its ID alone. *)
Read ==
    /\ resource # NoResource
    /\ resource' =
         IF resource.id \in DOMAIN schedules
         THEN LET found == schedules[resource.id]
              IN  [resource EXCEPT !.slot = [weekday |-> found.weekday, minute |-> found.minute],
                                   !.enabled = found.enabled]
         ELSE NoResource
    /\ UNCHANGED <<time, boot, serverVars>>

(* Only enabled is sent; the rest of the plan goes into the state as it is. *)
Update(slot, enabled, answered) ==
    /\ resource # NoResource
    /\ IF enabled # resource.enabled
       THEN SetEnabled(resource.id, enabled)
       ELSE UNCHANGED serverVars
    /\ resource' = IF answered THEN [resource EXCEPT !.slot = slot, !.enabled = enabled]
                   ELSE resource
    /\ UNCHANGED <<time, boot>>

Delete(answered) ==
    /\ resource # NoResource
    /\ RemoveSchedule(resource.id)
    /\ resource' = IF answered THEN NoResource ELSE resource
    /\ UNCHANGED <<time, boot>>

GameDayNext ==
    \/ Tick
    \/ checkAndFire
    \/ \E id \in Ids : Fire(id)
    \/ ApiCall
    \/ Restart
    \/ \E slot \in Slots, answered \in BOOLEAN : Create(slot, answered)
    \/ Read
    \/ \E slot \in Slots, enabled, answered \in BOOLEAN : Update(slot, enabled, answered)
    \/ \E answered \in BOOLEAN : Delete(answered)

GameDaySpec == GameDayInit /\ [][GameDayNext]_gameDayVars

-----------------------------------------------------------------------------
GameDayTypeOK ==
    /\ time \in Nat
    /\ tick \in Nat \cup {NoTick}
    /\ seq \in 0..MaxSchedules
    /\ DOMAIN schedules \subseteq 1..seq
    /\ schedules \in [DOMAIN schedules -> Schedule]
    /\ due \subseteq 1..seq
    /\ boot \in Nat
    /\ resource = NoResource \/ (resource \in Resource /\ resource.boot <= boot)
    /\ promised \in [Ids -> [weekday : Int, minute : Int]]
    /\ fired \in [Ids -> SUBSET Nat] /\ passed \in [Ids -> SUBSET Nat]
    /\ silenced \subseteq Ids
    /\ late \in [Ids -> Nat]

(* A schedule fires in no minute but the one of the day that its client asked
   for, in UTC, and on no weekday but the one asked for -- that of the server's
   own zone: in UTC it may be the day before.  The clock is that of the tick,
   not of the moment it is handled at. *)
FiresInItsSlot ==
    \A id \in Ids : \A now \in fired[id] :
        /\ MinuteOfDay(now) = promised[id].minute
        /\ Weekday(now) = promised[id].weekday % DaysPerWeek

(* It fires once in every minute of its slot that a check looks at it in, never
   again although the loop looks twice, and never not at all because of the
   firing of another week. *)
FiresOncePerMinute ==
    \A id \in Ids :
        /\ \A t1, t2 \in fired[id] : t1 # t2 => Minute(t1) # Minute(t2)
        /\ passed[id] = {Minute(now) : now \in fired[id]}

(* Once a client has been told that a schedule is removed or disabled it is
   triggered at most once more, by the check that was on its way. *)
SilencedFiresOnceMore == \A id \in silenced : late[id] <= 1

(* Schedules fire as the clients of the scheduler were told they would, but for
   the weekday, which they were told is that of UTC. *)
FiresAsTold == FiresInItsSlot /\ FiresOncePerMinute /\ SilencedFiresOnceMore

(* As long as the server has not been started again, the schedule that the
   state of Terraform names is its own and never one that another client has
   added in the meantime: no ID is given out twice. *)
StateNamesItsOwn ==
    (resource # NoResource /\ resource.boot = boot /\ resource.id \in DOMAIN schedules)
       => schedules[resource.id].owner = "terraform"
=============================================================================
