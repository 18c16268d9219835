--------------------------- MODULE ServicesProofs ---------------------------
(***************************************************************************)
(* What holds of the services of the server that answer one request at a   *)
(* time: of the weekly schedules for any clock and any number of           *)
(* schedules, of the verification of targets for any hosts, owners and     *)
(* requests, of the reports about finished runs for any measurements, of   *)
(* the metrics of a run for any workers that record any results, of the    *)
(* store of presets for whatever is asked of it, and of the journeys       *)
(* through imported scenarios for any source.                              *)
(***************************************************************************)
EXTENDS MCServices, FiniteSums, FiniteSetTheorems, SequenceTheorems, TLAPS

-----------------------------------------------------------------------------
(* Types, without the two variables that count for themselves. *)
SchedulerTypeOK ==
    /\ time \in Nat
    /\ tick \in Nat \cup {NoTick}
    /\ seq \in 0..MaxSchedules
    /\ DOMAIN schedules \subseteq 1..seq
    /\ schedules \in [DOMAIN schedules -> Schedule]
    /\ due \subseteq 1..seq
    /\ promised \in [Ids -> [weekday : Int, minute : Int]]
    /\ fired \in [Ids -> SUBSET Nat] /\ passed \in [Ids -> SUBSET Nat]
    /\ silenced \subseteq Ids
    /\ late \in [Ids -> Nat]

ResourceTypeOK ==
    /\ boot \in Nat
    /\ resource = NoResource \/ (resource \in Resource /\ resource.boot <= boot)

LEMMA TypeParts == GameDayTypeOK <=> SchedulerTypeOK /\ ResourceTypeOK
BY DEF GameDayTypeOK, SchedulerTypeOK, ResourceTypeOK

(* Rounding towards zero, a remainder has the sign of what is divided. *)
LEMMA RemainderType ==
    ASSUME NEW a \in Int, NEW b \in Nat \ {0}
    PROVE  Remainder(a, b) \in (1 - b)..(b - 1)
<1>1. \A n \in Nat : n % b \in 0..(b - 1)
  OBVIOUS
<1> QED BY <1>1 DEF Remainder

LEMMA AddTypes ==
    ASSUME GameDayConstants, SchedulerTypeOK, NEW slot \in Slots, NEW owner \in Owners,
           AddSchedule(slot, owner), UNCHANGED time
    PROVE  SchedulerTypeOK'
<1> DEFINE new == [weekday |-> Remainder(slot.weekday, DaysPerWeek), minute |-> slot.minute,
                   enabled |-> TRUE, lastFired |-> Never, owner |-> owner]
<1>1. new \in Schedule
  <2>1. slot.weekday \in Int /\ slot.minute \in Int /\ DaysPerWeek \in Nat \ {0}
    BY DEF GameDayConstants
  <2>2. Remainder(slot.weekday, DaysPerWeek) \in (1 - DaysPerWeek)..(DaysPerWeek - 1)
    BY <2>1, RemainderType
  <2> QED BY <2>1, <2>2 DEF Schedule, Never
<1>2. seq' = seq + 1 /\ seq' \in 0..MaxSchedules
  BY DEF AddSchedule, SchedulerTypeOK, GameDayConstants
<1>3. schedules' = [id \in DOMAIN schedules \cup {seq + 1} |->
                      IF id = seq + 1 THEN new ELSE schedules[id]]
  BY DEF AddSchedule, NextId
<1> HIDE DEF new
<1>4. DOMAIN schedules' = DOMAIN schedules \cup {seq + 1}
  BY <1>3
<1>5. schedules' \in [DOMAIN schedules' -> Schedule]
  BY <1>1, <1>3, <1>4 DEF SchedulerTypeOK
<1>6. DOMAIN schedules' \subseteq 1..seq' /\ due' \subseteq 1..seq'
  BY <1>2, <1>4 DEF AddSchedule, SchedulerTypeOK
<1>7. promised' \in [Ids -> [weekday : Int, minute : Int]]
  BY DEF AddSchedule, SchedulerTypeOK, GameDayConstants
<1> QED BY <1>2, <1>5, <1>6, <1>7 DEF AddSchedule, SchedulerTypeOK

LEMMA RemoveTypes ==
    ASSUME SchedulerTypeOK, NEW id \in Ids, RemoveSchedule(id), UNCHANGED time
    PROVE  SchedulerTypeOK'
<1>1. DOMAIN schedules' = DOMAIN schedules \ {id}
  BY DEF RemoveSchedule
<1>2. schedules' \in [DOMAIN schedules' -> Schedule]
  BY <1>1 DEF RemoveSchedule, SchedulerTypeOK
<1> QED BY <1>1, <1>2 DEF RemoveSchedule, SchedulerTypeOK

LEMMA EnableTypes ==
    ASSUME SchedulerTypeOK, NEW id \in Ids, NEW enabled \in BOOLEAN, SetEnabled(id, enabled),
           UNCHANGED time
    PROVE  SchedulerTypeOK'
<1> DEFINE new == [schedules[id] EXCEPT !.enabled = enabled]
<1>1. new \in Schedule
  BY DEF SetEnabled, SchedulerTypeOK, Schedule
<1>2. schedules' = [schedules EXCEPT ![id] = new]
  BY DEF SetEnabled
<1> HIDE DEF new
<1>3. DOMAIN schedules' = DOMAIN schedules /\ schedules' \in [DOMAIN schedules' -> Schedule]
  BY <1>1, <1>2 DEF SchedulerTypeOK
<1>4. silenced' \subseteq Ids
  BY DEF SetEnabled, SchedulerTypeOK
<1> QED BY <1>3, <1>4 DEF SetEnabled, SchedulerTypeOK

LEMMA FireTypes ==
    ASSUME SchedulerTypeOK, NEW id \in Ids, Fire(id)
    PROVE  SchedulerTypeOK'
BY DEF SchedulerTypeOK, Fire

LEMMA CheckTypes ==
    ASSUME SchedulerTypeOK, checkAndFire
    PROVE  SchedulerTypeOK'
<1> DEFINE new(id) == [schedules[id] EXCEPT !.lastFired = IF id \in Matching(tick) THEN tick ELSE @]
<1>1. tick \in Nat /\ Matching(tick) \subseteq DOMAIN schedules
  BY DEF checkAndFire, SchedulerTypeOK, Matching, NoTick
<1>2. \A id \in DOMAIN schedules : new(id) \in Schedule
  BY <1>1 DEF SchedulerTypeOK, Schedule
<1>3. schedules' = [id \in DOMAIN schedules |-> new(id)]
  BY DEF checkAndFire
<1>4. fired' \in [Ids -> SUBSET Nat] /\ passed' \in [Ids -> SUBSET Nat]
  BY <1>1 DEF checkAndFire, SchedulerTypeOK, Minute
<1> HIDE DEF new
<1>5. DOMAIN schedules' = DOMAIN schedules /\ schedules' \in [DOMAIN schedules' -> Schedule]
  BY <1>2, <1>3
<1> QED BY <1>1, <1>4, <1>5 DEF checkAndFire, SchedulerTypeOK, NoTick

LEMMA GameDayTypeInit ==
    ASSUME GameDayConstants, GameDayInit PROVE GameDayTypeOK
<1>1. DOMAIN schedules = {} /\ schedules \in [DOMAIN schedules -> Schedule]
  BY DEF GameDayInit
<1> QED BY <1>1 DEF GameDayConstants, GameDayInit, GameDayTypeOK, NoTick, NoSlot

(* What Terraform or a client does next, each with the schedules it changes. *)
LEMMA GameDayTypeNext ==
    ASSUME GameDayConstants, GameDayTypeOK, [GameDayNext]_gameDayVars
    PROVE  GameDayTypeOK'
<1> SchedulerTypeOK /\ ResourceTypeOK
  BY TypeParts
<1> SUFFICES SchedulerTypeOK' /\ ResourceTypeOK'
  BY DEF GameDayTypeOK, SchedulerTypeOK, ResourceTypeOK
<1>1. ASSUME Tick PROVE SchedulerTypeOK' /\ ResourceTypeOK'
  BY <1>1 DEF Tick, SchedulerTypeOK, ResourceTypeOK
<1>2. ASSUME checkAndFire PROVE SchedulerTypeOK' /\ ResourceTypeOK'
  BY <1>2, CheckTypes DEF checkAndFire, ResourceTypeOK
<1>3. ASSUME NEW id \in Ids, Fire(id) PROVE SchedulerTypeOK' /\ ResourceTypeOK'
  BY <1>3, FireTypes DEF Fire, ResourceTypeOK
<1>4. ASSUME ApiCall PROVE SchedulerTypeOK' /\ ResourceTypeOK'
  <2>1. SchedulerTypeOK'
    BY <1>4, AddTypes, RemoveTypes, EnableTypes DEF ApiCall, Owners
  <2> QED BY <1>4, <2>1 DEF ApiCall, ResourceTypeOK
<1>5. ASSUME Restart PROVE SchedulerTypeOK' /\ ResourceTypeOK'
  <2>1. DOMAIN schedules' = {} /\ schedules' \in [DOMAIN schedules' -> Schedule]
    BY <1>5 DEF Restart
  <2>2. SchedulerTypeOK'
    BY <1>5, <2>1 DEF Restart, SchedulerTypeOK, GameDayConstants, NoSlot
  <2>3. ResourceTypeOK'
    BY <1>5 DEF Restart, ResourceTypeOK, Resource
  <2> QED BY <2>2, <2>3
<1>6. ASSUME NEW slot \in Slots, NEW answered \in BOOLEAN, Create(slot, answered)
      PROVE  SchedulerTypeOK' /\ ResourceTypeOK'
  <2>1. SchedulerTypeOK'
    BY <1>6, AddTypes DEF Create, Owners
  <2>2. NextId \in Ids
    BY <1>6 DEF Create, AddSchedule, NextId, SchedulerTypeOK, Ids, GameDayConstants
  <2>3. [id |-> NextId, slot |-> slot, enabled |-> TRUE, boot |-> boot] \in Resource
    BY <2>2 DEF Resource, ResourceTypeOK, GameDayConstants
  <2> QED BY <1>6, <2>1, <2>3 DEF Create, ResourceTypeOK
<1>7. ASSUME Read PROVE SchedulerTypeOK' /\ ResourceTypeOK'
  <2>1. SchedulerTypeOK'
    BY <1>7 DEF Read, serverVars, SchedulerTypeOK
  <2>2. resource \in Resource /\ resource.boot <= boot
    BY <1>7 DEF Read, ResourceTypeOK
  <2>3. CASE resource.id \in DOMAIN schedules
    <3> DEFINE slot == [weekday |-> schedules[resource.id].weekday,
                        minute |-> schedules[resource.id].minute]
    <3>1. slot \in [weekday : Int, minute : Int] /\ schedules[resource.id].enabled \in BOOLEAN
      BY <2>3 DEF SchedulerTypeOK, Schedule
    <3>2. resource' = [resource EXCEPT !.slot = slot, !.enabled = schedules[resource.id].enabled]
      BY <1>7, <2>3 DEF Read
    <3> HIDE DEF slot
    <3> QED BY <1>7, <2>1, <2>2, <3>1, <3>2 DEF Read, Resource, ResourceTypeOK
  <2>4. CASE resource.id \notin DOMAIN schedules
    BY <1>7, <2>1, <2>4 DEF Read, ResourceTypeOK
  <2> QED BY <2>3, <2>4
<1>8. ASSUME NEW slot \in Slots, NEW enabled \in BOOLEAN, NEW answered \in BOOLEAN,
             Update(slot, enabled, answered)
      PROVE  SchedulerTypeOK' /\ ResourceTypeOK'
  <2>1. resource \in Resource /\ resource.boot <= boot
    BY <1>8 DEF Update, ResourceTypeOK
  <2>2. SchedulerTypeOK'
    <3>1. CASE enabled # resource.enabled
      BY <1>8, <2>1, <3>1, EnableTypes DEF Update, Resource
    <3>2. CASE enabled = resource.enabled
      BY <1>8, <3>2 DEF Update, serverVars, SchedulerTypeOK
    <3> QED BY <3>1, <3>2
  <2>3. slot \in [weekday : Int, minute : Int]
    BY DEF GameDayConstants
  <2> QED BY <1>8, <2>1, <2>2, <2>3 DEF Update, Resource, ResourceTypeOK
<1>9. ASSUME NEW answered \in BOOLEAN, Delete(answered)
      PROVE  SchedulerTypeOK' /\ ResourceTypeOK'
  <2>1. resource \in Resource
    BY <1>9 DEF Delete, ResourceTypeOK
  <2> QED BY <1>9, <2>1, RemoveTypes DEF Delete, Resource, ResourceTypeOK
<1>10. ASSUME UNCHANGED gameDayVars PROVE SchedulerTypeOK' /\ ResourceTypeOK'
  BY <1>10 DEF gameDayVars, serverVars, SchedulerTypeOK, ResourceTypeOK
<1> QED
  BY <1>1, <1>2, <1>3, <1>4, <1>5, <1>6, <1>7, <1>8, <1>9, <1>10 DEF GameDayNext

(* The types hold in every reachable state of the scheduler and of Terraform. *)
THEOREM GameDayTypeCorrect == ASSUME GameDayConstants PROVE GameDaySpec => []GameDayTypeOK
BY GameDayTypeInit, GameDayTypeNext, PTL DEF GameDaySpec
-----------------------------------------------------------------------------
(* An ID that was given out since the server started is never given out
   again, so the one Terraform was answered stays that of its schedule. *)
StillIssued ==
    (resource # NoResource /\ resource.boot = boot) =>
       /\ resource.id \in 1..seq
       /\ resource.id \in DOMAIN schedules => schedules[resource.id].owner = "terraform"

(* The owner of a schedule never changes, and a new one has a new number. *)
LEMMA OwnersStay ==
    ASSUME SchedulerTypeOK,
           \/ \E slot \in Slots, owner \in Owners : AddSchedule(slot, owner)
           \/ \E id \in Ids : RemoveSchedule(id)
           \/ \E id \in Ids, enabled \in BOOLEAN : SetEnabled(id, enabled)
    PROVE  /\ 1..seq \subseteq 1..seq'
           /\ \A id \in 1..seq : id \in DOMAIN schedules' =>
                 id \in DOMAIN schedules /\ schedules'[id].owner = schedules[id].owner
<1>1. ASSUME NEW slot \in Slots, NEW owner \in Owners, AddSchedule(slot, owner)
      PROVE  /\ 1..seq \subseteq 1..seq'
             /\ \A id \in 1..seq : id \in DOMAIN schedules' =>
                   id \in DOMAIN schedules /\ schedules'[id].owner = schedules[id].owner
  BY <1>1 DEF AddSchedule, NextId, SchedulerTypeOK
<1>2. ASSUME NEW id \in Ids, RemoveSchedule(id)
      PROVE  /\ 1..seq \subseteq 1..seq'
             /\ \A x \in 1..seq : x \in DOMAIN schedules' =>
                   x \in DOMAIN schedules /\ schedules'[x].owner = schedules[x].owner
  BY <1>2 DEF RemoveSchedule
<1>3. ASSUME NEW id \in Ids, NEW enabled \in BOOLEAN, SetEnabled(id, enabled)
      PROVE  /\ 1..seq \subseteq 1..seq'
             /\ \A x \in 1..seq : x \in DOMAIN schedules' =>
                   x \in DOMAIN schedules /\ schedules'[x].owner = schedules[x].owner
  BY <1>3 DEF SetEnabled, SchedulerTypeOK, Schedule
<1> QED BY <1>1, <1>2, <1>3

(* A step that keeps the owners keeps the resource's name. *)
LEMMA NamedStays ==
    ASSUME StillIssued, UNCHANGED boot,
           resource' = NoResource \/ (/\ resource # NoResource
                                     /\ resource'.id = resource.id
                                     /\ resource'.boot = resource.boot),
           1..seq \subseteq 1..seq',
           \A id \in 1..seq : id \in DOMAIN schedules' =>
              id \in DOMAIN schedules /\ schedules'[id].owner = schedules[id].owner
    PROVE  StillIssued'
BY DEF StillIssued

LEMMA NamedNext ==
    ASSUME GameDayConstants, GameDayTypeOK, StillIssued, [GameDayNext]_gameDayVars
    PROVE  StillIssued'
<1> SchedulerTypeOK /\ ResourceTypeOK
  BY TypeParts
<1>1. CASE Tick
  BY <1>1 DEF Tick, StillIssued
<1>2. CASE checkAndFire
  <2>1. DOMAIN schedules' = DOMAIN schedules
    BY <1>2 DEF checkAndFire
  <2>2. \A id \in DOMAIN schedules : schedules'[id].owner = schedules[id].owner
    BY <1>2 DEF checkAndFire, SchedulerTypeOK, Schedule
  <2> QED BY <1>2, <2>1, <2>2 DEF checkAndFire, StillIssued
<1>3. ASSUME NEW id \in Ids, Fire(id) PROVE StillIssued'
  BY <1>3 DEF Fire, StillIssued
<1>4. CASE ApiCall
  BY <1>4, OwnersStay, NamedStays DEF ApiCall, Owners
<1>5. CASE Restart
  BY <1>5 DEF Restart, StillIssued, ResourceTypeOK
<1>6. ASSUME NEW slot \in Slots, NEW answered \in BOOLEAN, Create(slot, answered) PROVE StillIssued'
  <2>1. CASE answered
    <3>1. resource' = [id |-> seq + 1, slot |-> slot, enabled |-> TRUE, boot |-> boot]
      BY <1>6, <2>1 DEF Create, NextId
    <3>2. seq' = seq + 1 /\ schedules'[seq + 1].owner = "terraform" /\ seq \in Nat
      BY <1>6 DEF Create, AddSchedule, NextId, SchedulerTypeOK, GameDayConstants
    <3> QED BY <3>1, <3>2 DEF StillIssued
  <2>2. CASE ~answered
    BY <1>6, <2>2 DEF Create, StillIssued
  <2> QED BY <2>1, <2>2
<1>7. CASE Read
  <2>1. resource' = NoResource \/ (/\ resource # NoResource
                                  /\ resource'.id = resource.id
                                  /\ resource'.boot = resource.boot)
    BY <1>7 DEF Read, ResourceTypeOK, Resource
  <2> QED BY <1>7, <2>1 DEF Read, serverVars, StillIssued
<1>8. ASSUME NEW slot \in Slots, NEW enabled \in BOOLEAN, NEW answered \in BOOLEAN,
             Update(slot, enabled, answered)
      PROVE  StillIssued'
  <2>1. /\ resource # NoResource /\ resource'.id = resource.id
        /\ resource'.boot = resource.boot /\ resource \in Resource
    BY <1>8 DEF Update, ResourceTypeOK, Resource
  <2>2. CASE SetEnabled(resource.id, enabled)
    <3>1. resource.id \in Ids
      BY <2>1 DEF Resource
    <3> QED BY <1>8, <2>1, <2>2, <3>1, OwnersStay, NamedStays DEF Update
  <2>3. CASE UNCHANGED serverVars
    BY <1>8, <2>1, <2>3 DEF Update, serverVars, StillIssued
  <2> QED BY <1>8, <2>2, <2>3 DEF Update
<1>9. ASSUME NEW answered \in BOOLEAN, Delete(answered) PROVE StillIssued'
  <2>1. resource.id \in Ids /\ RemoveSchedule(resource.id)
    BY <1>9 DEF Delete, ResourceTypeOK, Resource
  <2> QED BY <1>9, <2>1, OwnersStay, NamedStays DEF Delete
<1>10. CASE UNCHANGED gameDayVars
  BY <1>10 DEF gameDayVars, serverVars, StillIssued
<1> QED
  BY <1>1, <1>2, <1>3, <1>4, <1>5, <1>6, <1>7, <1>8, <1>9, <1>10 DEF GameDayNext

(* As long as the server is not started again, the ID in the state of Terraform
   is that of the schedule Terraform made, whatever other clients add and
   delete meanwhile and whichever of its answers are lost. *)
THEOREM ResourceNamesItsOwn == ASSUME GameDayConstants PROVE GameDaySpec => []StateNamesItsOwn
<1>1. GameDayInit => StillIssued
  BY DEF GameDayInit, StillIssued
<1>2. GameDayTypeOK /\ StillIssued /\ [GameDayNext]_gameDayVars => GameDayTypeOK' /\ StillIssued'
  BY GameDayTypeNext, NamedNext
<1>3. StillIssued => StateNamesItsOwn
  BY DEF StillIssued, StateNamesItsOwn
<1> QED BY <1>1, <1>2, <1>3, GameDayTypeInit, PTL DEF GameDaySpec

-----------------------------------------------------------------------------
(* A schedule that was fired remembers its last firing, which is 90 seconds
   away from any other, and a number not given out has fired nothing. *)
Spaced ==
    \A id \in Ids :
       /\ fired[id] # {} => id \in 1..seq
       /\ id \in DOMAIN schedules => \A t \in fired[id] : t <= schedules[id].lastFired
       /\ \A t1, t2 \in fired[id] : t1 = t2 \/ t1 + 3 < t2 \/ t2 + 3 < t1

(* A schedule a client has silenced is not enabled; if it is still due it has
   not been triggered since. *)
Silenced ==
    \A id \in silenced :
       /\ id \in 1..seq
       /\ id \in DOMAIN schedules => ~schedules[id].enabled
       /\ late[id] <= 1
       /\ id \in due => late[id] = 0

Told == Spaced /\ Silenced

LEMMA AddTold ==
    ASSUME GameDayConstants, SchedulerTypeOK, Told, NEW slot \in Slots, NEW owner \in Owners,
           AddSchedule(slot, owner)
    PROVE  Told'
<1>1. /\ seq \in Nat /\ seq' = seq + 1 /\ DOMAIN schedules' = DOMAIN schedules \cup {seq + 1}
      /\ \A id \in DOMAIN schedules : schedules'[id] = schedules[id]
      /\ UNCHANGED <<fired, silenced, late, due>>
  BY DEF AddSchedule, NextId, SchedulerTypeOK
<1>2. seq + 1 \notin 1..seq
  BY <1>1
<1>3. Spaced'
  BY <1>1, <1>2 DEF Told, Spaced
<1>4. Silenced'
  BY <1>1, <1>2 DEF Told, Silenced
<1> QED BY <1>3, <1>4 DEF Told

LEMMA RemoveTold ==
    ASSUME SchedulerTypeOK, Told, NEW id \in Ids, RemoveSchedule(id)
    PROVE  Told'
<1>1. /\ DOMAIN schedules' = DOMAIN schedules \ {id}
      /\ \A x \in DOMAIN schedules' : schedules'[x] = schedules[x]
      /\ UNCHANGED <<seq, fired, due>>
      /\ id \in 1..seq /\ silenced' = silenced \cup {id}
  BY DEF RemoveSchedule, SchedulerTypeOK
<1>2. late'[id] = 0 /\ \A x \in Ids : x # id => late'[x] = late[x]
  BY DEF RemoveSchedule, SchedulerTypeOK
<1>3. Spaced'
  BY <1>1 DEF Told, Spaced
<1>4. Silenced'
  BY <1>1, <1>2 DEF Told, Silenced, SchedulerTypeOK
<1> QED BY <1>3, <1>4 DEF Told

LEMMA EnableTold ==
    ASSUME SchedulerTypeOK, Told, NEW id \in Ids, NEW enabled \in BOOLEAN, SetEnabled(id, enabled)
    PROVE  Told'
<1>1. /\ DOMAIN schedules' = DOMAIN schedules
      /\ \A x \in DOMAIN schedules : schedules'[x].lastFired = schedules[x].lastFired
      /\ \A x \in DOMAIN schedules : x # id => schedules'[x] = schedules[x]
      /\ UNCHANGED <<seq, fired, due>>
      /\ id \in 1..seq
  BY DEF SetEnabled, SchedulerTypeOK, Schedule
<1>2. late'[id] = 0 /\ \A x \in Ids : x # id => late'[x] = late[x]
  BY DEF SetEnabled, SchedulerTypeOK
<1>3. Spaced'
  BY <1>1 DEF Told, Spaced
<1>4. Silenced'
  <2>1. CASE enabled
    <3>1. silenced' = silenced \ {id}
      BY <2>1 DEF SetEnabled
    <3> QED BY <1>1, <1>2, <3>1 DEF Told, Silenced, SchedulerTypeOK
  <2>2. CASE ~enabled
    <3>1. silenced' = silenced \cup {id}
      BY <2>2 DEF SetEnabled
    <3>2. id \in DOMAIN schedules => ~schedules'[id].enabled
      BY <2>2 DEF SetEnabled, SchedulerTypeOK, Schedule
    <3> QED BY <1>1, <1>2, <3>1, <3>2 DEF Told, Silenced, SchedulerTypeOK
  <2> QED BY <2>1, <2>2
<1> QED BY <1>3, <1>4 DEF Told

(* What matches has not fired for 90 seconds, and is enabled. *)
LEMMA CheckTold ==
    ASSUME SchedulerTypeOK, Told, checkAndFire
    PROVE  Told'
<1>1. tick \in Nat /\ Matching(tick) \subseteq DOMAIN schedules /\ due' = Matching(tick)
  BY DEF checkAndFire, SchedulerTypeOK, Matching, NoTick
<1>2. \A id \in Matching(tick) : schedules[id].enabled /\ schedules[id].lastFired + 3 < tick
  <2> SUFFICES ASSUME NEW id \in Matching(tick)
               PROVE  schedules[id].enabled /\ schedules[id].lastFired + 3 < tick
    OBVIOUS
  <2>1. schedules[id].enabled /\ 30 * (tick - schedules[id].lastFired) > 90
    BY DEF Matching, matches, InSlot
  <2>2. schedules[id].lastFired \in Int
    BY <1>1 DEF SchedulerTypeOK, Schedule
  <2> QED BY <1>1, <2>1, <2>2
<1>3. /\ DOMAIN schedules' = DOMAIN schedules
      /\ \A id \in DOMAIN schedules : schedules'[id].enabled = schedules[id].enabled
      /\ \A id \in Matching(tick) : schedules'[id].lastFired = tick
      /\ \A id \in DOMAIN schedules \ Matching(tick) :
            schedules'[id].lastFired = schedules[id].lastFired
      /\ UNCHANGED <<seq, silenced, late>>
  BY <1>1 DEF checkAndFire, SchedulerTypeOK, Schedule
<1>4. Spaced'
  <2> SUFFICES ASSUME NEW id \in Ids
               PROVE  /\ fired'[id] # {} => id \in 1..seq
                      /\ id \in DOMAIN schedules => \A t \in fired'[id] :
                            t <= schedules'[id].lastFired
                      /\ \A t1, t2 \in fired'[id] : t1 = t2 \/ t1 + 3 < t2 \/ t2 + 3 < t1
    BY <1>3 DEF Spaced
  <2>1. CASE id \in Matching(tick)
    <3>1. fired'[id] = fired[id] \cup {tick} /\ fired[id] \subseteq Nat
      BY <2>1 DEF checkAndFire, SchedulerTypeOK
    <3>2. schedules[id].lastFired \in Int
      BY <1>1, <2>1 DEF SchedulerTypeOK, Schedule
    <3>3. \A t \in fired[id] : t <= schedules[id].lastFired /\ t + 3 < tick
      BY <1>1, <1>2, <2>1, <3>1, <3>2 DEF Told, Spaced
    <3> QED BY <1>1, <1>3, <2>1, <3>1, <3>3 DEF Told, Spaced, SchedulerTypeOK
  <2>2. CASE id \notin Matching(tick)
    BY <1>3, <2>2 DEF checkAndFire, Told, Spaced
  <2> QED BY <2>1, <2>2
<1>5. Silenced'
  BY <1>1, <1>2, <1>3 DEF Told, Silenced
<1> QED BY <1>4, <1>5 DEF Told

LEMMA FireTold ==
    ASSUME SchedulerTypeOK, Told, NEW id \in Ids, Fire(id)
    PROVE  Told'
<1>1. Spaced'
  BY DEF Fire, Told, Spaced
<1>2. Silenced'
  BY DEF Fire, Told, Silenced, SchedulerTypeOK
<1> QED BY <1>1, <1>2 DEF Told

LEMMA ToldNext ==
    ASSUME GameDayConstants, GameDayTypeOK, Told, [GameDayNext]_gameDayVars
    PROVE  Told'
<1> SchedulerTypeOK /\ ResourceTypeOK
  BY TypeParts
<1>1. CASE Tick
  BY <1>1 DEF Tick, Told, Spaced, Silenced
<1>2. CASE checkAndFire
  BY <1>2, CheckTold
<1>3. ASSUME NEW id \in Ids, Fire(id) PROVE Told'
  BY <1>3, FireTold
<1>4. CASE ApiCall
  BY <1>4, AddTold, RemoveTold, EnableTold DEF ApiCall, Owners
<1>5. CASE Restart
  BY <1>5 DEF Restart, Told, Spaced, Silenced
<1>6. ASSUME NEW slot \in Slots, NEW answered \in BOOLEAN, Create(slot, answered) PROVE Told'
  BY <1>6, AddTold DEF Create, Owners
<1>7. CASE Read
  BY <1>7 DEF Read, serverVars, Told, Spaced, Silenced
<1>8. ASSUME NEW slot \in Slots, NEW enabled \in BOOLEAN, NEW answered \in BOOLEAN,
             Update(slot, enabled, answered)
      PROVE  Told'
  <2>1. resource.id \in Ids
    BY <1>8 DEF Update, ResourceTypeOK, Resource
  <2>2. CASE SetEnabled(resource.id, enabled)
    BY <2>1, <2>2, EnableTold
  <2>3. CASE UNCHANGED serverVars
    BY <2>3 DEF serverVars, Told, Spaced, Silenced
  <2> QED BY <1>8, <2>2, <2>3 DEF Update
<1>9. ASSUME NEW answered \in BOOLEAN, Delete(answered) PROVE Told'
  <2>1. resource.id \in Ids /\ RemoveSchedule(resource.id)
    BY <1>9 DEF Delete, ResourceTypeOK, Resource
  <2> QED BY <2>1, RemoveTold
<1>10. CASE UNCHANGED gameDayVars
  BY <1>10 DEF gameDayVars, serverVars, Told, Spaced, Silenced
<1> QED
  BY <1>1, <1>2, <1>3, <1>4, <1>5, <1>6, <1>7, <1>8, <1>9, <1>10 DEF GameDayNext

(* Ticks are taken in the order of the clock. *)
InTickOrder ==
    /\ tick # NoTick => tick <= time
    /\ \A id \in Ids : \A now \in fired[id] : now <= time /\ (tick # NoTick => now < tick)

(* A schedule keeps the slot that was asked for, and knows a firing of its own;
   whatever minute it was looked at in it has fired in. *)
Slotted ==
    \A id \in Ids :
       /\ id \in DOMAIN schedules =>
             /\ schedules[id].minute = promised[id].minute
             /\ schedules[id].weekday = Remainder(promised[id].weekday, DaysPerWeek)
             /\ schedules[id].lastFired = Never \/ schedules[id].lastFired \in fired[id]
       /\ \A now \in fired[id] :
             /\ MinuteOfDay(now) = promised[id].minute
             /\ Weekday(now) = Remainder(promised[id].weekday, DaysPerWeek)
       /\ passed[id] = {Minute(now) : now \in fired[id]}

LEMMA TimesGrow == \A d, k \in Nat : k > 0 => d * k >= d
<1>1. \A d, j \in Nat : d * (j + 1) = d * j + d /\ d * j \in Nat
  OBVIOUS
<1> SUFFICES ASSUME NEW d \in Nat, NEW k \in Nat, k > 0 PROVE d * k >= d
  OBVIOUS
<1>2. k - 1 \in Nat /\ k = (k - 1) + 1
  OBVIOUS
<1>3. d * ((k - 1) + 1) = d * (k - 1) + d /\ d * (k - 1) \in Nat
  BY <1>1, <1>2
<1> QED BY <1>2, <1>3

(* Two numbers less than d apart that leave the same remainder are one. *)
LEMMA SameRemainder ==
    ASSUME NEW d \in Nat \ {0}, NEW a \in Nat, NEW b \in Nat, b <= a, a - b < d, a % d = b % d
    PROVE  a = b
<1> DEFINE p == a \div d
           q == b \div d
<1>1. a = d * p + (a % d) /\ b = d * q + (b % d) /\ p \in Nat /\ q \in Nat
  OBVIOUS
<1> HIDE DEF p, q
<1>2. d * p - d * q = a - b /\ d * p \in Nat /\ d * q \in Nat
  <2>1. a % d \in Nat /\ d * p \in Nat /\ d * q \in Nat
    BY <1>1
  <2> QED BY <1>1, <2>1
<1>3. ~ (p > q)
  <2> SUFFICES ASSUME p > q PROVE FALSE
    OBVIOUS
  <2>1. p - q \in Nat /\ p - q > 0
    BY <1>1
  <2>2. d * (p - q) >= d
    BY <2>1, TimesGrow
  <2>3. d * (p - q) = d * p - d * q
    BY <1>1
  <2> QED BY <1>2, <2>2, <2>3
<1>4. ~ (q > p)
  <2> SUFFICES ASSUME q > p PROVE FALSE
    OBVIOUS
  <2>1. q - p \in Nat /\ q - p > 0
    BY <1>1
  <2>2. d * (q - p) >= d
    BY <2>1, TimesGrow
  <2>3. d * (q - p) = d * q - d * p
    BY <1>1
  <2> QED BY <1>2, <2>2, <2>3
<1>5. p = q
  BY <1>1, <1>3, <1>4
<1> QED BY <1>2, <1>5

(* Less than two minutes before, the same minute of the day is the same
   minute. *)
LEMMA SameMinute ==
    ASSUME GameDayConstants, NEW now \in Nat, NEW last \in Nat, last <= now, now - last <= 3,
           MinuteOfDay(now) = MinuteOfDay(last)
    PROVE  Minute(now) = Minute(last)
<1>1. /\ Minute(now) \in Nat /\ Minute(last) \in Nat
      /\ Minute(last) <= Minute(now) /\ Minute(now) - Minute(last) < 3
  BY DEF Minute
<1>2. MinutesPerDay \in Nat \ {0} /\ MinutesPerDay >= 3
  BY DEF GameDayConstants
<1>3. Minute(now) - Minute(last) < MinutesPerDay
  BY <1>1, <1>2
<1> QED BY <1>1, <1>2, <1>3, SameRemainder DEF MinuteOfDay

LEMMA AddSlotted ==
    ASSUME SchedulerTypeOK, Told, Slotted, NEW slot \in Slots, NEW owner \in Owners,
           AddSchedule(slot, owner)
    PROVE  Slotted'
<1>1. /\ seq \in Nat /\ DOMAIN schedules' = DOMAIN schedules \cup {seq + 1}
      /\ \A id \in DOMAIN schedules : id # seq + 1 => schedules'[id] = schedules[id]
      /\ schedules'[seq + 1] = [weekday |-> Remainder(slot.weekday, DaysPerWeek),
                                minute |-> slot.minute, enabled |-> TRUE,
                                lastFired |-> Never, owner |-> owner]
      /\ UNCHANGED <<fired, passed>>
  BY DEF AddSchedule, NextId, SchedulerTypeOK
<1>2. /\ seq + 1 \in Ids => promised'[seq + 1] = slot
      /\ \A id \in Ids : id # seq + 1 => promised'[id] = promised[id]
  BY DEF AddSchedule, NextId, SchedulerTypeOK
<1>3. seq + 1 \in Ids => fired[seq + 1] = {}
  BY <1>1 DEF Told, Spaced
<1> QED BY <1>1, <1>2, <1>3 DEF Slotted

LEMMA RemoveSlotted ==
    ASSUME SchedulerTypeOK, Slotted, NEW id \in Ids, RemoveSchedule(id)
    PROVE  Slotted'
<1>1. /\ DOMAIN schedules' = DOMAIN schedules \ {id}
      /\ \A x \in DOMAIN schedules' : schedules'[x] = schedules[x]
      /\ UNCHANGED <<promised, fired, passed>>
  BY DEF RemoveSchedule
<1> QED BY <1>1 DEF Slotted

LEMMA EnableSlotted ==
    ASSUME SchedulerTypeOK, Slotted, NEW id \in Ids, NEW enabled \in BOOLEAN, SetEnabled(id, enabled)
    PROVE  Slotted'
<1>1. /\ DOMAIN schedules' = DOMAIN schedules
      /\ \A x \in DOMAIN schedules : /\ schedules'[x].lastFired = schedules[x].lastFired
                                     /\ schedules'[x].minute = schedules[x].minute
                                     /\ schedules'[x].weekday = schedules[x].weekday
      /\ UNCHANGED <<promised, fired, passed>>
  BY DEF SetEnabled, SchedulerTypeOK, Schedule
<1> QED BY <1>1 DEF Slotted

(* What is in its slot fires, or has done so in this very minute. *)
LEMMA CheckSlotted ==
    ASSUME GameDayConstants, SchedulerTypeOK, InTickOrder, Slotted, checkAndFire
    PROVE  Slotted'
<1>1. tick \in Nat /\ tick # NoTick
  BY DEF checkAndFire, SchedulerTypeOK, NoTick
<1>2. /\ DOMAIN schedules' = DOMAIN schedules
      /\ \A id \in DOMAIN schedules :
            /\ schedules'[id].minute = schedules[id].minute
            /\ schedules'[id].weekday = schedules[id].weekday
            /\ schedules'[id].lastFired = IF id \in Matching(tick) THEN tick
                                          ELSE schedules[id].lastFired
      /\ UNCHANGED promised
  BY DEF checkAndFire, SchedulerTypeOK, Schedule
<1> SUFFICES ASSUME NEW id \in Ids
             PROVE  /\ id \in DOMAIN schedules =>
                          /\ schedules'[id].minute = promised[id].minute
                          /\ schedules'[id].weekday = Remainder(promised[id].weekday, DaysPerWeek)
                          /\ schedules'[id].lastFired = Never \/ schedules'[id].lastFired \in fired'[id]
                    /\ \A now \in fired'[id] :
                          /\ MinuteOfDay(now) = promised[id].minute
                          /\ Weekday(now) = Remainder(promised[id].weekday, DaysPerWeek)
                    /\ passed'[id] = {Minute(now) : now \in fired'[id]}
  BY <1>2 DEF Slotted
<1> DEFINE here == id \in DOMAIN schedules /\ InSlot(schedules[id], tick)
<1>3. fired'[id] = IF id \in Matching(tick) THEN fired[id] \cup {tick} ELSE fired[id]
  BY DEF checkAndFire
<1>4. passed'[id] = IF here THEN passed[id] \cup {Minute(tick)} ELSE passed[id]
  BY DEF checkAndFire
<1>5. id \in Matching(tick) => here
  BY DEF Matching, matches
<1>6. here => /\ MinuteOfDay(tick) = promised[id].minute
              /\ Weekday(tick) = Remainder(promised[id].weekday, DaysPerWeek)
  BY DEF Slotted, InSlot
<1>7. ASSUME here, id \notin Matching(tick)
      PROVE  \E now \in fired[id] : Minute(now) = Minute(tick)
  <2> DEFINE last == schedules[id].lastFired
  <2>1. last \in Int /\ ~ (30 * (tick - last) > 90)
    BY <1>7 DEF Matching, matches, SchedulerTypeOK, Schedule
  <2>2. last # Never
    BY <1>1, <2>1 DEF Never
  <2>3. last \in fired[id]
    BY <1>7, <2>2 DEF Slotted
  <2>4. last \in Nat /\ last < tick
    BY <1>1, <2>3 DEF InTickOrder, SchedulerTypeOK
  <2>5. MinuteOfDay(last) = MinuteOfDay(tick)
    BY <1>6, <1>7, <2>3 DEF Slotted
  <2> HIDE DEF last
  <2>6. tick - last <= 3
    BY <1>1, <2>1, <2>4
  <2>7. Minute(tick) = Minute(last)
    BY <1>1, <2>4, <2>5, <2>6, SameMinute
  <2> QED BY <2>3, <2>7
<1> HIDE DEF here
<1>8. passed[id] = {Minute(now) : now \in fired[id]}
  BY DEF Slotted
<1>9. passed'[id] = {Minute(now) : now \in fired'[id]}
  <2>1. CASE id \in Matching(tick)
    BY <1>3, <1>4, <1>5, <1>8, <2>1
  <2>2. CASE here /\ id \notin Matching(tick)
    BY <1>3, <1>4, <1>7, <1>8, <2>2
  <2>3. CASE ~here
    BY <1>3, <1>4, <1>5, <1>8, <2>3
  <2> QED BY <2>1, <2>2, <2>3
<1>10. \A now \in fired'[id] : /\ MinuteOfDay(now) = promised[id].minute
                               /\ Weekday(now) = Remainder(promised[id].weekday, DaysPerWeek)
  BY <1>3, <1>5, <1>6 DEF Slotted
<1> QED BY <1>2, <1>3, <1>9, <1>10 DEF Slotted

LEMMA SlottedNext ==
    ASSUME GameDayConstants, GameDayTypeOK, Told, InTickOrder, Slotted, [GameDayNext]_gameDayVars
    PROVE  InTickOrder' /\ Slotted'
<1> SchedulerTypeOK /\ ResourceTypeOK
  BY TypeParts
<1>1. ASSUME UNCHANGED <<schedules, promised, fired, passed>> PROVE Slotted'
  BY <1>1 DEF Slotted
<1>2. ASSUME UNCHANGED <<tick, time, fired>> PROVE InTickOrder'
  BY <1>2 DEF InTickOrder
<1>3. CASE Tick
  <2>1. InTickOrder'
    BY <1>3 DEF Tick, InTickOrder, SchedulerTypeOK, NoTick
  <2> QED BY <1>1, <1>3, <2>1 DEF Tick
<1>4. CASE checkAndFire
  <2>1. InTickOrder'
    BY <1>4 DEF checkAndFire, InTickOrder, SchedulerTypeOK, NoTick
  <2> QED BY <1>4, <2>1, CheckSlotted
<1>5. ASSUME NEW id \in Ids, Fire(id) PROVE InTickOrder' /\ Slotted'
  BY <1>1, <1>2, <1>5 DEF Fire
<1>6. CASE ApiCall
  <2>1. InTickOrder'
    BY <1>2, <1>6 DEF ApiCall, AddSchedule, RemoveSchedule, SetEnabled
  <2> QED BY <1>6, <2>1, AddSlotted, RemoveSlotted, EnableSlotted DEF ApiCall, Owners
<1>7. CASE Restart
  BY <1>7 DEF Restart, InTickOrder, Slotted
<1>8. ASSUME NEW slot \in Slots, NEW answered \in BOOLEAN, Create(slot, answered)
      PROVE  InTickOrder' /\ Slotted'
  BY <1>2, <1>8, AddSlotted DEF Create, AddSchedule, Owners
<1>9. CASE Read
  BY <1>1, <1>2, <1>9 DEF Read, serverVars
<1>10. ASSUME NEW slot \in Slots, NEW enabled \in BOOLEAN, NEW answered \in BOOLEAN,
              Update(slot, enabled, answered)
       PROVE  InTickOrder' /\ Slotted'
  <2>1. resource.id \in Ids /\ UNCHANGED time
    BY <1>10 DEF Update, ResourceTypeOK, Resource
  <2>2. CASE SetEnabled(resource.id, enabled)
    BY <1>2, <2>1, <2>2, EnableSlotted DEF SetEnabled
  <2>3. CASE UNCHANGED serverVars
    BY <1>1, <1>2, <2>1, <2>3 DEF serverVars
  <2> QED BY <1>10, <2>2, <2>3 DEF Update
<1>11. ASSUME NEW answered \in BOOLEAN, Delete(answered) PROVE InTickOrder' /\ Slotted'
  <2>1. resource.id \in Ids /\ RemoveSchedule(resource.id) /\ UNCHANGED time
    BY <1>11 DEF Delete, ResourceTypeOK, Resource
  <2> QED BY <1>2, <2>1, RemoveSlotted DEF RemoveSchedule
<1>12. CASE UNCHANGED gameDayVars
  BY <1>1, <1>2, <1>12 DEF gameDayVars, serverVars
<1> QED
  BY <1>3, <1>4, <1>5, <1>6, <1>7, <1>8, <1>9, <1>10, <1>11, <1>12 DEF GameDayNext

(* A remainder that is a weekday is the one of the calendar. *)
LEMMA RemainderIsModulus ==
    ASSUME NEW a \in Int, NEW b \in Nat \ {0}, Remainder(a, b) >= 0
    PROVE  Remainder(a, b) = a % b
<1>1. CASE a >= 0
  BY <1>1 DEF Remainder
<1>2. CASE a < 0
  <2>1. -a \in Nat
    BY <1>2
  <2>2. (-a) % b = 0 /\ Remainder(a, b) = 0
    BY <1>2, <2>1 DEF Remainder
  <2> DEFINE q == (-a) \div b
  <2>3. -a = b * q /\ q \in Nat
    BY <2>1, <2>2
  <2> HIDE DEF q
  <2>4. a = b * (-q)
    BY <2>3
  <2>5. (b * (-q)) % b = 0
    BY <2>3
  <2> QED BY <2>2, <2>4, <2>5
<1> QED BY <1>1, <1>2

(* A schedule fires in the minute of the day and on the weekday asked for, once
   in every such minute a check sees it enabled in however often the loop
   looks, and at most once more after a client was told that it is silenced,
   the race of checkAndFire with the handlers: for any clock, any zone of the
   server and any schedules.  The weekday is that of the server's zone. *)
THEOREM SchedulesFireAsTold == ASSUME GameDayConstants PROVE GameDaySpec => []FiresAsTold
<1> DEFINE Inv == GameDayTypeOK /\ Told /\ InTickOrder /\ Slotted
<1>1. GameDayInit => Told /\ InTickOrder /\ Slotted
  BY DEF GameDayInit, Told, Spaced, Silenced, InTickOrder, Slotted
<1>2. Inv /\ [GameDayNext]_gameDayVars => Inv'
  BY GameDayTypeNext, ToldNext, SlottedNext
<1>3. Inv => FiresAsTold
  <2> SUFFICES ASSUME GameDayTypeOK, Told, InTickOrder, Slotted PROVE FiresAsTold
    OBVIOUS
  <2>1. FiresOncePerMinute
    <3> SUFFICES ASSUME NEW id \in Ids, NEW t1 \in fired[id], NEW t2 \in fired[id], t1 # t2
                 PROVE  t1 \div 2 # t2 \div 2
      BY DEF FiresOncePerMinute, Minute, Slotted
    <3>1. t1 \in Nat /\ t2 \in Nat
      BY DEF GameDayTypeOK
    <3>2. t1 + 3 < t2 \/ t2 + 3 < t1
      BY DEF Told, Spaced
    <3> QED BY <3>1, <3>2
  <2>2. SilencedFiresOnceMore
    BY DEF Told, Silenced, SilencedFiresOnceMore
  <2>3. FiresInItsSlot
    <3> SUFFICES ASSUME NEW id \in Ids, NEW now \in fired[id]
                 PROVE  Weekday(now) = promised[id].weekday % DaysPerWeek
      BY DEF FiresInItsSlot, Slotted
    <3>1. promised[id].weekday \in Int /\ now \in Nat /\ DaysPerWeek \in Nat \ {0}
      BY DEF GameDayTypeOK, GameDayConstants
    <3>2. Weekday(now) = Remainder(promised[id].weekday, DaysPerWeek)
      BY DEF Slotted
    <3>3. Weekday(now) >= 0
      <4>1. ((Minute(now) + Offset) \div MinutesPerDay) \in Nat
        BY <3>1 DEF Minute, GameDayConstants
      <4> QED BY <3>1, <4>1 DEF Weekday
    <3> QED BY <3>1, <3>2, <3>3, RemainderIsModulus
  <2> QED BY <2>1, <2>2, <2>3 DEF FiresAsTold
<1> QED BY <1>1, <1>2, <1>3, GameDayTypeInit, PTL DEF GameDaySpec

-----------------------------------------------------------------------------
(* A request that was made, with all its fields. *)
VerificationRequest ==
    [op : {"status", "challenge", "confirm", "confirm_cloud"}, host : Hosts,
     pc : {"lookup", "store", "dns", "file", "cloud", "record", "done"},
     token : Tokens \cup {NoToken}, method : Methods \cup {"none"}, steady : BOOLEAN]

StoreTypeOK ==
    /\ challenges \in [Hosts -> Tokens \cup {NoToken}]
    /\ records \in [Hosts -> Methods \cup {"none"}]
    /\ txt \in [Hosts -> Tokens \cup {NoToken}]
    /\ file \in [Hosts -> Tokens \cup {NoToken}]
    /\ issued \in Tokens
    /\ made \in Nat
    /\ owned \subseteq Hosts
    /\ tested \subseteq RunRequests
    /\ request \in [Requests -> VerificationRequest \cup {Idle}]

(* Where a request is tells what was found before: a token it waits for is
   one, a proof is of a host that is owned, and what is recorded was proved. *)
Justified ==
    /\ \A h \in Hosts : txt[h] # NoToken \/ file[h] # NoToken \/ records[h] # "none" => h \in owned
    /\ \A q \in Requests :
          /\ request[q].pc \in {"store", "dns", "file"} => request[q].token # NoToken
          /\ request[q].pc = "record" =>
                request[q].host \in owned /\ request[q].method \in Methods
    /\ TestedIsOwned

(* A poll whose host has held a token all along has not missed it. *)
Awaited ==
    \A q \in Requests :
       (request[q].op = "status" /\ request[q].steady) =>
          /\ request[q].pc \notin {"file", "cloud"}
          /\ request[q].pc # "done" => txt[request[q].host] # NoToken
          /\ request[q].pc \in {"store", "dns"} => request[q].token = txt[request[q].host]
          /\ request[q].pc = "done" =>
                request[q].host \in Blocked \/ records[request[q].host] # "none"

VerificationInv == StoreTypeOK /\ Justified /\ Awaited

LEMMA NotIdle ==
    ASSUME StoreTypeOK, NEW q \in Requests,
           request[q].pc \in {"lookup", "store", "dns", "file", "cloud", "record"}
    PROVE  request[q] \in VerificationRequest
BY DEF StoreTypeOK, Idle

LEMMA NewRequests ==
    ASSUME StoreTypeOK, NEW h \in Hosts, NEW token \in Tokens \cup {NoToken},
           NEW op \in {"status", "challenge", "confirm", "confirm_cloud"},
           NEW pc \in {"lookup", "dns", "cloud", "done"}
    PROVE  /\ New(op, h, pc, token) \in VerificationRequest
           /\ [New(op, h, pc, token) EXCEPT !.method = records[h]] \in VerificationRequest
BY DEF New, VerificationRequest, StoreTypeOK

-----------------------------------------------------------------------------
(* A request begins, with what holds of where it begins. *)
LEMMA BeginInv ==
    ASSUME VerificationInv, NEW q \in Requests, NEW new \in VerificationRequest, Begin(q, new),
           new.pc \in {"lookup", "dns", "cloud", "done"},
           new.pc = "dns" => new.token # NoToken,
           new.op = "status" =>
              /\ new.pc \in {"lookup", "done"}
              /\ new.steady => txt[new.host] # NoToken
              /\ new.pc = "done" => new.host \in Blocked \/ records[new.host] # "none"
    PROVE  VerificationInv'
<1>1. request' = [request EXCEPT ![q] = new]
      /\ UNCHANGED <<challenges, records, txt, file, issued, owned, tested>>
      /\ made' = made + 1
  BY DEF Begin
<1>2. StoreTypeOK'
  BY <1>1 DEF VerificationInv, StoreTypeOK
<1>3. request'[q] = new /\ \A x \in Requests : x # q => request'[x] = request[x]
  BY <1>1 DEF VerificationInv, StoreTypeOK
<1>4. Justified'
  BY <1>1, <1>3 DEF VerificationInv, Justified, TestedIsOwned, Cleared
<1>5. Awaited'
  BY <1>1, <1>3 DEF VerificationInv, Awaited
<1> QED BY <1>2, <1>4, <1>5 DEF VerificationInv

LEMMA StatusInv ==
    ASSUME VerificationInv, NEW q \in Requests, NEW h \in Hosts, Status(q, h)
    PROVE  VerificationInv'
<1> NoToken \in Tokens \cup {NoToken}
  OBVIOUS
<1>1. CASE records[h] # "none" \/ h \in Blocked
  <2> DEFINE new == [New("status", h, "done", NoToken) EXCEPT !.method = records[h]]
  <2>1. new \in VerificationRequest
    BY NewRequests DEF VerificationInv
  <2>2. new.op = "status" /\ new.pc = "done" /\ new.host = h /\ (new.steady <=> txt[h] # NoToken)
    BY DEF New
  <2>3. Begin(q, new)
    BY <1>1 DEF Status
  <2> HIDE DEF new
  <2> QED BY <1>1, <2>1, <2>2, <2>3, BeginInv
<1>2. CASE ~(records[h] # "none" \/ h \in Blocked)
  <2> DEFINE new == New("status", h, "lookup", NoToken)
  <2>1. new \in VerificationRequest
    BY NewRequests DEF VerificationInv
  <2>2. new.op = "status" /\ new.pc = "lookup" /\ new.host = h /\ (new.steady <=> txt[h] # NoToken)
    BY DEF New
  <2>3. Begin(q, new)
    BY <1>2 DEF Status
  <2> HIDE DEF new
  <2> QED BY <2>1, <2>2, <2>3, BeginInv
<1> QED BY <1>1, <1>2

LEMMA OthersBeginInv ==
    ASSUME VerificationInv, NEW q \in Requests, NEW h \in Hosts,
           Challenge(q, h) \/ Confirm(q, h) \/ ConfirmCloud(q, h)
    PROVE  VerificationInv'
<1> NoToken \in Tokens \cup {NoToken}
  OBVIOUS
<1>1. ASSUME NEW op \in {"challenge", "confirm", "confirm_cloud"},
             NEW pc \in {"lookup", "dns", "cloud"}, NEW token \in Tokens \cup {NoToken},
             Begin(q, New(op, h, pc, token)), pc = "dns" => token # NoToken
      PROVE  VerificationInv'
  <2> DEFINE new == New(op, h, pc, token)
  <2>1. new \in VerificationRequest
    BY NewRequests DEF VerificationInv
  <2>2. new.op = op /\ new.pc = pc /\ new.token = token
    BY DEF New
  <2>3. Begin(q, new)
    BY <1>1
  <2> HIDE DEF new
  <2> QED BY <1>1, <2>1, <2>2, <2>3, BeginInv
<1>2. CASE Challenge(q, h)
  BY <1>1, <1>2 DEF Challenge
<1>3. CASE Confirm(q, h)
  <2>1. challenges[h] \in Tokens \cup {NoToken} /\ challenges[h] # NoToken
    BY <1>3 DEF Confirm, VerificationInv, StoreTypeOK
  <2> QED BY <1>1, <1>3, <2>1 DEF Confirm
<1>4. CASE ConfirmCloud(q, h)
  BY <1>1, <1>4 DEF ConfirmCloud
<1> QED BY <1>2, <1>3, <1>4

-----------------------------------------------------------------------------
(* A request takes a step that proves nothing. *)
LEMMA MoveInv ==
    ASSUME VerificationInv, NEW q \in Requests, NEW new \in VerificationRequest,
           request' = [request EXCEPT ![q] = new],
           UNCHANGED <<records, txt, file, owned, tested>>,
           challenges' \in [Hosts -> Tokens \cup {NoToken}], issued' \in Tokens, made' = made,
           new.pc \in {"store", "dns", "file"} => new.token # NoToken,
           new.pc = "record" => new.host \in owned /\ new.method \in Methods,
           new.op = "status" /\ new.steady =>
              /\ new.pc \notin {"file", "cloud"}
              /\ new.pc # "done" => txt[new.host] # NoToken
              /\ new.pc \in {"store", "dns"} => new.token = txt[new.host]
              /\ new.pc = "done" => new.host \in Blocked \/ records[new.host] # "none"
    PROVE  VerificationInv'
<1>1. StoreTypeOK'
  BY DEF VerificationInv, StoreTypeOK
<1>2. request'[q] = new /\ \A x \in Requests : x # q => request'[x] = request[x]
  BY DEF VerificationInv, StoreTypeOK
<1>3. Justified'
  BY <1>2 DEF VerificationInv, Justified, TestedIsOwned, Cleared
<1>4. Awaited'
  BY <1>2 DEF VerificationInv, Awaited
<1> QED BY <1>1, <1>3, <1>4 DEF VerificationInv

LEMMA LookupInv ==
    ASSUME VerificationConstants, VerificationInv, NEW q \in Requests, NEW found \in BOOLEAN,
           Lookup(q, found)
    PROVE  VerificationInv'
<1> DEFINE h == request[q].host
           token == GenerateChallenge(h, found)
           new == [request[q] EXCEPT !.pc = "store", !.token = token,
                                     !.steady = request[q].steady /\ found]
<1>1. request[q] \in VerificationRequest /\ request[q].pc = "lookup" /\ h \in Hosts
  BY NotIdle DEF Lookup, VerificationInv, VerificationRequest
<1>2. token \in Tokens /\ token # NoToken
  <2>1. issued \in Tokens /\ txt[h] \in Tokens \cup {NoToken}
    BY <1>1 DEF VerificationInv, StoreTypeOK
  <2>2. token <= MaxTokens
    BY DEF Lookup
  <2> QED BY <2>1, <2>2 DEF GenerateChallenge, Tokens, NoToken, VerificationConstants
<1>3. found /\ txt[h] # NoToken => token = txt[h]
  BY DEF GenerateChallenge
<1>4. request' = [request EXCEPT ![q] = new] /\ issued' \in Tokens
      /\ UNCHANGED <<challenges, records, txt, file, made, owned, tested>>
  <2>1. issued' = IF token > issued THEN token ELSE issued
    BY DEF Lookup
  <2>2. issued' \in Tokens
    BY <1>2, <2>1 DEF VerificationInv, StoreTypeOK
  <2>3. request' = [request EXCEPT ![q] = new]
    BY <1>1 DEF Lookup
  <2> QED BY <2>2, <2>3 DEF Lookup
<1> HIDE DEF token
<1>5. /\ new \in VerificationRequest /\ new.pc = "store" /\ new.token = token /\ new.host = h
      /\ new.op = request[q].op /\ (new.steady <=> request[q].steady /\ found)
  BY <1>1, <1>2 DEF VerificationRequest
<1>6. new.op = "status" /\ new.steady => txt[h] # NoToken /\ token = txt[h]
  BY <1>1, <1>3, <1>5 DEF VerificationInv, Awaited
<1>7. challenges' \in [Hosts -> Tokens \cup {NoToken}]
  BY <1>4 DEF VerificationInv, StoreTypeOK
<1> HIDE DEF new
<1> QED BY <1>2, <1>4, <1>5, <1>6, <1>7, MoveInv

LEMMA StoreInv ==
    ASSUME VerificationInv, NEW q \in Requests, Store(q)
    PROVE  VerificationInv'
<1> DEFINE new == [request[q] EXCEPT !.pc = IF request[q].op = "status" THEN "dns" ELSE "done"]
<1>1. request[q] \in VerificationRequest /\ request[q].pc = "store"
  BY NotIdle DEF Store, VerificationInv
<1>2. /\ new \in VerificationRequest /\ new.pc \in {"dns", "done"} /\ (new.op = "status" => new.pc = "dns")
      /\ new.token = request[q].token /\ new.host = request[q].host
      /\ new.op = request[q].op /\ new.steady = request[q].steady
  BY <1>1 DEF VerificationRequest
<1>3. /\ request' = [request EXCEPT ![q] = new]
      /\ challenges' \in [Hosts -> Tokens \cup {NoToken}] /\ issued' \in Tokens
      /\ UNCHANGED <<records, txt, file, made, owned, tested>>
  BY <1>1 DEF Store, VerificationInv, StoreTypeOK, VerificationRequest
<1>4. new.token # NoToken
  BY <1>1, <1>2 DEF VerificationInv, Justified
<1>5. new.op = "status" /\ new.steady => txt[new.host] # NoToken /\ new.token = txt[new.host]
  BY <1>1, <1>2 DEF VerificationInv, Awaited
<1> HIDE DEF new
<1> QED BY <1>2, <1>3, <1>4, <1>5, MoveInv

LEMMA VerifyDNSInv ==
    ASSUME VerificationInv, NEW q \in Requests, NEW found \in BOOLEAN, verifyDNS(q, found)
    PROVE  VerificationInv'
<1> DEFINE h == request[q].host
<1>1. /\ request[q] \in VerificationRequest /\ request[q].pc = "dns" /\ h \in Hosts
      /\ request[q].token # NoToken
  BY NotIdle DEF verifyDNS, VerificationInv, Justified, VerificationRequest
<1>2. /\ UNCHANGED <<records, txt, file, made, owned, tested>> /\ issued' \in Tokens
      /\ challenges' \in [Hosts -> Tokens \cup {NoToken}]
  BY DEF verifyDNS, VerificationInv, StoreTypeOK
<1>3. request[q].op = "status" /\ request[q].steady =>
         txt[h] # NoToken /\ request[q].token = txt[h]
  BY <1>1 DEF VerificationInv, Awaited
<1>4. CASE found /\ txt[h] = request[q].token
  <2> DEFINE new == [request[q] EXCEPT !.pc = "record", !.method = "dns_txt"]
  <2>1. /\ new \in VerificationRequest /\ new.pc = "record" /\ new.method \in Methods /\ new.host = h
        /\ new.op = request[q].op /\ new.steady = request[q].steady
    BY <1>1 DEF VerificationRequest, Methods
  <2>2. request' = [request EXCEPT ![q] = new]
    BY <1>1, <1>4 DEF verifyDNS, Proved
  <2>3. h \in owned
    BY <1>1, <1>4 DEF VerificationInv, Justified
  <2> HIDE DEF new
  <2> QED BY <1>2, <1>3, <2>1, <2>2, <2>3, MoveInv
<1>5. CASE ~(found /\ txt[h] = request[q].token)
  <2> DEFINE new == [request[q] EXCEPT !.pc = "file", !.steady = request[q].steady /\ found]
  <2>1. /\ new \in VerificationRequest /\ new.pc = "file" /\ new.host = h /\ new.op = request[q].op
        /\ (new.steady <=> request[q].steady /\ found) /\ new.token = request[q].token
    BY <1>1 DEF VerificationRequest
  <2>2. request' = [request EXCEPT ![q] = new]
    BY <1>1, <1>5 DEF verifyDNS
  <2>3. ~(new.op = "status" /\ new.steady)
    BY <1>3, <1>5, <2>1
  <2> HIDE DEF new
  <2> QED BY <1>1, <1>2, <2>1, <2>2, <2>3, MoveInv
<1> QED BY <1>4, <1>5

LEMMA VerifyWellKnownInv ==
    ASSUME VerificationInv, NEW q \in Requests, NEW found \in BOOLEAN, verifyWellKnown(q, found)
    PROVE  VerificationInv'
<1> DEFINE h == request[q].host
<1>1. /\ request[q] \in VerificationRequest /\ request[q].pc = "file" /\ h \in Hosts
      /\ request[q].token # NoToken
  BY NotIdle DEF verifyWellKnown, VerificationInv, Justified, VerificationRequest
<1>2. /\ UNCHANGED <<records, txt, file, made, owned, tested>> /\ issued' \in Tokens
      /\ challenges' \in [Hosts -> Tokens \cup {NoToken}]
  BY DEF verifyWellKnown, VerificationInv, StoreTypeOK
<1>3. ~(request[q].op = "status" /\ request[q].steady)
  BY <1>1 DEF VerificationInv, Awaited
<1>4. CASE found /\ file[h] = request[q].token
  <2> DEFINE new == [request[q] EXCEPT !.pc = "record", !.method = "well_known"]
  <2>1. /\ new \in VerificationRequest /\ new.pc = "record" /\ new.method \in Methods /\ new.host = h
        /\ new.op = request[q].op /\ new.steady = request[q].steady
    BY <1>1 DEF VerificationRequest, Methods
  <2>2. request' = [request EXCEPT ![q] = new]
    BY <1>1, <1>4 DEF verifyWellKnown, Proved
  <2>3. h \in owned
    BY <1>1, <1>4 DEF VerificationInv, Justified
  <2> HIDE DEF new
  <2> QED BY <1>2, <1>3, <2>1, <2>2, <2>3, MoveInv
<1>5. CASE ~(found /\ file[h] = request[q].token)
  <2> DEFINE new == [request[q] EXCEPT !.pc = "done"]
  <2>1. /\ new \in VerificationRequest /\ new.pc = "done" /\ new.op = request[q].op
        /\ new.steady = request[q].steady
    BY <1>1 DEF VerificationRequest
  <2>2. request' = [request EXCEPT ![q] = new]
    BY <1>1, <1>5 DEF verifyWellKnown
  <2> HIDE DEF new
  <2> QED BY <1>2, <1>3, <2>1, <2>2, MoveInv
<1> QED BY <1>4, <1>5

-----------------------------------------------------------------------------
LEMMA OwnsIPInv ==
    ASSUME VerificationInv, NEW q \in Requests, NEW answered \in BOOLEAN, OwnsIP(q, answered)
    PROVE  VerificationInv'
<1> DEFINE h == request[q].host
<1>1. request[q] \in VerificationRequest /\ request[q].pc = "cloud" /\ h \in Hosts
  BY NotIdle DEF OwnsIP, VerificationInv, VerificationRequest
<1>2. /\ UNCHANGED <<records, txt, file, made, tested, challenges, issued>>
      /\ challenges' \in [Hosts -> Tokens \cup {NoToken}] /\ issued' \in Tokens
  BY DEF OwnsIP, VerificationInv, StoreTypeOK
<1>3. ~(request[q].op = "status" /\ request[q].steady)
  BY <1>1 DEF VerificationInv, Awaited
<1>4. CASE answered /\ h \in CloudHosts
  <2> DEFINE new == [request[q] EXCEPT !.pc = "record", !.method = "cloud_ip_ownership"]
  <2>1. /\ new \in VerificationRequest /\ new.pc = "record" /\ new.method \in Methods /\ new.host = h
        /\ new.op = request[q].op /\ new.steady = request[q].steady
    BY <1>1 DEF VerificationRequest, Methods
  <2>2. request' = [request EXCEPT ![q] = new] /\ owned' = owned \cup {h}
    BY <1>1, <1>4 DEF OwnsIP, Proved
  <2> HIDE DEF new
  <2>3. StoreTypeOK'
    BY <1>1, <1>2, <2>1, <2>2 DEF VerificationInv, StoreTypeOK
  <2>4. request'[q] = new /\ \A x \in Requests : x # q => request'[x] = request[x]
    BY <2>2 DEF VerificationInv, StoreTypeOK
  <2>5. Justified'
    BY <1>2, <2>1, <2>2, <2>4 DEF VerificationInv, Justified, TestedIsOwned, Cleared
  <2>6. Awaited'
    BY <1>2, <1>3, <2>1, <2>4 DEF VerificationInv, Awaited
  <2> QED BY <2>3, <2>5, <2>6 DEF VerificationInv
<1>5. CASE ~(answered /\ h \in CloudHosts)
  <2> DEFINE new == [request[q] EXCEPT !.pc = "done"]
  <2>1. /\ new \in VerificationRequest /\ new.pc = "done" /\ new.op = request[q].op
        /\ new.steady = request[q].steady
    BY <1>1 DEF VerificationRequest
  <2>2. request' = [request EXCEPT ![q] = new] /\ owned' = owned
    BY <1>1, <1>5 DEF OwnsIP
  <2> HIDE DEF new
  <2> QED BY <1>2, <1>3, <2>1, <2>2, MoveInv
<1> QED BY <1>4, <1>5

LEMMA RecordInv ==
    ASSUME VerificationInv, NEW q \in Requests, Record(q)
    PROVE  VerificationInv'
<1> DEFINE h == request[q].host
           new == [request[q] EXCEPT !.pc = "done"]
<1>1. request[q] \in VerificationRequest /\ request[q].pc = "record" /\ h \in Hosts
  BY NotIdle DEF Record, VerificationInv, VerificationRequest
<1>2. h \in owned /\ request[q].method \in Methods
  BY <1>1 DEF VerificationInv, Justified
<1>3. "none" \notin Methods
  BY DEF Methods
<1>4. /\ new \in VerificationRequest /\ new.pc = "done" /\ new.host = h /\ new.op = request[q].op
      /\ new.steady = request[q].steady
  BY <1>1 DEF VerificationRequest
<1>5. request' = [request EXCEPT ![q] = new]
      /\ records' = [records EXCEPT ![h] = request[q].method]
      /\ UNCHANGED <<challenges, txt, file, issued, made, owned, tested>>
  BY <1>1 DEF Record
<1> HIDE DEF new
<1>6. StoreTypeOK'
  BY <1>2, <1>4, <1>5 DEF VerificationInv, StoreTypeOK
<1>7. request'[q] = new /\ \A x \in Requests : x # q => request'[x] = request[x]
  BY <1>5 DEF VerificationInv, StoreTypeOK
<1>8. /\ records'[h] # "none" /\ \A x \in Hosts : x # h => records'[x] = records[x]
  BY <1>1, <1>2, <1>3, <1>5 DEF VerificationInv, StoreTypeOK
<1>9. Justified'
  BY <1>2, <1>4, <1>5, <1>7, <1>8 DEF VerificationInv, Justified, TestedIsOwned, Cleared
<1>10. Awaited'
  <2> SUFFICES ASSUME NEW x \in Requests, request'[x].op = "status", request'[x].steady
               PROVE  /\ request'[x].pc \notin {"file", "cloud"}
                      /\ request'[x].pc # "done" => txt[request'[x].host] # NoToken
                      /\ request'[x].pc \in {"store", "dns"} =>
                            request'[x].token = txt[request'[x].host]
                      /\ request'[x].pc = "done" =>
                            request'[x].host \in Blocked \/ records'[request'[x].host] # "none"
    BY <1>5 DEF Awaited
  <2>1. CASE x = q
    BY <1>4, <1>7, <1>8, <2>1
  <2>2. CASE x # q
    <3>1. request'[x] = request[x] /\ request[x] \in VerificationRequest \cup {Idle}
      BY <1>7, <2>2 DEF VerificationInv, StoreTypeOK
    <3>2. request[x] \in VerificationRequest
      BY <3>1 DEF Idle
    <3>3. request[x].host \in Hosts
      BY <3>2 DEF VerificationRequest
    <3> QED BY <1>8, <3>1, <3>3 DEF VerificationInv, Awaited
  <2> QED BY <2>1, <2>2
<1> QED BY <1>6, <1>9, <1>10 DEF VerificationInv
-----------------------------------------------------------------------------
(* What an owner does to the DNS of a host, every poll of that host notices. *)
LEMMA PublishTXTInv ==
    ASSUME VerificationInv, NEW h \in Hosts, NEW token \in Tokens \cup {NoToken},
           PublishTXT(h, token)
    PROVE  VerificationInv'
<1>1. /\ txt' = [txt EXCEPT ![h] = token]
      /\ owned' = IF token = NoToken THEN owned ELSE owned \cup {h}
      /\ UNCHANGED <<challenges, records, file, issued, made, tested>>
  BY DEF PublishTXT
<1>2. \A q \in Requests :
         /\ request[q] = Idle \/ request[q].host # h => request'[q] = request[q]
         /\ request[q] # Idle /\ request[q].host = h =>
               request'[q] = [request[q] EXCEPT !.steady = FALSE]
  BY DEF PublishTXT, Change
<1>3. \A q \in Requests : request[q] \in VerificationRequest \cup {Idle}
  BY DEF VerificationInv, StoreTypeOK
<1>4. \A q \in Requests :
         \/ request'[q] = request[q] /\ (request[q] = Idle \/ request[q].host # h)
         \/ /\ request[q] \in VerificationRequest /\ request'[q] \in VerificationRequest
            /\ request'[q].op = request[q].op /\ request'[q].host = request[q].host
            /\ request'[q].pc = request[q].pc /\ request'[q].token = request[q].token
            /\ request'[q].method = request[q].method /\ request'[q].steady = FALSE
  <2> TAKE q \in Requests
  <2>1. CASE request[q] = Idle \/ request[q].host # h
    BY <1>2, <2>1
  <2>2. CASE request[q] # Idle /\ request[q].host = h
    <3> DEFINE new == [request[q] EXCEPT !.steady = FALSE]
    <3>1. request[q] \in VerificationRequest
      BY <1>3, <2>2
    <3>2. /\ new \in VerificationRequest /\ new.op = request[q].op /\ new.host = request[q].host
          /\ new.pc = request[q].pc /\ new.token = request[q].token
          /\ new.method = request[q].method /\ new.steady = FALSE
      BY <3>1 DEF VerificationRequest
    <3>3. request'[q] = new
      BY <1>2, <2>2
    <3> HIDE DEF new
    <3> QED BY <3>1, <3>2, <3>3
  <2> QED BY <2>1, <2>2
<1>5. request' \in [Requests -> VerificationRequest \cup {Idle}]
  <2>1. request' = Change(h)
    BY DEF PublishTXT
  <2>2. DOMAIN request' = Requests /\ request' = [q \in Requests |-> request'[q]]
    BY <2>1 DEF Change
  <2> QED BY <1>3, <1>4, <2>2
<1>6. StoreTypeOK'
  BY <1>1, <1>5 DEF VerificationInv, StoreTypeOK
<1>7. txt'[h] = token /\ \A x \in Hosts : x # h => txt'[x] = txt[x]
  BY <1>1 DEF VerificationInv, StoreTypeOK
<1>8. owned \subseteq owned' /\ (token # NoToken => h \in owned')
  BY <1>1
<1>9. Justified'
  <2>1. \A x \in Hosts :
           txt'[x] # NoToken \/ file'[x] # NoToken \/ records'[x] # "none" => x \in owned'
    BY <1>1, <1>7, <1>8 DEF VerificationInv, Justified
  <2>2. \A q \in Requests :
           /\ request'[q].pc \in {"store", "dns", "file"} => request'[q].token # NoToken
           /\ request'[q].pc = "record" =>
                 request'[q].host \in owned' /\ request'[q].method \in Methods
    BY <1>4, <1>8 DEF VerificationInv, Justified
  <2>3. TestedIsOwned'
    BY <1>1, <1>8 DEF VerificationInv, Justified, TestedIsOwned, Cleared
  <2> QED BY <2>1, <2>2, <2>3 DEF Justified
<1>10. Awaited'
  <2> SUFFICES ASSUME NEW q \in Requests, request'[q].op = "status", request'[q].steady
               PROVE  /\ request'[q].pc \notin {"file", "cloud"}
                      /\ request'[q].pc # "done" => txt'[request'[q].host] # NoToken
                      /\ request'[q].pc \in {"store", "dns"} =>
                            request'[q].token = txt'[request'[q].host]
                      /\ request'[q].pc = "done" =>
                            request'[q].host \in Blocked \/ records[request'[q].host] # "none"
    BY <1>1 DEF Awaited
  <2>1. request'[q] = request[q] /\ (request[q] = Idle \/ request[q].host # h)
    BY <1>4
  <2>2. request[q] \in VerificationRequest /\ request[q].host \in Hosts /\ request[q].host # h
    BY <1>3, <2>1 DEF Idle, VerificationRequest
  <2> QED BY <1>7, <2>1, <2>2 DEF VerificationInv, Awaited
<1> QED BY <1>6, <1>9, <1>10 DEF VerificationInv

LEMMA PublishFileInv ==
    ASSUME VerificationInv, NEW h \in Hosts, NEW token \in Tokens, PublishFile(h, token)
    PROVE  VerificationInv'
<1>1. /\ file' = [file EXCEPT ![h] = token] /\ owned' = owned \cup {h}
      /\ UNCHANGED <<challenges, records, txt, request, issued, made, tested>>
  BY DEF PublishFile
<1>2. StoreTypeOK'
  BY <1>1 DEF VerificationInv, StoreTypeOK
<1>3. Justified'
  BY <1>1 DEF VerificationInv, StoreTypeOK, Justified, TestedIsOwned, Cleared
<1>4. Awaited'
  BY <1>1 DEF VerificationInv, Awaited
<1> QED BY <1>2, <1>3, <1>4 DEF VerificationInv

LEMMA StartRunInv ==
    ASSUME VerificationConstants, VerificationInv, NEW run \in RunRequests, StartRun(run)
    PROVE  VerificationInv'
<1> DEFINE host == resolveTargetHost(run)
<1>1. StoreTypeOK'
  BY DEF StartRun, VerificationInv, StoreTypeOK
<1>2. Justified'
  <2>1. host \in Hosts \cup {NoHost}
    BY DEF VerificationConstants, CreateRunRequest, resolveTargetHost
  <2>2. host # NoHost => Cleared(host)
    BY <2>1 DEF StartRun, checkTargetAllowed, VerificationInv, Justified, Cleared
  <2>3. NoHost \notin Reached(run)
    BY DEF Reached
  <2>4. Declared(run) => \A h \in Reached(run) : Cleared(h)
    BY <2>2, <2>3 DEF Declared
  <2>5. tested' = tested \cup {run} /\ UNCHANGED <<records, txt, file, request, owned>>
    BY DEF StartRun
  <2>6. TestedIsOwned'
    BY <2>2, <2>4, <2>5 DEF VerificationInv, Justified, TestedIsOwned, Cleared
  <2> QED BY <2>5, <2>6 DEF VerificationInv, Justified
<1>3. Awaited'
  BY DEF StartRun, VerificationInv, Awaited
<1> QED BY <1>1, <1>2, <1>3 DEF VerificationInv

LEMMA VerificationInvInit ==
    ASSUME VerificationConstants, VerificationInit PROVE VerificationInv
<1>1. StoreTypeOK
  BY DEF VerificationConstants, VerificationInit, StoreTypeOK, Tokens, OldToken, NoToken
<1>2. Justified
  BY DEF VerificationInit, Justified, TestedIsOwned, Cleared, Idle, NoToken
<1>3. Awaited
  BY DEF VerificationInit, Awaited, Idle
<1> QED BY <1>1, <1>2, <1>3 DEF VerificationInv

(* One step for every access to the maps, the DNS or a file. *)
LEMMA VerificationInvNext ==
    ASSUME VerificationConstants, VerificationInv, [VerificationNext]_verificationVars
    PROVE  VerificationInv'
<1>1. ASSUME NEW q \in Requests, NEW h \in Hosts,
             Status(q, h) \/ Challenge(q, h) \/ Confirm(q, h) \/ ConfirmCloud(q, h)
      PROVE  VerificationInv'
  BY <1>1, StatusInv, OthersBeginInv
<1>2. ASSUME NEW q \in Requests, NEW found \in BOOLEAN,
             Lookup(q, found) \/ verifyDNS(q, found) \/ verifyWellKnown(q, found)
      PROVE  VerificationInv'
  BY <1>2, LookupInv, VerifyDNSInv, VerifyWellKnownInv
<1>3. ASSUME NEW q \in Requests, Store(q) \/ Record(q) PROVE VerificationInv'
  BY <1>3, StoreInv, RecordInv
<1>4. ASSUME NEW q \in Requests, NEW answered \in BOOLEAN, OwnsIP(q, answered)
      PROVE  VerificationInv'
  BY <1>4, OwnsIPInv
<1>5. CASE Owner
  <2>1. OldToken..issued \subseteq Tokens
    BY DEF VerificationInv, StoreTypeOK, Tokens, OldToken, VerificationConstants
  <2>2. PICK h \in Hosts \ Blocked :
           \/ \E token \in {NoToken} \cup OldToken..issued : PublishTXT(h, token)
           \/ \E token \in OldToken..issued : PublishFile(h, token)
    BY <1>5 DEF Owner
  <2>3. CASE \E token \in {NoToken} \cup OldToken..issued : PublishTXT(h, token)
    BY <2>1, <2>3, PublishTXTInv
  <2>4. CASE \E token \in OldToken..issued : PublishFile(h, token)
    BY <2>1, <2>4, PublishFileInv
  <2> QED BY <2>2, <2>3, <2>4
<1>6. ASSUME NEW run \in RunRequests, StartRun(run) PROVE VerificationInv'
  BY <1>6, StartRunInv
<1>7. CASE UNCHANGED verificationVars
  BY <1>7 DEF verificationVars, VerificationInv, StoreTypeOK, Justified, TestedIsOwned, Cleared, Awaited
<1> QED
  BY <1>1, <1>2, <1>3, <1>4, <1>5, <1>6, <1>7 DEF VerificationNext

(* The types are part of the invariant, or follow from it. *)
LEMMA VerificationInvTypes == VerificationInv => VerificationTypeOK
BY DEF VerificationInv, StoreTypeOK, VerificationTypeOK, VerificationRequest

(* The types hold in every reachable state of the verification store. *)
THEOREM VerificationTypeCorrect ==
    ASSUME VerificationConstants PROVE VerificationSpec => []VerificationTypeOK
BY VerificationInvTypes, VerificationInvInit, VerificationInvNext, PTL DEF VerificationSpec

(* The gate of the coordinator lets no run through that declares a public host
   whose owner has proved nothing, or a blocked one, however requests for it
   interleave between the lookups and the maps of verification.go and whatever
   was issued or published before; what a run sends to without declaring it,
   the gate does not see, and the theorem says nothing of it. *)
THEOREM OnlyOwnedIsTested ==
    ASSUME VerificationConstants PROVE VerificationSpec => []TestedIsOwned
<1>1. VerificationInv => TestedIsOwned
  BY DEF VerificationInv, Justified
<1> QED BY <1>1, VerificationInvInit, VerificationInvNext, PTL DEF VerificationSpec

(* A poll ends with the host verified if its DNS held one token all along and
   answered, although the poll issues a challenge of its own: the challenge it
   issues is the token it finds, and no other request can change that. *)
THEOREM PollsFindProofs ==
    ASSUME VerificationConstants PROVE VerificationSpec => []PollFindsProof
<1>1. VerificationInv => PollFindsProof
  BY DEF VerificationInv, Awaited, PollFindsProof
<1> QED BY <1>1, VerificationInvInit, VerificationInvNext, PTL DEF VerificationSpec

-----------------------------------------------------------------------------
(* The reports about finished runs.  Arithmetic first: the code's floats are
   quotients here, compared by cross-multiplication.                       *)

LEMMA FloorDivision ==
    ASSUME NEW a \in Int, NEW b \in Nat \ {0}
    PROVE  a \div b \in Int /\ b * (a \div b) <= a /\ a < b * (a \div b) + b
OBVIOUS

LEMMA ScaledOrder ==
    ASSUME NEW x \in Int, NEW y \in Int, NEW z \in Nat, x <= y
    PROVE  z * x <= z * y /\ x * z <= y * z
OBVIOUS

LEMMA StrictlyScaledOrder ==
    ASSUME NEW x \in Int, NEW y \in Int, NEW z \in Nat \ {0}, x < y
    PROVE  z * x < z * y /\ x * z < y * z
OBVIOUS

(* x/r is at least y/q: so is its minimum with a third number, and it passes
   every threshold that y/q passes. *)
LEMMA CappedRatio ==
    ASSUME NEW x \in Nat, NEW y \in Nat, NEW r \in Nat \ {0}, NEW q \in Nat \ {0},
           NEW k \in Nat, NEW cap \in Nat, x * q >= y * r
    PROVE  AtMost(k * x, cap * r) * q >= AtMost(k * y, cap * q) * r
<1>1. (k * x) * q >= (k * y) * r
  <2>1. k * (x * q) >= k * (y * r)
    <3>1. x * q \in Int /\ y * r \in Int
      OBVIOUS
    <3> QED BY <3>1, ScaledOrder
  <2>2. k * (x * q) = (k * x) * q /\ k * (y * r) = (k * y) * r
    OBVIOUS
  <2> QED BY <2>1, <2>2
<1>2. (cap * r) * q = (cap * q) * r
  OBVIOUS
<1>3. /\ k * x \in Int /\ cap * r \in Int /\ k * y \in Int /\ cap * q \in Int
  OBVIOUS
<1>4. CASE k * x > cap * r
  <2>1. AtMost(k * x, cap * r) = cap * r
    BY <1>4 DEF AtMost
  <2>2. AtMost(k * y, cap * q) \in Int /\ AtMost(k * y, cap * q) <= cap * q
    BY <1>3 DEF AtMost
  <2>3. AtMost(k * y, cap * q) * r <= (cap * q) * r
    BY <2>2, <1>3, ScaledOrder
  <2> QED BY <2>1, <2>3, <1>2
<1>5. CASE ~(k * x > cap * r)
  <2>1. AtMost(k * x, cap * r) = k * x
    BY <1>5 DEF AtMost
  <2>2. AtMost(k * y, cap * q) \in Int /\ AtMost(k * y, cap * q) <= k * y
    BY <1>3 DEF AtMost
  <2>3. AtMost(k * y, cap * q) * r <= (k * y) * r
    BY <2>2, <1>3, ScaledOrder
  <2>4. AtMost(k * y, cap * q) * r \in Int /\ (k * y) * r \in Int /\ (k * x) * q \in Int
    BY <2>2
  <2> QED BY ONLY <2>1, <2>3, <2>4, <1>1
<1> QED BY <1>4, <1>5

LEMMA RatioAbove ==
    ASSUME NEW x \in Nat, NEW y \in Nat, NEW r \in Nat \ {0}, NEW q \in Nat \ {0},
           x * q >= y * r
    PROVE  /\ x = 0 => y = 0
           /\ y * 10 > q => x * 10 > r
<1>1. ASSUME x = 0, y # 0 PROVE FALSE
  <2>1. 0 * r < y * r
    BY <1>1, StrictlyScaledOrder
  <2>2. x * q = 0
    BY <1>1
  <2> QED BY <2>1, <2>2
<1>2. ASSUME y * 10 > q, ~(x * 10 > r) PROVE FALSE
  <2>1. q * r < (y * 10) * r
    BY <1>2, StrictlyScaledOrder
  <2>2. (x * 10) * q <= r * q
    BY <1>2, ScaledOrder
  <2>3. (x * 10) * q = 10 * (x * q) /\ (y * 10) * r = 10 * (y * r) /\ q * r = r * q
    OBVIOUS
  <2>4. x * q \in Int /\ y * r \in Int /\ q * r \in Int
    OBVIOUS
  <2> QED BY ONLY <2>1, <2>2, <2>3, <2>4, x * q >= y * r
<1> QED BY <1>1, <1>2

(* Rounding k - m/r to the nearest integer, half a point up. *)
LEMMA RoundedOrder ==
    ASSUME NEW k \in Int, NEW l \in Int, k <= l,
           NEW m \in Nat, NEW n \in Nat, NEW r \in Nat \ {0}, NEW q \in Nat \ {0},
           m * q >= n * r
    PROVE  (2 * (r * k - m) + r) \div (2 * r) <= (2 * (q * l - n) + q) \div (2 * q)
<1> DEFINE a == 2 * (r * k - m) + r
           b == 2 * (q * l - n) + q
           u == a \div (2 * r)
           v == b \div (2 * q)
<1>1. a \in Int /\ b \in Int /\ 2 * r \in Nat \ {0} /\ 2 * q \in Nat \ {0}
  OBVIOUS
<1>2. u \in Int /\ (2 * r) * u <= a
  BY <1>1, FloorDivision
<1>3. v \in Int /\ b < (2 * q) * v + 2 * q
  BY <1>1, FloorDivision
<1>4. SUFFICES ASSUME v + 1 <= u PROVE FALSE
  <2> HIDE DEF u, v
  <2> QED BY <1>2, <1>3 DEF u, v
<1> HIDE DEF u, v
<1>5. (2 * r) * (v + 1) <= a
  <2>1. (2 * r) * (v + 1) <= (2 * r) * u
    BY <1>1, <1>2, <1>3, <1>4, ScaledOrder
  <2>2. (2 * r) * (v + 1) \in Int /\ (2 * r) * u \in Int
    BY <1>2, <1>3
  <2> QED BY ONLY <1>1, <1>2, <2>1, <2>2
<1>6. ((2 * r) * (v + 1)) * q <= a * q
  <2>1. (2 * r) * (v + 1) \in Int
    BY <1>3
  <2> QED BY <1>1, <1>5, <2>1, ScaledOrder
<1>7. a * q <= b * r
  <2>1. (r * k) * q <= (r * l) * q
    <3>1. r * k <= r * l
      BY ScaledOrder
    <3> QED BY <3>1, ScaledOrder
  <2>2. a * q = 2 * ((r * k) * q) - 2 * (m * q) + r * q
    OBVIOUS
  <2>3. b * r = 2 * ((r * l) * q) - 2 * (n * r) + r * q
    OBVIOUS
  <2>4. (r * k) * q \in Int /\ (r * l) * q \in Int /\ m * q \in Int /\ n * r \in Int /\ r * q \in Int
    OBVIOUS
  <2> QED BY ONLY <2>1, <2>2, <2>3, <2>4, m * q >= n * r
<1>8. b * r < ((2 * q) * v + 2 * q) * r
  <2>1. (2 * q) * v + 2 * q \in Int
    BY <1>3
  <2> QED BY <1>1, <1>3, <2>1, StrictlyScaledOrder
<1>9. ((2 * q) * v + 2 * q) * r = ((2 * r) * (v + 1)) * q
  BY <1>3
<1>10. a * q \in Int /\ b * r \in Int /\ ((2 * r) * (v + 1)) * q \in Int
  BY <1>1, <1>3
<1> QED BY ONLY <1>6, <1>7, <1>8, <1>9, <1>10

LEMMA PenaltyTypes ==
    /\ \A p99 \in Nat : LatencyPenalty(p99) \in 0..30
    /\ \A s \in Measured : CrashPenalty(s) \in 0..15
<1>1. \A p99 \in Nat : LatencyPenalty(p99) \in 0..30
  BY DEF LatencyPenalty
<1> QED BY <1>1 DEF CrashPenalty

(* The points a summary loses whatever its error rate. *)
Penalties(s) == LatencyPenalty(s.p99) + CrashPenalty(s) + IF s.tripped THEN 20 ELSE 0

LEMMA MeasuredTypes ==
    ASSUME NEW s \in Measured
    PROVE  /\ s.requests \in Nat \ {0} /\ s.errors \in Nat /\ s.fatal \in Nat
           /\ s.p99 \in Nat /\ s.tripped \in BOOLEAN
           /\ s # NotMeasured
           /\ Penalties(s) \in Nat
<1>1. /\ s.requests \in Nat \ {0} /\ s.errors \in Nat /\ s.fatal \in Nat
      /\ s.p99 \in Nat /\ s.tripped \in BOOLEAN
  BY DiagConstants DEF DiagConstants
<1>2. s # NotMeasured
  BY <1>1 DEF NotMeasured
<1>3. LatencyPenalty(s.p99) \in Nat /\ CrashPenalty(s) \in Nat
  BY <1>1, PenaltyTypes
<1> QED BY <1>1, <1>2, <1>3 DEF Penalties

LEMMA ClampedScore ==
    ASSUME NEW s \in Measured
    PROVE  LET k == 100 - Penalties(s)
               m == AtMost(150 * s.errors, 55 * s.requests)
               rounded == (2 * (s.requests * k - m) + s.requests) \div (2 * s.requests)
           IN  /\ k \in Int /\ m \in Nat /\ rounded \in Int
               /\ HealthScore(s) = AtMost(AtLeast(rounded, 5), 100)
               /\ HealthScore(s) \in 5..100
<1> DEFINE k == 100 - Penalties(s)
           m == AtMost(150 * s.errors, 55 * s.requests)
           points == s.requests * k - m
           rounded == (2 * points + s.requests) \div (2 * s.requests)
<1>1. /\ s.requests \in Nat \ {0} /\ s.errors \in Nat /\ k \in Int
  BY MeasuredTypes
<1>2. m \in Nat
  BY <1>1 DEF AtMost
<1>3. HealthScore(s) = AtMost(AtLeast(rounded, 5), 100)
  <2>1. 100 - LatencyPenalty(s.p99) - CrashPenalty(s) - (IF s.tripped THEN 20 ELSE 0) = k
    <3>1. LatencyPenalty(s.p99) \in Int /\ CrashPenalty(s) \in Int
      BY MeasuredTypes, PenaltyTypes
    <3> QED BY <3>1 DEF Penalties
  <2> QED BY <2>1 DEF HealthScore
<1>4. rounded \in Int
  <2>1. 2 * points + s.requests \in Int /\ 2 * s.requests \in Nat \ {0}
    <3> HIDE DEF k, m
    <3> QED BY <1>1, <1>2
  <2> QED BY <2>1, FloorDivision
<1>5. HealthScore(s) \in 5..100
  <2> HIDE DEF rounded
  <2> QED BY <1>3, <1>4 DEF AtMost, AtLeast
<1> QED BY <1>1, <1>2, <1>3, <1>4, <1>5

LEMMA PenaltiesOrder ==
    ASSUME NEW a \in Measured, NEW b \in Measured, NoBetter(a, b)
    PROVE  Penalties(b) <= Penalties(a)
<1>1. /\ a.requests \in Nat \ {0} /\ a.fatal \in Nat /\ a.p99 \in Nat
      /\ b.requests \in Nat \ {0} /\ b.fatal \in Nat /\ b.p99 \in Nat
  BY MeasuredTypes
<1>2. LatencyPenalty(b.p99) <= LatencyPenalty(a.p99)
  <2>1. a.p99 >= b.p99
    BY DEF NoBetter
  <2>2. \A x, y \in Nat : x >= y => LatencyPenalty(y) <= LatencyPenalty(x)
    BY DEF LatencyPenalty
  <2> QED BY <1>1, <2>1, <2>2
<1>3. CrashPenalty(b) <= CrashPenalty(a)
  <2>1. a.fatal * b.requests >= b.fatal * a.requests
    BY DEF NoBetter, Fewer
  <2>2. /\ a.fatal = 0 => b.fatal = 0
        /\ b.fatal * 10 > b.requests => a.fatal * 10 > a.requests
    BY ONLY <1>1, <2>1, RatioAbove
  <2> QED BY <2>2 DEF CrashPenalty
<1>4. (IF b.tripped THEN 20 ELSE 0) <= (IF a.tripped THEN 20 ELSE 0)
  BY DEF NoBetter
<1>5. /\ LatencyPenalty(a.p99) \in Int /\ CrashPenalty(a) \in Int
      /\ LatencyPenalty(b.p99) \in Int /\ CrashPenalty(b) \in Int
  BY MeasuredTypes, PenaltyTypes
<1> QED BY <1>2, <1>3, <1>4, <1>5 DEF Penalties

(* A measurement that is no better has no higher health score. *)
LEMMA ScoreOrder ==
    ASSUME NEW a \in Measured, NEW b \in Measured, NoBetter(a, b)
    PROVE  HealthScore(a) <= HealthScore(b)
<1> DEFINE k == 100 - Penalties(a)
           l == 100 - Penalties(b)
           m == AtMost(150 * a.errors, 55 * a.requests)
           n == AtMost(150 * b.errors, 55 * b.requests)
           u == (2 * (a.requests * k - m) + a.requests) \div (2 * a.requests)
           v == (2 * (b.requests * l - n) + b.requests) \div (2 * b.requests)
<1>1. /\ a.requests \in Nat \ {0} /\ a.errors \in Nat
      /\ b.requests \in Nat \ {0} /\ b.errors \in Nat
  BY MeasuredTypes
<1>2. /\ k \in Int /\ m \in Nat /\ u \in Int
      /\ HealthScore(a) = AtMost(AtLeast(u, 5), 100)
  BY ClampedScore
<1>3. /\ l \in Int /\ n \in Nat /\ v \in Int
      /\ HealthScore(b) = AtMost(AtLeast(v, 5), 100)
  BY ClampedScore
<1>4. k <= l
  BY PenaltiesOrder, MeasuredTypes
<1>5. m * b.requests >= n * a.requests
  <2>1. a.errors * b.requests >= b.errors * a.requests
    BY DEF NoBetter, Fewer
  <2> QED BY ZenonT(40), <1>1, <2>1, CappedRatio
<1>6. u <= v
  <2> HIDE DEF k, l, m, n
  <2> QED BY <1>1, <1>2, <1>3, <1>4, <1>5, RoundedOrder
<1> HIDE DEF u, v
<1> QED BY <1>2, <1>3, <1>6 DEF AtMost, AtLeast

LEMMA SafeOrder ==
    ASSUME NEW x \in 5..100, NEW y \in 5..100, x <= y, NEW vus \in Nat \ {0}
    PROVE  /\ SafeVUCount(x, vus) <= SafeVUCount(y, vus)
           /\ SafeVUCount(x, vus) \in 0..vus
<1> DEFINE most == (vus * 7) \div 10
           few(z) == (vus * z) \div 120
<1>1. most \in Int /\ 10 * most <= vus * 7 /\ vus * 7 < 10 * most + 10
  BY FloorDivision
<1>2. ASSUME NEW z \in 5..100 PROVE few(z) \in Int /\ 120 * few(z) <= vus * z /\ vus * z < 120 * few(z) + 120
  <2>1. vus * z \in Int
    OBVIOUS
  <2> QED BY <2>1, FloorDivision
<1>3. vus * x \in Int /\ vus * y \in Int /\ vus * x <= vus * y
  BY ScaledOrder
<1>4. few(x) <= few(y)
  <2>1. few(x) \in Int /\ few(y) \in Int /\ 120 * few(x) <= vus * x /\ vus * y < 120 * few(y) + 120
    BY <1>2
  <2> HIDE DEF few
  <2> QED BY ONLY <1>3, <2>1
<1>5. ASSUME NEW z \in 5..100, z < 60 PROVE few(z) <= most /\ few(z) <= vus
  <2>1. vus * z <= vus * 60 /\ vus * z \in Int
    BY <1>5, ScaledOrder
  <2>2. few(z) \in Int /\ 120 * few(z) <= vus * z
    BY <1>2
  <2> HIDE DEF few, most
  <2> QED BY ONLY <1>1, <2>1, <2>2, vus \in Nat \ {0}
<1>6. most <= vus
  <2> HIDE DEF most
  <2> QED BY <1>1
<1>7. few(x) \in Int /\ few(y) \in Int
  BY <1>2
<1>8. /\ SafeVUCount(x, vus) = IF x >= 85 THEN vus ELSE IF x >= 60 THEN AtLeast(most, 1) ELSE AtLeast(few(x), 1)
      /\ SafeVUCount(y, vus) = IF y >= 85 THEN vus ELSE IF y >= 60 THEN AtLeast(most, 1) ELSE AtLeast(few(y), 1)
  BY DEF SafeVUCount
<1>9. /\ x < 60 => few(x) <= most /\ few(x) <= vus
      /\ y < 60 => few(y) <= most /\ few(y) <= vus
  BY <1>5
<1> HIDE DEF few, most
<1> QED BY <1>1, <1>4, <1>6, <1>7, <1>8, <1>9 DEF AtLeast

(* What the repository and the pool hold: finished runs with the report
   Analyze makes of their summary, and results with a score. *)
Reported ==
    {[status |-> status, summary |-> s, vus |-> vus, report |-> Analyze(s, vus, chaos)] :
        status \in {"completed", "aborted", "failed"}, s \in Measured \cup {NotMeasured},
        vus \in Int, chaos \in BOOLEAN}

Result == [score : 1..100, p99 : Nat]

DiagInv == finished \in Seq(Reported) /\ pool \in [Pools -> Seq(Result)]

LEMMA AnalyzeTypes ==
    ASSUME NEW s \in Measured \cup {NotMeasured}, NEW vus \in Int, NEW chaos \in BOOLEAN
    PROVE  /\ Analyze(s, vus, chaos).score \in 5..100
           /\ Analyze(s, vus, chaos).safe \in 0..AtLeast(vus, 10)
           /\ P99Of(s) \in Nat
<1> DEFINE users == IF vus <= 0 THEN 10 ELSE vus
<1>0. users \in Nat \ {0} /\ users <= AtLeast(vus, 10) /\ AtLeast(vus, 10) \in Nat
  BY DEF AtLeast
<1>1. CASE s = NotMeasured
  <2>1. s.requests = 0
    BY <1>1 DEF NotMeasured
  <2>2. Analyze(s, vus, chaos).score = 50 /\ Analyze(s, vus, chaos).safe = 0
    BY <2>1 DEF Analyze
  <2> QED BY <1>0, <2>1, <2>2 DEF P99Of
<1>2. CASE s \in Measured
  <2>1. s.requests \in Nat \ {0} /\ s.p99 \in Nat
    BY <1>2, MeasuredTypes
  <2>2. HealthScore(s) \in 5..100
    BY <1>2, ClampedScore
  <2>3. /\ Analyze(s, vus, chaos).score = HealthScore(s)
        /\ Analyze(s, vus, chaos).safe = SafeVUCount(HealthScore(s), users)
    BY <2>1 DEF Analyze
  <2>4. SafeVUCount(HealthScore(s), users) \in 0..users
    <3> DEFINE x == HealthScore(s)
    <3>1. x \in 5..100 /\ x <= x
      BY <2>2
    <3> HIDE DEF users, x
    <3>2. SafeVUCount(x, users) \in 0..users
      BY <1>0, <3>1, SafeOrder
    <3> QED BY <3>2 DEF x
  <2> HIDE DEF users
  <2> QED BY <1>0, <2>1, <2>2, <2>3, <2>4 DEF P99Of
<1> QED BY <1>1, <1>2

LEMMA ShareInv ==
    ASSUME DiagInv, NEW category, NEW score \in 1..100, NEW p99 \in Nat,
           Share(category, score, p99)
    PROVE  pool' \in [Pools -> Seq(Result)]
<1>1. [score |-> score, p99 |-> p99] \in Result
  BY DEF Result
<1> DEFINE c == CategoryOf(category)
           new == [score |-> score, p99 |-> p99]
<1>2. pool' = [pool EXCEPT ![c] = Append(pool[c], new)]
  BY DEF Share
<1> HIDE DEF c, new
<1>3. c \in Pools => Append(pool[c], new) \in Seq(Result)
  BY <1>1 DEF DiagInv, new
<1> QED BY <1>2, <1>3 DEF DiagInv

LEMMA DiagNextInv == ASSUME DiagInv, [DiagNext]_diagVars PROVE DiagInv'
<1>1. ASSUME NEW s \in Measured \cup {NotMeasured}, NEW config \in Configured,
             NEW status \in StatusesAfter(s), Finish(s, status, config)
      PROVE  DiagInv'
  <2> DEFINE report == Analyze(s, config.vus, config.chaos)
             run == [status |-> status, summary |-> s, vus |-> config.vus, report |-> report]
  <2>1. config.vus \in Int /\ config.chaos \in BOOLEAN /\ config.category \in STRING
    BY DiagConstants DEF DiagConstants
  <2>2. status \in {"completed", "aborted", "failed"}
    BY DEF StatusesAfter
  <2>3. run \in Reported
    BY <2>1, <2>2 DEF Reported
  <2>4. finished' = Append(finished, run)
    BY <1>1 DEF Finish
  <2>5. finished' \in Seq(Reported)
    <3> HIDE DEF run
    <3> QED BY <2>3, <2>4 DEF DiagInv
  <2>6. pool' \in [Pools -> Seq(Result)]
    <3>1. report.score \in 1..100 /\ P99Of(s) \in Nat
      <4>1. report.score \in 5..100 /\ P99Of(s) \in Nat
        BY <2>1, AnalyzeTypes
      <4> HIDE DEF report
      <4> QED BY <4>1
    <3>2. UNCHANGED pool \/ Share(config.category, report.score, P99Of(s))
      BY <1>1 DEF Finish
    <3> HIDE DEF report
    <3> QED BY <3>1, <3>2, ShareInv DEF DiagInv
  <2> QED BY <2>5, <2>6 DEF DiagInv
<1>2. ASSUME NEW category \in Pools, NEW result \in Shared,
             Submit(category, result.score, result.p99)
      PROVE  DiagInv'
  <2>1. result.score \in 1..100 /\ result.p99 \in Nat
    BY DiagConstants DEF DiagConstants
  <2> QED BY <1>2, <2>1, ShareInv DEF Submit, DiagInv
<1>3. CASE UNCHANGED diagVars
  BY <1>3 DEF diagVars, DiagInv
<1> QED BY <1>1, <1>2, <1>3 DEF DiagNext

LEMMA DiagInitInv == DiagInit => DiagInv
BY DEF DiagInit, DiagInv

LEMMA RankOrder ==
    ASSUME DiagInv, NEW c \in Pools, NEW x \in Int, NEW y \in Int, x <= y,
           NEW p \in Nat, NEW q \in Nat, p >= q
    PROVE  /\ Compare(c, x, p).health <= Compare(c, y, q).health
           /\ Compare(c, x, p).latency <= Compare(c, y, q).latency
<1> DEFINE below(z) == {i \in DOMAIN pool[c] : pool[c][i].score <= z}
           slower(z) == {i \in DOMAIN pool[c] : pool[c][i].p99 > z}
<1>1. pool[c] \in Seq(Result)
  BY DEF DiagInv
<1>2. IsFiniteSet(DOMAIN pool[c])
  <2>1. PICK n \in Nat : DOMAIN pool[c] = 1..n
    BY <1>1
  <2>2. IsFiniteSet(1..n)
    BY FS_Interval
  <2> QED BY <2>1, <2>2
<1>3. \A i \in DOMAIN pool[c] : pool[c][i].score \in Int /\ pool[c][i].p99 \in Int
  <2>1. \A i \in DOMAIN pool[c] : pool[c][i] \in Result
    BY <1>1
  <2> QED BY <2>1 DEF Result
<1>4. below(x) \subseteq below(y) /\ slower(p) \subseteq slower(q)
  BY <1>3
<1>5. IsFiniteSet(below(y)) /\ IsFiniteSet(slower(q))
  BY <1>2, FS_Subset
<1>6. /\ Cardinality(below(x)) <= Cardinality(below(y))
      /\ Cardinality(slower(p)) <= Cardinality(slower(q))
  BY <1>4, <1>5, FS_Subset
<1>7. /\ percentileRank(c, x) <= percentileRank(c, y)
      /\ fasterThanRank(c, p) <= fasterThanRank(c, q)
  BY <1>6 DEF percentileRank, fasterThanRank
<1> QED BY <1>7 DEF Compare

LEMMA GradesOrder ==
    \A x, y \in 5..100 :
        LET grades == [red |-> 0, yellow |-> 1, green |-> 2] IN
        x <= y => grades[BadgeColor(x)] <= grades[BadgeColor(y)]
<1> DEFINE grades == [red |-> 0, yellow |-> 1, green |-> 2]
<1>1. \A x \in 5..100 :
         /\ x >= 85 => grades[BadgeColor(x)] = 2
         /\ x >= 60 /\ x < 85 => grades[BadgeColor(x)] = 1
         /\ x < 60 => grades[BadgeColor(x)] = 0
  BY DEF BadgeColor
<1> HIDE DEF grades
<1>2. ASSUME NEW x \in 5..100, NEW y \in 5..100, x <= y
      PROVE  grades[BadgeColor(x)] <= grades[BadgeColor(y)]
  <2>1. CASE y >= 85
    BY <1>1, <1>2, <2>1
  <2>2. CASE y >= 60 /\ y < 85
    BY <1>1, <1>2, <2>2
  <2>3. CASE y < 60
    BY <1>1, <1>2, <2>3
  <2> QED BY <2>1, <2>2, <2>3
<1> QED BY <1>2 DEF grades

(* Two finished runs, the one measured no better than the other. *)
LEMMA ReportsOrder ==
    ASSUME NEW a \in Reported, NEW b \in Reported, NoBetter(a.summary, b.summary)
    PROVE  /\ a.report.score \in 5..100 /\ b.report.score \in 5..100
           /\ a.report.score <= b.report.score
           /\ a.vus = b.vus => a.report.safe <= b.report.safe
           /\ P99Of(a.summary) \in Nat /\ P99Of(b.summary) \in Nat
           /\ P99Of(a.summary) >= P99Of(b.summary)
           /\ CompareRuns(a, b) # "improved"
<1> DEFINE users(n) == IF n <= 0 THEN 10 ELSE n
<1>1. PICK chaosA \in BOOLEAN, chaosB \in BOOLEAN :
         /\ a.report = Analyze(a.summary, a.vus, chaosA)
         /\ b.report = Analyze(b.summary, b.vus, chaosB)
  BY DEF Reported
<1>2. /\ a.summary \in Measured \cup {NotMeasured} /\ a.vus \in Int
      /\ b.summary \in Measured \cup {NotMeasured} /\ b.vus \in Int
  BY DEF Reported
<1>3. a.summary \in Measured /\ b.summary \in Measured
  BY <1>2 DEF NoBetter, NotMeasured
<1>4. /\ a.summary.requests \in Nat \ {0} /\ a.summary.p99 \in Nat
      /\ b.summary.requests \in Nat \ {0} /\ b.summary.p99 \in Nat
  BY <1>3, MeasuredTypes
<1>5. /\ a.report.score = HealthScore(a.summary) /\ a.report.safe = SafeVUCount(a.report.score, users(a.vus))
      /\ b.report.score = HealthScore(b.summary) /\ b.report.safe = SafeVUCount(b.report.score, users(b.vus))
  BY <1>1, <1>4 DEF Analyze
<1>6. a.report.score \in 5..100 /\ b.report.score \in 5..100
  BY <1>3, <1>5, ClampedScore
<1>7. a.report.score <= b.report.score
  BY <1>3, <1>5, ScoreOrder
<1>8. ASSUME a.vus = b.vus PROVE a.report.safe <= b.report.safe
  <2>1. users(a.vus) \in Nat \ {0} /\ users(b.vus) = users(a.vus)
    BY <1>2, <1>8
  <2> HIDE DEF users
  <2> QED BY <1>5, <1>6, <1>7, <2>1, SafeOrder
<1>9. P99Of(a.summary) = a.summary.p99 /\ P99Of(b.summary) = b.summary.p99
  BY <1>4 DEF P99Of
<1>10. a.summary.p99 >= b.summary.p99
  BY DEF NoBetter
<1>11. CompareRuns(a, b) # "improved"
  <2>1. ~(a.report.score - b.report.score > 5)
    <3>1. \A x, y \in 5..100 : x <= y => ~(x - y > 5)
      OBVIOUS
    <3> QED BY ONLY <1>6, <1>7, <3>1
  <2>2. ~(b.summary.p99 > 0 /\ 100 * (a.summary.p99 - b.summary.p99) < -15 * b.summary.p99)
    BY <1>4, <1>10
  <2> QED BY <1>9, <2>1, <2>2 DEF CompareRuns
<1> QED BY <1>4, <1>6, <1>7, <1>8, <1>9, <1>10, <1>11

LEMMA ReportsAgree == DiagInv => WorseIsNeverSafer
<1> SUFFICES ASSUME DiagInv, NEW i \in DOMAIN finished, NEW j \in DOMAIN finished,
                    NoBetter(finished[i].summary, finished[j].summary)
             PROVE  LET a == finished[i]
                        b == finished[j]
                        RankIn(c, run) == Compare(c, run.report.score, P99Of(run.summary))
                        grades == [red |-> 0, yellow |-> 1, green |-> 2]
                    IN  /\ a.report.score <= b.report.score
                        /\ grades[BadgeColor(a.report.score)] <= grades[BadgeColor(b.report.score)]
                        /\ a.vus = b.vus => a.report.safe <= b.report.safe
                        /\ \A c \in Pools : /\ RankIn(c, a).health <= RankIn(c, b).health
                                            /\ RankIn(c, a).latency <= RankIn(c, b).latency
                        /\ handleRunTrend(i, j) # "improved"
                        /\ FindPreviousCompleted(i) = j => handleRunTrend(i, 0) # "improved"
  BY DEF WorseIsNeverSafer
<1>1. finished[i] \in Reported /\ finished[j] \in Reported /\ j # 0
  BY DEF DiagInv
<1>2. PICK a, b \in Reported : a = finished[i] /\ b = finished[j]
  BY <1>1
<1>3. /\ a.report.score \in 5..100 /\ b.report.score \in 5..100
      /\ a.report.score <= b.report.score
      /\ a.vus = b.vus => a.report.safe <= b.report.safe
      /\ P99Of(a.summary) \in Nat /\ P99Of(b.summary) \in Nat
      /\ P99Of(a.summary) >= P99Of(b.summary)
      /\ CompareRuns(a, b) # "improved"
  BY <1>2, ReportsOrder
<1>4. ASSUME NEW c \in Pools
      PROVE  /\ Compare(c, a.report.score, P99Of(a.summary)).health
                    <= Compare(c, b.report.score, P99Of(b.summary)).health
             /\ Compare(c, a.report.score, P99Of(a.summary)).latency
                    <= Compare(c, b.report.score, P99Of(b.summary)).latency
  <2>1. a.report.score \in Int /\ b.report.score \in Int
    BY <1>3
  <2> QED BY <1>3, <2>1, RankOrder
<1>5. handleRunTrend(i, j) # "improved"
  BY <1>1, <1>2, <1>3 DEF handleRunTrend
<1>6. FindPreviousCompleted(i) = j => handleRunTrend(i, 0) # "improved"
  BY <1>1, <1>2, <1>3 DEF handleRunTrend
<1> QED BY <1>2, <1>3, <1>4, <1>5, <1>6, GradesOrder

(* The types are part of the invariant, or follow from it. *)
LEMMA DiagInvTypes == DiagInv => DiagTypeOK
<1> SUFFICES ASSUME DiagInv PROVE DiagTypeOK
  OBVIOUS
<1>1. ASSUME NEW i \in DOMAIN finished
      PROVE  /\ finished[i].report.score \in 5..100
             /\ finished[i].report.safe \in 0..AtLeast(finished[i].vus, 10)
  <2>1. finished[i] \in Reported
    BY DEF DiagInv
  <2> QED BY <2>1, AnalyzeTypes DEF Reported
<1>2. ASSUME NEW c \in Pools, NEW i \in DOMAIN pool[c] PROVE pool[c][i].score \in 1..100
  <2>1. pool[c] \in Seq(Result)
    BY DEF DiagInv
  <2>2. pool[c][i] \in Result
    BY <2>1
  <2> QED BY <2>2 DEF Result
<1> QED BY <1>1, <1>2 DEF DiagTypeOK

(* Scores and counts of users stay in their ranges, in the reports and in the
   pools. *)
THEOREM DiagTypeCorrect == DiagSpec => []DiagTypeOK
BY DiagInvTypes, DiagInitInv, DiagNextInv, PTL DEF DiagSpec

(* Whatever two runs measured: the one that was no better in any respect is
   reported as no better, by the score, the badge, the capacity called safe,
   the rank in every pool and the comparison of the two.  The thresholds and
   penalties of Analyze never cross, and rounding keeps their order. *)
THEOREM WorseIsReportedWorse == DiagSpec => []WorseIsNeverSafer
BY DiagInitInv, DiagNextInv, ReportsAgree, PTL DEF DiagSpec

-----------------------------------------------------------------------------
(* The metrics: what a tracker has of the recorders that are under way.    *)

WriterPlaces == {"requests", "errors", "bucket", "count", "sum", "min", "swap min", "max", "swap max",
           "lookup", "make", "done"}

(* How far a recorder is with the tracker it is at. *)
Phase(pc) ==
    CASE pc = "requests" -> 0 [] pc = "errors" -> 1 [] pc = "bucket" -> 2
      [] pc = "count" -> 3 [] pc = "sum" -> 4 [] pc \in {"min", "swap min"} -> 5
      [] pc \in {"max", "swap max"} -> 6 [] OTHER -> 7

(* The recorders that are through with this phase of this tracker.  They   *)
(* come to the tracker of the run first. *)
Passed(t, phase) ==
    {r \in Recorders : \/ t = Run /\ recorder[r].into # Run
                       \/ recorder[r].into = t /\ Phase(recorder[r].pc) > phase}

MicrosOf == [r \in Recorders |-> recorder[r].result.micros]
Failed == {r \in Recorders : recorder[r].result.error}
InBucket(b) == {r \in Recorders : BucketOfMicros(recorder[r].result.micros) = b}

RequestsRight(t) == tracker[t].requests = Cardinality(Passed(t, 0))
ErrorsRight(t) == tracker[t].errors = Cardinality(Passed(t, 1) \cap Failed)
BucketsRight(t) ==
    /\ \A b \in Buckets : tracker[t].buckets[b] = Cardinality(Passed(t, 2) \cap InBucket(b))
    /\ SumFunctionOnSet(tracker[t].buckets, Buckets) = Cardinality(Passed(t, 2))
CountRight(t) == tracker[t].count = Cardinality(Passed(t, 3))
SumRight(t) == tracker[t].sum = SumFunctionOnSet(MicrosOf, Passed(t, 4))
MinRight(t) ==
    /\ tracker[t].min \in {MicrosOf[r] : r \in Passed(t, 4)} \cup {Unset}
    /\ \A r \in Passed(t, 5) : tracker[t].min <= MicrosOf[r]
MaxRight(t) ==
    /\ tracker[t].max \in {MicrosOf[r] : r \in Passed(t, 5)} \cup {0}
    /\ \A r \in Passed(t, 6) : tracker[t].max >= MicrosOf[r]

TrackerRight(t) ==
    /\ RequestsRight(t) /\ ErrorsRight(t) /\ BucketsRight(t) /\ CountRight(t)
    /\ SumRight(t) /\ MinRight(t) /\ MaxRight(t)

Tracker == [requests : Nat, errors : Nat, buckets : [Buckets -> Nat], count : Nat,
            sum : Nat, min : 0..Unset, max : 0..Unset]
Recorder == [pc : WriterPlaces, result : Outcome, into : Trackers, seen : 0..Unset]
SnapshotType == [pc : {"idle", "errors", "count", "scan", "found"}, requests : Nat, errors : Nat,
                 rank : Nat, sum : Nat, bucket : Buckets]

RecordingTypeOK ==
    /\ tracker \in [Trackers -> Tracker]
    /\ recorder \in [Recorders -> Recorder]

(* What a recorder saw that is about to swap is no longer the worst. *)
Looked(r) ==
    /\ recorder[r].pc = "swap min" => recorder[r].result.micros < recorder[r].seen
    /\ recorder[r].pc = "swap max" => recorder[r].result.micros > recorder[r].seen

(* A recorder is at the tracker of the run or at that of its own step. *)
Placed(r) ==
    /\ recorder[r].pc \in {"lookup", "make"} => recorder[r].into = Run
    /\ recorder[r].pc = "done" => recorder[r].into # Run
    /\ recorder[r].into # Run => /\ recorder[r].result.step \in DOMAIN trackerOf
                                 /\ recorder[r].into = trackerOf[recorder[r].result.step]

AtSteps == {r \in Recorders : recorder[r].into # Run}

TrackersInv ==
    /\ trackersMade \in Nat /\ trackersMade <= Cardinality(AtSteps)
    /\ \A s \in DOMAIN trackerOf : /\ trackerOf[s] \in 1..trackersMade
                                   /\ \E r \in AtSteps : recorder[r].result.step = s
    /\ \A s, u \in DOMAIN trackerOf : trackerOf[s] = trackerOf[u] => s = u

(* The buckets that are still to be read have what the rank still needs. *)
Ahead == {b \in Buckets : b >= snapshot.bucket}

SnapshotInv ==
    /\ snapshot \in SnapshotType
    /\ snapshot.pc \in {"idle", "errors", "count"} => snapshot.sum = 0 /\ snapshot.bucket = 0
    /\ snapshot.pc = "scan" =>
           /\ snapshot.sum < snapshot.rank
           /\ snapshot.rank <= snapshot.sum + SumFunctionOnSet(tracker[Run].buckets, Ahead)
    /\ snapshot.pc = "found" => tracker[Run].buckets[snapshot.bucket] > 0

MetricsInv ==
    /\ RecordingTypeOK
    /\ \A t \in Trackers : TrackerRight(t)
    /\ \A r \in Recorders : Looked(r) /\ Placed(r)
    /\ TrackersInv /\ SnapshotInv

(* What is assumed of the constants, taken apart. *)
LEMMA MetricsFacts ==
    /\ IsFiniteSet(Recorders) /\ Cardinality(Recorders) \in Nat
    /\ \A o \in Outcome : o.micros \in 0..Unset /\ o.error \in BOOLEAN
    /\ TotalBuckets \in Nat \ {0} /\ 0 \in Buckets /\ IsFiniteSet(Buckets) /\ Buckets \subseteq Nat
    /\ Lower \in [Buckets -> Nat] /\ Lower[0] = 0
    /\ Percentages \subseteq 1..99
    /\ Run = 0 /\ Run \in Trackers /\ Unset \in Nat
  <1>1. /\ IsFiniteSet(Recorders) /\ Outcome \subseteq [step : STRING, micros : 0..Unset, error : BOOLEAN]
        /\ LinearBuckets \in Nat \ {0} /\ TotalBuckets \in Nat /\ LinearBuckets < TotalBuckets
        /\ Lower \in [0..(TotalBuckets - 1) -> Nat] /\ \A b \in 0..LinearBuckets : Lower[b] = b
        /\ Percentages \subseteq 1..99
    BY MetricsConstants DEF MetricsConstants
  <1>2. Cardinality(Recorders) \in Nat
    BY <1>1, FS_CardinalityType
  <1>3. TotalBuckets \in Nat \ {0} /\ 0 \in 0..(TotalBuckets - 1) /\ 0 \in 0..LinearBuckets
    BY <1>1
  <1>4. IsFiniteSet(0..(TotalBuckets - 1))
    <2>1. TotalBuckets - 1 \in Int /\ 0 \in Int
      BY <1>1
    <2> QED
      BY <2>1, FS_Interval
  <1>5. Run = 0 /\ Run \in Trackers /\ Unset \in Nat
    BY <1>2 DEF Run, Trackers, Unset
  <1>6. \A o \in Outcome : o.micros \in 0..Unset /\ o.error \in BOOLEAN
    BY <1>1
  <1> QED
    BY <1>1, <1>2, <1>3, <1>4, <1>5, <1>6 DEF Buckets

(* Every latency has its bucket, and none begins above it. *)
LEMMA BucketFacts ==
    ASSUME NEW micros \in Nat
    PROVE  BucketOfMicros(micros) \in Buckets /\ Lower[BucketOfMicros(micros)] <= micros
  <1> DEFINE T == {b \in Buckets : Lower[b] <= micros}
  <1>1. T \in SUBSET Nat /\ T # {} /\ \A b \in T : b <= TotalBuckets
    BY MetricsFacts DEF Buckets
  <1>2. \E greatest \in T : \A b \in T : b <= greatest
    <2> HIDE DEF T
    <2> QED
      BY <1>1, GreatestNumber, MetricsFacts
  <1>3. \E greatest \in T : \A b \in T : greatest >= b
    BY <1>1, <1>2
  <1>4. Max(T) \in T
    BY <1>3 DEF Max
  <1> QED
    BY <1>4 DEF BucketOfMicros

(* The order of the phases. *)
LEMMA PhaseFacts ==
    /\ Phase("requests") = 0 /\ Phase("errors") = 1 /\ Phase("bucket") = 2 /\ Phase("count") = 3
    /\ Phase("sum") = 4 /\ Phase("min") = 5 /\ Phase("swap min") = 5
    /\ Phase("max") = 6 /\ Phase("swap max") = 6
    /\ Phase("lookup") = 7 /\ Phase("make") = 7 /\ Phase("done") = 7
    /\ \A pc \in WriterPlaces : Phase(pc) \in 0..7
  BY DEF Phase, WriterPlaces

(* A recorder that goes on at its tracker. *)
GoesOn(r, new) ==
    /\ recorder' = [recorder EXCEPT ![r] = new]
    /\ new \in Recorder /\ new.into = recorder[r].into /\ new.result = recorder[r].result

(* The types of what belongs to one recorder. *)
LEMMA RecorderFacts ==
    ASSUME RecordingTypeOK, NEW r \in Recorders
    PROVE  /\ recorder[r] \in Recorder /\ recorder[r].pc \in WriterPlaces
           /\ Phase(recorder[r].pc) \in 0..7
           /\ recorder[r].into \in Trackers /\ tracker[recorder[r].into] \in Tracker
           /\ recorder[r].result \in Outcome
           /\ Micros(r) \in 0..Unset /\ MicrosOf[r] = Micros(r) /\ recorder[r].seen \in 0..Unset
  <1>1. recorder[r] \in Recorder
    BY DEF RecordingTypeOK
  <1>2. /\ recorder[r].pc \in WriterPlaces /\ recorder[r].into \in Trackers
        /\ recorder[r].result \in Outcome /\ recorder[r].seen \in 0..Unset
    BY <1>1 DEF Recorder
  <1>3. Phase(recorder[r].pc) \in 0..7
    BY <1>2, PhaseFacts
  <1>4. Micros(r) \in 0..Unset /\ MicrosOf[r] = Micros(r)
    BY <1>2, MetricsFacts DEF Micros, MicrosOf
  <1>5. tracker[recorder[r].into] \in Tracker
    BY <1>2 DEF RecordingTypeOK
  <1> QED
    BY <1>1, <1>2, <1>3, <1>4, <1>5

(* Whom a step of one recorder counts among those that have passed. *)
LEMMA PassedHere ==
    ASSUME RecordingTypeOK, NEW r \in Recorders, NEW new, GoesOn(r, new),
           NEW t, t = recorder[r].into,
           Phase(recorder[r].pc) <= Phase(new.pc), NEW phase \in 0..6
    PROVE  Passed(t, phase)' = IF Phase(recorder[r].pc) <= phase /\ phase < Phase(new.pc)
                               THEN Passed(t, phase) \cup {r} ELSE Passed(t, phase)
  <1>1. \A q \in Recorders : recorder'[q] = IF q = r THEN new ELSE recorder[q]
    BY DEF GoesOn, RecordingTypeOK
  <1>2. Phase(recorder[r].pc) \in Int /\ Phase(new.pc) \in Int /\ new.into = t
    <2>1. new.pc \in WriterPlaces /\ new.into = t
      BY DEF GoesOn, Recorder
    <2>2. Phase(new.pc) \in 0..7 /\ Phase(recorder[r].pc) \in 0..7
      BY <2>1, PhaseFacts, RecorderFacts
    <2> QED
      BY <2>1, <2>2
  <1>3. \A q \in Recorders : q # r => (q \in Passed(t, phase)' <=> q \in Passed(t, phase))
    <2>1. \A q \in Recorders : q # r => recorder'[q] = recorder[q]
      BY <1>1
    <2> QED
      BY <2>1 DEF Passed
  <1>4. /\ r \in Passed(t, phase)' <=> Phase(new.pc) > phase
        /\ r \in Passed(t, phase) <=> Phase(recorder[r].pc) > phase
    <2>1. recorder'[r] = new
      BY <1>1
    <2> QED
      BY <2>1, <1>2 DEF Passed
  <1>5. Passed(t, phase)' \subseteq Recorders /\ Passed(t, phase) \subseteq Recorders
    BY DEF Passed
  <1> QED
    BY <1>2, <1>3, <1>4, <1>5

(* A recorder has not passed the phase it is in. *)
LEMMA PassedNotYet ==
    ASSUME RecordingTypeOK, NEW r \in Recorders, NEW phase \in 0..6,
           Phase(recorder[r].pc) <= phase
    PROVE  r \notin Passed(recorder[r].into, phase)
  <1>1. Phase(recorder[r].pc) \in 0..7
    BY RecorderFacts
  <1>2. ~(Phase(recorder[r].pc) > phase)
    BY <1>1
  <1> QED
    BY <1>2 DEF Passed

(* There are finitely many of them. *)
LEMMA PassedFinite ==
    ASSUME NEW t, NEW phase, NEW S
    PROVE  IsFiniteSet(Passed(t, phase)) /\ IsFiniteSet(Passed(t, phase) \cap S)
  <1>1. Passed(t, phase) \in SUBSET Recorders /\ Passed(t, phase) \cap S \in SUBSET Recorders
    BY DEF Passed
  <1> QED
    BY <1>1, MetricsFacts, FS_Subset

(* The results stay what they are. *)
LEMMA ResultsKeep ==
    ASSUME RecordingTypeOK, \A q \in Recorders : recorder'[q].result = recorder[q].result
    PROVE  MicrosOf' = MicrosOf /\ Failed' = Failed /\ \A b : InBucket(b)' = InBucket(b)
  BY DEF MicrosOf, Failed, InBucket

(* A tracker of which nothing changes, nor who has passed where. *)
LEMMA TrackerKeeps ==
    ASSUME RecordingTypeOK, NEW t, TrackerRight(t), tracker'[t] = tracker[t],
           \A q \in Recorders : recorder'[q].result = recorder[q].result,
           \A phase \in 0..6 : Passed(t, phase)' = Passed(t, phase)
    PROVE  TrackerRight(t)'
  <1>1. /\ Passed(t, 0)' = Passed(t, 0) /\ Passed(t, 1)' = Passed(t, 1) /\ Passed(t, 2)' = Passed(t, 2)
        /\ Passed(t, 3)' = Passed(t, 3) /\ Passed(t, 4)' = Passed(t, 4) /\ Passed(t, 5)' = Passed(t, 5)
        /\ Passed(t, 6)' = Passed(t, 6)
    OBVIOUS
  <1>2. RequestsRight(t)' /\ ErrorsRight(t)'
    BY <1>1, ResultsKeep DEF TrackerRight, RequestsRight, ErrorsRight
  <1>3. BucketsRight(t)' /\ CountRight(t)'
    BY <1>1, ResultsKeep DEF TrackerRight, BucketsRight, CountRight
  <1>4. SumRight(t)' /\ MinRight(t)' /\ MaxRight(t)'
    BY <1>1, ResultsKeep DEF TrackerRight, SumRight, MinRight, MaxRight
  <1> QED
    BY <1>2, <1>3, <1>4 DEF TrackerRight

(* The trackers the recorder is not at. *)
LEMMA OtherBuckets ==
    ASSUME RecordingTypeOK, NEW r \in Recorders, NEW new, GoesOn(r, new),
           NEW t \in Trackers, t # recorder[r].into, TrackerRight(t), tracker'[t] = tracker[t]
    PROVE  TrackerRight(t)'
  <1>1. \A q \in Recorders : /\ recorder'[q].into = recorder[q].into
                             /\ recorder'[q].result = recorder[q].result
                             /\ q # r => recorder'[q] = recorder[q]
    BY DEF GoesOn, RecordingTypeOK
  <1>2. \A phase \in 0..6 : Passed(t, phase)' = Passed(t, phase)
    BY <1>1 DEF Passed
  <1> QED
    BY <1>1, <1>2, TrackerKeeps


(* One more recorder that has passed. *)
LEMMA OneMore ==
    ASSUME NEW S, IsFiniteSet(S), NEW r, r \notin S, NEW T
    PROVE  /\ Cardinality(S) \in Nat /\ Cardinality(S \cup {r}) = Cardinality(S) + 1
           /\ Cardinality(S \cap T) \in Nat
           /\ Cardinality((S \cup {r}) \cap T) = Cardinality(S \cap T) + (IF r \in T THEN 1 ELSE 0)
  <1>1. IsFiniteSet(S \cap T) /\ r \notin S \cap T
    BY FS_Subset
  <1>2. /\ Cardinality(S) \in Nat /\ Cardinality(S \cup {r}) = Cardinality(S) + 1
        /\ Cardinality(S \cap T) \in Nat
        /\ Cardinality((S \cap T) \cup {r}) = Cardinality(S \cap T) + 1
    BY <1>1, FS_AddElement, FS_CardinalityType
  <1>3. CASE r \in T
    <2>1. (S \cup {r}) \cap T = (S \cap T) \cup {r}
      BY <1>3
    <2> QED
      BY <2>1, <1>2, <1>3
  <1>4. CASE r \notin T
    <2>1. (S \cup {r}) \cap T = S \cap T
      BY <1>4
    <2>2. (IF r \in T THEN 1 ELSE 0) = 0
      BY <1>4
    <2>3. Cardinality(S \cap T) = Cardinality(S \cap T) + 0
      BY <1>2
    <2> QED
      BY <2>1, <2>2, <2>3, <1>2
  <1> QED
    BY <1>3, <1>4

(* A step of a recorder at a tracker. *)
Records(r, new, nt) ==
    /\ GoesOn(r, new) /\ nt \in Tracker
    /\ tracker' = [tracker EXCEPT ![recorder[r].into] = nt]
    /\ new.pc = "swap min" => new.result.micros < new.seen
    /\ new.pc = "swap max" => new.result.micros > new.seen
    /\ new.pc \in {"lookup", "make"} => new.into = Run
    /\ new.pc = "done" => new.into # Run
    /\ \A b \in Buckets : nt.buckets[b] >= tracker[recorder[r].into].buckets[b]

(* A step to another place is one that stays at the tracker. *)
LEMMA GoFacts ==
    ASSUME RecordingTypeOK, NEW r \in Recorders, NEW pc \in WriterPlaces, Go(r, pc)
    PROVE  /\ GoesOn(r, [recorder[r] EXCEPT !.pc = pc])
           /\ [recorder[r] EXCEPT !.pc = pc].pc = pc
  <1>1. recorder[r] \in Recorder
    BY RecorderFacts
  <1>2. [recorder[r] EXCEPT !.pc = pc] \in Recorder
    BY <1>1 DEF Recorder
  <1> QED
    BY <1>1, <1>2 DEF GoesOn, Go, Recorder

(* A step into the next phase. *)
LEMMA Advance ==
    ASSUME RecordingTypeOK, NEW r \in Recorders, NEW new, GoesOn(r, new),
           NEW t, t = recorder[r].into,
           NEW k \in 0..6, Phase(recorder[r].pc) = k, Phase(new.pc) = k + 1
    PROVE  /\ r \notin Passed(t, k) /\ Passed(t, k)' = Passed(t, k) \cup {r}
           /\ \A j \in 0..6 : j # k => Passed(t, j)' = Passed(t, j)
           /\ MicrosOf' = MicrosOf /\ Failed' = Failed /\ \A b : InBucket(b)' = InBucket(b)
  <1>0. /\ Phase(recorder[r].pc) <= Phase(new.pc)
        /\ Phase(recorder[r].pc) <= k /\ k < Phase(new.pc)
    OBVIOUS
  <1>1. r \notin Passed(t, k)
    BY PassedNotYet, <1>0
  <1>2. Passed(t, k)' = Passed(t, k) \cup {r}
    <2>1. Passed(t, k)' = IF Phase(recorder[r].pc) <= k /\ k < Phase(new.pc)
                          THEN Passed(t, k) \cup {r} ELSE Passed(t, k)
      BY <1>0, PassedHere
    <2> QED
      BY ONLY <1>0, <2>1
  <1>3. ASSUME NEW j \in 0..6, j # k PROVE Passed(t, j)' = Passed(t, j)
    <2>1. ~(Phase(recorder[r].pc) <= j /\ j < Phase(new.pc))
      BY <1>3
    <2>2. Passed(t, j)' = IF Phase(recorder[r].pc) <= j /\ j < Phase(new.pc)
                          THEN Passed(t, j) \cup {r} ELSE Passed(t, j)
      BY <1>0, PassedHere
    <2> QED
      BY ONLY <2>1, <2>2
  <1>4. \A q \in Recorders : recorder'[q].result = recorder[q].result
    BY DEF GoesOn, RecordingTypeOK
  <1>5. MicrosOf' = MicrosOf /\ Failed' = Failed /\ \A b : InBucket(b)' = InBucket(b)
    BY <1>4, ResultsKeep
  <1> QED
    BY ONLY <1>1, <1>2, <1>3, <1>5

(* A step within a phase. *)
LEMMA Stay ==
    ASSUME RecordingTypeOK, NEW r \in Recorders, NEW new, GoesOn(r, new),
           NEW t, t = recorder[r].into, Phase(recorder[r].pc) = Phase(new.pc)
    PROVE  /\ \A j \in 0..6 : Passed(t, j)' = Passed(t, j)
           /\ \A q \in Recorders : recorder'[q].result = recorder[q].result
  <1>1. ASSUME NEW j \in 0..6 PROVE Passed(t, j)' = Passed(t, j)
    <2>1. ~(Phase(recorder[r].pc) <= j /\ j < Phase(new.pc))
      BY RecorderFacts
    <2> QED
      BY <2>1, RecorderFacts, PassedHere
  <1> QED
    BY <1>1 DEF GoesOn, RecordingTypeOK

(* A step changes one tracker. *)
LEMMA SetFacts ==
    ASSUME RecordingTypeOK, NEW r \in Recorders, NEW nt, NEW t, t = recorder[r].into,
           tracker' = [tracker EXCEPT ![t] = nt]
    PROVE  t \in Trackers /\ tracker'[t] = nt /\ tracker[t] \in Tracker
  BY RecorderFacts DEF RecordingTypeOK

(* What such a step leaves right. *)
LEMMA Unaffected ==
    ASSUME RecordingTypeOK, NEW r \in Recorders, NEW new, NEW nt, NEW t, t = recorder[r].into,
           TrackerRight(t), GoesOn(r, new), tracker'[t] = nt,
           NEW k \in 0..6, Phase(recorder[r].pc) = k, Phase(new.pc) = k + 1
    PROVE  /\ k # 0 /\ nt.requests = tracker[t].requests => RequestsRight(t)'
           /\ k # 1 /\ nt.errors = tracker[t].errors => ErrorsRight(t)'
           /\ k # 2 /\ nt.buckets = tracker[t].buckets => BucketsRight(t)'
           /\ k # 3 /\ nt.count = tracker[t].count => CountRight(t)'
           /\ k # 4 /\ nt.sum = tracker[t].sum => SumRight(t)'
           /\ k # 5 /\ nt.min = tracker[t].min => MinRight(t)'
           /\ k # 6 /\ nt.max = tracker[t].max => MaxRight(t)'
  <1>1. tracker'[t] = nt
    OBVIOUS
  <1>2. /\ Passed(t, k)' = Passed(t, k) \cup {r}
        /\ \A j \in 0..6 : j # k => Passed(t, j)' = Passed(t, j)
        /\ MicrosOf' = MicrosOf /\ Failed' = Failed /\ \A b : InBucket(b)' = InBucket(b)
    BY Advance
  <1>3. \A j \in 0..6 : Passed(t, j) \subseteq Passed(t, j)'
    BY <1>2
  <1>4. k # 0 /\ nt.requests = tracker[t].requests => RequestsRight(t)'
    <2>1. k # 0 => Passed(t, 0)' = Passed(t, 0)
      BY <1>2
    <2> QED
      BY <1>1, <2>1 DEF TrackerRight, RequestsRight
  <1>5. k # 1 /\ nt.errors = tracker[t].errors => ErrorsRight(t)'
    <2>1. k # 1 => Passed(t, 1)' = Passed(t, 1)
      BY <1>2
    <2> QED
      BY <1>1, <1>2, <2>1 DEF TrackerRight, ErrorsRight
  <1>6. k # 2 /\ nt.buckets = tracker[t].buckets => BucketsRight(t)'
    <2>1. k # 2 => Passed(t, 2)' = Passed(t, 2)
      BY <1>2
    <2> QED
      BY <1>1, <1>2, <2>1 DEF TrackerRight, BucketsRight
  <1>7. k # 3 /\ nt.count = tracker[t].count => CountRight(t)'
    <2>1. k # 3 => Passed(t, 3)' = Passed(t, 3)
      BY <1>2
    <2> QED
      BY <1>1, <2>1 DEF TrackerRight, CountRight
  <1>8. k # 4 /\ nt.sum = tracker[t].sum => SumRight(t)'
    <2>1. k # 4 => Passed(t, 4)' = Passed(t, 4)
      BY <1>2
    <2> QED
      BY <1>1, <1>2, <2>1 DEF TrackerRight, SumRight
  <1>9. k # 5 /\ nt.min = tracker[t].min => MinRight(t)'
    <2>1. k # 5 => Passed(t, 5)' = Passed(t, 5) /\ Passed(t, 4) \subseteq Passed(t, 4)'
      BY <1>2, <1>3
    <2> QED
      BY <1>1, <1>2, <2>1 DEF TrackerRight, MinRight
  <1>10. k # 6 /\ nt.max = tracker[t].max => MaxRight(t)'
    <2>1. k # 6 => Passed(t, 6)' = Passed(t, 6) /\ Passed(t, 5) \subseteq Passed(t, 5)'
      BY <1>2, <1>3
    <2> QED
      BY <1>1, <1>2, <2>1 DEF TrackerRight, MaxRight
  <1> QED
    BY <1>4, <1>5, <1>6, <1>7, <1>8, <1>9, <1>10

(* Each step of a recorder keeps the tracker it is at right.  The request: *)
LEMMA AddRequestRecords ==
    ASSUME RecordingTypeOK, NEW r \in Recorders, NEW t, t = recorder[r].into,
           TrackerRight(t), AddRequest(r)
    PROVE  (\E new, nt : Records(r, new, nt)) /\ TrackerRight(t)'
  <1> DEFINE nt == [tracker[t] EXCEPT !.requests = @ + 1]
             new == [recorder[r] EXCEPT !.pc = "errors"]
  <1>1. tracker' = [tracker EXCEPT ![t] = nt] /\ Go(r, "errors") /\ recorder[r].pc = "requests"
    BY DEF AddRequest, Set, Into, At
  <1>2. tracker'[t] = nt /\ tracker[t] \in Tracker
    <2> HIDE DEF nt, new
    <2> QED
      BY <1>1, SetFacts
  <1>3. GoesOn(r, new) /\ new.pc = "errors"
    BY <1>1, GoFacts DEF WriterPlaces
  <1>4. /\ nt \in Tracker /\ nt.requests = tracker[t].requests + 1
        /\ nt.errors = tracker[t].errors /\ nt.buckets = tracker[t].buckets
        /\ nt.count = tracker[t].count /\ nt.sum = tracker[t].sum
        /\ nt.min = tracker[t].min /\ nt.max = tracker[t].max
    BY <1>2 DEF Tracker
  <1>5. \A b \in Buckets : nt.buckets[b] >= tracker[t].buckets[b]
    BY <1>2 DEF Tracker
  <1>6. Records(r, new, nt)
    BY <1>1, <1>3, <1>4, <1>5 DEF Records
  <1> HIDE DEF new, nt
  <1>7. Phase(recorder[r].pc) = 0 /\ Phase(new.pc) = 1
    <2>1. recorder[r].pc = "requests" /\ new.pc = "errors"
      BY <1>1, <1>3
    <2>2. Phase("requests") = 0 /\ Phase("errors") = 1
      BY PhaseFacts
    <2> QED
      BY ONLY <2>1, <2>2
  <1>8. RequestsRight(t)'
    <2>1. /\ r \notin Passed(t, 0) /\ Passed(t, 0)' = Passed(t, 0) \cup {r}
      BY <1>3, <1>7, Advance
    <2>2. Cardinality(Passed(t, 0) \cup {r}) = Cardinality(Passed(t, 0)) + 1
      BY <2>1, PassedFinite, OneMore
    <2> QED
      BY <1>2, <1>4, <2>1, <2>2 DEF TrackerRight, RequestsRight
  <1>9. TrackerRight(t)'
    <2>1. ErrorsRight(t)' /\ BucketsRight(t)' /\ CountRight(t)' /\ SumRight(t)' /\ MinRight(t)' /\ MaxRight(t)'
      BY <1>2, <1>3, <1>4, <1>7, Unaffected
    <2> QED
      BY <1>8, <2>1 DEF TrackerRight
  <1> QED
    BY <1>6, <1>9

(* The error. *)
LEMMA AddErrorRecords ==
    ASSUME RecordingTypeOK, NEW r \in Recorders, NEW t, t = recorder[r].into,
           TrackerRight(t), AddError(r)
    PROVE  (\E new, nt : Records(r, new, nt)) /\ TrackerRight(t)'
  <1> DEFINE nt == [tracker[t] EXCEPT !.errors = IF recorder[r].result.error THEN @ + 1 ELSE @]
             new == [recorder[r] EXCEPT !.pc = "bucket"]
  <1>1. tracker' = [tracker EXCEPT ![t] = nt] /\ Go(r, "bucket") /\ recorder[r].pc = "errors"
    BY DEF AddError, Set, Into, At
  <1>2. tracker'[t] = nt /\ tracker[t] \in Tracker
    <2> HIDE DEF nt, new
    <2> QED
      BY <1>1, SetFacts
  <1>3. GoesOn(r, new) /\ new.pc = "bucket"
    BY <1>1, GoFacts DEF WriterPlaces
  <1>4. /\ nt \in Tracker /\ nt.errors = tracker[t].errors + (IF r \in Failed THEN 1 ELSE 0)
        /\ nt.requests = tracker[t].requests /\ nt.buckets = tracker[t].buckets
        /\ nt.count = tracker[t].count /\ nt.sum = tracker[t].sum
        /\ nt.min = tracker[t].min /\ nt.max = tracker[t].max
    <2>1. tracker[t].errors \in Nat
      BY <1>2 DEF Tracker
    <2>2. (IF recorder[r].result.error THEN tracker[t].errors + 1 ELSE tracker[t].errors) \in Nat
      BY <2>1
    <2>3. (IF recorder[r].result.error THEN tracker[t].errors + 1 ELSE tracker[t].errors)
              = tracker[t].errors + (IF r \in Failed THEN 1 ELSE 0)
      BY <2>1 DEF Failed
    <2> QED
      BY <1>2, <2>2, <2>3 DEF Tracker
  <1>5. \A b \in Buckets : nt.buckets[b] >= tracker[t].buckets[b]
    <2>1. tracker[t].buckets \in [Buckets -> Nat]
      BY <1>2 DEF Tracker
    <2>2. nt.buckets = tracker[t].buckets
      BY <1>4
    <2> HIDE DEF nt
    <2> QED
      BY <2>1, <2>2
  <1>6. Records(r, new, nt)
    BY <1>1, <1>3, <1>4, <1>5 DEF Records
  <1> HIDE DEF new, nt
  <1>7. Phase(recorder[r].pc) = 1 /\ Phase(new.pc) = 2
    <2>1. recorder[r].pc = "errors" /\ new.pc = "bucket"
      BY <1>1, <1>3
    <2>2. Phase("errors") = 1 /\ Phase("bucket") = 2
      BY PhaseFacts
    <2> QED
      BY ONLY <2>1, <2>2
  <1>8. ErrorsRight(t)'
    <2>1. /\ r \notin Passed(t, 1) /\ Passed(t, 1)' = Passed(t, 1) \cup {r}
          /\ MicrosOf' = MicrosOf /\ Failed' = Failed /\ \A b : InBucket(b)' = InBucket(b)
      BY <1>3, <1>7, Advance
    <2>2. Cardinality((Passed(t, 1) \cup {r}) \cap Failed)
              = Cardinality(Passed(t, 1) \cap Failed) + (IF r \in Failed THEN 1 ELSE 0)
      BY ZenonT(40), <2>1, PassedFinite, OneMore
    <2> QED
      BY <1>2, <1>4, <2>1, <2>2 DEF TrackerRight, ErrorsRight
  <1>9. TrackerRight(t)'
    <2>1. RequestsRight(t)' /\ BucketsRight(t)' /\ CountRight(t)' /\ SumRight(t)' /\ MinRight(t)' /\ MaxRight(t)'
      BY <1>2, <1>3, <1>4, <1>7, Unaffected
    <2> QED
      BY <1>8, <2>1 DEF TrackerRight
  <1> QED
    BY <1>6, <1>9

(* The bucket a result belongs into. *)
BucketOf(r) == BucketOfMicros(Micros(r))

AddBucket(r) ==
    /\ At(r, "bucket") /\ Set(r, [Into(r) EXCEPT !.buckets[BucketOf(r)] = @ + 1]) /\ Go(r, "count")
AddCount(r) ==
    /\ At(r, "count") /\ Set(r, [Into(r) EXCEPT !.count = @ + 1]) /\ Go(r, "sum")

(* The two steps of AddToHistogram. *)
LEMMA HistogramSteps ==
    ASSUME NEW r, AddToHistogram(r)
    PROVE  AddBucket(r) \/ AddCount(r)
  BY DEF AddToHistogram, AddBucket, AddCount, BucketOf

(* The bucket: one of them has one more, so has their sum. *)
LEMMA AddBucketRecords ==
    ASSUME RecordingTypeOK, NEW r \in Recorders, NEW t, t = recorder[r].into,
           TrackerRight(t), AddBucket(r)
    PROVE  (\E new, nt : Records(r, new, nt)) /\ TrackerRight(t)'
  <1> DEFINE nt == [tracker[t] EXCEPT !.buckets[BucketOf(r)] = @ + 1]
             new == [recorder[r] EXCEPT !.pc = "count"]
  <1>1. tracker' = [tracker EXCEPT ![t] = nt] /\ Go(r, "count") /\ recorder[r].pc = "bucket"
    BY DEF AddBucket, Set, Into, At
  <1>2. tracker'[t] = nt /\ tracker[t] \in Tracker
    <2> HIDE DEF nt, new
    <2> QED
      BY <1>1, SetFacts
  <1>3. GoesOn(r, new) /\ new.pc = "count"
    BY <1>1, GoFacts DEF WriterPlaces
  <1>4. /\ nt \in Tracker
        /\ BucketOf(r) \in Buckets /\ tracker[t].buckets \in [Buckets -> Nat]
        /\ nt.buckets = [tracker[t].buckets EXCEPT ![BucketOf(r)] = @ + 1]
        /\ nt.requests = tracker[t].requests /\ nt.errors = tracker[t].errors
        /\ nt.count = tracker[t].count /\ nt.sum = tracker[t].sum
        /\ nt.min = tracker[t].min /\ nt.max = tracker[t].max
    <2>1. BucketOf(r) \in Buckets /\ tracker[t].buckets \in [Buckets -> Nat]
      BY <1>2, RecorderFacts, BucketFacts DEF BucketOf, Tracker
    <2>2. [tracker[t].buckets EXCEPT ![BucketOf(r)] = @ + 1] \in [Buckets -> Nat]
      BY <2>1
    <2>3. nt.buckets = [tracker[t].buckets EXCEPT ![BucketOf(r)] = @ + 1]
      BY <1>2 DEF Tracker
    <2> QED
      BY <1>2, <2>1, <2>2, <2>3 DEF Tracker
  <1>5. \A b \in Buckets : nt.buckets[b] >= tracker[t].buckets[b]
    <2>1. nt.buckets = [tracker[t].buckets EXCEPT ![BucketOf(r)] = @ + 1]
      BY <1>4
    <2> HIDE DEF nt
    <2>2. ASSUME NEW b \in Buckets PROVE nt.buckets[b] >= tracker[t].buckets[b]
      <3>1. tracker[t].buckets[b] \in Nat
        BY <1>4
      <3>2. nt.buckets[b] = IF b = BucketOf(r) THEN tracker[t].buckets[b] + 1 ELSE tracker[t].buckets[b]
        BY <1>4, <2>1
      <3> QED
        BY <3>1, <3>2
    <2> QED
      BY <2>2
  <1>6. Records(r, new, nt)
    BY <1>1, <1>3, <1>4, <1>5 DEF Records
  <1> HIDE DEF new, nt
  <1>7. Phase(recorder[r].pc) = 2 /\ Phase(new.pc) = 3
    <2>1. recorder[r].pc = "bucket" /\ new.pc = "count"
      BY <1>1, <1>3
    <2>2. Phase("bucket") = 2 /\ Phase("count") = 3
      BY PhaseFacts
    <2> QED
      BY ONLY <2>1, <2>2
  <1>8. BucketsRight(t)'
    <2>1. /\ r \notin Passed(t, 2) /\ Passed(t, 2)' = Passed(t, 2) \cup {r}
          /\ MicrosOf' = MicrosOf /\ Failed' = Failed /\ \A b : InBucket(b)' = InBucket(b)
      BY <1>3, <1>7, Advance
    <2>2. ASSUME NEW b \in Buckets
          PROVE  nt.buckets[b] = Cardinality((Passed(t, 2) \cup {r}) \cap InBucket(b))
      <3>1. tracker[t].buckets[b] = Cardinality(Passed(t, 2) \cap InBucket(b))
        BY DEF TrackerRight, BucketsRight
      <3>2. Cardinality((Passed(t, 2) \cup {r}) \cap InBucket(b))
                = Cardinality(Passed(t, 2) \cap InBucket(b)) + (IF r \in InBucket(b) THEN 1 ELSE 0)
        <4>1. IsFiniteSet(Passed(t, 2)) /\ r \notin Passed(t, 2)
          BY <2>1, PassedFinite
        <4> QED
          BY ONLY ZenonT(40), <4>1, OneMore
      <3>3. r \in InBucket(b) <=> b = BucketOf(r)
        BY DEF InBucket, BucketOf, Micros
      <3>4. tracker[t].buckets[b] \in Nat
        BY <1>4
      <3>5. nt.buckets[b] = tracker[t].buckets[b] + (IF b = BucketOf(r) THEN 1 ELSE 0)
        BY <1>4, <3>4
      <3> QED
        BY <3>1, <3>2, <3>3, <3>5
    <2>3. SumFunctionOnSet(nt.buckets, Buckets) = Cardinality(Passed(t, 2) \cup {r})
      <3>1. SumFunctionOnSet(tracker[t].buckets, Buckets) = Cardinality(Passed(t, 2))
        BY DEF TrackerRight, BucketsRight
      <3>2. Cardinality(Passed(t, 2)) \in Nat
            /\ Cardinality(Passed(t, 2) \cup {r}) = Cardinality(Passed(t, 2)) + 1
        BY <2>1, PassedFinite, OneMore
      <3>3. /\ \A b \in Buckets : tracker[t].buckets[b] \in Nat /\ nt.buckets[b] \in Nat
            /\ \A b \in Buckets \ {BucketOf(r)} : nt.buckets[b] = tracker[t].buckets[b]
            /\ nt.buckets[BucketOf(r)] = tracker[t].buckets[BucketOf(r)] + 1
        <4>1. nt.buckets = [tracker[t].buckets EXCEPT ![BucketOf(r)] = @ + 1]
          BY <1>4
        <4>2. tracker[t].buckets \in [Buckets -> Nat] /\ BucketOf(r) \in Buckets
          BY <1>4
        <4>3. nt.buckets \in [Buckets -> Nat]
          BY ONLY <4>1, <4>2
        <4> QED
          BY ONLY <4>1, <4>2, <4>3
      <3>4. SumFunctionOnSet(nt.buckets, Buckets)
                = SumFunctionOnSet(tracker[t].buckets, Buckets)
                      - tracker[t].buckets[BucketOf(r)] + nt.buckets[BucketOf(r)]
        <4> DEFINE x == BucketOf(r)
                   g == nt.buckets
                   f == tracker[t].buckets
        <4>1. /\ x \in Buckets /\ IsFiniteSet(Buckets)
              /\ \A b \in Buckets : f[b] \in Nat /\ g[b] \in Nat
              /\ \A b \in Buckets \ {x} : g[b] = f[b]
          BY <1>4, <3>3, MetricsFacts
        <4> HIDE DEF x, g, f
        <4>2. SumFunctionOnSet(g, Buckets) = SumFunctionOnSet(f, Buckets) - f[x] + g[x]
          BY <4>1, SumChanged
        <4> QED
          BY <4>2 DEF x, g, f
      <3>5. tracker[t].buckets[BucketOf(r)] \in Nat
        BY <1>4, <3>3
      <3> QED
        BY <3>1, <3>2, <3>3, <3>4, <3>5
    <2> QED
      BY <1>2, <2>1, <2>2, <2>3 DEF BucketsRight
  <1>9. TrackerRight(t)'
    <2>1. RequestsRight(t)' /\ ErrorsRight(t)' /\ CountRight(t)' /\ SumRight(t)' /\ MinRight(t)' /\ MaxRight(t)'
      <3>1. /\ nt.requests = tracker[t].requests /\ nt.errors = tracker[t].errors
            /\ nt.count = tracker[t].count /\ nt.sum = tracker[t].sum
            /\ nt.min = tracker[t].min /\ nt.max = tracker[t].max
        BY <1>4
      <3> QED
        BY <1>2, <1>3, <1>7, <3>1, Unaffected
    <2> QED
      BY <1>8, <2>1 DEF TrackerRight
  <1> QED
    BY <1>6, <1>9

(* The count. *)
LEMMA AddCountRecords ==
    ASSUME RecordingTypeOK, NEW r \in Recorders, NEW t, t = recorder[r].into,
           TrackerRight(t), AddCount(r)
    PROVE  (\E new, nt : Records(r, new, nt)) /\ TrackerRight(t)'
  <1> DEFINE nt == [tracker[t] EXCEPT !.count = @ + 1]
             new == [recorder[r] EXCEPT !.pc = "sum"]
  <1>1. tracker' = [tracker EXCEPT ![t] = nt] /\ Go(r, "sum") /\ recorder[r].pc = "count"
    BY DEF AddCount, Set, Into, At
  <1>2. tracker'[t] = nt /\ tracker[t] \in Tracker
    <2> HIDE DEF nt, new
    <2> QED
      BY <1>1, SetFacts
  <1>3. GoesOn(r, new) /\ new.pc = "sum"
    BY <1>1, GoFacts DEF WriterPlaces
  <1>4. /\ nt \in Tracker /\ nt.count = tracker[t].count + 1
        /\ nt.requests = tracker[t].requests /\ nt.errors = tracker[t].errors
        /\ nt.buckets = tracker[t].buckets /\ nt.sum = tracker[t].sum
        /\ nt.min = tracker[t].min /\ nt.max = tracker[t].max
    BY <1>2 DEF Tracker
  <1>5. \A b \in Buckets : nt.buckets[b] >= tracker[t].buckets[b]
    BY <1>2, <1>4 DEF Tracker
  <1>6. Records(r, new, nt)
    BY <1>1, <1>3, <1>4, <1>5 DEF Records
  <1> HIDE DEF new, nt
  <1>7. Phase(recorder[r].pc) = 3 /\ Phase(new.pc) = 4
    <2>1. recorder[r].pc = "count" /\ new.pc = "sum"
      BY <1>1, <1>3
    <2>2. Phase("count") = 3 /\ Phase("sum") = 4
      BY PhaseFacts
    <2> QED
      BY ONLY <2>1, <2>2
  <1>8. CountRight(t)'
    <2>1. /\ r \notin Passed(t, 3) /\ Passed(t, 3)' = Passed(t, 3) \cup {r}
          /\ MicrosOf' = MicrosOf /\ Failed' = Failed /\ \A b : InBucket(b)' = InBucket(b)
      BY <1>3, <1>7, Advance
    <2>2. Cardinality(Passed(t, 3) \cup {r}) = Cardinality(Passed(t, 3)) + 1
      BY <2>1, PassedFinite, OneMore
    <2> QED
      BY <1>2, <1>4, <2>1, <2>2 DEF TrackerRight, CountRight
  <1>9. TrackerRight(t)'
    <2>1. RequestsRight(t)' /\ ErrorsRight(t)' /\ BucketsRight(t)' /\ SumRight(t)' /\ MinRight(t)' /\ MaxRight(t)'
      BY <1>2, <1>3, <1>4, <1>7, Unaffected
    <2> QED
      BY <1>8, <2>1 DEF TrackerRight
  <1> QED
    BY <1>6, <1>9

(* The sum of the latencies. *)
LEMMA AddSumRecords ==
    ASSUME RecordingTypeOK, NEW r \in Recorders, NEW t, t = recorder[r].into,
           TrackerRight(t), AddSum(r)
    PROVE  (\E new, nt : Records(r, new, nt)) /\ TrackerRight(t)'
  <1> DEFINE nt == [tracker[t] EXCEPT !.sum = @ + Micros(r)]
             new == [recorder[r] EXCEPT !.pc = "min"]
  <1>1. tracker' = [tracker EXCEPT ![t] = nt] /\ Go(r, "min") /\ recorder[r].pc = "sum"
    BY DEF AddSum, Set, Into, At
  <1>2. tracker'[t] = nt /\ tracker[t] \in Tracker
    <2> HIDE DEF nt, new
    <2> QED
      BY <1>1, SetFacts
  <1>3. GoesOn(r, new) /\ new.pc = "min"
    BY <1>1, GoFacts DEF WriterPlaces
  <1>4. /\ nt \in Tracker /\ nt.sum = tracker[t].sum + Micros(r)
        /\ nt.requests = tracker[t].requests /\ nt.errors = tracker[t].errors
        /\ nt.buckets = tracker[t].buckets /\ nt.count = tracker[t].count
        /\ nt.min = tracker[t].min /\ nt.max = tracker[t].max
    <2>1. Micros(r) \in Nat /\ tracker[t].sum \in Nat
      BY <1>2, RecorderFacts, MetricsFacts DEF Tracker
    <2>2. tracker[t].sum + Micros(r) \in Nat
      BY <2>1
    <2> QED
      BY <1>2, <2>2 DEF Tracker
  <1>5. \A b \in Buckets : nt.buckets[b] >= tracker[t].buckets[b]
    BY <1>2, <1>4 DEF Tracker
  <1>6. Records(r, new, nt)
    BY <1>1, <1>3, <1>4, <1>5 DEF Records
  <1> HIDE DEF new, nt
  <1>7. Phase(recorder[r].pc) = 4 /\ Phase(new.pc) = 5
    <2>1. recorder[r].pc = "sum" /\ new.pc = "min"
      BY <1>1, <1>3
    <2>2. Phase("sum") = 4 /\ Phase("min") = 5
      BY PhaseFacts
    <2> QED
      BY ONLY <2>1, <2>2
  <1>8. SumRight(t)'
    <2>1. /\ r \notin Passed(t, 4) /\ Passed(t, 4)' = Passed(t, 4) \cup {r}
          /\ MicrosOf' = MicrosOf /\ Failed' = Failed /\ \A b : InBucket(b)' = InBucket(b)
      BY <1>3, <1>7, Advance
    <2>2. ASSUME NEW q \in Recorders PROVE MicrosOf[q] \in Nat
      BY RecorderFacts, MetricsFacts
    <2>3. Passed(t, 4) \subseteq Recorders /\ IsFiniteSet(Passed(t, 4))
      <3>1. Passed(t, 4) \subseteq Recorders
        BY DEF Passed
      <3> QED
        BY <3>1, PassedFinite
    <2>4. SumFunctionOnSet(MicrosOf, Passed(t, 4) \cup {r})
              = SumFunctionOnSet(MicrosOf, Passed(t, 4)) + MicrosOf[r]
      BY <2>1, <2>2, <2>3, SumWith
    <2>5. MicrosOf[r] = Micros(r)
      BY RecorderFacts
    <2> QED
      BY <1>2, <1>4, <2>1, <2>4, <2>5 DEF TrackerRight, SumRight
  <1>9. TrackerRight(t)'
    <2>1. RequestsRight(t)' /\ ErrorsRight(t)' /\ BucketsRight(t)' /\ CountRight(t)' /\ MinRight(t)' /\ MaxRight(t)'
      BY <1>2, <1>3, <1>4, <1>7, Unaffected
    <2> QED
      BY <1>8, <2>1 DEF TrackerRight
  <1> QED
    BY <1>6, <1>9

(* The smallest latency: looked at and good enough, looked at and to be    *)
(* lowered, lowered, or changed by somebody else in between.               *)
LEMMA UpdateMinRecords ==
    ASSUME RecordingTypeOK, NEW r \in Recorders, NEW t, t = recorder[r].into,
           TrackerRight(t), Looked(r), UpdateMin(r)
    PROVE  (\E new, nt : Records(r, new, nt)) /\ TrackerRight(t)'
  <1> DEFINE value == tracker[t].min
  <1>1. tracker[t] \in Tracker /\ value \in 0..Unset /\ t \in Trackers
    BY RecorderFacts DEF Tracker
  <1>2. /\ recorder[r] \in Recorder /\ Micros(r) \in 0..Unset /\ recorder[r].seen \in 0..Unset
        /\ recorder[r].result.micros = Micros(r) /\ MicrosOf[r] = Micros(r)
    BY RecorderFacts DEF Micros
  <1>3. "max" \in WriterPlaces /\ Phase("max") = 6
    BY PhaseFacts DEF WriterPlaces
  <1>4. CASE recorder[r].pc = "min" /\ Micros(r) < value /\ tracker' = tracker
              /\ recorder' = [recorder EXCEPT ![r] = [@ EXCEPT !.seen = value, !.pc = "swap min"]]
    <2> DEFINE new == [recorder[r] EXCEPT !.seen = value, !.pc = "swap min"]
    <2>1. GoesOn(r, new) /\ new.pc = "swap min" /\ new.seen = value /\ new.result = recorder[r].result
      BY <1>1, <1>2, <1>4 DEF GoesOn, Recorder, WriterPlaces
    <2>2. Records(r, new, tracker[t])
      <3> HIDE DEF new, value
      <3>1. tracker' = [tracker EXCEPT ![t] = tracker[t]]
        BY <1>4, <1>1 DEF RecordingTypeOK
      <3>2. \A b \in Buckets : tracker[t].buckets[b] >= tracker[t].buckets[b]
        BY <1>1 DEF Tracker
      <3>3. new.result.micros < new.seen
        BY <2>1, <1>2, <1>4
      <3> QED
        BY <2>1, <3>1, <3>2, <3>3, <1>1 DEF Records
    <2>3. TrackerRight(t)'
      <3> HIDE DEF new, value
      <3>1. Phase(recorder[r].pc) = Phase(new.pc)
        <4>1. recorder[r].pc = "min" /\ new.pc = "swap min"
          BY <1>4, <2>1
        <4> QED
          BY ONLY <4>1, PhaseFacts
      <3> QED
        BY ZenonT(40), <2>1, <3>1, <1>4, Stay, TrackerKeeps
    <2> QED
      BY <2>2, <2>3
  <1>5. CASE recorder[r].pc = "min" /\ ~(Micros(r) < value) /\ tracker' = tracker
              /\ recorder' = [recorder EXCEPT ![r] = [@ EXCEPT !.seen = value, !.pc = "max"]]
    <2> DEFINE new == [recorder[r] EXCEPT !.seen = value, !.pc = "max"]
    <2>1. GoesOn(r, new) /\ new.pc = "max"
      BY <1>1, <1>2, <1>3, <1>5 DEF GoesOn, Recorder
    <2>2. Records(r, new, tracker[t])
      <3> HIDE DEF new, value
      <3>1. tracker' = [tracker EXCEPT ![t] = tracker[t]]
        BY <1>5, <1>1 DEF RecordingTypeOK
      <3>2. \A b \in Buckets : tracker[t].buckets[b] >= tracker[t].buckets[b]
        BY <1>1 DEF Tracker
      <3>3. new.into = recorder[r].into
        BY <2>1 DEF GoesOn
      <3> QED
        BY <2>1, <3>1, <3>2, <3>3, <1>1 DEF Records
    <2>3. TrackerRight(t)'
      <3> HIDE DEF new
      <3>1. Phase(recorder[r].pc) = 5 /\ Phase(new.pc) = 6
        <4>1. recorder[r].pc = "min" /\ new.pc = "max" /\ Phase("max") = 6
          BY <1>5, <2>1, <1>3
        <4>2. Phase("min") = 5
          BY PhaseFacts
        <4> QED
          BY ONLY <4>1, <4>2
      <3>2. tracker'[t] = tracker[t]
        BY <1>5
      <3>3. MinRight(t)'
        <4>1. /\ Passed(t, 5)' = Passed(t, 5) \cup {r} /\ MicrosOf' = MicrosOf
              /\ Passed(t, 4)' = Passed(t, 4)
          BY <2>1, <3>1, Advance
        <4>2. value <= MicrosOf[r]
          BY <1>1, <1>2, <1>5
        <4> QED
          BY <3>2, <4>1, <4>2 DEF TrackerRight, MinRight
      <3>4. RequestsRight(t)' /\ ErrorsRight(t)' /\ BucketsRight(t)' /\ CountRight(t)' /\ SumRight(t)'
            /\ MaxRight(t)'
        BY <2>1, <3>1, <3>2, Unaffected
      <3> QED
        BY <3>3, <3>4 DEF TrackerRight
    <2> QED
      BY <2>2, <2>3
  <1>6. CASE recorder[r].pc = "swap min" /\ value = recorder[r].seen /\ Go(r, "max")
              /\ tracker' = [tracker EXCEPT ![t] = [tracker[t] EXCEPT !.min = Micros(r)]]
    <2> DEFINE new == [recorder[r] EXCEPT !.pc = "max"]
               nt == [tracker[t] EXCEPT !.min = Micros(r)]
    <2>1. GoesOn(r, new) /\ new.pc = "max" /\ new.into = recorder[r].into
      BY <1>3, <1>6, GoFacts DEF GoesOn
    <2>2. /\ nt \in Tracker /\ nt.min = Micros(r)
          /\ nt.requests = tracker[t].requests /\ nt.errors = tracker[t].errors
          /\ nt.buckets = tracker[t].buckets /\ nt.count = tracker[t].count
          /\ nt.sum = tracker[t].sum /\ nt.max = tracker[t].max
      BY <1>1, <1>2 DEF Tracker
    <2>3. Records(r, new, nt)
      <3> HIDE DEF value
      <3>1. \A b \in Buckets : tracker[t].buckets[b] >= tracker[t].buckets[b]
        BY <1>1 DEF Tracker
      <3>2. tracker' = [tracker EXCEPT ![t] = nt]
        BY <1>6
      <3> HIDE DEF new, nt
      <3> QED
        BY <2>1, <2>2, <3>1, <3>2 DEF Records
    <2>4. tracker'[t] = nt
      BY <1>6, <1>1 DEF RecordingTypeOK
    <2>5. TrackerRight(t)'
      <3> HIDE DEF new, nt
      <3>1. Phase(recorder[r].pc) = 5 /\ Phase(new.pc) = 6
        <4>1. recorder[r].pc = "swap min" /\ new.pc = "max" /\ Phase("max") = 6
          BY <1>6, <2>1, <1>3
        <4>2. Phase("swap min") = 5
          BY PhaseFacts
        <4> QED
          BY ONLY <4>1, <4>2
      <3>2. MinRight(t)'
        <4>1. /\ Passed(t, 5)' = Passed(t, 5) \cup {r} /\ MicrosOf' = MicrosOf
              /\ Passed(t, 4)' = Passed(t, 4)
          BY <2>1, <3>1, Advance
        <4>2. r \in Passed(t, 4)
          BY <3>1 DEF Passed
        <4>3. Micros(r) < value
          BY <1>2, <1>6 DEF Looked
        <4>4. \A q \in Passed(t, 5) : Micros(r) <= MicrosOf[q]
          <5>1. ASSUME NEW q \in Passed(t, 5) PROVE Micros(r) <= MicrosOf[q]
            <6>1. q \in Recorders
              BY DEF Passed
            <6>2. MicrosOf[q] \in Int /\ value <= MicrosOf[q]
              BY <6>1, RecorderFacts, MetricsFacts DEF TrackerRight, MinRight
            <6> QED
              BY <6>2, <4>3, <1>1, <1>2
          <5> QED
            BY <5>1
        <4>5. Micros(r) <= MicrosOf[r] /\ nt.min = MicrosOf[r]
          BY <1>2, <2>2
        <4> QED
          BY <2>2, <2>4, <4>1, <4>2, <4>4, <4>5 DEF MinRight
      <3>3. RequestsRight(t)' /\ ErrorsRight(t)' /\ BucketsRight(t)' /\ CountRight(t)' /\ SumRight(t)'
            /\ MaxRight(t)'
        BY <2>1, <2>2, <2>4, <3>1, Unaffected
      <3> QED
        BY <3>2, <3>3 DEF TrackerRight
    <2> QED
      BY <2>3, <2>5
  <1>7. CASE recorder[r].pc = "swap min" /\ Go(r, "min") /\ tracker' = tracker
    <2> DEFINE new == [recorder[r] EXCEPT !.pc = "min"]
    <2>1. GoesOn(r, new) /\ new.pc = "min"
      BY <1>7, GoFacts DEF WriterPlaces
    <2>2. Records(r, new, tracker[t])
      <3> HIDE DEF new, value
      <3>1. tracker' = [tracker EXCEPT ![t] = tracker[t]]
        BY <1>7, <1>1 DEF RecordingTypeOK
      <3>2. \A b \in Buckets : tracker[t].buckets[b] >= tracker[t].buckets[b]
        BY <1>1 DEF Tracker
      <3> QED
        BY <2>1, <3>1, <3>2, <1>1 DEF Records
    <2>3. TrackerRight(t)'
      <3> HIDE DEF new, value
      <3>1. Phase(recorder[r].pc) = Phase(new.pc)
        <4>1. recorder[r].pc = "swap min" /\ new.pc = "min"
          BY <1>7, <2>1
        <4> QED
          BY ONLY <4>1, PhaseFacts
      <3> QED
        BY <2>1, <3>1, <1>7, Stay, TrackerKeeps
    <2> QED
      BY <2>2, <2>3
  <1> QED
    <2>1. CASE Look(r, "min", "swap min", "max", Into(r).min, Micros(r) < Into(r).min)
      BY <2>1, <1>4, <1>5, <1>2 DEF Look, At, Into, RecordingTypeOK
    <2>2. CASE /\ At(r, "swap min")
               /\ IF Into(r).min = recorder[r].seen
                  THEN Set(r, [Into(r) EXCEPT !.min = Micros(r)]) /\ Go(r, "max")
                  ELSE Go(r, "min") /\ UNCHANGED tracker
      BY <2>2, <1>6, <1>7 DEF At, Into, Set
    <2> QED
      BY <2>1, <2>2 DEF UpdateMin

(* The largest latency, in the same way. *)
LEMMA UpdateMaxRecords ==
    ASSUME RecordingTypeOK, NEW r \in Recorders, NEW t, t = recorder[r].into,
           TrackerRight(t), Looked(r), UpdateMax(r)
    PROVE  (\E new, nt : Records(r, new, nt)) /\ TrackerRight(t)'
  <1> DEFINE value == tracker[t].max
  <1>1. tracker[t] \in Tracker /\ value \in 0..Unset /\ t \in Trackers
    BY RecorderFacts DEF Tracker
  <1>2. /\ recorder[r] \in Recorder /\ Micros(r) \in 0..Unset /\ recorder[r].seen \in 0..Unset
        /\ recorder[r].result.micros = Micros(r) /\ MicrosOf[r] = Micros(r)
    BY RecorderFacts DEF Micros
  <1>3. AfterMax(r) \in WriterPlaces /\ Phase(AfterMax(r)) = 7
    BY PhaseFacts DEF WriterPlaces, AfterMax
  <1>4. CASE recorder[r].pc = "max" /\ Micros(r) > value /\ tracker' = tracker
              /\ recorder' = [recorder EXCEPT ![r] = [@ EXCEPT !.seen = value, !.pc = "swap max"]]
    <2> DEFINE new == [recorder[r] EXCEPT !.seen = value, !.pc = "swap max"]
    <2>1. GoesOn(r, new) /\ new.pc = "swap max" /\ new.seen = value /\ new.result = recorder[r].result
      BY <1>1, <1>2, <1>4 DEF GoesOn, Recorder, WriterPlaces
    <2>2. Records(r, new, tracker[t])
      <3> HIDE DEF new, value
      <3>1. tracker' = [tracker EXCEPT ![t] = tracker[t]]
        BY <1>4, <1>1 DEF RecordingTypeOK
      <3>2. \A b \in Buckets : tracker[t].buckets[b] >= tracker[t].buckets[b]
        BY <1>1 DEF Tracker
      <3>3. new.result.micros > new.seen
        BY <2>1, <1>2, <1>4
      <3> QED
        BY <2>1, <3>1, <3>2, <3>3, <1>1 DEF Records
    <2>3. TrackerRight(t)'
      <3> HIDE DEF new, value
      <3>1. Phase(recorder[r].pc) = Phase(new.pc)
        <4>1. recorder[r].pc = "max" /\ new.pc = "swap max"
          BY <1>4, <2>1
        <4> QED
          BY ONLY <4>1, PhaseFacts
      <3> QED
        BY ZenonT(40), <2>1, <3>1, <1>4, Stay, TrackerKeeps
    <2> QED
      BY <2>2, <2>3
  <1>5. CASE recorder[r].pc = "max" /\ ~(Micros(r) > value) /\ tracker' = tracker
              /\ recorder' = [recorder EXCEPT ![r] = [@ EXCEPT !.seen = value, !.pc = AfterMax(r)]]
    <2> DEFINE new == [recorder[r] EXCEPT !.seen = value, !.pc = AfterMax(r)]
    <2>1. GoesOn(r, new) /\ new.pc = AfterMax(r)
      BY <1>1, <1>2, <1>3, <1>5 DEF GoesOn, Recorder
    <2>2. Records(r, new, tracker[t])
      <3> HIDE DEF new, value
      <3>1. tracker' = [tracker EXCEPT ![t] = tracker[t]]
        BY <1>5, <1>1 DEF RecordingTypeOK
      <3>2. \A b \in Buckets : tracker[t].buckets[b] >= tracker[t].buckets[b]
        BY <1>1 DEF Tracker
      <3>3. new.into = recorder[r].into
        BY <2>1 DEF GoesOn
      <3> QED
        BY <2>1, <3>1, <3>2, <3>3, <1>1 DEF Records, AfterMax
    <2>3. TrackerRight(t)'
      <3> HIDE DEF new
      <3>1. Phase(recorder[r].pc) = 6 /\ Phase(new.pc) = 7
        <4>1. recorder[r].pc = "max" /\ new.pc = AfterMax(r) /\ Phase(AfterMax(r)) = 7
          BY <1>5, <2>1, <1>3
        <4>2. Phase("max") = 6
          BY PhaseFacts
        <4> QED
          BY ONLY <4>1, <4>2
      <3>2. tracker'[t] = tracker[t]
        BY <1>5
      <3>3. MaxRight(t)'
        <4>1. /\ Passed(t, 6)' = Passed(t, 6) \cup {r} /\ MicrosOf' = MicrosOf
              /\ Passed(t, 5)' = Passed(t, 5)
          BY <2>1, <3>1, Advance
        <4>2. value >= MicrosOf[r]
          BY <1>1, <1>2, <1>5
        <4> QED
          BY <3>2, <4>1, <4>2 DEF TrackerRight, MaxRight
      <3>4. RequestsRight(t)' /\ ErrorsRight(t)' /\ BucketsRight(t)' /\ CountRight(t)' /\ SumRight(t)'
            /\ MinRight(t)'
        BY <2>1, <3>1, <3>2, Unaffected
      <3> QED
        BY <3>3, <3>4 DEF TrackerRight
    <2> QED
      BY <2>2, <2>3
  <1>6. CASE recorder[r].pc = "swap max" /\ value = recorder[r].seen /\ Go(r, AfterMax(r))
              /\ tracker' = [tracker EXCEPT ![t] = [tracker[t] EXCEPT !.max = Micros(r)]]
    <2> DEFINE new == [recorder[r] EXCEPT !.pc = AfterMax(r)]
               nt == [tracker[t] EXCEPT !.max = Micros(r)]
    <2>1. GoesOn(r, new) /\ new.pc = AfterMax(r) /\ new.into = recorder[r].into
      BY <1>3, <1>6, GoFacts DEF GoesOn
    <2>2. /\ nt \in Tracker /\ nt.max = Micros(r)
          /\ nt.requests = tracker[t].requests /\ nt.errors = tracker[t].errors
          /\ nt.buckets = tracker[t].buckets /\ nt.count = tracker[t].count
          /\ nt.sum = tracker[t].sum /\ nt.min = tracker[t].min
      BY <1>1, <1>2 DEF Tracker
    <2>3. Records(r, new, nt)
      <3> HIDE DEF value
      <3>1. \A b \in Buckets : tracker[t].buckets[b] >= tracker[t].buckets[b]
        BY <1>1 DEF Tracker
      <3>2. tracker' = [tracker EXCEPT ![t] = nt]
        BY <1>6
      <3> HIDE DEF new, nt
      <3> QED
        BY <2>1, <2>2, <3>1, <3>2 DEF Records, AfterMax
    <2>4. tracker'[t] = nt
      BY <1>6, <1>1 DEF RecordingTypeOK
    <2>5. TrackerRight(t)'
      <3> HIDE DEF new, nt
      <3>1. Phase(recorder[r].pc) = 6 /\ Phase(new.pc) = 7
        <4>1. recorder[r].pc = "swap max" /\ new.pc = AfterMax(r) /\ Phase(AfterMax(r)) = 7
          BY <1>6, <2>1, <1>3
        <4>2. Phase("swap max") = 6
          BY PhaseFacts
        <4> QED
          BY ONLY <4>1, <4>2
      <3>2. MaxRight(t)'
        <4>1. /\ Passed(t, 6)' = Passed(t, 6) \cup {r} /\ MicrosOf' = MicrosOf
              /\ Passed(t, 5)' = Passed(t, 5)
          BY <2>1, <3>1, Advance
        <4>2. r \in Passed(t, 5)
          BY <3>1 DEF Passed
        <4>3. Micros(r) > value
          BY <1>2, <1>6 DEF Looked
        <4>4. \A q \in Passed(t, 6) : Micros(r) >= MicrosOf[q]
          <5>1. ASSUME NEW q \in Passed(t, 6) PROVE Micros(r) >= MicrosOf[q]
            <6>1. q \in Recorders
              BY DEF Passed
            <6>2. MicrosOf[q] \in Int /\ value >= MicrosOf[q]
              BY <6>1, RecorderFacts, MetricsFacts DEF TrackerRight, MaxRight
            <6> QED
              BY <6>2, <4>3, <1>1, <1>2
          <5> QED
            BY <5>1
        <4>5. Micros(r) >= MicrosOf[r] /\ nt.max = MicrosOf[r]
          BY <1>2, <2>2
        <4> QED
          BY <2>2, <2>4, <4>1, <4>2, <4>4, <4>5 DEF MaxRight
      <3>3. RequestsRight(t)' /\ ErrorsRight(t)' /\ BucketsRight(t)' /\ CountRight(t)' /\ SumRight(t)'
            /\ MinRight(t)'
        BY <2>1, <2>2, <2>4, <3>1, Unaffected
      <3> QED
        BY <3>2, <3>3 DEF TrackerRight
    <2> QED
      BY <2>3, <2>5
  <1>7. CASE recorder[r].pc = "swap max" /\ Go(r, "max") /\ tracker' = tracker
    <2> DEFINE new == [recorder[r] EXCEPT !.pc = "max"]
    <2>1. GoesOn(r, new) /\ new.pc = "max"
      BY <1>7, GoFacts DEF WriterPlaces
    <2>2. Records(r, new, tracker[t])
      <3> HIDE DEF new, value
      <3>1. tracker' = [tracker EXCEPT ![t] = tracker[t]]
        BY <1>7, <1>1 DEF RecordingTypeOK
      <3>2. \A b \in Buckets : tracker[t].buckets[b] >= tracker[t].buckets[b]
        BY <1>1 DEF Tracker
      <3> QED
        BY <2>1, <3>1, <3>2, <1>1 DEF Records
    <2>3. TrackerRight(t)'
      <3> HIDE DEF new, value
      <3>1. Phase(recorder[r].pc) = Phase(new.pc)
        <4>1. recorder[r].pc = "swap max" /\ new.pc = "max"
          BY <1>7, <2>1
        <4> QED
          BY ONLY <4>1, PhaseFacts
      <3> QED
        BY <2>1, <3>1, <1>7, Stay, TrackerKeeps
    <2> QED
      BY <2>2, <2>3
  <1> QED
    <2>1. CASE Look(r, "max", "swap max", AfterMax(r), Into(r).max, Micros(r) > Into(r).max)
      BY <2>1, <1>4, <1>5, <1>2 DEF Look, At, Into, RecordingTypeOK
    <2>2. CASE /\ At(r, "swap max")
               /\ IF Into(r).max = recorder[r].seen
                  THEN Set(r, [Into(r) EXCEPT !.max = Micros(r)]) /\ Go(r, AfterMax(r))
                  ELSE Go(r, "max") /\ UNCHANGED tracker
      BY <2>2, <1>6, <1>7 DEF At, Into, Set
    <2> QED
      BY <2>1, <2>2 DEF UpdateMax

(* A step of a recorder at its tracker. *)
LEMMA RecorderNext ==
    ASSUME MetricsInv, NEW r \in Recorders, NEW t, t = recorder[r].into,
           \E new, nt : Records(r, new, nt), TrackerRight(t)',
           UNCHANGED <<trackerOf, trackersMade, snapshot>>
    PROVE  MetricsInv'
  <1> USE DEF MetricsInv
  <1>1. PICK new, nt : Records(r, new, nt)
    OBVIOUS
  <1>2. /\ new \in Recorder /\ new.into = t /\ new.result = recorder[r].result /\ nt \in Tracker
        /\ tracker' = [tracker EXCEPT ![t] = nt] /\ recorder' = [recorder EXCEPT ![r] = new]
        /\ \A b \in Buckets : nt.buckets[b] >= tracker[t].buckets[b]
    BY <1>1 DEF Records, GoesOn
  <1>3. t \in Trackers /\ tracker'[t] = nt /\ \A u \in Trackers \ {t} : tracker'[u] = tracker[u]
    BY <1>2, RecorderFacts DEF RecordingTypeOK
  <1>4. recorder'[r] = new /\ \A q \in Recorders \ {r} : recorder'[q] = recorder[q]
    BY <1>2 DEF RecordingTypeOK
  <1>5. RecordingTypeOK'
    BY <1>2 DEF RecordingTypeOK
  <1>6. ASSUME NEW u \in Trackers PROVE TrackerRight(u)'
    <2>1. CASE u = t
      BY <2>1
    <2>2. CASE u # t
      <3>1. GoesOn(r, new) /\ tracker'[u] = tracker[u] /\ TrackerRight(u)
        BY <1>1, <1>3, <2>2 DEF Records
      <3> QED
        BY <3>1, <2>2, OtherBuckets
    <2> QED
      BY <2>1, <2>2
  <1>7. ASSUME NEW q \in Recorders PROVE Looked(q)' /\ Placed(q)'
    <2>1. CASE q = r
      <3>1. Looked(r)'
        BY <1>1, <1>4 DEF Records, Looked
      <3>2. Placed(r)
        OBVIOUS
      <3>3. Placed(r)'
        BY ZenonT(40), <1>1, <1>2, <1>4, <3>2 DEF Records, Placed
      <3> QED
        BY <2>1, <3>1, <3>3
    <2>2. CASE q # r
      <3>1. recorder'[q] = recorder[q] /\ Looked(q) /\ Placed(q)
        BY <1>4, <2>2
      <3> QED
        BY <3>1 DEF Looked, Placed
    <2> QED
      BY <2>1, <2>2
  <1>8. TrackersInv'
    <2>1. \A q \in Recorders : recorder'[q].into = recorder[q].into /\ recorder'[q].result = recorder[q].result
      BY <1>2, <1>4
    <2>2. AtSteps' = AtSteps
      BY <2>1 DEF AtSteps
    <2>3. AtSteps \subseteq Recorders
      BY DEF AtSteps
    <2> QED
      BY <2>1, <2>2, <2>3 DEF TrackersInv
  <1>9. SnapshotInv'
    <2>1. /\ tracker[Run].buckets \in [Buckets -> Nat] /\ tracker'[Run].buckets \in [Buckets -> Nat]
      BY <1>5, MetricsFacts DEF RecordingTypeOK, Tracker
    <2>2. \A b \in Buckets : tracker[Run].buckets[b] <= tracker'[Run].buckets[b]
      <3>1. CASE t = Run
        BY <3>1, <1>2, <1>3, <2>1
      <3>2. CASE t # Run
        BY <3>2, <1>3, <2>1, MetricsFacts
      <3> QED
        BY <3>1, <3>2
    <2>3. Ahead' = Ahead /\ Ahead \subseteq Buckets /\ IsFiniteSet(Ahead)
      BY MetricsFacts, FS_Subset DEF Ahead
    <2>4. SumFunctionOnSet(tracker[Run].buckets, Ahead) <= SumFunctionOnSet(tracker'[Run].buckets, Ahead)
      <3>1. \A b \in Ahead : /\ tracker[Run].buckets[b] \in Nat /\ tracker'[Run].buckets[b] \in Nat
                             /\ tracker[Run].buckets[b] <= tracker'[Run].buckets[b]
        BY <2>1, <2>2, <2>3
      <3> QED
        BY <3>1, <2>3, SumNotLess
    <2>5. /\ SumFunctionOnSet(tracker[Run].buckets, Ahead) \in Nat
          /\ SumFunctionOnSet(tracker'[Run].buckets, Ahead) \in Nat
      BY <2>1, <2>3, SumType
    <2>6. snapshot.pc = "scan" => snapshot.rank <= snapshot.sum + SumFunctionOnSet(tracker'[Run].buckets, Ahead)
      BY <2>4, <2>5 DEF SnapshotInv, SnapshotType
    <2>7. snapshot.pc = "found" => tracker'[Run].buckets[snapshot.bucket] > 0
      BY <2>1, <2>2 DEF SnapshotInv, SnapshotType
    <2> QED
      BY <2>3, <2>6, <2>7 DEF SnapshotInv
  <1> QED
    BY <1>5, <1>6, <1>7, <1>8, <1>9

(* A recorder that is through with the run comes to the tracker of its step. *)
LEMMA GoesToStep ==
    ASSUME MetricsInv, NEW r \in Recorders, recorder[r].pc \in {"lookup", "make"},
           NEW number \in Trackers, number # Run, tracker' = tracker,
           recorder' = [recorder EXCEPT ![r].pc = "requests", ![r].into = number]
    PROVE  /\ RecordingTypeOK' /\ \A t \in Trackers : TrackerRight(t)'
           /\ \A q \in Recorders : Looked(q)'
           /\ \A q \in Recorders : recorder'[q].result = recorder[q].result
           /\ \A q \in Recorders \ {r} : recorder'[q] = recorder[q]
           /\ recorder'[r].pc = "requests" /\ recorder'[r].into = number
           /\ AtSteps' = AtSteps \cup {r} /\ r \notin AtSteps
           /\ Cardinality(AtSteps') = Cardinality(AtSteps) + 1 /\ Cardinality(AtSteps) \in Nat
  <1> USE DEF MetricsInv
  <1>1. recorder[r] \in Recorder /\ recorder[r].into = Run
    BY RecorderFacts DEF Placed
  <1>2. recorder' = [recorder EXCEPT ![r] = [recorder[r] EXCEPT !.pc = "requests", !.into = number]]
    BY DEF RecordingTypeOK
  <1>3. [recorder[r] EXCEPT !.pc = "requests", !.into = number] \in Recorder
    BY <1>1 DEF Recorder, WriterPlaces
  <1>4. RecordingTypeOK'
    BY <1>2, <1>3 DEF RecordingTypeOK
  <1>5. /\ \A q \in Recorders \ {r} : recorder'[q] = recorder[q]
        /\ recorder'[r].pc = "requests" /\ recorder'[r].into = number
        /\ recorder'[r].result = recorder[r].result
    BY <1>1, <1>2 DEF RecordingTypeOK, Recorder
  <1>6. \A q \in Recorders : recorder'[q].result = recorder[q].result
    BY <1>5
  <1>7. Phase(recorder[r].pc) = 7
    BY PhaseFacts
  <1>8. ASSUME NEW t \in Trackers, NEW j \in 0..6 PROVE Passed(t, j)' = Passed(t, j)
    <2>1. \A q \in Recorders : q # r => (q \in Passed(t, j)' <=> q \in Passed(t, j))
      <3>1. \A q \in Recorders : q # r => recorder'[q] = recorder[q]
        BY <1>5
      <3> QED
        BY <3>1 DEF Passed
    <2>2. ~(Phase("requests") > j) /\ Phase(recorder[r].pc) > j
      <3>1. Phase("requests") = 0
        BY PhaseFacts
      <3> QED
        BY <1>7, <3>1
    <2>3. r \in Passed(t, j)' <=> t = Run
      BY <1>5, <2>2 DEF Passed
    <2>4. r \in Passed(t, j) <=> t = Run
      BY <1>1, <2>2 DEF Passed
    <2>5. Passed(t, j) \subseteq Recorders /\ Passed(t, j)' \subseteq Recorders
      BY DEF Passed
    <2> QED
      BY <2>1, <2>3, <2>4, <2>5
  <1>9. ASSUME NEW t \in Trackers PROVE TrackerRight(t)'
    <2>1. \A j \in 0..6 : Passed(t, j)' = Passed(t, j)
      BY <1>8
    <2> QED
      BY <2>1, <1>6, TrackerKeeps
  <1>10. ASSUME NEW q \in Recorders PROVE Looked(q)'
    BY <1>5 DEF Looked
  <1>11. AtSteps' = AtSteps \cup {r} /\ r \notin AtSteps
    BY <1>1, <1>5 DEF AtSteps
  <1>12. IsFiniteSet(AtSteps)
    BY MetricsFacts, FS_Subset DEF AtSteps
  <1>13. Cardinality(AtSteps') = Cardinality(AtSteps) + 1 /\ Cardinality(AtSteps) \in Nat
    BY <1>11, <1>12, FS_AddElement, FS_CardinalityType
  <1> QED
    BY <1>4, <1>5, <1>6, <1>9, <1>10, <1>11, <1>13

(* There is a number for another tracker. *)
LEMMA NumbersLast ==
    ASSUME MetricsInv
    PROVE  /\ Cardinality(AtSteps) \in Nat /\ trackersMade \in Nat
           /\ trackersMade <= Cardinality(Recorders)
           /\ \A n \in 1..trackersMade : n \in Trackers /\ n # Run
           /\ AtSteps # Recorders => trackersMade + 1 \in Trackers /\ trackersMade + 1 # Run
  <1>1. AtSteps \in SUBSET Recorders
    BY DEF AtSteps
  <1>2. /\ Cardinality(AtSteps) \in Nat /\ Cardinality(Recorders) \in Nat
        /\ Cardinality(AtSteps) <= Cardinality(Recorders)
        /\ AtSteps # Recorders => Cardinality(AtSteps) < Cardinality(Recorders)
    <2>1. IsFiniteSet(AtSteps)
      BY <1>1, MetricsFacts, FS_Subset
    <2> QED
      BY <1>1, <2>1, MetricsFacts, FS_Subset, FS_CardinalityType
  <1>3. trackersMade \in Nat /\ trackersMade <= Cardinality(AtSteps)
    BY DEF MetricsInv, TrackersInv
  <1> QED
    BY <1>2, <1>3 DEF Trackers, Run

(* RecordStep finds a tracker, or goes to make one. *)
LEMMA LookUpNext ==
    ASSUME MetricsInv, NEW r \in Recorders, LookUp(r), UNCHANGED snapshot
    PROVE  MetricsInv'
  <1> USE DEF MetricsInv
  <1> DEFINE step == recorder[r].result.step
  <1>1. /\ recorder[r].pc = "lookup" /\ tracker' = tracker
        /\ trackerOf' = trackerOf /\ trackersMade' = trackersMade
    BY DEF LookUp, At
  <1>2. SnapshotInv'
    <2>1. Ahead' = Ahead
      BY DEF Ahead
    <2> QED
      BY <1>1, <2>1 DEF SnapshotInv
  <1>3. CASE step \in DOMAIN trackerOf
    <2>1. recorder' = [recorder EXCEPT ![r].pc = "requests", ![r].into = trackerOf[step]]
      BY <1>3 DEF LookUp
    <2>2. trackerOf[step] \in Trackers /\ trackerOf[step] # Run
      BY <1>3, NumbersLast DEF TrackersInv
    <2> DEFINE number == trackerOf[step]
    <2>3. /\ RecordingTypeOK' /\ \A t \in Trackers : TrackerRight(t)'
          /\ \A q \in Recorders : Looked(q)'
          /\ \A q \in Recorders : recorder'[q].result = recorder[q].result
          /\ \A q \in Recorders \ {r} : recorder'[q] = recorder[q]
          /\ recorder'[r].pc = "requests" /\ recorder'[r].into = number
          /\ AtSteps' = AtSteps \cup {r} /\ r \notin AtSteps
          /\ Cardinality(AtSteps') = Cardinality(AtSteps) + 1 /\ Cardinality(AtSteps) \in Nat
      <3>1. number \in Trackers /\ number # Run /\ recorder[r].pc \in {"lookup", "make"}
            /\ recorder' = [recorder EXCEPT ![r].pc = "requests", ![r].into = number]
        BY <1>1, <2>1, <2>2
      <3> HIDE DEF number
      <3> QED
        BY <1>1, <3>1, GoesToStep
    <2>4. ASSUME NEW q \in Recorders PROVE Placed(q)'
      <3>1. Placed(q)
        OBVIOUS
      <3> QED
        BY <3>1, <1>1, <1>3, <2>3 DEF Placed
    <2>5. TrackersInv'
      <3>1. trackersMade <= Cardinality(AtSteps')
        BY <2>3 DEF TrackersInv
      <3>2. \A s \in DOMAIN trackerOf : \E q \in AtSteps' : recorder'[q].result.step = s
        BY <2>3 DEF TrackersInv, AtSteps
      <3> QED
        BY <1>1, <3>1, <3>2 DEF TrackersInv
    <2> QED
      BY <1>2, <2>3, <2>4, <2>5
  <1>4. CASE step \notin DOMAIN trackerOf
    <2> DEFINE new == [recorder[r] EXCEPT !.pc = "make"]
    <2>1. Go(r, "make")
      BY <1>4 DEF LookUp
    <2>2. GoesOn(r, new) /\ new.pc = "make"
      BY <2>1, GoFacts DEF WriterPlaces
    <2>3. recorder[r].into = Run /\ recorder[r].into \in Trackers /\ tracker[recorder[r].into] \in Tracker
      BY <1>1, RecorderFacts DEF Placed
    <2>4. Records(r, new, tracker[recorder[r].into])
      <3>1. tracker' = [tracker EXCEPT ![recorder[r].into] = tracker[recorder[r].into]]
        BY <1>1, <2>3 DEF RecordingTypeOK
      <3>2. \A b \in Buckets : tracker[recorder[r].into].buckets[b] >= tracker[recorder[r].into].buckets[b]
        BY <2>3 DEF Tracker
      <3>3. new.into = Run
        BY <2>2, <2>3 DEF GoesOn
      <3> HIDE DEF new
      <3> QED
        BY <2>2, <2>3, <3>1, <3>2, <3>3 DEF Records
    <2>5. TrackerRight(Run)'
      <3>1. Phase(recorder[r].pc) = Phase(new.pc)
        <4>1. recorder[r].pc = "lookup" /\ new.pc = "make"
          BY <1>1, <2>2
        <4> QED
          BY ONLY <4>1, PhaseFacts
      <3>2. TrackerRight(Run) /\ tracker'[Run] = tracker[Run] /\ Run = recorder[r].into
        BY <1>1, <2>3
      <3> HIDE DEF new
      <3> QED
        BY <2>2, <3>1, <3>2, Stay, TrackerKeeps
    <2> HIDE DEF new
    <2> QED
      BY <1>1, <2>3, <2>4, <2>5, RecorderNext
  <1> QED
    BY <1>3, <1>4

(* RecordStep makes the tracker, or finds that it is there by now. *)
LEMMA MakeTrackerNext ==
    ASSUME MetricsInv, NEW r \in Recorders, MakeTracker(r), UNCHANGED snapshot
    PROVE  MetricsInv'
  <1> USE DEF MetricsInv
  <1> DEFINE step == recorder[r].result.step
             known == step \in DOMAIN trackerOf
             number == IF known THEN trackerOf[step] ELSE trackersMade + 1
  <1>1. /\ recorder[r].pc = "make" /\ tracker' = tracker
        /\ trackersMade' = IF known THEN trackersMade ELSE number
        /\ trackerOf' = [s \in DOMAIN trackerOf \cup {step} |-> IF s = step THEN number ELSE trackerOf[s]]
        /\ recorder' = [recorder EXCEPT ![r].pc = "requests", ![r].into = number]
    BY DEF MakeTracker, At
  <1>2. SnapshotInv'
    <2>1. Ahead' = Ahead
      BY DEF Ahead
    <2> QED
      BY <1>1, <2>1 DEF SnapshotInv
  <1>3. number \in Trackers /\ number # Run
    <2>1. CASE known
      BY <2>1, NumbersLast DEF TrackersInv
    <2>2. CASE ~known
      <3>1. r \notin AtSteps
        BY <1>1 DEF AtSteps, Placed
      <3> QED
        BY <2>2, <3>1, NumbersLast
    <2> QED
      BY <2>1, <2>2
  <1>4. /\ DOMAIN trackerOf' = DOMAIN trackerOf \cup {step}
        /\ \A s \in DOMAIN trackerOf : trackerOf'[s] = trackerOf[s]
        /\ trackerOf'[step] = number
    BY <1>1
  <1>5. /\ RecordingTypeOK' /\ \A t \in Trackers : TrackerRight(t)'
        /\ \A q \in Recorders : Looked(q)'
        /\ \A q \in Recorders : recorder'[q].result = recorder[q].result
        /\ \A q \in Recorders \ {r} : recorder'[q] = recorder[q]
        /\ recorder'[r].pc = "requests" /\ recorder'[r].into = number
        /\ AtSteps' = AtSteps \cup {r} /\ r \notin AtSteps
        /\ Cardinality(AtSteps') = Cardinality(AtSteps) + 1 /\ Cardinality(AtSteps) \in Nat
    <2>1. recorder[r].pc \in {"lookup", "make"}
      BY <1>1
    <2> HIDE DEF number
    <2> QED
      BY <1>1, <1>3, <2>1, GoesToStep
  <1>6. ASSUME NEW q \in Recorders PROVE Placed(q)'
    <2>1. Placed(q)
      OBVIOUS
    <2> HIDE DEF number
    <2>2. CASE q = r
      BY <2>2, <1>4, <1>5 DEF Placed
    <2>3. CASE q # r
      BY <2>1, <2>3, <1>4, <1>5 DEF Placed
    <2> QED
      BY <2>2, <2>3
  <1>7. TrackersInv'
    <2>1. trackersMade' \in Nat /\ trackersMade' <= Cardinality(AtSteps')
      BY <1>1, <1>5 DEF TrackersInv
    <2>2. ASSUME NEW s \in DOMAIN trackerOf'
          PROVE  trackerOf'[s] \in 1..trackersMade' /\ \E q \in AtSteps' : recorder'[q].result.step = s
      <3>1. CASE s \in DOMAIN trackerOf
        <4>1. trackerOf[s] \in 1..trackersMade /\ \E q \in AtSteps : recorder[q].result.step = s
          BY <3>1 DEF TrackersInv
        <4>2. trackersMade <= trackersMade' /\ trackersMade \in Nat
          BY <1>1 DEF TrackersInv
        <4>3. AtSteps \subseteq Recorders /\ AtSteps \subseteq AtSteps'
          BY <1>5 DEF AtSteps
        <4> QED
          BY <3>1, <4>1, <4>2, <4>3, <2>1, <1>4, <1>5
      <3>2. CASE s \notin DOMAIN trackerOf
        <4>1. s = step /\ trackerOf'[s] = trackersMade + 1 /\ trackersMade' = trackersMade + 1
          BY <1>1, <1>4, <3>2
        <4>2. trackersMade \in Nat
          BY DEF TrackersInv
        <4>3. r \in AtSteps' /\ recorder'[r].result.step = s
          BY <1>5, <4>1
        <4> QED
          BY <4>1, <4>2, <4>3
      <3> QED
        BY <3>1, <3>2
    <2>3. ASSUME NEW s \in DOMAIN trackerOf', NEW u \in DOMAIN trackerOf', trackerOf'[s] = trackerOf'[u]
          PROVE  s = u
      <3>1. \A v \in DOMAIN trackerOf : trackerOf[v] \in 1..trackersMade /\ trackersMade \in Nat
        BY DEF TrackersInv
      <3>2. ~known => \A v \in DOMAIN trackerOf : trackerOf[v] # number
        BY <3>1
      <3>3. known => step \in DOMAIN trackerOf /\ trackerOf[step] = number
        OBVIOUS
      <3> HIDE DEF known, number, step
      <3>4. \A v, w \in DOMAIN trackerOf : trackerOf[v] = trackerOf[w] => v = w
        BY DEF TrackersInv
      <3> QED
        BY <1>4, <2>3, <3>2, <3>3, <3>4
    <2> QED
      BY <2>1, <2>2, <2>3 DEF TrackersInv
  <1> QED
    BY <1>2, <1>5, <1>6, <1>7

(* Snapshot steps, that read a tracker and change none. *)
LEMMA OnlySnapshot ==
    ASSUME MetricsInv, UNCHANGED <<tracker, trackerOf, trackersMade, recorder>>, SnapshotInv'
    PROVE  MetricsInv'
  <1> USE DEF MetricsInv
  <1>1. RecordingTypeOK' /\ TrackersInv'
    BY DEF RecordingTypeOK, TrackersInv, AtSteps
  <1>2. ASSUME NEW q \in Recorders PROVE Looked(q)' /\ Placed(q)'
    <2>1. Looked(q) /\ Placed(q)
      OBVIOUS
    <2> QED
      BY <2>1 DEF Looked, Placed
  <1>3. ASSUME NEW t \in Trackers PROVE TrackerRight(t)'
    <2>1. /\ \A phase \in 0..6 : Passed(t, phase)' = Passed(t, phase)
          /\ \A q \in Recorders : recorder'[q].result = recorder[q].result
          /\ tracker'[t] = tracker[t]
      BY DEF Passed
    <2> QED
      BY <2>1, TrackerKeeps
  <1> QED
    BY <1>1, <1>2, <1>3

(* The rank of a quantile is one of the results counted. *)
LEMMA RankFacts ==
    ASSUME NEW percentage \in 1..99, NEW total \in Nat
    PROVE  /\ CeilDiv(percentage * total, 100) \in Nat
           /\ total # 0 => /\ CeilDiv(percentage * total, 100) > 0
                           /\ CeilDiv(percentage * total, 100) <= total
  <1> DEFINE asked == percentage * total
  <1>1. asked \in Nat /\ asked <= 99 * total /\ (total # 0 => asked > 0)
    OBVIOUS
  <1> HIDE DEF asked
  <1>2. (asked + 100 - 1) \div 100 \in Nat
    BY <1>1
  <1>3. total # 0 => (asked + 100 - 1) \div 100 > 0 /\ (asked + 100 - 1) \div 100 <= total
    BY <1>1
  <1> QED
    BY <1>2, <1>3 DEF CeilDiv, asked

(* No more have raised the count than their bucket before. *)
LEMMA CountNotAhead ==
    ASSUME MetricsInv
    PROVE  /\ tracker[Run].count \in Nat /\ tracker[Run].buckets \in [Buckets -> Nat]
           /\ SumFunctionOnSet(tracker[Run].buckets, Buckets) \in Nat
           /\ tracker[Run].count <= SumFunctionOnSet(tracker[Run].buckets, Buckets)
  <1>1. /\ tracker[Run] \in Tracker
        /\ tracker[Run].count = Cardinality(Passed(Run, 3))
        /\ SumFunctionOnSet(tracker[Run].buckets, Buckets) = Cardinality(Passed(Run, 2))
    BY MetricsFacts DEF MetricsInv, RecordingTypeOK, TrackerRight, CountRight, BucketsRight
  <1>2. ASSUME NEW q \in Passed(Run, 3) PROVE q \in Passed(Run, 2)
    <2>1. q \in Recorders /\ Phase(recorder[q].pc) \in 0..7
      BY RecorderFacts DEF MetricsInv, Passed
    <2>2. Phase(recorder[q].pc) > 3 => Phase(recorder[q].pc) > 2
      BY <2>1
    <2> QED
      BY <2>1, <2>2 DEF Passed
  <1>3. IsFiniteSet(Passed(Run, 2)) /\ Passed(Run, 3) \subseteq Passed(Run, 2)
    BY <1>2, PassedFinite
  <1>4. Cardinality(Passed(Run, 3)) <= Cardinality(Passed(Run, 2))
        /\ Cardinality(Passed(Run, 3)) \in Nat /\ Cardinality(Passed(Run, 2)) \in Nat
    BY <1>3, FS_Subset, FS_CardinalityType
  <1> QED
    BY <1>1, <1>4 DEF Tracker

(* The rank is asked for among results that are all in buckets. *)
LEMMA ReadCountNext ==
    ASSUME MetricsInv, NEW percentage \in Percentages, ReadCount(percentage),
           UNCHANGED <<tracker, trackerOf, trackersMade, recorder>>
    PROVE  SnapshotInv'
  <1> DEFINE total == tracker[Run].count
             rank == CeilDiv(percentage * total, 100)
  <1>1. /\ snapshot \in SnapshotType /\ snapshot.pc = "count" /\ snapshot.sum = 0 /\ snapshot.bucket = 0
        /\ snapshot' = [snapshot EXCEPT !.pc = IF total = 0 THEN "idle" ELSE "scan", !.rank = rank]
    BY DEF MetricsInv, SnapshotInv, ReadCount
  <1>2. /\ total \in Nat /\ total <= SumFunctionOnSet(tracker[Run].buckets, Buckets)
        /\ SumFunctionOnSet(tracker[Run].buckets, Buckets) \in Nat
    BY CountNotAhead
  <1>3. rank \in Nat /\ (total # 0 => rank > 0 /\ rank <= total)
    <2>1. percentage \in 1..99 /\ total \in Nat
      BY MetricsFacts, <1>2
    <2> HIDE DEF total
    <2> QED
      BY <2>1, RankFacts
  <1> HIDE DEF rank, total
  <1>4. /\ snapshot'.pc = IF total = 0 THEN "idle" ELSE "scan"
        /\ snapshot'.rank = rank /\ snapshot'.sum = 0 /\ snapshot'.bucket = 0
        /\ snapshot' \in SnapshotType
    BY <1>1, <1>3 DEF SnapshotType
  <1>5. Ahead' = Buckets
    <2>1. ASSUME NEW b \in Buckets PROVE b >= 0
      BY MetricsFacts
    <2> QED
      BY <1>4, <2>1 DEF Ahead
  <1>6. total # 0 => rank <= 0 + SumFunctionOnSet(tracker'[Run].buckets, Buckets) /\ 0 < rank
    BY <1>2, <1>3
  <1> QED
    BY <1>4, <1>5, <1>6 DEF SnapshotInv

(* What the buckets read lack, those ahead still have. *)
LEMMA ScanBucketNext ==
    ASSUME MetricsInv, ScanBucket, UNCHANGED <<tracker, trackerOf, trackersMade, recorder>>
    PROVE  SnapshotInv'
  <1> DEFINE buckets == tracker[Run].buckets
             at == snapshot.bucket
             cumulative == snapshot.sum + buckets[at]
  <1>1. /\ snapshot \in SnapshotType /\ snapshot.pc = "scan" /\ snapshot.sum < snapshot.rank
        /\ snapshot.rank <= snapshot.sum + SumFunctionOnSet(buckets, Ahead)
        /\ snapshot' = [snapshot EXCEPT !.sum = cumulative,
                            !.bucket = IF cumulative < snapshot.rank /\ @ < TotalBuckets - 1
                                       THEN @ + 1 ELSE @,
                            !.pc = IF cumulative >= snapshot.rank THEN "found"
                                   ELSE IF snapshot.bucket = TotalBuckets - 1 THEN "not found"
                                   ELSE "scan"]
    BY DEF MetricsInv, SnapshotInv, ScanBucket
  <1>2. /\ at \in Buckets /\ buckets \in [Buckets -> Nat] /\ buckets[at] \in Nat
        /\ snapshot.sum \in Nat /\ snapshot.rank \in Nat
        /\ TotalBuckets \in Nat /\ at \in Nat /\ at <= TotalBuckets - 1
    BY SMTT(30), <1>1, CountNotAhead, MetricsFacts DEF SnapshotType, Buckets
  <1>3. IsFiniteSet(Ahead) /\ Ahead \subseteq Buckets /\ at \in Ahead
    BY <1>2, MetricsFacts, FS_Subset DEF Ahead
  <1>4. /\ SumFunctionOnSet(buckets, Ahead) = buckets[at] + SumFunctionOnSet(buckets, Ahead \ {at})
        /\ SumFunctionOnSet(buckets, Ahead \ {at}) \in Nat
    <2>1. /\ IsFiniteSet(Ahead) /\ IsFiniteSet(Ahead \ {at}) /\ at \in Ahead
          /\ \A b \in Ahead : buckets[b] \in Nat
      BY <1>2, <1>3, FS_Subset
    <2> HIDE DEF buckets, at
    <2> QED
      BY <2>1, SumWithout, SumType
  <1> HIDE DEF buckets, at
  <1>5. snapshot.rank <= cumulative + SumFunctionOnSet(buckets, Ahead \ {at}) /\ cumulative \in Nat
    BY <1>1, <1>2, <1>4
  <1>6. at = TotalBuckets - 1 => cumulative >= snapshot.rank
    <2>1. SUFFICES ASSUME at = TotalBuckets - 1 PROVE cumulative >= snapshot.rank
      OBVIOUS
    <2>2. Ahead \ {at} = {}
      BY <2>1, <1>2 DEF Ahead, Buckets, at
    <2>3. SumFunctionOnSet(buckets, Ahead \ {at}) = 0
      <3> HIDE DEF cumulative
      <3>1. SumFunctionOnSet(buckets, {}) = 0
        BY ONLY SumEmpty
      <3> QED
        BY ONLY <2>2, <3>1
    <2> QED
      <3>1. snapshot.rank \in Nat
        BY <1>2
      <3> HIDE DEF cumulative
      <3>2. cumulative \in Int /\ snapshot.rank <= cumulative + 0
        BY ONLY <1>5, <2>3
      <3> QED
        BY ONLY <3>1, <3>2
  <1>7. CASE cumulative >= snapshot.rank
    <2>1. /\ snapshot'.pc = "found" /\ snapshot'.bucket = at /\ snapshot' \in SnapshotType
      <3> HIDE DEF cumulative
      <3>1. ~(cumulative < snapshot.rank)
        BY <1>2, <1>5, <1>7
      <3> QED
        BY <1>1, <1>2, <1>5, <1>7, <3>1 DEF SnapshotType, at
    <2>2. buckets[at] > 0
      BY <1>1, <1>2, <1>7
    <2>3. tracker'[Run].buckets[snapshot'.bucket] > 0
      BY <2>1, <2>2 DEF buckets
    <2> QED
      BY <2>1, <2>3 DEF SnapshotInv
  <1>8. CASE ~(cumulative >= snapshot.rank)
    <2>1. cumulative < snapshot.rank /\ at # TotalBuckets - 1 /\ at < TotalBuckets - 1
      BY <1>2, <1>5, <1>6, <1>8
    <2>2. at + 1 \in Buckets
      BY <1>2, <2>1 DEF Buckets
    <2>3. /\ snapshot'.pc = "scan" /\ snapshot'.bucket = at + 1 /\ snapshot'.sum = cumulative
          /\ snapshot'.rank = snapshot.rank /\ snapshot' \in SnapshotType
      <3> HIDE DEF cumulative
      <3> QED
        BY <1>1, <1>2, <1>5, <1>8, <2>1, <2>2 DEF SnapshotType, at
    <2>4. Ahead' = Ahead \ {at}
      <3>1. Ahead' = {b \in Buckets : b >= at + 1} /\ Ahead = {b \in Buckets : b >= at}
        BY <2>3 DEF Ahead, at
      <3>2. \A b \in Buckets : b >= at + 1 <=> b >= at /\ b # at
        BY <1>2, MetricsFacts
      <3> QED
        BY <3>1, <3>2
    <2>5. SumFunctionOnSet(tracker'[Run].buckets, Ahead') = SumFunctionOnSet(buckets, Ahead \ {at})
      BY <2>4 DEF buckets
    <2> HIDE DEF cumulative
    <2> QED
      BY <1>5, <2>1, <2>3, <2>5 DEF SnapshotInv
  <1> QED
    BY <1>7, <1>8

(* A snapshot keeps the invariant. *)
LEMMA SnapshotNext ==
    ASSUME MetricsInv, SnapshotStep
    PROVE  MetricsInv'
  <1>1. UNCHANGED <<tracker, trackerOf, trackersMade, recorder>>
    BY DEF SnapshotStep
  <1>2. snapshot \in SnapshotType /\ tracker[Run] \in Tracker /\ 0 \in Buckets
    BY MetricsFacts DEF MetricsInv, SnapshotInv, RecordingTypeOK
  <1>3. CASE TakeSnapshot
    <2>1. snapshot' \in SnapshotType /\ snapshot'.pc = "errors" /\ snapshot'.sum = 0 /\ snapshot'.bucket = 0
      BY <1>2, <1>3 DEF TakeSnapshot, NoSnapshot, SnapshotType, Tracker
    <2> QED
      BY <1>1, <2>1, OnlySnapshot DEF SnapshotInv
  <1>4. CASE ReadErrors
    <2>1. /\ snapshot' \in SnapshotType /\ snapshot'.pc = "count"
          /\ snapshot'.sum = snapshot.sum /\ snapshot'.bucket = snapshot.bucket
      BY <1>2, <1>4 DEF ReadErrors, SnapshotType, Tracker
    <2>2. snapshot.sum = 0 /\ snapshot.bucket = 0
      BY <1>4 DEF ReadErrors, MetricsInv, SnapshotInv
    <2> QED
      BY <1>1, <2>1, <2>2, OnlySnapshot DEF SnapshotInv
  <1>5. CASE ScanBucket
    BY <1>1, <1>5, ScanBucketNext, OnlySnapshot
  <1>6. CASE EndSnapshot
    <2>1. snapshot' \in SnapshotType /\ snapshot'.pc = "idle" /\ snapshot'.sum = 0 /\ snapshot'.bucket = 0
      BY <1>2, <1>6 DEF EndSnapshot, NoSnapshot, SnapshotType
    <2> QED
      BY <1>1, <2>1, OnlySnapshot DEF SnapshotInv
  <1>7. ASSUME NEW percentage \in Percentages, ReadCount(percentage) PROVE MetricsInv'
    BY <1>1, <1>7, ReadCountNext, OnlySnapshot
  <1> QED
    BY <1>3, <1>4, <1>5, <1>6, <1>7 DEF SnapshotStep

(* Nobody has recorded anything at first. *)
LEMMA MetricsInitially ==
    MetricsInit => MetricsInv
  <1> SUFFICES ASSUME MetricsInit PROVE MetricsInv
    OBVIOUS
  <1>1. /\ tracker = [t \in Trackers |-> Empty] /\ trackerOf = <<>> /\ trackersMade = 0
        /\ snapshot = NoSnapshot
        /\ \A r \in Recorders : \E o \in Outcome :
              recorder[r] = [pc |-> "requests", result |-> o, into |-> Run, seen |-> 0]
        /\ recorder \in [Recorders -> {[pc |-> "requests", result |-> o, into |-> Run, seen |-> 0] : o \in Outcome}]
    BY DEF MetricsInit
  <1>2. RecordingTypeOK
    <2>1. Empty \in Tracker
      <3>1. [b \in Buckets |-> 0] \in [Buckets -> Nat] /\ Unset \in 0..Unset /\ 0 \in 0..Unset
        BY MetricsFacts
      <3> QED
        BY <3>1 DEF Empty, Tracker
    <2>2. \A o \in Outcome : [pc |-> "requests", result |-> o, into |-> Run, seen |-> 0] \in Recorder
      <3>1. 0 \in 0..Unset /\ Run \in Trackers /\ "requests" \in WriterPlaces
        BY MetricsFacts DEF WriterPlaces
      <3> QED
        BY <3>1 DEF Recorder
    <2> QED
      BY <1>1, <2>1, <2>2 DEF RecordingTypeOK
  <1>3. ASSUME NEW q \in Recorders
        PROVE  recorder[q].pc = "requests" /\ recorder[q].into = Run
    BY <1>1
  <1>4. ASSUME NEW t \in Trackers PROVE TrackerRight(t)
    <2>1. tracker[t] = Empty
      BY <1>1
    <2>2. ASSUME NEW j \in 0..6 PROVE Passed(t, j) = {}
      <3>1. Phase("requests") = 0
        BY PhaseFacts
      <3> QED
        BY <1>3, <3>1 DEF Passed
    <2>3. /\ Passed(t, 0) = {} /\ Passed(t, 1) = {} /\ Passed(t, 2) = {} /\ Passed(t, 3) = {}
          /\ Passed(t, 4) = {} /\ Passed(t, 5) = {} /\ Passed(t, 6) = {}
      BY <2>2
    <2>4. Cardinality({}) = 0 /\ \A S : {} \cap S = {}
      BY FS_EmptySet
    <2>5. RequestsRight(t) /\ ErrorsRight(t) /\ CountRight(t)
      BY <2>1, <2>3, <2>4 DEF RequestsRight, ErrorsRight, CountRight, Empty
    <2>6. BucketsRight(t)
      <3>1. tracker[t].buckets = [b \in Buckets |-> 0]
        BY <2>1 DEF Empty
      <3>2. SumFunctionOnSet(tracker[t].buckets, Buckets) = 0
        BY <3>1, SumZero, MetricsFacts
      <3> QED
        BY <2>3, <2>4, <3>1, <3>2 DEF BucketsRight
    <2>7. SumRight(t)
      BY <2>1, <2>3, SumEmpty DEF SumRight, Empty
    <2>8. MinRight(t) /\ MaxRight(t)
      BY <2>1, <2>3 DEF MinRight, MaxRight, Empty
    <2> QED
      BY <2>5, <2>6, <2>7, <2>8 DEF TrackerRight
  <1>5. ASSUME NEW q \in Recorders PROVE Looked(q) /\ Placed(q)
    BY <1>3 DEF Looked, Placed
  <1>6. TrackersInv
    <2>1. AtSteps = {}
      BY <1>3 DEF AtSteps
    <2>2. DOMAIN trackerOf = {}
      BY <1>1
    <2> QED
      BY <1>1, <2>1, <2>2, FS_EmptySet DEF TrackersInv
  <1>7. SnapshotInv
    BY <1>1, MetricsFacts DEF SnapshotInv, NoSnapshot, SnapshotType
  <1> QED
    BY <1>2, <1>4, <1>5, <1>6, <1>7 DEF MetricsInv

(* A tracker all the results have gone into. *)
LEMMA HoldsThem ==
    ASSUME RecordingTypeOK, NEW t \in Trackers, TrackerRight(t),
           NEW results \in SUBSET Recorders, \A phase \in 0..6 : Passed(t, phase) = results
    PROVE  Holds(tracker[t], results)
  <1>1. /\ Passed(t, 0) = results /\ Passed(t, 1) = results /\ Passed(t, 2) = results
        /\ Passed(t, 3) = results /\ Passed(t, 4) = results /\ Passed(t, 5) = results
        /\ Passed(t, 6) = results
    OBVIOUS
  <1>2. tracker[t].requests = Cardinality(results) /\ tracker[t].count = tracker[t].requests
    BY <1>1 DEF TrackerRight, RequestsRight, CountRight
  <1>3. tracker[t].errors = Cardinality({r \in results : recorder[r].result.error})
    <2>1. results \cap Failed = {r \in results : recorder[r].result.error}
      BY DEF Failed
    <2> QED
      BY <1>1, <2>1 DEF TrackerRight, ErrorsRight
  <1>4. tracker[t].sum = SumFunctionOnSet([r \in results |-> recorder[r].result.micros], results)
    <2> DEFINE f == [r \in results |-> recorder[r].result.micros]
    <2>1. ASSUME NEW r \in results PROVE MicrosOf[r] \in Nat /\ MicrosOf[r] = f[r]
      <3>1. r \in Recorders /\ Micros(r) \in 0..Unset /\ MicrosOf[r] = Micros(r)
        BY RecorderFacts
      <3> QED
        BY <3>1, MetricsFacts DEF Micros
    <2>2. IsFiniteSet(results)
      BY MetricsFacts, FS_Subset
    <2> HIDE DEF f
    <2>3. SumFunctionOnSet(MicrosOf, results) = SumFunctionOnSet(f, results)
      BY <2>1, <2>2, SumSame
    <2>4. tracker[t].sum = SumFunctionOnSet(MicrosOf, results)
      BY <1>1 DEF TrackerRight, SumRight
    <2> QED
      BY <2>3, <2>4 DEF f
  <1>5. ASSUME NEW r \in results PROVE MicrosOf[r] = recorder[r].result.micros /\ MicrosOf[r] \in Int
    BY RecorderFacts, MetricsFacts DEF Micros
  <1>6. tracker[t].min \in Int /\ tracker[t].min <= Unset /\ tracker[t].max \in Int /\ tracker[t].max >= 0
    BY MetricsFacts DEF RecordingTypeOK, Tracker
  <1>7. tracker[t].min = Min({recorder[r].result.micros : r \in results} \cup {Unset})
    <2> DEFINE S == {recorder[r].result.micros : r \in results} \cup {Unset}
    <2>1. tracker[t].min \in S /\ \A x \in S : tracker[t].min <= x
      <3>1. /\ tracker[t].min \in {MicrosOf[r] : r \in results} \cup {Unset}
            /\ \A r \in results : tracker[t].min <= MicrosOf[r]
        BY <1>1 DEF TrackerRight, MinRight
      <3> QED
        BY <3>1, <1>5, <1>6
    <2>2. \A x \in S : x \in Int
      BY <1>5, MetricsFacts
    <2> HIDE DEF S
    <2>3. \A x \in S : (\A y \in S : x <= y) => x = tracker[t].min
      BY <2>1, <2>2
    <2>4. tracker[t].min = Min(S)
      BY <2>1, <2>3 DEF Min
    <2> QED
      BY <2>4 DEF S
  <1>8. tracker[t].max = Max({recorder[r].result.micros : r \in results} \cup {0})
    <2> DEFINE S == {recorder[r].result.micros : r \in results} \cup {0}
    <2>1. tracker[t].max \in S /\ \A x \in S : tracker[t].max >= x
      <3>1. /\ tracker[t].max \in {MicrosOf[r] : r \in results} \cup {0}
            /\ \A r \in results : tracker[t].max >= MicrosOf[r]
        BY <1>1 DEF TrackerRight, MaxRight
      <3> QED
        BY <3>1, <1>5, <1>6
    <2>2. \A x \in S : x \in Int
      BY <1>5
    <2> HIDE DEF S
    <2>3. \A x \in S : (\A y \in S : x >= y) => x = tracker[t].max
      BY <2>1, <2>2
    <2>4. tracker[t].max = Max(S)
      BY <2>1, <2>3 DEF Max
    <2> QED
      BY <2>4 DEF S
  <1>9. ASSUME NEW b \in Buckets
        PROVE  tracker[t].buckets[b]
                   = Cardinality({r \in results : BucketOfMicros(recorder[r].result.micros) = b})
    <2>1. results \cap InBucket(b) = {r \in results : BucketOfMicros(recorder[r].result.micros) = b}
      BY DEF InBucket
    <2> QED
      BY <1>1, <2>1 DEF TrackerRight, BucketsRight
  <1> QED
    BY <1>2, <1>3, <1>4, <1>7, <1>8, <1>9 DEF Holds

(* All have recorded: every tracker holds the results of its own. *)
LEMMA WhenAllAreDone ==
    ASSUME MetricsInv, \A r \in Recorders : At(r, "done")
    PROVE  /\ Holds(tracker[Run], Recorders)
           /\ \A s \in DOMAIN trackerOf :
                 Holds(tracker[trackerOf[s]], {r \in Recorders : recorder[r].result.step = s})
           /\ DOMAIN trackerOf = {recorder[r].result.step : r \in Recorders}
  <1> USE DEF MetricsInv
  <1>1. ASSUME NEW r \in Recorders
        PROVE  /\ recorder[r].pc = "done" /\ recorder[r].into # Run
               /\ recorder[r].result.step \in DOMAIN trackerOf
               /\ recorder[r].into = trackerOf[recorder[r].result.step]
    <2>1. recorder[r].pc = "done" /\ Placed(r)
      BY DEF At
    <2> QED
      BY <2>1 DEF Placed
  <1>2. Holds(tracker[Run], Recorders)
    <2>1. ASSUME NEW phase \in 0..6 PROVE Passed(Run, phase) = Recorders
      BY <1>1 DEF Passed
    <2> QED
      BY <2>1, HoldsThem, MetricsFacts
  <1>3. ASSUME NEW s \in DOMAIN trackerOf
        PROVE  Holds(tracker[trackerOf[s]], {r \in Recorders : recorder[r].result.step = s})
    <2> DEFINE t == trackerOf[s]
               results == {r \in Recorders : recorder[r].result.step = s}
    <2>1. t \in Trackers /\ t # Run
      BY NumbersLast DEF TrackersInv
    <2>2. \A r \in Recorders : recorder[r].into = t <=> recorder[r].result.step = s
      BY <1>1 DEF TrackersInv
    <2>3. ASSUME NEW phase \in 0..6 PROVE Passed(t, phase) = results
      <3>1. Phase("done") > phase
        <4>1. Phase("done") = 7
          BY PhaseFacts
        <4> QED
          BY <4>1
      <3> QED
        BY <1>1, <2>1, <2>2, <3>1 DEF Passed
    <2>4. results \in SUBSET Recorders
      OBVIOUS
    <2>5. Holds(tracker[t], results)
      <3> HIDE DEF t, results
      <3> QED
        BY <2>1, <2>3, <2>4, HoldsThem
    <2> QED
      BY <2>5
  <1>4. DOMAIN trackerOf = {recorder[r].result.step : r \in Recorders}
    BY <1>1 DEF TrackersInv, AtSteps
  <1> QED
    BY <1>2, <1>3, <1>4

(* A quantile that is found is not above every latency recorded. *)
LEMMA FoundIsFaithful ==
    ASSUME MetricsInv, snapshot.pc = "found"
    PROVE  \E r \in Recorders : /\ recorder[r].into # Run \/ ~At(r, "requests")
                                /\ bucketToDuration(snapshot.bucket) <= Micros(r)
  <1> USE DEF MetricsInv
  <1> DEFINE b == snapshot.bucket
             S == Passed(Run, 2) \cap InBucket(b)
  <1>1. b \in Buckets /\ tracker[Run].buckets[b] > 0
    BY DEF SnapshotInv, SnapshotType
  <1>2. tracker[Run].buckets[b] = Cardinality(S)
    BY <1>1, MetricsFacts DEF TrackerRight, BucketsRight
  <1>3. S # {}
    <2>1. Cardinality({}) = 0
      BY FS_EmptySet
    <2> QED
      BY <1>1, <1>2, <2>1
  <1>4. PICK r \in S : TRUE
    BY <1>3
  <1>5. r \in Recorders /\ BucketOfMicros(Micros(r)) = b
    BY <1>4 DEF InBucket, Micros
  <1>6. bucketToDuration(b) <= Micros(r)
    <2>1. Micros(r) \in Nat
      BY <1>5, RecorderFacts, MetricsFacts
    <2> QED
      BY <1>5, <2>1, BucketFacts DEF bucketToDuration
  <1>7. recorder[r].into # Run \/ ~At(r, "requests")
    <2>1. Phase("requests") = 0
      BY PhaseFacts
    <2>2. recorder[r].into # Run \/ Phase(recorder[r].pc) > 2
      BY <1>4 DEF Passed
    <2> QED
      BY <2>1, <2>2 DEF At
  <1> QED
    BY <1>5, <1>6, <1>7

(* Every step keeps the invariant. *)
LEMMA MetricsStep ==
    ASSUME MetricsInv, [MetricsNext]_metricsVars
    PROVE  MetricsInv'
  <1>1. CASE SnapshotStep
    BY <1>1, SnapshotNext
  <1>2. ASSUME NEW r \in Recorders, RecordResult(r), UNCHANGED snapshot
        PROVE  MetricsInv'
    <2> DEFINE t == recorder[r].into
    <2>1. RecordingTypeOK /\ TrackerRight(t) /\ Looked(r)
      BY RecorderFacts DEF MetricsInv
    <2>2. CASE /\ AddRequest(r) \/ AddError(r) \/ AddToHistogram(r) \/ AddSum(r) \/ UpdateMin(r) \/ UpdateMax(r)
               /\ UNCHANGED <<trackerOf, trackersMade>>
      <3>1. PICK into : into = t
        OBVIOUS
      <3>2. (\E new, nt : Records(r, new, nt)) /\ TrackerRight(into)'
        <4>1. into = recorder[r].into /\ RecordingTypeOK /\ TrackerRight(into) /\ Looked(r)
          BY <2>1, <3>1
        <4> HIDE DEF t
        <4>2. CASE AddRequest(r)
          BY <4>1, <4>2, AddRequestRecords
        <4>3. CASE AddError(r)
          BY <4>1, <4>3, AddErrorRecords
        <4>4. CASE AddToHistogram(r)
          BY <4>1, <4>4, HistogramSteps, AddBucketRecords, AddCountRecords
        <4>5. CASE AddSum(r)
          BY <4>1, <4>5, AddSumRecords
        <4>6. CASE UpdateMin(r)
          BY <4>1, <4>6, UpdateMinRecords
        <4>7. CASE UpdateMax(r)
          BY <4>1, <4>7, UpdateMaxRecords
        <4> QED
          BY <2>2, <4>2, <4>3, <4>4, <4>5, <4>6, <4>7
      <3>3. into = recorder[r].into
        BY <3>1
      <3> HIDE DEF t
      <3> QED
        BY <1>2, <2>2, <3>2, <3>3, RecorderNext
    <2>3. CASE LookUp(r)
      BY <1>2, <2>3, LookUpNext
    <2>4. CASE MakeTracker(r)
      BY <1>2, <2>4, MakeTrackerNext
    <2> QED
      BY <1>2, <2>2, <2>3, <2>4 DEF RecordResult
  <1>3. CASE UNCHANGED metricsVars
    <2>1. UNCHANGED <<tracker, trackerOf, trackersMade, recorder>> /\ snapshot' = snapshot
      BY <1>3 DEF metricsVars
    <2>2. SnapshotInv'
      <3>1. Ahead' = Ahead
        BY <2>1 DEF Ahead
      <3> QED
        BY <2>1, <3>1 DEF MetricsInv, SnapshotInv
    <2> QED
      BY <2>1, <2>2, OnlySnapshot
  <1> QED
    BY <1>1, <1>2, <1>3 DEF MetricsNext

(* The trackers are right throughout. *)
LEMMA MetricsInvariant == MetricsSpec => []MetricsInv
  <1>1. MetricsInit => MetricsInv
    BY MetricsInitially
  <1>2. MetricsInv /\ [MetricsNext]_metricsVars => MetricsInv'
    BY MetricsStep
  <1> QED
    BY <1>1, <1>2, PTL DEF MetricsSpec

(* The types are part of the invariant, or follow from it. *)
LEMMA MetricsInvTypes == MetricsInv => MetricsTypeOK
  <1> SUFFICES ASSUME MetricsInv PROVE MetricsTypeOK
    OBVIOUS
  <1>1. trackersMade \in Trackers /\ \A s \in DOMAIN trackerOf : trackerOf[s] \in 1..trackersMade
    <2>1. trackersMade \in Nat /\ trackersMade <= Cardinality(Recorders)
      BY NumbersLast
    <2> QED
      BY <2>1, MetricsFacts DEF MetricsInv, TrackersInv, Trackers
  <1>2. ASSUME NEW t \in Trackers PROVE tracker[t].min \in Nat /\ tracker[t].max <= Unset
    BY MetricsFacts DEF MetricsInv, RecordingTypeOK, Tracker
  <1>3. snapshot.bucket \in Buckets
    BY DEF MetricsInv, SnapshotInv, SnapshotType
  <1> QED
    BY <1>1, <1>2, <1>3 DEF MetricsTypeOK

(* The trackers and the snapshot have the values their types allow, and    *)
(* there is always a number for the tracker a step still needs             *)
(* (metrics.go RecordStep).                                                *)
THEOREM MetricsTypeCorrect == MetricsSpec => []MetricsTypeOK
BY MetricsInvTypes, MetricsInvariant, PTL

(* A quantile is always found among the results recorded, although they    *)
(* come in while the buckets are read, and when all have recorded, every   *)
(* tracker has each of its results once and its extremes right, for any    *)
(* number of workers, any results and any buckets that grow                *)
(* (metrics.go Record, RecordStep, Percentile, Summary).                   *)
THEOREM MetricsFaithful == MetricsSpec => []MetricsAreFaithful
  <1>1. MetricsInv => MetricsAreFaithful
    <2> SUFFICES ASSUME MetricsInv PROVE MetricsAreFaithful
      OBVIOUS
    <2>1. snapshot.pc # "not found"
      BY DEF MetricsInv, SnapshotInv, SnapshotType
    <2> QED
      BY <2>1, FoundIsFaithful, WhenAllAreDone DEF MetricsAreFaithful
  <1> QED
    BY <1>1, MetricsInvariant, PTL

-----------------------------------------------------------------------------
(* The presets: the map and the list agree, and the shapes are valid.      *)

CustomPresets == DOMAIN custom

PresetInv ==
    /\ presetOrder \in Seq(PresetIds) /\ CustomPresets \subseteq PresetIds
    /\ ToSet(presetOrder) = CustomPresets /\ IsInjective(presetOrder)
    /\ IsFiniteSet(CustomPresets) /\ Cardinality(CustomPresets) = Len(presetOrder)
    /\ Builtin \cap CustomPresets = {}
    /\ \A id \in CustomPresets : custom[id] \in Shapes /\ validatePreset(custom[id])

LEMMA PresetFacts ==
    /\ \A word \in Words : PresetId(word) \in PresetIds
    /\ \A id \in PresetIds, n \in Nat : Numbered(id, n) \in PresetIds
    /\ Builtin \subseteq PresetIds /\ IsFiniteSet(Builtin)
  <1>1. \A word \in Words : PresetId(word) \in PresetIds
    BY DEF PresetId, PresetIds
  <1>2. ASSUME NEW id \in PresetIds, NEW n \in Nat PROVE Numbered(id, n) \in PresetIds
    <2>1. Append(id.numbers, n) \in Seq(Nat)
      BY DEF PresetIds
    <2> QED
      BY <2>1 DEF Numbered, PresetIds
  <1>3. Builtin \subseteq PresetIds
    <2>1. /\ PresetId("harbolnas") \in PresetIds /\ PresetId("gajian") \in PresetIds
          /\ PresetId("lebaran_mudik") \in PresetIds /\ PresetId("selebgram_viral") \in PresetIds
      BY <1>1, PresetConstants DEF PresetConstants
    <2>2. Harbolnas \in PresetIds /\ Gajian \in PresetIds
      BY <1>2, <2>1 DEF Harbolnas, Gajian
    <2> QED
      BY <2>1, <2>2 DEF Builtin
  <1>4. IsFiniteSet(Builtin)
    <2>1. Builtin = ((({} \cup {Harbolnas}) \cup {Gajian}) \cup {PresetId("lebaran_mudik")}) \cup {PresetId("selebgram_viral")}
      BY DEF Builtin
    <2> QED
      BY <2>1, FS_EmptySet, FS_AddElement
  <1> QED
    BY <1>1, <1>2, <1>3, <1>4

(* There is always a number that is free. *)
LEMMA NumberIsFree ==
    ASSUME PresetInv, Len(presetOrder) < MaxPresets, NEW base \in PresetIds
    PROVE  \E n \in 1..(MaxPresets + Cardinality(Builtin)) : ~idTaken(Numbered(base, n))
  <1> DEFINE last == MaxPresets + Cardinality(Builtin)
             taken == Builtin \cup CustomPresets
             named == {Numbered(base, n) : n \in 1..last}
             f == [n \in 1..last |-> Numbered(base, n)]
  <1>1. MaxPresets \in Nat /\ Cardinality(Builtin) \in Nat /\ last \in Nat
    BY PresetConstants, PresetFacts, FS_CardinalityType DEF PresetConstants
  <1>2. IsFiniteSet(taken) /\ Cardinality(taken) \in Nat /\ Cardinality(taken) < last
    <2>1. /\ IsFiniteSet(taken) /\ Cardinality(taken) <= Cardinality(Builtin) + Cardinality(CustomPresets)
          /\ Cardinality(CustomPresets) = Len(presetOrder) /\ Cardinality(CustomPresets) \in Nat
          /\ Cardinality(taken) \in Nat
      <3>1. IsFiniteSet(Builtin) /\ IsFiniteSet(CustomPresets) /\ Cardinality(CustomPresets) = Len(presetOrder)
        BY PresetFacts DEF PresetInv
      <3>2. IsFiniteSet(taken)
        BY <3>1, FS_Union
      <3>3. /\ Cardinality(taken) \in Nat /\ Cardinality(CustomPresets) \in Nat
            /\ Cardinality(Builtin \cap CustomPresets) \in Nat
        BY <3>1, <3>2, FS_CardinalityType, FS_Intersection
      <3>4. Cardinality(taken) = Cardinality(Builtin) + Cardinality(CustomPresets) - Cardinality(Builtin \cap CustomPresets)
        BY <3>1, FS_Union
      <3> QED
        BY <1>1, <3>1, <3>2, <3>3, <3>4
    <2> QED
      BY <1>1, <2>1
  <1>3. \A m, n \in 1..last : Numbered(base, m) = Numbered(base, n) => m = n
    <2>1. base.numbers \in Seq(Nat)
      BY DEF PresetIds
    <2>2. ASSUME NEW m \in 1..last, NEW n \in 1..last, Numbered(base, m) = Numbered(base, n)
          PROVE  m = n
      <3>1. Numbered(base, m).numbers = Append(base.numbers, m)
            /\ Numbered(base, n).numbers = Append(base.numbers, n)
        BY DEF Numbered, PresetIds
      <3>2. Append(base.numbers, m) = Append(base.numbers, n)
        BY <2>2, <3>1
      <3>3. /\ Append(base.numbers, m)[Len(base.numbers) + 1] = m
            /\ Append(base.numbers, n)[Len(base.numbers) + 1] = n
        BY <2>1
      <3> QED
        BY <3>2, <3>3
    <2> QED
      BY <2>2
  <1>4. IsFiniteSet(named) /\ Cardinality(named) = last
    <2>1. f \in [1..last -> named] /\ \A m, n \in 1..last : f[m] = f[n] => m = n
      BY <1>3
    <2>2. \A x \in named : \E n \in 1..last : f[n] = x
      OBVIOUS
    <2>3. f \in Bijection(1..last, named)
      <3> HIDE DEF f, named, last
      <3> QED
        BY <2>1, <2>2 DEF Bijection, Injection, Surjection, IsInjective
    <2>4. IsFiniteSet(1..last) /\ Cardinality(1..last) = last
      <3>1. last \in Int /\ 1 \in Int /\ (1 <= last \/ last = 0)
        BY <1>1
      <3> HIDE DEF last
      <3>2. IsFiniteSet(1..last) /\ Cardinality(1..last) = IF 1 > last THEN 0 ELSE last - 1 + 1
        BY <3>1, FS_Interval
      <3> QED
        BY <3>1, <3>2
    <2> HIDE DEF f, named, last
    <2>5. ExistsBijection(1..last, named)
      BY <2>3 DEF ExistsBijection
    <2> QED
      BY <2>4, <2>5, FS_Bijection
  <1>5. ~(named \subseteq taken)
    <2> HIDE DEF named, taken, last
    <2>1. ASSUME named \subseteq taken PROVE FALSE
      <3>1. Cardinality(named) <= Cardinality(taken)
        BY <1>2, <2>1, FS_Subset
      <3> QED
        BY <1>1, <1>2, <1>4, <3>1
    <2> QED
      BY <2>1
  <1>6. PICK n \in 1..last : Numbered(base, n) \notin taken
    BY <1>5
  <1> QED
    BY <1>6 DEF idTaken, CustomPresets

LEMMA FreeIdIsFree ==
    ASSUME PresetInv, Len(presetOrder) < MaxPresets, NEW id \in Slugs, NEW name \in Slugs
    PROVE  FreeId(id, name) \in PresetIds /\ ~idTaken(FreeId(id, name))
  <1> DEFINE wanted == IF id = PresetId("") \/ idTaken(id) THEN name ELSE id
             base == IF wanted = PresetId("") THEN PresetId("custom_preset") ELSE wanted
             Free(n) == /\ ~idTaken(Numbered(base, n))
                        /\ \A m \in 1..(n - 1) : idTaken(Numbered(base, m))
             last == MaxPresets + Cardinality(Builtin)
  <1>1. base \in PresetIds
    <2>1. id \in PresetIds /\ name \in PresetIds
      BY PresetConstants DEF PresetConstants
    <2>2. PresetId("custom_preset") \in PresetIds
      BY PresetConstants, PresetFacts DEF PresetConstants
    <2> QED
      BY <2>1, <2>2
  <1>2. FreeId(id, name) = IF ~idTaken(base) THEN base
                           ELSE Numbered(base, CHOOSE n \in 1..last : Free(n))
    BY DEF FreeId
  <1>3. CASE ~idTaken(base)
    BY <1>1, <1>2, <1>3
  <1>4. CASE idTaken(base)
    <2> HIDE DEF base
    <2> DEFINE T == {n \in 1..last : ~idTaken(Numbered(base, n))}
    <2>1. T # {}
      BY <1>1, NumberIsFree
    <2>2. T \in SUBSET Nat
      OBVIOUS
    <2>3. PICK least \in T : \A n \in T : least <= n
      <3> HIDE DEF T
      <3> QED
        BY <2>1, <2>2, LeastNumber
    <2>4. Free(least) /\ least \in 1..last
      <3>1. least \in 1..last /\ ~idTaken(Numbered(base, least)) /\ last \in Int
        BY <2>3, PresetConstants, PresetFacts, FS_CardinalityType DEF PresetConstants
      <3>2. ASSUME NEW m \in 1..(least - 1) PROVE idTaken(Numbered(base, m))
        <4>1. m \in 1..last /\ ~(least <= m)
          BY <3>1
        <4> QED
          BY <2>3, <4>1
      <3> QED
        BY <3>1, <3>2
    <2> HIDE DEF T, Free
    <2>5. PICK n : n = CHOOSE k \in 1..last : Free(k)
      OBVIOUS
    <2>6. n \in 1..last /\ Free(n)
      BY <2>4, <2>5
    <2>7. n \in Nat /\ ~idTaken(Numbered(base, n))
      <3>1. ~idTaken(Numbered(base, n))
        BY <2>6 DEF Free
      <3> HIDE DEF last
      <3>2. n \in Nat
        BY <2>6
      <3> QED
        BY <3>1, <3>2
    <2>8. FreeId(id, name) = Numbered(base, n)
      BY <1>2, <1>4, <2>5
    <2> QED
      BY <1>1, <2>7, <2>8, PresetFacts
  <1> QED
    BY <1>3, <1>4

LEMMA CreateNext ==
    ASSUME PresetInv, NEW id \in Slugs, NEW name \in Slugs, NEW shape \in Shapes,
           CreatePreset(id, name, shape)
    PROVE  PresetInv'
  <1> USE DEF PresetInv
  <1> DEFINE new == FreeId(id, name)
  <1>1. /\ Len(presetOrder) < MaxPresets /\ validatePreset(shape)
        /\ custom' = [i \in DOMAIN custom \cup {new} |-> IF i = new THEN shape ELSE custom[i]]
        /\ presetOrder' = Append(presetOrder, new)
    BY DEF CreatePreset
  <1>2. new \in PresetIds /\ new \notin Builtin /\ new \notin CustomPresets
    BY <1>1, FreeIdIsFree DEF idTaken, CustomPresets
  <1> HIDE DEF new
  <1>3. /\ CustomPresets' = CustomPresets \cup {new} /\ custom'[new] = shape
        /\ \A i \in CustomPresets : custom'[i] = custom[i]
    BY <1>1, <1>2 DEF CustomPresets
  <1>4. /\ presetOrder \in Seq(PresetIds) /\ presetOrder' \in Seq(PresetIds) /\ Len(presetOrder) \in Nat
        /\ Len(presetOrder') = Len(presetOrder) + 1
        /\ DOMAIN presetOrder = 1..Len(presetOrder) /\ DOMAIN presetOrder' = 1..(Len(presetOrder) + 1)
        /\ \A i \in 1..Len(presetOrder) : presetOrder'[i] = presetOrder[i]
        /\ presetOrder'[Len(presetOrder) + 1] = new
    BY <1>1, <1>2
  <1>5. ToSet(presetOrder') = CustomPresets'
    <2>1. ToSet(presetOrder') = {presetOrder'[i] : i \in 1..(Len(presetOrder) + 1)}
      BY <1>4 DEF ToSet
    <2>2. ToSet(presetOrder) = {presetOrder[i] : i \in 1..Len(presetOrder)}
      BY <1>4 DEF ToSet
    <2>3. \A i \in 1..(Len(presetOrder) + 1) : i \in 1..Len(presetOrder) \/ i = Len(presetOrder) + 1
      BY <1>4
    <2>4. \A i \in 1..Len(presetOrder) : i \in 1..(Len(presetOrder) + 1)
      BY <1>4
    <2>5. Len(presetOrder) + 1 \in 1..(Len(presetOrder) + 1)
      BY <1>4
    <2>6. ASSUME NEW x \in ToSet(presetOrder') PROVE x \in CustomPresets'
      <3>1. PICK i \in 1..(Len(presetOrder) + 1) : x = presetOrder'[i]
        BY <2>1, <2>6
      <3>2. CASE i = Len(presetOrder) + 1
        BY <1>3, <1>4, <3>1, <3>2
      <3>3. CASE i \in 1..Len(presetOrder)
        <4>1. x = presetOrder[i] /\ x \in ToSet(presetOrder)
          BY <1>4, <2>2, <3>1, <3>3
        <4> QED
          BY <1>3, <4>1
      <3> QED
        BY <2>3, <3>2, <3>3
    <2>7. ASSUME NEW x \in CustomPresets' PROVE x \in ToSet(presetOrder')
      <3>1. CASE x = new
        BY <2>1, <2>5, <1>4, <3>1
      <3>2. CASE x \in CustomPresets
        <4>1. PICK i \in 1..Len(presetOrder) : x = presetOrder[i]
          BY <2>2, <3>2
        <4>2. x = presetOrder'[i] /\ i \in 1..(Len(presetOrder) + 1)
          BY <4>1, <2>4, <1>4
        <4> QED
          BY <2>1, <4>2
      <3> QED
        BY <3>1, <3>2, <1>3
    <2> QED
      BY <2>6, <2>7
  <1>6. IsInjective(presetOrder')
    <2>1. \A i \in 1..Len(presetOrder) : presetOrder[i] # new
      BY <1>2, <1>4 DEF ToSet
    <2> QED
      BY <1>4, <2>1 DEF IsInjective
  <1>7. IsFiniteSet(CustomPresets') /\ Cardinality(CustomPresets') = Len(presetOrder')
    <2>1. IsFiniteSet(CustomPresets) /\ Cardinality(CustomPresets) = Len(presetOrder)
      OBVIOUS
    <2>2. IsFiniteSet(CustomPresets \cup {new}) /\ Cardinality(CustomPresets \cup {new}) = Cardinality(CustomPresets) + 1
      BY <1>2, <2>1, FS_AddElement
    <2> QED
      BY <1>3, <1>4, <2>1, <2>2
  <1>8. \A i \in CustomPresets' : custom'[i] \in Shapes /\ validatePreset(custom'[i])
    BY <1>1, <1>3
  <1> QED
    BY <1>2, <1>3, <1>4, <1>5, <1>6, <1>7, <1>8

LEMMA UpdateNext ==
    ASSUME PresetInv, NEW id, NEW shape \in Shapes, UpdatePreset(id, shape)
    PROVE  PresetInv'
  <1> USE DEF PresetInv
  <1>1. CustomPresets' = CustomPresets
    BY DEF UpdatePreset, CustomPresets
  <1>2. ASSUME NEW i \in CustomPresets PROVE custom'[i] \in Shapes /\ validatePreset(custom'[i])
    <2>1. custom'[i] = shape \/ custom'[i] = custom[i]
      BY DEF UpdatePreset, CustomPresets
    <2> QED
      BY <2>1 DEF UpdatePreset
  <1>3. presetOrder' = presetOrder
    BY DEF UpdatePreset
  <1> QED
    BY <1>1, <1>2, <1>3

LEMMA DeleteNext ==
    ASSUME PresetInv, NEW id, DeletePreset(id)
    PROVE  PresetInv'
  <1> USE DEF PresetInv
  <1> DEFINE n == Len(presetOrder)
             at == CHOOSE i \in DOMAIN presetOrder : presetOrder[i] = id
             before == SubSeq(presetOrder, 1, at - 1)
             behind == SubSeq(presetOrder, at + 1, n)
  <1>1. /\ id \in CustomPresets /\ custom' = [i \in CustomPresets \ {id} |-> custom[i]]
        /\ presetOrder' = before \o behind
    BY DEF DeletePreset, CustomPresets, RemoveAt
  <1>2. n \in Nat /\ DOMAIN presetOrder = 1..n /\ \A i \in 1..n : presetOrder[i] \in PresetIds
    OBVIOUS
  <1>3. at \in 1..n /\ presetOrder[at] = id
    <2>1. \E i \in DOMAIN presetOrder : presetOrder[i] = id
      BY <1>1 DEF ToSet
    <2> QED
      BY <1>2, <2>1
  <1> HIDE DEF n, at
  <1>4. /\ before \in Seq(PresetIds) /\ Len(before) = at - 1 /\ \A i \in 1..(at - 1) : before[i] = presetOrder[i]
    <2>1. 1 \in Int /\ at - 1 \in Int /\ \A i \in 1..(at - 1) : presetOrder[i] \in PresetIds
      BY <1>2, <1>3
    <2>2. /\ SubSeq(presetOrder, 1, at - 1) \in Seq(PresetIds)
          /\ Len(SubSeq(presetOrder, 1, at - 1)) = IF 1 <= at - 1 THEN at - 1 - 1 + 1 ELSE 0
          /\ \A i \in 1..(at - 1 - 1 + 1) : SubSeq(presetOrder, 1, at - 1)[i] = presetOrder[1 + i - 1]
      BY <2>1, SubSeqProperties
    <2>3. \A i \in 1..(at - 1) : i \in 1..(at - 1 - 1 + 1) /\ 1 + i - 1 = i
      BY <1>2, <1>3
    <2>4. Len(SubSeq(presetOrder, 1, at - 1)) = at - 1
      BY <1>2, <1>3, <2>2
    <2> QED
      BY <2>2, <2>3, <2>4
  <1>5. /\ behind \in Seq(PresetIds) /\ Len(behind) = n - at
        /\ \A i \in 1..(n - at) : behind[i] = presetOrder[at + i]
    <2>1. at + 1 \in Int /\ n \in Int /\ \A i \in (at + 1)..n : presetOrder[i] \in PresetIds
      BY <1>2, <1>3
    <2>2. /\ SubSeq(presetOrder, at + 1, n) \in Seq(PresetIds)
          /\ Len(SubSeq(presetOrder, at + 1, n)) = IF at + 1 <= n THEN n - (at + 1) + 1 ELSE 0
          /\ \A i \in 1..(n - (at + 1) + 1) : SubSeq(presetOrder, at + 1, n)[i] = presetOrder[(at + 1) + i - 1]
      BY <2>1, SubSeqProperties
    <2>3. \A i \in 1..(n - at) : i \in 1..(n - (at + 1) + 1) /\ (at + 1) + i - 1 = at + i
      BY <1>2, <1>3
    <2>4. Len(SubSeq(presetOrder, at + 1, n)) = n - at
      BY <1>2, <1>3, <2>2
    <2> QED
      BY <2>2, <2>3, <2>4
  <1> HIDE DEF before, behind
  <1>6. /\ presetOrder' \in Seq(PresetIds) /\ Len(presetOrder') = n - 1
        /\ \A i \in 1..(n - 1) : presetOrder'[i] = IF i < at THEN presetOrder[i] ELSE presetOrder[i + 1]
    <2>1. /\ before \o behind \in Seq(PresetIds) /\ Len(before \o behind) = Len(before) + Len(behind)
          /\ \A i \in 1..(Len(before) + Len(behind)) :
                (before \o behind)[i] = IF i <= Len(before) THEN before[i] ELSE behind[i - Len(before)]
      BY <1>4, <1>5, ConcatProperties
    <2>2. Len(before) + Len(behind) = n - 1
      BY <1>2, <1>3, <1>4, <1>5
    <2>3. ASSUME NEW i \in 1..(n - 1)
          PROVE  (before \o behind)[i] = IF i < at THEN presetOrder[i] ELSE presetOrder[i + 1]
      <3>1. (before \o behind)[i] = IF i <= Len(before) THEN before[i] ELSE behind[i - Len(before)]
        BY <2>1, <2>2
      <3>2. CASE i < at
        <4>1. i <= Len(before) /\ i \in 1..(at - 1)
          BY <1>2, <1>3, <1>4, <3>2
        <4> QED
          BY <1>4, <3>1, <3>2, <4>1
      <3>3. CASE ~(i < at)
        <4>1. ~(i <= Len(before)) /\ i - Len(before) \in 1..(n - at) /\ at + (i - Len(before)) = i + 1
          BY <1>2, <1>3, <1>4, <3>3
        <4> QED
          BY <1>5, <3>1, <3>3, <4>1
      <3> QED
        BY <3>2, <3>3
    <2> QED
      BY <1>1, <2>1, <2>2, <2>3
  <1>7. DOMAIN presetOrder' = 1..(n - 1) /\ n - 1 \in Nat
    BY <1>2, <1>3, <1>6
  <1>8. CustomPresets' = CustomPresets \ {id} /\ \A i \in CustomPresets' : custom'[i] = custom[i]
    BY <1>1 DEF CustomPresets
  <1>9. \A i, j \in 1..n : presetOrder[i] = presetOrder[j] => i = j
    BY <1>2 DEF IsInjective
  <1>10. IsInjective(presetOrder')
    <2>1. ASSUME NEW i \in 1..(n - 1), NEW j \in 1..(n - 1), presetOrder'[i] = presetOrder'[j]
          PROVE  i = j
      <3> DEFINE k == IF i < at THEN i ELSE i + 1
                 l == IF j < at THEN j ELSE j + 1
      <3>1. k \in 1..n /\ l \in 1..n /\ presetOrder[k] = presetOrder[l]
        BY <1>2, <1>3, <1>6, <2>1
      <3>2. k = l
        BY <1>9, <3>1
      <3> QED
        BY <1>2, <1>3, <3>2
    <2> QED
      BY <1>7, <2>1 DEF IsInjective
  <1>11. ToSet(presetOrder') = CustomPresets'
    <2>1. ASSUME NEW i \in 1..(n - 1) PROVE presetOrder'[i] \in CustomPresets \ {id}
      <3> DEFINE k == IF i < at THEN i ELSE i + 1
      <3>1. k \in 1..n /\ k # at /\ presetOrder'[i] = presetOrder[k]
        BY <1>2, <1>3, <1>6
      <3>2. presetOrder[k] \in CustomPresets
        BY <1>2, <3>1 DEF ToSet
      <3>3. presetOrder[k] # id
        BY <1>3, <1>9, <3>1
      <3> QED
        BY <3>1, <3>2, <3>3
    <2>2. ASSUME NEW x \in CustomPresets \ {id} PROVE \E i \in 1..(n - 1) : presetOrder'[i] = x
      <3>1. PICK k \in 1..n : presetOrder[k] = x
        BY <1>2 DEF ToSet
      <3> DEFINE i == IF k < at THEN k ELSE k - 1
      <3>2. k # at
        BY <1>3, <3>1
      <3>3. i \in 1..(n - 1) /\ (IF i < at THEN i ELSE i + 1) = k
        BY <1>2, <1>3, <3>2
      <3>4. presetOrder'[i] = presetOrder[k]
        <4>1. CASE i < at
          BY <1>6, <3>3, <4>1
        <4>2. CASE ~(i < at)
          BY <1>6, <3>3, <4>2
        <4> QED
          BY <4>1, <4>2
      <3> QED
        BY <3>1, <3>3, <3>4
    <2>3. ToSet(presetOrder') = {presetOrder'[i] : i \in 1..(n - 1)}
      BY <1>7 DEF ToSet
    <2> QED
      BY <1>8, <2>1, <2>2, <2>3
  <1>12. IsFiniteSet(CustomPresets') /\ Cardinality(CustomPresets') = Len(presetOrder')
    <2>1. Cardinality(CustomPresets) = n
      BY DEF n
    <2> QED
      BY <1>1, <1>6, <1>8, <2>1, FS_RemoveElement
  <1> QED
    BY <1>6, <1>8, <1>10, <1>11, <1>12

(* The stages of every preset there is fill its duration: those of a custom *)
(* one because its shape was validated, the others as they are written.     *)
LEMMA StagesFill ==
    ASSUME PresetInv, NEW id \in CustomPresets \cup Builtin, NEW baseline \in Int
    PROVE  SumOfPercent(BuildRampingStages(id, IF id \in Builtin THEN <<>> ELSE custom[id], 5, baseline)) = 100
  <1>a. PICK shape : shape = IF id \in Builtin THEN <<>> ELSE custom[id]
    OBVIOUS
  <1>b. PICK stages : stages = BuildRampingStages(id, shape, 5, baseline)
    OBVIOUS
  <1> SUFFICES SumOfPercent(stages) = 100
    BY <1>a, <1>b
  <1> DEFINE percents == [i \in DOMAIN stages |-> stages[i].percent]
  <1>1. SumOfPercent(stages) = SumFunctionOnSet(percents, DOMAIN stages)
    BY DEF SumOfPercent
  <1>2. CASE shape # <<>>
    <2>1. id \in CustomPresets /\ shape = custom[id] /\ shape \in Shapes /\ validatePreset(shape)
      BY <1>a, <1>2 DEF PresetInv
    <2>2. shape \in Seq([percent : Int, multiplier : Int])
      BY <2>1, PresetConstants DEF PresetConstants
    <2>3. stages = [i \in DOMAIN shape |-> Stage(shape[i].percent, baseline * shape[i].multiplier)]
      BY <1>b, <1>2 DEF BuildRampingStages
    <2>4. DOMAIN stages = DOMAIN shape /\ \A i \in DOMAIN shape : stages[i].percent = shape[i].percent
      BY <2>3 DEF Stage
    <2>5. /\ \A i \in DOMAIN shape : shape[i].percent \in Nat
          /\ SumFunctionOnSet([i \in DOMAIN shape |-> shape[i].percent], DOMAIN shape) = 100
      <3>1. \A i \in DOMAIN shape : shape[i].percent \in Int /\ shape[i].percent >= 0
        <4>1. ASSUME NEW i \in DOMAIN shape PROVE shape[i].percent \in Int /\ shape[i].percent >= 0
          <5>1. shape[i] \in [percent : Int, multiplier : Int]
            <6>1. PICK S : S = [percent : Int, multiplier : Int]
              OBVIOUS
            <6>2. shape \in Seq(S) /\ i \in 1..Len(shape)
              BY <2>2, <6>1
            <6>3. shape[i] \in S
              BY ONLY <6>2, ElementOfSeq
            <6> QED
              BY <6>1, <6>3
          <5>2. shape[i].percent >= 0
            BY <1>2, <2>1 DEF validatePreset
          <5> QED
            BY <5>1, <5>2
        <4> QED
          BY <4>1
      <3>2. SumOfPercent(shape) = 100
        BY <1>2, <2>1 DEF validatePreset
      <3> QED
        BY <3>1, <3>2 DEF SumOfPercent
     <2>6. [i \in DOMAIN shape |-> shape[i].percent] = percents
      BY <2>4
    <2> QED
      BY <1>1, <2>4, <2>5, <2>6
  <1>3. CASE shape = <<>>
    <2> DEFINE peak == baseline * 5
    <2>0. /\ Harbolnas # Gajian /\ Harbolnas # PresetId("lebaran_mudik")
          /\ PresetId("selebgram_viral") # Gajian /\ PresetId("selebgram_viral") # PresetId("lebaran_mudik")
          /\ Gajian # PresetId("lebaran_mudik")
      BY DEF Harbolnas, Gajian, PresetId, Numbered
    <2>1. CASE id \in {Harbolnas, PresetId("selebgram_viral")}
      <3>1. stages = <<Stage(5, peak), Stage(55, peak), Stage(25, baseline * 3), Stage(15, baseline)>>
        BY <1>b, <1>3, <2>0, <2>1 DEF BuildRampingStages
      <3>2. DOMAIN stages = 1..4
        BY <3>1
      <3>3. percents[1] = 5 /\ percents[2] = 55 /\ percents[3] = 25 /\ percents[4] = 15
        BY <3>1 DEF Stage
      <3> HIDE DEF percents
      <3>4. SumFunctionOnSet(percents, 1..4) = percents[1] + percents[2] + percents[3] + percents[4]
        BY <3>3, SumOfFour
      <3> QED
        BY <1>1, <3>2, <3>3, <3>4
    <2>2. CASE id = Gajian
      <3>1. stages = <<Stage(20, baseline * 2), Stage(15, peak), Stage(15, baseline * 2), Stage(20, peak), Stage(30, baseline)>>
        BY <1>b, <1>3, <2>0, <2>2 DEF BuildRampingStages
      <3>2. DOMAIN stages = 1..5
        BY <3>1
      <3>3. percents[1] = 20 /\ percents[2] = 15 /\ percents[3] = 15 /\ percents[4] = 20 /\ percents[5] = 30
        BY <3>1 DEF Stage
      <3> HIDE DEF percents
      <3>4. SumFunctionOnSet(percents, 1..5) = percents[1] + percents[2] + percents[3] + percents[4] + percents[5]
        BY <3>3, SumOfFive
      <3> QED
        BY <1>1, <3>2, <3>3, <3>4
    <2>3. CASE id = PresetId("lebaran_mudik")
      <3>1. stages = <<Stage(20, baseline * 2), Stage(20, (peak * 60) \div 100), Stage(40, peak), Stage(20, baseline)>>
        BY <1>b, <1>3, <2>0, <2>3 DEF BuildRampingStages
      <3>2. DOMAIN stages = 1..4
        BY <3>1
      <3>3. percents[1] = 20 /\ percents[2] = 20 /\ percents[3] = 40 /\ percents[4] = 20
        BY <3>1 DEF Stage
      <3> HIDE DEF percents
      <3>4. SumFunctionOnSet(percents, 1..4) = percents[1] + percents[2] + percents[3] + percents[4]
        BY <3>3, SumOfFour
      <3> QED
        BY <1>1, <3>2, <3>3, <3>4
    <2>4. CASE id \notin {Harbolnas, PresetId("selebgram_viral"), Gajian, PresetId("lebaran_mudik")}
      <3>1. stages = <<Stage(25, peak \div 2), Stage(50, peak), Stage(25, baseline)>>
        BY <1>b, <1>3, <2>4 DEF BuildRampingStages
      <3>2. DOMAIN stages = 1..3
        BY <3>1
      <3>3. percents[1] = 25 /\ percents[2] = 50 /\ percents[3] = 25
        BY <3>1 DEF Stage
      <3> HIDE DEF percents
      <3>4. SumFunctionOnSet(percents, 1..3) = percents[1] + percents[2] + percents[3]
        BY <3>3, SumOfThree
      <3> QED
        BY <1>1, <3>2, <3>3, <3>4
    <2> QED
      BY <2>1, <2>2, <2>3, <2>4
  <1> QED
    BY <1>2, <1>3

LEMMA PresetInitial == PresetInit => PresetInv
  <1> SUFFICES ASSUME PresetInit PROVE PresetInv
    OBVIOUS
  <1>1. CustomPresets = {} /\ presetOrder = <<>> /\ Len(presetOrder) = 0 /\ presetOrder \in Seq(PresetIds)
    BY DEF PresetInit, CustomPresets
  <1>2. ToSet(presetOrder) = {} /\ IsInjective(presetOrder)
    BY <1>1 DEF ToSet, IsInjective
  <1> QED
    BY <1>1, <1>2, FS_EmptySet DEF PresetInv

LEMMA PresetStep == PresetInv /\ [PresetNext]_presetVars => PresetInv'
  <1> SUFFICES ASSUME PresetInv, [PresetNext]_presetVars PROVE PresetInv'
    OBVIOUS
  <1>1. CASE PresetNext
    <2>1. ASSUME NEW id \in Slugs, NEW name \in Slugs, NEW shape \in Shapes, CreatePreset(id, name, shape)
          PROVE  PresetInv'
      BY <2>1, CreateNext
    <2>2. ASSUME NEW id, NEW shape \in Shapes, UpdatePreset(id, shape) PROVE PresetInv'
      BY <2>2, UpdateNext
    <2>3. ASSUME NEW id, DeletePreset(id) PROVE PresetInv'
      BY <2>3, DeleteNext
    <2> QED
      BY <1>1, <2>1, <2>2, <2>3 DEF PresetNext
  <1>2. CASE UNCHANGED presetVars
    BY <1>2 DEF presetVars, PresetInv, CustomPresets
  <1> QED
    BY <1>1, <1>2

(* The types are part of the invariant, or follow from it. *)
LEMMA PresetInvTypes == PresetInv => PresetTypeOK
  <1> SUFFICES ASSUME PresetInv PROVE PresetTypeOK
    OBVIOUS
  <1>1. ASSUME NEW id \in CustomPresets \cup Builtin, NEW baseline \in Baselines
        PROVE  SumOfPercent(BuildRampingStages(id, IF id \in Builtin THEN <<>> ELSE custom[id], 5, baseline)) = 100
    <2>1. baseline \in Int
      BY PresetConstants DEF PresetConstants
    <2> QED
      BY <2>1, StagesFill
  <1> QED
    BY <1>1 DEF PresetTypeOK, PresetInv, CustomPresets

(* Every custom preset is in the list exactly once and nothing else is, none  *)
(* hides behind a built-in one, and the stages a run is made of fill its      *)
(* duration, whatever presets are asked for (pkg/presets).                    *)
THEOREM PresetTypeCorrect == PresetSpec => []PresetTypeOK
BY PresetInvTypes, PresetInitial, PresetStep, PTL DEF PresetSpec

-----------------------------------------------------------------------------
(* Sequences: numbers in their order, and parts of a sequence.             *)

(* In is an enumeration of the numbers by size. *)
InOrder(at, S) ==
    /\ at \in [1..Cardinality(S) -> S]
    /\ \A i, j \in DOMAIN at : i < j => at[i] < at[j]

(* A finite set of numbers that is not empty has a greatest one. *)
LEMMA GreatestOf ==
    ASSUME NEW S \in SUBSET Nat, IsFiniteSet(S), S # {}
    PROVE  \E greatest \in S : \A n \in S : n <= greatest
  <1> DEFINE Topped == {T \in SUBSET S : T = {} \/ \E greatest \in T : \A n \in T : n <= greatest}
  <1>1. {} \in Topped
    OBVIOUS
  <1>2. \A T \in SUBSET S : \A x \in T : T \ {x} \in Topped => T \in Topped
    <2> TAKE T \in SUBSET S
    <2> TAKE x \in T
    <2> HAVE T \ {x} \in Topped
    <2>1. CASE T \ {x} = {}
      <3>1. \A n \in T : n = x
        BY <2>1
      <3>2. x \in Nat
        OBVIOUS
      <3> QED
        BY <3>1, <3>2
    <2>2. CASE T \ {x} # {}
      <3>1. PICK y \in T \ {x} : \A n \in T \ {x} : n <= y
        BY <2>2
      <3>2. x \in Nat /\ y \in Nat /\ \A n \in T : n \in Nat
        OBVIOUS
      <3>3. PICK z \in {x, y} : x <= z /\ y <= z
        BY <3>2
      <3>4. \A n \in T : n <= z
        <4> TAKE n \in T
        <4>1. n = x \/ n <= y
          BY <3>1
        <4> QED
          BY <3>2, <3>3, <4>1
      <3> QED
        BY <3>3, <3>4
    <2> QED
      BY <2>1, <2>2
  <1>3. SUBSET S \subseteq Topped
    <2> HIDE DEF Topped
    <2> QED
      BY <1>1, <1>2, SubsetInduction
  <1> QED
    BY <1>3

(* Any n numbers can be put in order, by induction over how many there    *)
(* are.                                                                   *)
LEMMA PlacesExist ==
    ASSUME NEW S, S \subseteq Nat, IsFiniteSet(S)
    PROVE  \E at : InOrder(at, S)
  <1> DEFINE Bad == {T \in SUBSET S : ~\E at : InOrder(at, T)}
  <1> SUFFICES ASSUME Bad # {} PROVE FALSE
    OBVIOUS
  <1>1. PICK T \in Bad : \A U \in Bad : U \subseteq T => U = T
    <2>1. Bad \in SUBSET (SUBSET S) /\ Bad # {} /\ IsFiniteSet(S)
      OBVIOUS
    <2> HIDE DEF Bad
    <2> QED
      BY ONLY <2>1, LeastSubset
  <1>2. T \in SUBSET S /\ T \in SUBSET Nat /\ IsFiniteSet(T)
    BY FS_Subset
  <1>3. T # {}
    <2>1. Cardinality({}) = 0
      BY FS_EmptySet
    <2>2. <<>> \in [1..0 -> {}] /\ DOMAIN <<>> = {}
      OBVIOUS
    <2>3. InOrder(<<>>, {})
      BY <2>1, <2>2 DEF InOrder
    <2> QED
      BY <2>3
  <1>4. PICK x \in T : \A n \in T : n <= x
    BY <1>2, <1>3, GreatestOf
  <1>5. T \ {x} \notin Bad
    BY <1>1, <1>4
  <1>6. PICK at : InOrder(at, T \ {x})
    BY <1>2, <1>5
  <1>7. PICK n \in Nat : n = Cardinality(T \ {x}) /\ Cardinality(T) = n + 1
    <2>1. /\ IsFiniteSet(T \ {x}) /\ Cardinality(T \ {x}) = Cardinality(T) - 1
          /\ Cardinality(T) \in Nat /\ Cardinality(T \ {x}) \in Nat
      BY <1>2, <1>4, FS_RemoveElement, FS_CardinalityType
    <2> QED
      BY <2>1
  <1>8. /\ at \in [1..n -> T \ {x}]
        /\ \A i, j \in 1..n : i < j => at[i] < at[j]
    BY <1>6, <1>7 DEF InOrder
  <1> DEFINE more == [i \in 1..(n + 1) |-> IF i = n + 1 THEN x ELSE at[i]]
  <1>9. more \in [1..(n + 1) -> T]
    <2>1. ASSUME NEW i \in 1..(n + 1) PROVE more[i] \in T
      <3>1. CASE i = n + 1
        BY <1>4, <3>1
      <3>2. CASE i # n + 1
        <4>1. i \in 1..n
          BY <1>7, <3>2
        <4> QED
          BY <1>8, <3>2, <4>1
      <3> QED
        BY <3>1, <3>2
    <2> QED
      BY <2>1
  <1>10. ASSUME NEW i \in 1..(n + 1), NEW j \in 1..(n + 1), i < j PROVE more[i] < more[j]
    <2>1. i \in 1..n /\ at[i] \in T \ {x}
      <3>1. i \in 1..n
        BY <1>7, <1>10
      <3> QED
        BY <1>8, <3>1
    <2>2. CASE j = n + 1
      <3>1. at[i] <= x /\ at[i] # x /\ at[i] \in Nat /\ x \in Nat
        BY <1>2, <1>4, <2>1
      <3>2. more[i] = at[i] /\ more[j] = x
        BY <1>7, <2>1, <2>2
      <3> QED
        BY <3>1, <3>2
    <2>3. CASE j \in 1..n
      <3>1. more[i] = at[i] /\ more[j] = at[j]
        BY <1>7, <2>1, <2>3
      <3> QED
        BY <1>8, <1>10, <2>1, <2>3, <3>1
    <2> QED
      BY <1>7, <2>2, <2>3
  <1>11. InOrder(more, T)
    BY <1>7, <1>9, <1>10 DEF InOrder
  <1> QED
    BY <1>1, <1>2, <1>11

(* So what Places chooses is there to be chosen. *)
LEMMA PlacesInOrder ==
    ASSUME NEW S \in SUBSET Nat, IsFiniteSet(S)
    PROVE  /\ Cardinality(S) \in Nat
           /\ Places(S) \in [1..Cardinality(S) -> S]
           /\ \A i, j \in 1..Cardinality(S) : i < j => Places(S)[i] < Places(S)[j]
  <1>1. PICK at \in [1..Cardinality(S) -> S] : \A i, j \in DOMAIN at : i < j => at[i] < at[j]
    <2>1. S \subseteq Nat
      OBVIOUS
    <2>2. \E at : InOrder(at, S)
      BY ONLY <2>1, IsFiniteSet(S), PlacesExist
    <2> QED
      BY <2>2 DEF InOrder
  <1>2. PICK p : p = CHOOSE a \in [1..Cardinality(S) -> S] : \A i, j \in DOMAIN a : i < j => a[i] < a[j]
    OBVIOUS
  <1>3. p \in [1..Cardinality(S) -> S] /\ \A i, j \in DOMAIN p : i < j => p[i] < p[j]
    BY <1>1, <1>2
  <1>4. Places(S) = p
    BY <1>2 DEF Places
  <1>5. Cardinality(S) \in Nat
    BY FS_CardinalityType
  <1> QED
    BY <1>3, <1>4, <1>5

(* What has been put in order is there somewhere. *)
LEMMA EachHasPlace ==
    ASSUME NEW S, IsFiniteSet(S), NEW order \in [1..Cardinality(S) -> S], IsInjective(order)
    PROVE  \A x \in S : \E k \in 1..Cardinality(S) : order[k] = x
  <1>1. PICK n \in Nat : n = Cardinality(S)
    BY FS_CardinalityType
  <1>2. IsFiniteSet(1..n) /\ Cardinality(1..n) = n
    <2>1. n \in Int /\ 1 \in Int /\ (1 <= n \/ n = 0)
      BY <1>1
    <2>2. IsFiniteSet(1..n) /\ Cardinality(1..n) = IF 1 > n THEN 0 ELSE n - 1 + 1
      BY ONLY <2>1, FS_Interval
    <2> QED
      BY <2>1, <2>2
  <1>3. order \in Injection(1..n, S)
    <2>1. order \in [1..n -> S] /\ \A a, b \in 1..n : order[a] = order[b] => a = b
      BY <1>1 DEF IsInjective
    <2> QED
      BY <2>1 DEF Injection
  <1>4. order \in Surjection(1..n, S)
    BY <1>1, <1>2, <1>3, FS_Injection
  <1> QED
    BY <1>1, <1>4 DEF Surjection

(* Things of which a part is kept are kept in their order, at at. *)
Picks(m, at, n, order, S) ==
    /\ m \in Nat /\ at \in [1..m -> 1..n] /\ \A i, j \in 1..m : i < j => at[i] < at[j]
    /\ \A k \in 1..m : order[at[k]] \in S
    /\ Kept(order, S) = [k \in 1..m |-> order[at[k]]]

(* What Kept returns picks places of the order, and picks them in order. *)
LEMMA KeptInOrder ==
    ASSUME NEW n \in Nat, NEW D, NEW order \in [1..n -> D], NEW S
    PROVE  \E m, at : Picks(m, at, n, order, S)
  <1> DEFINE Picked == {p \in DOMAIN order : order[p] \in S}
  <1>1. DOMAIN order = 1..n
    OBVIOUS
  <1>2. IsFiniteSet(1..n)
    <2>1. 1 \in Int /\ n \in Int
      OBVIOUS
    <2> QED
      BY ONLY <2>1, FS_Interval
  <1>3. Picked \subseteq 1..n /\ IsFiniteSet(Picked) /\ Picked \in SUBSET Nat
    <2>1. Picked \subseteq 1..n /\ 1..n \subseteq Nat
      BY <1>1
    <2> QED
      BY <1>2, <2>1, FS_Subset
  <1>4. Kept(order, S) = [k \in DOMAIN Places(Picked) |-> order[Places(Picked)[k]]]
    BY DEF Kept
  <1>5. \A p \in Picked : order[p] \in S
    OBVIOUS
  <1> HIDE DEF Picked
  <1>6. /\ Cardinality(Picked) \in Nat
        /\ Places(Picked) \in [1..Cardinality(Picked) -> Picked]
        /\ \A i, j \in 1..Cardinality(Picked) : i < j => Places(Picked)[i] < Places(Picked)[j]
    BY <1>3, PlacesInOrder
  <1>7. PICK m \in Nat : m = Cardinality(Picked)
    BY <1>6
  <1>11. PICK at \in [1..m -> Picked] : at = Places(Picked)
    BY <1>6, <1>7
  <1>8. at \in [1..m -> 1..n] /\ \A i, j \in 1..m : i < j => at[i] < at[j]
    BY <1>3, <1>6, <1>7, <1>11
  <1>9. Kept(order, S) = [k \in 1..m |-> order[at[k]]]
    BY <1>4, <1>11
  <1>10. \A k \in 1..m : order[at[k]] \in S
    BY <1>5, <1>11
  <1> QED
    <2>1. Picks(m, at, n, order, S)
      BY <1>8, <1>9, <1>10 DEF Picks
    <2> QED
      BY <2>1

(* Growing numbers are distinct. *)
LEMMA GrowingDistinct ==
    ASSUME NEW m \in Nat, NEW at \in [1..m -> Nat], \A i, j \in 1..m : i < j => at[i] < at[j]
    PROVE  \A i, j \in 1..m : at[i] = at[j] => i = j
  <1> SUFFICES ASSUME NEW i \in 1..m, NEW j \in 1..m, at[i] = at[j], i # j PROVE FALSE
    OBVIOUS
  <1>1. at[i] \in Nat /\ i \in Nat /\ j \in Nat
    OBVIOUS
  <1>2. i < j \/ j < i
    BY <1>1
  <1>3. at[i] < at[j] \/ at[j] < at[i]
    BY <1>2
  <1> QED
    BY <1>1, <1>3

-----------------------------------------------------------------------------
(* Scenarios                                                               *)

(* The steps of a scenario have the fields of a step, and there is an end to *)
(* them. *)
HasSteps(sc) == IsFiniteSet(DOMAIN sc.steps) /\ \A id \in DOMAIN sc.steps : IsStep(sc.steps[id])

(* A scenario that has been handed out *)
IsScenario(sc) == ValidateScenario(sc) /\ HasSteps(sc)

(* A step of a scenario that is one line through the source: the steps in *)
(* the order of the walk, and by when each has been sent. *)
Line(sc, n, ids, walk, by) ==
    /\ n \in Nat \ {0} /\ ids \in [1..n -> DOMAIN sc.steps] /\ sc.initial = ids[1]
    /\ walk = [k \in 1..n |-> sc.steps[ids[k]].request] /\ by \in [0..n -> Nat] /\ by[0] = 0
    /\ \A k \in 0..n : by[k] <= by[n]
    /\ \A k \in 1..n :
          /\ ids[k] \notin {END, <<>>}
          /\ sc.steps[ids[k]].next = <<To(IF k < n THEN ids[k + 1] ELSE END)>>
          /\ sc.steps[ids[k]].onFailure = "abort"
          /\ by[k - 1] + sc.steps[ids[k]].pause <= by[k]

(* The walk is one that was told, and takes as long as was told. *)
OneLine(sc, tl, n, ids, walk, by) ==
    /\ Line(sc, n, ids, walk, by) /\ walk \in tl.walks /\ tl.pairs = {}
    /\ \A limit \in tl.limits : limit \in Nat /\ by[n] <= limit

(* What a user sends that is led to a target *)
Comes(sc, target) == IF target = END THEN END ELSE sc.steps[target].request

(* A step leads only to what was told to follow. *)
Paired(sc, tl) ==
    /\ tl.walks = {} /\ tl.limits = {0}
    /\ \A id \in DOMAIN sc.steps :
          /\ sc.steps[id].pause = 0
          /\ sc.steps[id].onFailure = "abort"
          /\ \E m \in Nat \ {0} : DOMAIN sc.steps[id].next = 1..m
          /\ \A k \in DOMAIN sc.steps[id].next :
                /\ sc.steps[id].next[k].condition = Always /\ sc.steps[id].next[k].target # <<>>
                /\ sc.steps[id].next[k].target \in DOMAIN sc.steps \cup {END}
                /\ <<sc.steps[id].request, Comes(sc, sc.steps[id].next[k].target)>> \in tl.pairs

(* What is true of the user of a line *)
OnLine(n, ids, walk, by, us) ==
    /\ Len(us.sent) <= n /\ \A i \in 1..Len(us.sent) : us.sent[i] = walk[i]
    /\ us.state = "walking" =>
          Len(us.sent) < n /\ us.at = ids[Len(us.sent) + 1] /\ us.paused <= by[Len(us.sent)]
    /\ us.state = "finished" => Len(us.sent) = n
    /\ us.paused <= by[n]

(* and of the user of mined traffic. *)
OnPairs(sc, tl, us) ==
    LET m == Len(us.sent) IN
    /\ \A i \in 1..(m - 1) : <<us.sent[i], us.sent[i + 1]>> \in tl.pairs
    /\ us.state = "walking" =>
          us.at \in DOMAIN sc.steps /\ (m = 0 \/ <<us.sent[m], sc.steps[us.at].request>> \in tl.pairs)
    /\ us.state = "finished" => m > 0 /\ <<us.sent[m], END>> \in tl.pairs
    /\ us.paused = 0

(* What a scenario may send *)
Requested(sc) == {sc.steps[id].request : id \in DOMAIN sc.steps}

(* The user has the fields of a user, and what it has sent is of the      *)
(* scenario.                                                              *)
UserFits(sc, us) ==
    /\ DOMAIN us = {"at", "sent", "vars", "paused", "steps", "state"}
    /\ us.state \in States /\ us.steps \in 0..MaxStepTransitions /\ us.paused \in Nat
    /\ us.vars \subseteq VariableNames
    /\ us.sent \in Seq(Requested(sc)) /\ Len(us.sent) <= us.steps
    /\ us.state = "walking" => us.at \in DOMAIN sc.steps \/ Trimmed(us.at) # us.at
    /\ us.state = "absent" => us = Nobody

(* The source says nothing, or the user is on the line, or on the pairs,  *)
(* it was told.                                                           *)
Follow(sc, tl, us) ==
    \/ tl = Silent
    \/ \E n, ids, walk, by : OneLine(sc, tl, n, ids, walk, by) /\ OnLine(n, ids, walk, by, us)
    \/ Paired(sc, tl) /\ OnPairs(sc, tl, us)

(* What is sent goes where it was told to. *)
Based(sc, tl) == tl.hosts # {} => sc.base \in tl.hosts

(* The inductive invariant, as an operator of the three variables: what   *)
(* is handed out is of one of these forms, and the user is somewhere in   *)
(* it.                                                                    *)
FollowInv(sc, tl, us) ==
    /\ sc = NoScenario => us = Nobody /\ tl = Silent
    /\ sc # NoScenario => IsScenario(sc)
    /\ UserFits(sc, us) /\ Follow(sc, tl, us) /\ Based(sc, tl)

(* Where there is one way on without a condition, it is taken. *)
LEMMA OneWay ==
    ASSUME NEW step, NEW status, NEW vars, NEW target, step.next = <<To(target)>>
    PROVE  SelectNextTransition(step, status, vars) = {target}
  <1>1. DOMAIN step.next = {1} /\ step.next[1].target = target /\ step.next[1].condition = Always
    BY DEF To
  <1>2. {i \in DOMAIN step.next : evaluateCondition(step.next[i].condition, status, vars)} = {1}
    BY <1>1 DEF evaluateCondition
  <1> QED
    BY <1>1, <1>2 DEF SelectNextTransition

(* Where none of the ways on has a condition, any may be taken. *)
LEMMA AnyWay ==
    ASSUME NEW step, NEW status, NEW vars, NEW m \in Nat \ {0}, DOMAIN step.next = 1..m,
           \A k \in 1..m : step.next[k].condition = Always
    PROVE  SelectNextTransition(step, status, vars) = {step.next[k].target : k \in 1..m}
  <1>1. {i \in DOMAIN step.next : evaluateCondition(step.next[i].condition, status, vars)} = 1..m
    BY DEF evaluateCondition
  <1>2. 1 \in 1..m
    OBVIOUS
  <1> QED
    BY <1>1, <1>2 DEF SelectNextTransition

(* A user that has not sent anything is on every line, *)
LEMMA LineStarts ==
    ASSUME NEW sc, NEW tl, NEW n, NEW ids, NEW walk, NEW by, OneLine(sc, tl, n, ids, walk, by)
    PROVE  /\ OnLine(n, ids, walk, by, Nobody)
           /\ OnLine(n, ids, walk, by, [Nobody EXCEPT !.at = sc.initial, !.state = "walking"])
  <1> DEFINE us == [Nobody EXCEPT !.at = sc.initial, !.state = "walking"]
  <1>1. /\ us.at = sc.initial /\ us.sent = <<>> /\ us.paused = 0 /\ us.state = "walking"
        /\ Nobody.sent = <<>> /\ Nobody.paused = 0 /\ Nobody.state = "absent"
    BY DEF Nobody
  <1>2. n \in Nat \ {0} /\ by \in [0..n -> Nat] /\ by[0] = 0 /\ sc.initial = ids[1] /\ 0 <= by[n]
    BY DEF OneLine, Line
  <1>3. Len(<<>>) = 0 /\ 1..0 = {} /\ 0 + 1 = 1
    OBVIOUS
  <1>4. "walking" # "finished" /\ "absent" # "walking" /\ "absent" # "finished"
    OBVIOUS
  <1>5. 0 <= n /\ 0 < n /\ 0 <= by[0]
    BY <1>2
  <1> HIDE DEF us
  <1>6. OnLine(n, ids, walk, by, us)
    BY <1>1, <1>2, <1>3, <1>4, <1>5 DEF OnLine
  <1>7. OnLine(n, ids, walk, by, Nobody)
    BY <1>1, <1>2, <1>3, <1>4, <1>5 DEF OnLine
  <1> QED
    BY <1>6, <1>7 DEF us

(* one step of it later it still is, *)
LEMMA LineGoesOn ==
    ASSUME NEW sc, NEW n, NEW ids, NEW walk, NEW by, Line(sc, n, ids, walk, by),
           NEW us, NEW R, us.sent \in Seq(R), us.paused \in Nat, us.state = "walking", OnLine(n, ids, walk, by, us),
           NEW step, step = sc.steps[us.at], step.pause \in Nat, step.request \in R,
           NEW status, NEW vars, NEW target \in SelectNextTransition(step, status, vars),
           NEW after, after.at = target, after.sent = Append(us.sent, step.request),
           after.paused = us.paused + step.pause, after.state = Ended(target)
    PROVE  OnLine(n, ids, walk, by, after)
  <1>1. PICK m \in Nat : m = Len(us.sent)
    OBVIOUS
  <1>2. /\ n \in Nat /\ m < n /\ us.at = ids[m + 1] /\ us.paused <= by[m]
        /\ \A i \in 1..m : us.sent[i] = walk[i]
    BY <1>1 DEF OnLine, Line
  <1>3. m + 1 \in 1..n /\ m \in 0..n /\ m + 1 \in 0..n
    BY <1>2
  <1>4. /\ ids[m + 1] \notin {END, <<>>} /\ step.request = walk[m + 1] /\ by[(m + 1) - 1] + step.pause <= by[m + 1]
        /\ step.next = <<To(IF m + 1 < n THEN ids[(m + 1) + 1] ELSE END)>>
    BY <1>2, <1>3 DEF Line
  <1>5. target = IF m + 1 < n THEN ids[(m + 1) + 1] ELSE END
    BY <1>4, OneWay
  <1>6. after.sent \in Seq(R) /\ Len(after.sent) = m + 1 /\ \A i \in 1..(m + 1) : after.sent[i] = walk[i]
    <2>1. after.sent \in Seq(R) /\ Len(after.sent) = m + 1 /\ after.sent[m + 1] = step.request
      BY <1>1
    <2>2. ASSUME NEW i \in 1..m PROVE after.sent[i] = walk[i]
      <3>1. after.sent[i] = us.sent[i]
        BY <1>1
      <3> QED
        BY <1>2, <3>1
    <2>3. \A i \in 1..(m + 1) : i = m + 1 \/ i \in 1..m
      BY <1>1
    <2> QED
      BY <1>4, <2>1, <2>2, <2>3
  <1>7. after.paused <= by[m + 1] /\ after.paused <= by[n]
    <2>1. by[m] \in Nat /\ by[m + 1] \in Nat /\ by[n] \in Nat /\ by[m + 1] <= by[n] /\ (m + 1) - 1 = m
      BY <1>2, <1>3 DEF Line
    <2>2. PICK a, b, c \in Nat : a = by[m] /\ b = by[m + 1] /\ c = by[n]
      BY <2>1
    <2>3. PICK p, q \in Nat : p = us.paused /\ q = step.pause
      OBVIOUS
    <2>4. p <= a /\ a + q <= b /\ b <= c
      BY <1>2, <1>4, <2>1, <2>2, <2>3
    <2>5. p + q <= b /\ p + q <= c
      BY <2>4
    <2> QED
      BY <2>2, <2>3, <2>5
  <1>8. CASE m + 1 < n
    <2>1. (m + 1) + 1 \in 1..n
      BY <1>2, <1>8
    <2>2. target = ids[(m + 1) + 1] /\ target \notin {END, <<>>}
      BY <1>5, <1>8, <2>1 DEF Line
    <2>3. after.state = "walking"
      BY <2>2 DEF Ended
    <2>4. m + 1 <= n /\ "walking" # "finished"
      BY <1>2
    <2> QED
      BY <1>6, <1>7, <1>8, <2>2, <2>3, <2>4 DEF OnLine
  <1>9. CASE ~(m + 1 < n)
    <2>1. m + 1 = n
      BY <1>2, <1>9
    <2>2. target = END
      BY <1>5, <1>9
    <2>3. after.state = "finished" /\ "finished" # "walking"
      BY <2>2 DEF Ended
    <2>4. n <= n
      BY <1>2
    <2> QED
      BY <1>6, <1>7, <2>1, <2>3, <2>4 DEF OnLine
  <1> QED
    BY <1>8, <1>9

(* and so is one that fails, before or after it has sent the request, *)
LEMMA LineBreaksOff ==
    ASSUME NEW sc, NEW n, NEW ids, NEW walk, NEW by, Line(sc, n, ids, walk, by),
           NEW us, NEW R, us.sent \in Seq(R), us.paused \in Nat, us.state = "walking", OnLine(n, ids, walk, by, us),
           NEW step, step = sc.steps[us.at], step.pause \in Nat, step.request \in R,
           NEW after, after.sent \in {us.sent, Append(us.sent, step.request)},
           after.paused = us.paused + step.pause, after.state = "failed"
    PROVE  OnLine(n, ids, walk, by, after) /\ step.onFailure = "abort"
  <1>1. PICK m \in Nat : m = Len(us.sent)
    OBVIOUS
  <1>2. /\ n \in Nat /\ m < n /\ us.at = ids[m + 1] /\ us.paused <= by[m]
        /\ \A i \in 1..m : us.sent[i] = walk[i]
    BY <1>1 DEF OnLine, Line
  <1>3. m + 1 \in 1..n /\ m \in 0..n /\ m + 1 \in 0..n
    BY <1>2
  <1>4. /\ by[(m + 1) - 1] + step.pause <= by[m + 1] /\ step.onFailure = "abort"
        /\ step.request = walk[m + 1]
    BY <1>2, <1>3 DEF Line
  <1>5. by[m] \in Nat /\ by[m + 1] \in Nat /\ by[n] \in Nat /\ by[m + 1] <= by[n] /\ (m + 1) - 1 = m
    BY <1>2, <1>3 DEF Line
  <1>6. after.paused <= by[n]
    BY <1>2, <1>4, <1>5
  <1>7. "failed" # "walking" /\ "failed" # "finished" /\ m <= n /\ m + 1 <= n
    BY <1>2
  <1>8. CASE after.sent = us.sent
    BY <1>1, <1>2, <1>4, <1>6, <1>7, <1>8 DEF OnLine
  <1>9. CASE after.sent = Append(us.sent, step.request)
    <2>1. Len(after.sent) = m + 1 /\ after.sent[m + 1] = step.request
      BY <1>1, <1>9
    <2>2. \A i \in 1..m : after.sent[i] = us.sent[i]
      BY <1>1, <1>9
    <2>3. \A i \in 1..(m + 1) : i = m + 1 \/ i \in 1..m
      BY <1>1
    <2>4. \A i \in 1..(m + 1) : after.sent[i] = walk[i]
      BY <1>2, <1>4, <2>1, <2>2, <2>3
    <2> QED
      BY <1>4, <1>6, <1>7, <2>1, <2>4 DEF OnLine
  <1> QED
    BY <1>8, <1>9

(* A user that has not sent anything is on the pairs, *)
LEMMA PairsStart ==
    ASSUME NEW tl, NEW sc, sc.initial \in DOMAIN sc.steps
    PROVE  OnPairs(sc, tl, Nobody) /\ OnPairs(sc, tl, [Nobody EXCEPT !.at = sc.initial, !.state = "walking"])
  <1> DEFINE us == [Nobody EXCEPT !.at = sc.initial, !.state = "walking"]
  <1>1. /\ us.sent = <<>> /\ us.paused = 0 /\ us.state = "walking" /\ us.at = sc.initial
        /\ Nobody.sent = <<>> /\ Nobody.paused = 0 /\ Nobody.state = "absent"
    BY DEF Nobody
  <1>2. Len(<<>>) = 0 /\ 1..(0 - 1) = {}
    OBVIOUS
  <1>3. "walking" # "finished" /\ "absent" # "walking" /\ "absent" # "finished"
    OBVIOUS
  <1> HIDE DEF us
  <1>4. OnPairs(sc, tl, us) /\ OnPairs(sc, tl, Nobody)
    BY <1>1, <1>2, <1>3 DEF OnPairs
  <1> QED
    BY <1>4 DEF us

(* whose steps lead only to what was told, *)
LEMMA PairedStep ==
    ASSUME NEW sc, NEW tl, Paired(sc, tl), NEW id \in DOMAIN sc.steps
    PROVE  \A j \in DOMAIN sc.steps[id].next :
              /\ sc.steps[id].next[j].target # <<>>
              /\ sc.steps[id].next[j].target \in DOMAIN sc.steps \cup {END}
              /\ <<sc.steps[id].request, Comes(sc, sc.steps[id].next[j].target)>> \in tl.pairs
  BY Zenon DEF Paired

(* what has been sent together with one more request is still paired, *)
LEMMA PairsGrow ==
    ASSUME NEW sc, NEW tl, NEW us, us.at \in DOMAIN sc.steps, us.sent \in Seq(Requested(sc)), us.state = "walking",
           OnPairs(sc, tl, us), NEW sent, sent = Append(us.sent, sc.steps[us.at].request)
    PROVE  /\ Len(sent) = Len(us.sent) + 1 /\ sent[Len(sent)] = sc.steps[us.at].request
           /\ \A i \in 1..(Len(sent) - 1) : <<sent[i], sent[i + 1]>> \in tl.pairs
  <1>3. PICK asked \in Requested(sc) : asked = sc.steps[us.at].request
    BY DEF Requested
  <1>1. PICK m \in Nat : m = Len(us.sent)
    OBVIOUS
  <1>2. /\ m = 0 \/ <<us.sent[m], asked>> \in tl.pairs
        /\ \A i \in 1..(m - 1) : <<us.sent[i], us.sent[i + 1]>> \in tl.pairs
    BY <1>1, <1>3 DEF OnPairs
  <1>4. Len(sent) = m + 1 /\ sent[m + 1] = asked
    BY <1>1, <1>3
  <1>5. \A i \in 1..m : sent[i] = us.sent[i]
    BY <1>1, <1>3
  <1>6. ASSUME NEW i \in 1..((m + 1) - 1) PROVE <<sent[i], sent[i + 1]>> \in tl.pairs
    <2>1. CASE i = m
      <3>1. m # 0 /\ i \in 1..m
        BY <2>1, <1>6
      <3>2. sent[i] = us.sent[m] /\ sent[i + 1] = asked
        BY <1>4, <1>5, <2>1, <3>1
      <3> QED
        BY <1>2, <3>1, <3>2
    <2>2. CASE i # m
      <3>1. i \in 1..(m - 1) /\ i \in 1..m /\ i + 1 \in 1..m
        BY <2>2, <1>6
      <3>2. sent[i] = us.sent[i] /\ sent[i + 1] = us.sent[i + 1]
        BY <1>5, <3>1
      <3> QED
        BY <1>2, <3>1, <3>2
    <2> QED
      BY <2>1, <2>2
  <1> QED
    BY <1>1, <1>3, <1>4, <1>6

(* and one step of it later the user still is on them, *)
LEMMA PairsGoOn ==
    ASSUME NEW sc, NEW tl, Paired(sc, tl), NEW us, us.at \in DOMAIN sc.steps,
           us.sent \in Seq(Requested(sc)), us.state = "walking", OnPairs(sc, tl, us),
           NEW step, step = sc.steps[us.at],
           NEW status, NEW vars, NEW target \in SelectNextTransition(step, status, vars),
           NEW after, after.at = target, after.sent = Append(us.sent, step.request),
           after.paused = us.paused + step.pause, after.state = Ended(target)
    PROVE  OnPairs(sc, tl, after)
  <1>1. step.request \in Requested(sc) /\ step.pause = 0 /\ us.paused = 0 /\ Len(us.sent) \in Nat
    BY DEF Requested, Paired, OnPairs
  <1>2. /\ target # <<>> /\ target \in DOMAIN sc.steps \cup {END}
        /\ <<step.request, Comes(sc, target)>> \in tl.pairs
    <2>1. PICK n \in Nat \ {0} : DOMAIN step.next = 1..n
      BY DEF Paired
    <2>2. ASSUME NEW k \in 1..n
          PROVE  /\ step.next[k].target # <<>> /\ step.next[k].target \in DOMAIN sc.steps \cup {END}
                 /\ <<step.request, Comes(sc, step.next[k].target)>> \in tl.pairs
      <3>1. \A j \in DOMAIN sc.steps[us.at].next :
               /\ sc.steps[us.at].next[j].target # <<>>
               /\ sc.steps[us.at].next[j].target \in DOMAIN sc.steps \cup {END}
               /\ <<sc.steps[us.at].request, Comes(sc, sc.steps[us.at].next[j].target)>> \in tl.pairs
        BY PairedStep
      <3>2. k \in DOMAIN sc.steps[us.at].next
        BY <2>1
      <3> QED
        BY <3>1, <3>2
    <2>3. \A k \in 1..n : step.next[k].condition = Always
      BY <2>1 DEF Paired
    <2>4. SelectNextTransition(step, status, vars) = {step.next[k].target : k \in 1..n}
      BY ONLY <2>1, <2>3, AnyWay
    <2>5. PICK k \in 1..n : target = step.next[k].target
      BY <2>4
    <2> QED
      BY <2>2, <2>5
  <1>3. /\ Len(after.sent) = Len(us.sent) + 1 /\ after.sent[Len(after.sent)] = step.request
        /\ \A i \in 1..(Len(after.sent) - 1) : <<after.sent[i], after.sent[i + 1]>> \in tl.pairs
    <2>1. PICK sent : sent = after.sent
      OBVIOUS
    <2>2. sent = Append(us.sent, sc.steps[us.at].request)
      BY <2>1
    <2>3. /\ Len(sent) = Len(us.sent) + 1 /\ sent[Len(sent)] = sc.steps[us.at].request
          /\ \A i \in 1..(Len(sent) - 1) : <<sent[i], sent[i + 1]>> \in tl.pairs
      BY Zenon, <2>2, PairsGrow
    <2> QED
      BY <2>1, <2>3
  <1>4. after.paused = 0 /\ Len(after.sent) > 0
    BY <1>1, <1>3
  <1>5. CASE target = END
    <2>1. after.state = "finished" /\ "finished" # "walking" /\ <<step.request, END>> \in tl.pairs
      BY <1>2, <1>5 DEF Ended, Comes
    <2> QED
      BY <1>3, <1>4, <2>1 DEF OnPairs
  <1>6. CASE target # END
    <2>1. after.state = "walking" /\ "finished" # "walking" /\ target \in DOMAIN sc.steps
          /\ <<step.request, sc.steps[target].request>> \in tl.pairs
      BY <1>2, <1>6 DEF Ended, Comes
    <2> QED
      BY <1>3, <1>4, <2>1 DEF OnPairs
  <1> QED
    BY <1>5, <1>6

(* as it is when the step fails, before or after the request has been sent. *)
LEMMA PairsBreakOff ==
    ASSUME NEW sc, NEW tl, Paired(sc, tl), NEW us, us.at \in DOMAIN sc.steps,
           us.sent \in Seq(Requested(sc)), us.state = "walking", OnPairs(sc, tl, us),
           NEW step, step = sc.steps[us.at],
           NEW after, after.sent \in {us.sent, Append(us.sent, step.request)},
           after.paused = us.paused + step.pause, after.state = "failed"
    PROVE  OnPairs(sc, tl, after) /\ step.onFailure = "abort"
  <1>1. step.request \in Requested(sc) /\ step.pause = 0 /\ us.paused = 0 /\ step.onFailure = "abort"
    BY DEF Requested, Paired, OnPairs
  <1>2. \A i \in 1..(Len(after.sent) - 1) : <<after.sent[i], after.sent[i + 1]>> \in tl.pairs
    <2>1. CASE after.sent = us.sent
      BY <2>1 DEF OnPairs
    <2>2. CASE after.sent = Append(us.sent, step.request)
      <3>1. PICK sent : sent = after.sent
        OBVIOUS
      <3>2. sent = Append(us.sent, sc.steps[us.at].request)
        BY <2>2, <3>1
      <3>3. \A i \in 1..(Len(sent) - 1) : <<sent[i], sent[i + 1]>> \in tl.pairs
        BY Zenon, <3>2, PairsGrow
      <3> QED
        BY <3>1, <3>3
    <2> QED
      BY <2>1, <2>2
  <1>3. after.paused = 0 /\ "failed" # "walking" /\ "failed" # "finished"
    BY <1>1
  <1> QED
    BY <1>1, <1>2, <1>3 DEF OnPairs

(* A sequence that agrees with a longer one is a prefix of it. *)
LEMMA Agreeing ==
    ASSUME NEW A, NEW s \in Seq(A), NEW B, NEW n \in Nat, NEW walk \in [1..n -> B], Len(s) <= n,
           \A i \in 1..Len(s) : s[i] = walk[i]
    PROVE  IsPrefix(s, walk) /\ (Len(s) = n => s = walk)
  <1>1. PICK m \in Nat : m = Len(s)
    OBVIOUS
  <1>2. s \in [1..m -> A] /\ walk \in Seq(B) /\ Len(walk) = n /\ DOMAIN s = 1..m
    BY <1>1
  <1>3. SubSeq(s, 1, m) = [i \in 1..m |-> s[i]]
    BY <1>1, <1>2
  <1>4. SubSeq(walk, 1, m) = [i \in 1..m |-> walk[i]]
    BY <1>1, <1>2
  <1>5. [i \in 1..m |-> s[i]] = [i \in 1..m |-> walk[i]]
    BY <1>1
  <1>6. IsPrefix(s, walk)
    BY <1>1, <1>2, <1>3, <1>4, <1>5 DEF IsPrefix
  <1>7. ASSUME m = n PROVE s = walk
    <2>1. s = [i \in 1..m |-> s[i]] /\ walk = [i \in 1..m |-> walk[i]]
      BY <1>2, <1>7
    <2> QED
      BY <1>5, <2>1
  <1> QED
    BY <1>1, <1>6, <1>7

(* The invariant is enough. *)
LEMMA FollowImplies ==
    ASSUME FollowInv(scenario, told, user)
    PROVE  ImportTypeOK /\ JourneyIsFaithful
  <1>1. UserFits(scenario, user) /\ Follow(scenario, told, user) /\ Based(scenario, told)
    BY DEF FollowInv
  <1>2. ImportTypeOK
    BY <1>1 DEF ImportTypeOK, FollowInv, IsScenario, UserFits
  <1>3. user.state = "walking" => user.at \in DOMAIN scenario.steps \/ Trimmed(user.at) # user.at
    BY <1>1 DEF UserFits
  <1>4. user.sent \in Seq(Requested(scenario)) /\ user.paused \in Nat
    BY <1>1 DEF UserFits
  <1>8. told.hosts # {} => scenario.base \in told.hosts
    BY <1>1 DEF Based
  <1>5. CASE told = Silent
    <2>1. told.walks = {} /\ told.pairs = {} /\ \A limit \in told.limits : user.paused <= limit
      BY <1>5 DEF Silent
    <2>2. user.state = "walking" /\ user.at \notin DOMAIN scenario.steps => told = Silent /\ Trimmed(user.at) # user.at
      BY <1>3, <1>5
    <2> QED
      BY Zenon, <1>2, <1>8, <2>1, <2>2 DEF JourneyIsFaithful
  <1>6. ASSUME NEW n, NEW ids, NEW walk, NEW by,
               OneLine(scenario, told, n, ids, walk, by), OnLine(n, ids, walk, by, user)
        PROVE  JourneyIsFaithful
    <2>1. n \in Nat /\ walk \in told.walks /\ told.pairs = {} /\ by[n] \in Nat
      BY <1>6 DEF OneLine, Line
    <2>2. PICK B : walk \in [1..n -> B]
      <3>1. walk = [k \in 1..n |-> scenario.steps[ids[k]].request]
        BY <1>6 DEF OneLine, Line
      <3>2. walk \in [1..n -> {scenario.steps[ids[k]].request : k \in 1..n}]
        BY <3>1
      <3> QED
        BY <3>2
    <2>3. IsPrefix(user.sent, walk) /\ (user.state = "finished" => user.sent = walk)
      <3>1. /\ Len(user.sent) <= n /\ \A i \in 1..Len(user.sent) : user.sent[i] = walk[i]
            /\ user.state = "finished" => Len(user.sent) = n
        BY <1>6 DEF OnLine
      <3>2. IsPrefix(user.sent, walk) /\ (Len(user.sent) = n => user.sent = walk)
        <4>4. PICK A : user.sent \in Seq(A)
          BY <1>4
        <4>1. PICK sent \in Seq(A) : sent = user.sent
          BY <4>4
        <4>2. n \in Nat /\ walk \in [1..n -> B] /\ Len(sent) <= n /\ \A i \in 1..Len(sent) : sent[i] = walk[i]
          BY <2>1, <2>2, <3>1, <4>1
        <4>3. IsPrefix(sent, walk) /\ (Len(sent) = n => sent = walk)
          BY ONLY <4>2, sent \in Seq(A), Agreeing
        <4> QED
          BY <4>1, <4>3
      <3> QED
        BY <3>1, <3>2
    <2>4. \A limit \in told.limits : user.paused <= limit
      <3> TAKE limit \in told.limits
      <3>1. user.paused <= by[n] /\ limit \in Nat /\ by[n] <= limit
        BY <1>6 DEF OneLine, OnLine
      <3> QED
        BY <1>4, <2>1, <3>1
    <2>5. user.state = "walking" => user.at \in DOMAIN scenario.steps
      <3> SUFFICES ASSUME user.state = "walking" PROVE user.at \in DOMAIN scenario.steps
        OBVIOUS
      <3>1. PICK m : m = Len(user.sent)
        OBVIOUS
      <3>2. m \in Nat /\ m < n /\ user.at = ids[m + 1] /\ ids \in [1..n -> DOMAIN scenario.steps]
        BY <1>4, <1>6, <3>1 DEF OneLine, Line, OnLine
      <3>3. m + 1 \in 1..n
        BY <2>1, <3>2
      <3> QED
        BY <3>2, <3>3
    <2> QED
      BY <1>8, <2>1, <2>3, <2>4, <2>5 DEF JourneyIsFaithful
  <1>7. CASE Paired(scenario, told) /\ OnPairs(scenario, told, user)
    <2>1. told.walks = {} /\ told.limits = {0} /\ user.paused = 0
      BY <1>7 DEF Paired, OnPairs
    <2>2. Last(user.sent) = user.sent[Len(user.sent)]
      BY DEF Last
    <2>3. /\ \A i \in 1..(Len(user.sent) - 1) : <<user.sent[i], user.sent[i + 1]>> \in told.pairs
          /\ user.state = "finished" => <<user.sent[Len(user.sent)], END>> \in told.pairs
          /\ user.state = "walking" => user.at \in DOMAIN scenario.steps
      BY <1>7 DEF OnPairs
    <2>4. \A limit \in told.limits : user.paused <= limit
      BY <2>1
    <2>5. user.state = "finished" => <<Last(user.sent), END>> \in told.pairs
      BY <2>2, <2>3
    <2>6. \A i \in 1..(Len(user.sent) - 1) : <<user.sent[i], user.sent[i + 1]>> \in told.pairs
      BY <2>3
    <2>7. user.state = "walking" => user.at \in DOMAIN scenario.steps
      BY <2>3
    <2> QED
      BY Zenon, <1>2, <1>8, <2>1, <2>4, <2>5, <2>6, <2>7 DEF JourneyIsFaithful
  <1> QED
    BY <1>1, <1>2, <1>5, <1>6, <1>7 DEF Follow

(* The variables of extractors *)
LEMMA VarsOf ==
    ASSUME NEW gives \in Seq(Extractors), NEW n \in 0..Len(gives)
    PROVE  Vars(gives, n) \subseteq VariableNames
  <1>1. ASSUME NEW k \in 1..n PROVE gives[k].var \in VariableNames
    <2>1. gives[k] \in Extractors
      OBVIOUS
    <2> QED
      BY <2>1 DEF Extractors
  <1> QED
    BY <1>1 DEF Vars

(* What a user that is walking has, in a valid scenario *)
LEMMA Walking ==
    ASSUME FollowInv(scenario, told, user), user.state = "walking"
    PROVE  /\ scenario # NoScenario /\ IsScenario(scenario)
           /\ user.steps \in 0..MaxStepTransitions /\ user.paused \in Nat /\ user.vars \subseteq VariableNames
           /\ user.sent \in Seq(Requested(scenario)) /\ Len(user.sent) <= user.steps /\ Len(user.sent) \in Nat
           /\ DOMAIN user = {"at", "sent", "vars", "paused", "steps", "state"}
  <1>1. UserFits(scenario, user)
    BY DEF FollowInv
  <1>2. Nobody.state = "absent" /\ "absent" # "walking"
    BY DEF Nobody
  <1>3. scenario # NoScenario
    BY <1>2 DEF FollowInv
  <1> QED
    BY <1>1, <1>3 DEF FollowInv, UserFits

(* A step that fails leaves the user where it may be; only the scenarios *)
(* somebody has written have steps to go to then.                         *)
LEMMA FailKeepsFollow ==
    ASSUME FollowInv(scenario, told, user), UNCHANGED told, MayGoOn,
           NEW step, step = scenario.steps[user.at], NEW sent, sent \in {user.sent, Append(user.sent, step.request)},
           NEW vars \in SUBSET VariableNames, Fail(step, sent, vars)
    PROVE  FollowInv(scenario, told, user)'
  <1>1. /\ UserFits(scenario, user) /\ Follow(scenario, told, user) /\ Based(scenario, told)
        /\ user.state = "walking" /\ user.at \in DOMAIN scenario.steps /\ user.steps < MaxStepTransitions
    BY DEF FollowInv, MayGoOn
  <1>2. /\ scenario # NoScenario /\ IsScenario(scenario)
        /\ user.steps \in 0..MaxStepTransitions /\ user.paused \in Nat
        /\ user.sent \in Seq(Requested(scenario)) /\ Len(user.sent) <= user.steps /\ Len(user.sent) \in Nat
        /\ DOMAIN user = {"at", "sent", "vars", "paused", "steps", "state"}
    BY <1>1, Walking
  <1>3. IsStep(step) /\ (step.onFailure = "transition" => step.fallback \in DOMAIN scenario.steps)
    BY <1>1, <1>2 DEF IsScenario, HasSteps, ValidateScenario
  <1>4. step.pause \in Nat /\ step.request \in Requested(scenario)
    BY <1>1, <1>3 DEF IsStep, Requested
  <1>5. /\ scenario' = scenario /\ told' = told
        /\ user' = [user EXCEPT !.sent = sent, !.vars = vars, !.paused = @ + step.pause, !.steps = @ + 1,
                                !.at = IF step.onFailure = "transition" THEN step.fallback ELSE @,
                                !.state = IF step.onFailure = "transition" THEN @ ELSE "failed"]
    BY DEF Fail
  <1>6. PICK after : after = user'
    OBVIOUS
  <1>7. /\ after.sent = sent /\ after.vars = vars /\ after.paused = user.paused + step.pause
        /\ after.steps = user.steps + 1 /\ DOMAIN after = {"at", "sent", "vars", "paused", "steps", "state"}
        /\ step.onFailure = "transition" => after.at = step.fallback /\ after.state = "walking"
        /\ step.onFailure # "transition" => after.state = "failed"
    BY <1>1, <1>2, <1>5, <1>6
  <1>8. sent \in Seq(Requested(scenario)) /\ Len(sent) <= Len(user.sent) + 1
    <2>1. CASE sent = user.sent
      BY <1>2, <2>1
    <2>2. CASE sent = Append(user.sent, step.request)
      BY <1>2, <1>4, <2>2
    <2> QED
      BY <2>1, <2>2
  <1>9. UserFits(scenario, after)
    <2>1. after.steps \in 0..MaxStepTransitions /\ after.paused \in Nat
      BY <1>1, <1>2, <1>4, <1>7, JourneyConstants
    <2>2. Len(after.sent) <= after.steps
      <3>1. Len(sent) \in Nat
        BY <1>8
      <3> QED
        BY <1>2, <1>7, <1>8, <3>1
    <2>3. /\ after.state \in {"walking", "failed"}
          /\ after.state = "walking" => after.at \in DOMAIN scenario.steps
      BY <1>3, <1>7
    <2>4. "walking" \in States /\ "failed" \in States /\ "walking" # "absent" /\ "failed" # "absent"
      BY DEF States
    <2> QED
      BY <1>7, <1>8, <2>1, <2>2, <2>3, <2>4 DEF UserFits
  <1>10. Follow(scenario, told, after)
    <2>1. CASE told = Silent
      BY <2>1 DEF Follow
    <2>2. ASSUME NEW n, NEW ids, NEW walk, NEW by,
                 OneLine(scenario, told, n, ids, walk, by), OnLine(n, ids, walk, by, user)
          PROVE  OnLine(n, ids, walk, by, after)
      <3>1. Line(scenario, n, ids, walk, by)
        BY <2>2 DEF OneLine
      <3>2. step.onFailure = "abort"
        <4>1. PICK m : m = Len(user.sent)
          OBVIOUS
        <4>2. n \in Nat /\ m \in Nat /\ m < n /\ user.at = ids[m + 1]
          BY <1>1, <1>2, <2>2, <3>1, <4>1 DEF Line, OnLine
        <4>3. m + 1 \in 1..n
          BY <4>2
        <4> QED
          BY <3>1, <4>2, <4>3 DEF Line
      <3>3. "transition" # "abort"
        OBVIOUS
      <3>4. after.state = "failed" /\ after.sent \in {user.sent, Append(user.sent, step.request)}
        BY <1>7, <3>2, <3>3
      <3> QED
        BY <1>1, <1>2, <1>4, <1>7, <2>2, <3>1, <3>4, LineBreaksOff
    <2>3. CASE Paired(scenario, told) /\ OnPairs(scenario, told, user)
      <3>1. step.onFailure = "abort" /\ "transition" # "abort"
        BY <1>1, <2>3 DEF Paired
      <3>2. after.state = "failed" /\ after.sent \in {user.sent, Append(user.sent, step.request)}
        BY <1>7, <3>1
      <3>3. OnPairs(scenario, told, after)
        BY <1>1, <1>2, <1>7, <2>3, <3>2, PairsBreakOff
      <3> QED
        BY <2>3, <3>3 DEF Follow
    <2> QED
      BY <1>1, <2>1, <2>2, <2>3 DEF Follow
  <1> QED
    BY <1>1, <1>2, <1>5, <1>6, <1>9, <1>10 DEF FollowInv

(* A session that has had too many steps, or has come to a step that does *)
(* not exist, has sent what it has sent.                                  *)
LEMMA StopKeepsFollow ==
    ASSUME FollowInv(scenario, told, user), UNCHANGED told, SessionStops
    PROVE  FollowInv(scenario, told, user)'
  <1>1. /\ UserFits(scenario, user) /\ Follow(scenario, told, user) /\ Based(scenario, told)
        /\ user.state = "walking"
    BY DEF FollowInv, SessionStops
  <1>2. /\ scenario # NoScenario /\ IsScenario(scenario)
        /\ DOMAIN user = {"at", "sent", "vars", "paused", "steps", "state"}
    BY <1>1, Walking
  <1>3. scenario' = scenario /\ told' = told /\ user' = [user EXCEPT !.state = "failed"]
    BY DEF SessionStops
  <1>4. PICK after : after = user'
    OBVIOUS
  <1>5. /\ after.sent = user.sent /\ after.vars = user.vars /\ after.paused = user.paused
        /\ after.steps = user.steps /\ after.state = "failed"
        /\ DOMAIN after = {"at", "sent", "vars", "paused", "steps", "state"}
    BY <1>2, <1>3, <1>4
  <1>6. "failed" \in States /\ "failed" # "absent" /\ "failed" # "walking" /\ "failed" # "finished"
    BY DEF States
  <1>7. UserFits(scenario, after)
    BY <1>1, <1>5, <1>6 DEF UserFits
  <1>8. ASSUME NEW n, NEW ids, NEW walk, NEW by, OnLine(n, ids, walk, by, user)
        PROVE  OnLine(n, ids, walk, by, after)
    BY <1>5, <1>6, <1>8 DEF OnLine
  <1>9. OnPairs(scenario, told, user) => OnPairs(scenario, told, after)
    BY <1>5, <1>6 DEF OnPairs
  <1>10. Follow(scenario, told, after)
    BY <1>1, <1>8, <1>9 DEF Follow
  <1> QED
    BY <1>1, <1>2, <1>3, <1>4, <1>7, <1>10 DEF FollowInv

(* A step that succeeds is one more on the line, or on the pairs. *)
LEMMA SuccessKeepsFollow ==
    ASSUME FollowInv(scenario, told, user), UNCHANGED told, NEW status, StepSucceeds(status)
    PROVE  FollowInv(scenario, told, user)'
  <1>1. /\ UserFits(scenario, user) /\ Follow(scenario, told, user) /\ Based(scenario, told)
        /\ user.state = "walking" /\ user.at \in DOMAIN scenario.steps /\ user.steps < MaxStepTransitions
    BY DEF FollowInv, StepSucceeds, MayGoOn
  <1>2. /\ scenario # NoScenario /\ IsScenario(scenario)
        /\ user.steps \in 0..MaxStepTransitions /\ user.paused \in Nat /\ user.vars \subseteq VariableNames
        /\ user.sent \in Seq(Requested(scenario)) /\ Len(user.sent) <= user.steps /\ Len(user.sent) \in Nat
    BY <1>1, Walking
  <1>3. PICK step : step = scenario.steps[user.at]
    OBVIOUS
  <1>4. PICK vars : vars = user.vars \cup Vars(step.gives, Len(step.gives))
    OBVIOUS
  <1>5. PICK target \in SelectNextTransition(step, status, vars) :
           user' = [at |-> target, sent |-> Append(user.sent, step.request), vars |-> vars,
                    paused |-> user.paused + step.pause, steps |-> user.steps + 1, state |-> Ended(target)]
    BY <1>3, <1>4 DEF StepSucceeds
  <1>6. scenario' = scenario /\ told' = told
    BY DEF StepSucceeds
  <1>7. IsStep(step)
    BY <1>1, <1>2, <1>3 DEF IsScenario, HasSteps
  <1>8. step.pause \in Nat /\ step.gives \in Seq(Extractors) /\ step.request \in Requested(scenario)
    BY <1>1, <1>3, <1>7 DEF IsStep, Requested
  <1>9. Vars(step.gives, Len(step.gives)) \subseteq VariableNames
    <2>1. Len(step.gives) \in 0..Len(step.gives)
      BY <1>8
    <2> QED
      BY <1>8, <2>1, VarsOf
  <1>10. PICK after : after = user'
    OBVIOUS
  <1>11. /\ after.at = target /\ after.sent = Append(user.sent, step.request) /\ after.vars = vars
         /\ after.paused = user.paused + step.pause /\ after.steps = user.steps + 1 /\ after.state = Ended(target)
         /\ DOMAIN after = {"at", "sent", "vars", "paused", "steps", "state"}
    BY <1>5, <1>10
  <1>12. Trimmed(target) \in DOMAIN scenario.steps \cup {END, <<>>}
    <2>1. \A i \in DOMAIN step.next : Trimmed(step.next[i].target) \in DOMAIN scenario.steps \cup {END, <<>>}
      BY <1>1, <1>2, <1>3 DEF IsScenario, HasSteps, ValidateScenario
    <2>2. target = END \/ \E i \in DOMAIN step.next : target = step.next[i].target
      BY <1>5 DEF SelectNextTransition
    <2>3. Trimmed(END) = END
      <3>1. Len(END) # 2
        BY DEF END
      <3> QED
        BY <3>1 DEF Trimmed
    <2> QED
      BY <2>1, <2>2, <2>3
  <1>13. UserFits(scenario, after)
    <2>1. after.steps \in 0..MaxStepTransitions /\ after.paused \in Nat
      BY <1>1, <1>2, <1>8, <1>11, JourneyConstants
    <2>2. after.sent \in Seq(Requested(scenario)) /\ Len(after.sent) = Len(user.sent) + 1
      BY <1>2, <1>8, <1>11
    <2>3. Len(after.sent) <= after.steps
      BY <1>2, <1>11, <2>2
    <2>4. /\ after.state \in {"walking", "finished"}
          /\ after.state = "walking" => after.at \in DOMAIN scenario.steps \/ Trimmed(after.at) # after.at
      BY <1>11, <1>12 DEF Ended
    <2>5. "walking" \in States /\ "finished" \in States /\ "walking" # "absent" /\ "finished" # "absent"
      BY DEF States
    <2>6. after.vars \subseteq VariableNames
      BY <1>2, <1>4, <1>9, <1>11
    <2> QED
      BY <1>11, <2>1, <2>2, <2>3, <2>4, <2>5, <2>6 DEF UserFits
  <1>14. Follow(scenario, told, after)
    <2>1. CASE told = Silent
      BY <2>1 DEF Follow
    <2>2. ASSUME NEW n, NEW ids, NEW walk, NEW by,
                 OneLine(scenario, told, n, ids, walk, by), OnLine(n, ids, walk, by, user)
          PROVE  OnLine(n, ids, walk, by, after)
      <3>1. Line(scenario, n, ids, walk, by)
        BY <2>2 DEF OneLine
      <3> QED
        BY <1>1, <1>2, <1>3, <1>5, <1>8, <1>11, <2>2, <3>1, LineGoesOn
    <2>3. CASE Paired(scenario, told) /\ OnPairs(scenario, told, user)
      <3>1. OnPairs(scenario, told, after)
        BY <1>1, <1>2, <1>3, <1>5, <1>11, <2>3, PairsGoOn
      <3> QED
        BY <2>3, <3>1 DEF Follow
    <2> QED
      BY <1>1, <2>1, <2>2, <2>3 DEF Follow
  <1> QED
    BY <1>1, <1>2, <1>6, <1>10, <1>13, <1>14 DEF FollowInv

(* A new user stands at the first step. *)
LEMMA NewUserFollows ==
    ASSUME FollowInv(scenario, told, user), UNCHANGED told, NewVirtualUser
    PROVE  FollowInv(scenario, told, user)'
  <1>1. Follow(scenario, told, user) /\ Based(scenario, told) /\ scenario # NoScenario /\ IsScenario(scenario)
    BY DEF FollowInv, NewVirtualUser
  <1>2. scenario' = scenario /\ told' = told /\ user' = [Nobody EXCEPT !.at = scenario.initial, !.state = "walking"]
    BY DEF NewVirtualUser
  <1>3. scenario.initial \in DOMAIN scenario.steps
    BY <1>1 DEF IsScenario, ValidateScenario
  <1>4. PICK after : after = user'
    OBVIOUS
  <1>5. UserFits(scenario, after)
    <2>1. /\ DOMAIN after = {"at", "sent", "vars", "paused", "steps", "state"}
          /\ after.state = "walking" /\ after.steps = 0 /\ after.paused = 0 /\ after.vars = {}
          /\ after.sent = <<>> /\ after.at = scenario.initial
      BY <1>2, <1>4 DEF Nobody
    <2>2. <<>> \in Seq(Requested(scenario)) /\ Len(<<>>) = 0 /\ 0 \in 0..MaxStepTransitions /\ 0 <= 0
      BY JourneyConstants
    <2>3. "walking" \in States /\ "walking" # "absent"
      BY DEF States
    <2> QED
      BY <1>3, <2>1, <2>2, <2>3 DEF UserFits
  <1>6. Follow(scenario, told, after)
    BY <1>1, <1>2, <1>3, <1>4, LineStarts, PairsStart DEF Follow
  <1> QED
    BY <1>1, <1>2, <1>4, <1>5, <1>6 DEF FollowInv

(* No step of a session disturbs the invariant. *)
LEMMA WalkKeepsFollow ==
    ASSUME FollowInv(scenario, told, user), Walk, UNCHANGED told
    PROVE  FollowInv(scenario, told, user)'
  <1>1. PICK step : step = scenario.steps[user.at]
    OBVIOUS
  <1>2. ASSUME MayGoOn
        PROVE  IsStep(step) /\ user.vars \in SUBSET VariableNames
    BY <1>1, <1>2, Walking DEF MayGoOn, IsScenario, HasSteps
  <1>3. CASE StepUnready
    <2>1. MayGoOn /\ Fail(step, user.sent, user.vars)
      BY <1>1, <1>3 DEF StepUnready
    <2>2. user.sent \in {user.sent, Append(user.sent, step.request)}
      OBVIOUS
    <2> QED
      BY <1>1, <1>2, <2>1, <2>2, FailKeepsFollow
  <1>4. ASSUME NEW status, StepRefused(status)
        PROVE  FollowInv(scenario, told, user)'
    <2>1. MayGoOn /\ Fail(step, Append(user.sent, step.request), user.vars)
      BY <1>1, <1>4 DEF StepRefused
    <2>2. PICK sent : sent = Append(user.sent, step.request)
      OBVIOUS
    <2> QED
      BY <1>1, <1>2, <2>1, <2>2, FailKeepsFollow
  <1>5. ASSUME NEW status, ExtractorFails(status)
        PROVE  FollowInv(scenario, told, user)'
    <2>1. PICK n \in DOMAIN step.gives :
             MayGoOn /\ Fail(step, Append(user.sent, step.request), user.vars \cup Vars(step.gives, n - 1))
      BY <1>1, <1>5 DEF ExtractorFails
    <2>2. PICK sent, vars : sent = Append(user.sent, step.request) /\ vars = user.vars \cup Vars(step.gives, n - 1)
      OBVIOUS
    <2>3. step.gives \in Seq(Extractors) /\ user.vars \in SUBSET VariableNames
      BY <1>2, <2>1 DEF IsStep
    <2>4. n - 1 \in 0..Len(step.gives)
      BY <2>3
    <2>5. Vars(step.gives, n - 1) \subseteq VariableNames
      BY <2>3, <2>4, VarsOf
    <2>6. vars \in SUBSET VariableNames
      BY <2>2, <2>3, <2>5
    <2> QED
      BY <1>1, <2>1, <2>2, <2>6, FailKeepsFollow
  <1> QED
    BY <1>3, <1>4, <1>5, NewUserFollows, StopKeepsFollow, SuccessKeepsFollow DEF Walk

-----------------------------------------------------------------------------
(* How importers make scenarios                                            *)

(* One step leads to the next, and is otherwise what was given. *)
IsChain(sc, base, n, ids, steps) ==
    /\ DOMAIN sc = {"base", "initial", "steps"} /\ sc.base = base /\ sc.initial = ids[1]
    /\ DOMAIN sc.steps = {ids[k] : k \in 1..n}
    /\ \A k \in 1..n :
          /\ IsStep(sc.steps[ids[k]])
          /\ sc.steps[ids[k]].next = <<To(IF k < n THEN ids[k + 1] ELSE END)>>
          /\ sc.steps[ids[k]].request = steps[ids[k]].request
          /\ sc.steps[ids[k]].pause = steps[ids[k]].pause
          /\ sc.steps[ids[k]].onFailure = steps[ids[k]].onFailure

(* Chained makes such a chain of distinct identifiers: the place it looks *)
(* up is the only one.                                                    *)
LEMMA ChainedSteps ==
    ASSUME NEW n \in Nat \ {0}, NEW I, NEW ids \in [1..n -> I], \A i, j \in 1..n : ids[i] = ids[j] => i = j,
           NEW steps, \A k \in 1..n : IsStep(steps[ids[k]]), NEW base,
           NEW sc, sc = Chained(base, ids, steps)
    PROVE  IsChain(sc, base, n, ids, steps)
  <1>1. Len(ids) = n /\ DOMAIN ids = 1..n
    OBVIOUS
  <1>2. ToSet(ids) = {ids[k] : k \in 1..n}
    BY <1>1 DEF ToSet
  <1> DEFINE Place(id) == CHOOSE m \in DOMAIN ids : ids[m] = id
             Chain(id) == [steps[id] EXCEPT !.next = <<To(IF Place(id) < Len(ids) THEN ids[Place(id) + 1] ELSE END)>>]
  <1>3. sc = [base |-> base, initial |-> ids[1], steps |-> [id \in ToSet(ids) |-> Chain(id)]]
    BY DEF Chained
  <1>4. ASSUME NEW k \in 1..n PROVE Place(ids[k]) = k
    <2>1. \A m \in 1..n : ids[m] = ids[k] => m = k
      OBVIOUS
    <2> QED
      BY <1>1, <2>1
  <1>5. ASSUME NEW k \in 1..n
        PROVE  sc.steps[ids[k]] = [steps[ids[k]] EXCEPT !.next = <<To(IF k < n THEN ids[k + 1] ELSE END)>>]
    <2>1. sc.steps[ids[k]] = Chain(ids[k])
      <3>1. ids[k] \in ToSet(ids)
        BY <1>2
      <3> HIDE DEF Chain
      <3> QED
        BY <1>3, <3>1
    <2>2. Place(ids[k]) = k
      BY <1>4
    <2> HIDE DEF Place
    <2> QED
      BY <1>1, <2>1, <2>2
  <1>6. DOMAIN sc = {"base", "initial", "steps"} /\ sc.base = base /\ sc.initial = ids[1] /\ DOMAIN sc.steps = {ids[k] : k \in 1..n}
    <2> HIDE DEF Chain
    <2> QED
      BY <1>2, <1>3
  <1> HIDE DEF Chain, Place
  <1>8. ASSUME NEW k \in 1..n
        PROVE  /\ IsStep(sc.steps[ids[k]])
               /\ sc.steps[ids[k]].next = <<To(IF k < n THEN ids[k + 1] ELSE END)>>
               /\ sc.steps[ids[k]].request = steps[ids[k]].request
               /\ sc.steps[ids[k]].pause = steps[ids[k]].pause
               /\ sc.steps[ids[k]].onFailure = steps[ids[k]].onFailure
    <2>1. PICK next : next = <<To(IF k < n THEN ids[k + 1] ELSE END)>>
      OBVIOUS
    <2>2. PICK step, after : step = steps[ids[k]] /\ after = sc.steps[ids[k]]
      OBVIOUS
    <2>3. IsStep(step) /\ after = [step EXCEPT !.next = next]
      BY <1>5, <2>1, <2>2
    <2>4. /\ IsStep(after) /\ after.next = next /\ after.request = step.request
          /\ after.pause = step.pause /\ after.onFailure = step.onFailure
      BY <2>3 DEF IsStep, Fields
    <2> QED
      BY <2>1, <2>2, <2>4
  <1> QED
    BY <1>6, <1>8 DEF IsChain

(* The enricher changes what a step needs and gives, and nothing else. *)
LEMMA EnrichKeeps ==
    ASSUME NEW sc, DOMAIN sc = {"base", "initial", "steps"}, \A id \in DOMAIN sc.steps : IsStep(sc.steps[id]),
           NEW enriched, enriched = Enrich(sc)
    PROVE  /\ enriched.base = sc.base /\ enriched.initial = sc.initial /\ DOMAIN enriched.steps = DOMAIN sc.steps
           /\ \A id \in DOMAIN sc.steps :
                 /\ IsStep(enriched.steps[id])
                 /\ enriched.steps[id].next = sc.steps[id].next
                 /\ enriched.steps[id].request = sc.steps[id].request
                 /\ enriched.steps[id].pause = sc.steps[id].pause
                 /\ enriched.steps[id].onFailure = sc.steps[id].onFailure
  <1> DEFINE auth == {id \in DOMAIN sc.steps : Authenticates(sc.steps[id])}
             asks(step) == auth # {} /\ step.page \notin {"login", "cart"}
             More(id) == [sc.steps[id] EXCEPT
                             !.gives = IF id \in auth /\ ~GivesToken(sc.steps[id]) THEN Append(@, Given("jwt_token")) ELSE @,
                             !.needs = IF asks(sc.steps[id]) THEN @ \cup {"jwt_token"} ELSE @]
  <1>1. enriched = [sc EXCEPT !.steps = [id \in DOMAIN sc.steps |-> More(id)]]
    BY DEF Enrich
  <1>2. enriched.base = sc.base /\ enriched.initial = sc.initial /\ enriched.steps = [id \in DOMAIN sc.steps |-> More(id)]
    <2> HIDE DEF More
    <2> QED
      BY <1>1
  <1>4. ASSUME NEW id \in DOMAIN sc.steps
        PROVE  \E gives, needs : gives \in Seq(Extractors)
                                 /\ More(id) = [sc.steps[id] EXCEPT !.gives = gives, !.needs = needs]
    <2>1. sc.steps[id].gives \in Seq(Extractors)
      BY DEF IsStep
    <2>2. Given("jwt_token") \in Extractors
      BY ImportConstants DEF Given, Extractors
    <2>3. Append(sc.steps[id].gives, Given("jwt_token")) \in Seq(Extractors)
      BY <2>1, <2>2
    <2> DEFINE gives == IF id \in auth /\ ~GivesToken(sc.steps[id])
                        THEN Append(sc.steps[id].gives, Given("jwt_token")) ELSE sc.steps[id].gives
               needs == IF asks(sc.steps[id]) THEN sc.steps[id].needs \cup {"jwt_token"} ELSE sc.steps[id].needs
    <2>4. gives \in Seq(Extractors)
      BY <2>1, <2>3
    <2>5. More(id) = [sc.steps[id] EXCEPT !.gives = gives, !.needs = needs]
      OBVIOUS
    <2> QED
      BY <2>4, <2>5
  <1> HIDE DEF More
  <1>5. ASSUME NEW id \in DOMAIN sc.steps
        PROVE  /\ IsStep(enriched.steps[id])
               /\ enriched.steps[id].next = sc.steps[id].next
               /\ enriched.steps[id].request = sc.steps[id].request
               /\ enriched.steps[id].pause = sc.steps[id].pause
               /\ enriched.steps[id].onFailure = sc.steps[id].onFailure
    <2>1. PICK step, after : step = sc.steps[id] /\ after = enriched.steps[id]
      OBVIOUS
    <2>2. PICK gives, needs : gives \in Seq(Extractors) /\ after = [step EXCEPT !.gives = gives, !.needs = needs]
      <3>1. after = More(id)
        BY <1>2, <2>1
      <3>2. PICK gives, needs : gives \in Seq(Extractors)
                                /\ More(id) = [sc.steps[id] EXCEPT !.gives = gives, !.needs = needs]
        BY <1>4
      <3> QED
        BY <2>1, <3>1, <3>2
    <2>3. /\ IsStep(after) /\ after.next = step.next /\ after.request = step.request
          /\ after.pause = step.pause /\ after.onFailure = step.onFailure
      <3>1. IsStep(step)
        BY <2>1
      <3> QED
        BY <2>2, <3>1 DEF IsStep, Fields
    <2> QED
      BY <2>1, <2>3
  <1> QED
    BY <1>2, <1>5

(* A line of steps as the importers make it *)
Plain(sc, n, ids, walk, by) ==
    Line(sc, n, ids, walk, by) /\ DOMAIN sc = {"base", "initial", "steps"} /\ HasSteps(sc)

(* The base is the one that was given. *)
LEMMA ChainedBase ==
    ASSUME NEW base, NEW ids, NEW steps
    PROVE  Chained(base, ids, steps).base = base
  BY DEF Chained

(* Distinct steps, one after the other, are a line through what they send. *)
LEMMA ChainedLine ==
    ASSUME NEW n \in Nat \ {0}, NEW I, NEW ids \in [1..n -> I], \A i, j \in 1..n : ids[i] = ids[j] => i = j,
           \A k \in 1..n : ids[k] \notin {END, <<>>},
           NEW steps, \A k \in 1..n : IsStep(steps[ids[k]]) /\ steps[ids[k]].onFailure = "abort",
           NEW walk, walk = [k \in 1..n |-> steps[ids[k]].request],
           NEW by \in [0..n -> Nat], by[0] = 0, \A k \in 0..n : by[k] <= by[n],
           \A k \in 1..n : by[k - 1] + steps[ids[k]].pause <= by[k],
           NEW base, NEW sc, sc = Chained(base, ids, steps)
    PROVE  Plain(sc, n, ids, walk, by)
  <1>1. /\ DOMAIN sc = {"base", "initial", "steps"} /\ sc.base = base /\ sc.initial = ids[1]
        /\ DOMAIN sc.steps = {ids[k] : k \in 1..n}
        /\ \A k \in 1..n :
              /\ IsStep(sc.steps[ids[k]])
              /\ sc.steps[ids[k]].next = <<To(IF k < n THEN ids[k + 1] ELSE END)>>
              /\ sc.steps[ids[k]].request = steps[ids[k]].request
              /\ sc.steps[ids[k]].pause = steps[ids[k]].pause
              /\ sc.steps[ids[k]].onFailure = steps[ids[k]].onFailure
    <2>1. \A k \in 1..n : IsStep(steps[ids[k]])
      OBVIOUS
    <2>2. IsChain(sc, base, n, ids, steps)
      BY <2>1, ChainedSteps
    <2> QED
      BY <2>2 DEF IsChain
  <1>2. ids \in [1..n -> DOMAIN sc.steps]
    BY <1>1
  <1>3. walk = [k \in 1..n |-> sc.steps[ids[k]].request]
    BY <1>1
  <1>4. \A k \in 1..n : by[k - 1] + sc.steps[ids[k]].pause <= by[k]
    BY <1>1
  <1>5. Line(sc, n, ids, walk, by)
    BY <1>1, <1>2, <1>3, <1>4 DEF Line
  <1>6. IsFiniteSet(DOMAIN sc.steps)
    <2>1. n \in Int /\ 1 \in Int
      OBVIOUS
    <2>2. IsFiniteSet(1..n)
      BY ONLY <2>1, FS_Interval
    <2>3. PICK T : T = DOMAIN sc.steps
      OBVIOUS
    <2>4. T = {ids[k] : k \in 1..n}
      BY <1>1, <2>3
    <2>5. ids \in Surjection(1..n, T)
      BY <2>4 DEF Surjection
    <2>6. IsFiniteSet(T)
      BY ONLY <2>2, <2>5, FS_Surjection
    <2> QED
      BY <2>3, <2>6
  <1> QED
    BY <1>1, <1>5, <1>6 DEF Plain, HasSteps

(* The enricher leaves a line a line. *)
LEMMA EnrichedLine ==
    ASSUME NEW sc, NEW n, NEW ids, NEW walk, NEW by, Plain(sc, n, ids, walk, by),
           NEW enriched, enriched = Enrich(sc)
    PROVE  Line(enriched, n, ids, walk, by) /\ HasSteps(enriched) /\ enriched.base = sc.base
  <1>1. /\ enriched.base = sc.base /\ enriched.initial = sc.initial /\ DOMAIN enriched.steps = DOMAIN sc.steps
        /\ \A id \in DOMAIN sc.steps :
              /\ IsStep(enriched.steps[id])
              /\ enriched.steps[id].next = sc.steps[id].next
              /\ enriched.steps[id].request = sc.steps[id].request
              /\ enriched.steps[id].pause = sc.steps[id].pause
              /\ enriched.steps[id].onFailure = sc.steps[id].onFailure
    BY EnrichKeeps DEF Plain, HasSteps
  <1>2. ids \in [1..n -> DOMAIN sc.steps] /\ walk = [k \in 1..n |-> sc.steps[ids[k]].request]
    BY DEF Plain, Line
  <1>3. walk = [k \in 1..n |-> enriched.steps[ids[k]].request]
    BY <1>1, <1>2
  <1>4. ASSUME NEW k \in 1..n PROVE by[k - 1] + enriched.steps[ids[k]].pause <= by[k]
    <2>1. by[k - 1] + sc.steps[ids[k]].pause <= by[k]
      BY DEF Plain, Line
    <2>2. enriched.steps[ids[k]].pause = sc.steps[ids[k]].pause
      BY <1>1, <1>2
    <2> QED
      BY <2>1, <2>2
  <1>5. Line(enriched, n, ids, walk, by)
    <2>1. Line(sc, n, ids, walk, by)
      BY DEF Plain
    <2>2. ids \in [1..n -> DOMAIN enriched.steps] /\ enriched.initial = ids[1]
      BY <1>1, <1>2, <2>1 DEF Line
    <2>3. ASSUME NEW k \in 1..n
          PROVE  /\ ids[k] \notin {END, <<>>}
                 /\ enriched.steps[ids[k]].next = <<To(IF k < n THEN ids[k + 1] ELSE END)>>
                 /\ enriched.steps[ids[k]].onFailure = "abort"
      <3>1. ids[k] \in DOMAIN sc.steps
        BY <1>2
      <3> QED
        BY <1>1, <2>1, <3>1 DEF Line
    <2> QED
      BY <1>3, <1>4, <2>1, <2>2, <2>3 DEF Line
  <1> QED
    BY <1>1, <1>5 DEF Plain, HasSteps

(* What is handed out is in order before anybody walks it. *)
Starts(sc, tl) ==
    /\ HasSteps(sc) /\ Based(sc, tl)
    /\ \/ tl = Silent
       \/ Paired(sc, tl)
       \/ \E n, ids, walk, by : OneLine(sc, tl, n, ids, walk, by)

(* That is the invariant before anybody walks. *)
LEMMA StartsFollow ==
    ASSUME NEW sc, NEW tl, ValidateScenario(sc), Starts(sc, tl)
    PROVE  FollowInv(sc, tl, Nobody)
  <1>1. sc # NoScenario /\ IsScenario(sc)
    <2>1. DOMAIN NoScenario.steps = {}
      BY DEF NoScenario
    <2> QED
      BY <2>1 DEF ValidateScenario, IsScenario, Starts
  <1>2. UserFits(sc, Nobody)
    <2>1. /\ DOMAIN Nobody = {"at", "sent", "vars", "paused", "steps", "state"}
          /\ Nobody.state = "absent" /\ Nobody.steps = 0 /\ Nobody.paused = 0 /\ Nobody.vars = {}
          /\ Nobody.sent = <<>>
      BY DEF Nobody
    <2>2. <<>> \in Seq(Requested(sc)) /\ Len(<<>>) = 0 /\ 0 \in 0..MaxStepTransitions /\ 0 <= 0 /\ 0 \in Nat
      BY JourneyConstants
    <2>3. "absent" \in States /\ "walking" # "absent"
      BY DEF States
    <2> QED
      BY <2>1, <2>2, <2>3 DEF UserFits
  <1>3. Follow(sc, tl, Nobody) /\ Based(sc, tl)
    <2>1. sc.initial \in DOMAIN sc.steps
      BY DEF ValidateScenario
    <2> QED
      BY <2>1, LineStarts, PairsStart DEF Follow, Starts
  <1> QED
    BY <1>1, <1>2, <1>3 DEF FollowInv

(* The fields of a request as the importers make it *)
LEMMA RequestIsStep ==
    ASSUME NEW place, NEW page
    PROVE  /\ IsStep(Request(place, page)) /\ Request(place, page).request = place
           /\ Request(place, page).pause = 0 /\ Request(place, page).onFailure = "abort"
           /\ DOMAIN Request(place, page) = Fields
  <1>1. <<>> \in Seq(Extractors)
    OBVIOUS
  <1> QED
    BY <1>1 DEF Request, IsStep, Fields

(* A name made of a word and a place is neither the end nor empty. *)
LEMMA StepIds ==
    ASSUME NEW word, NEW place
    PROVE  <<word, place>>[2] = place /\ <<word, place>> \notin {END, <<>>}
  <1>1. Len(<<word, place>>) = 2 /\ Len(<<>>) = 0 /\ Len(END) = 1
    BY DEF END
  <1> QED
    BY <1>1

(* A line that was told may be handed out as it is, and enriched. *)
LEMMA PlainStarts ==
    ASSUME NEW sc, NEW n, NEW ids, NEW walk, NEW by, Plain(sc, n, ids, walk, by),
           NEW tl, walk \in tl.walks, tl.pairs = {}, \A limit \in tl.limits : limit \in Nat /\ by[n] <= limit,
           Based(sc, tl)
    PROVE  Starts(sc, tl) /\ Starts(Enrich(sc), tl)
  <1>1. Line(sc, n, ids, walk, by) /\ HasSteps(sc)
    BY DEF Plain
  <1>2. PICK enriched : enriched = Enrich(sc)
    OBVIOUS
  <1>3. Line(enriched, n, ids, walk, by) /\ HasSteps(enriched) /\ Based(enriched, tl)
    BY <1>2, EnrichedLine DEF Based
  <1>4. OneLine(sc, tl, n, ids, walk, by) /\ OneLine(enriched, tl, n, ids, walk, by)
    BY <1>1, <1>3 DEF OneLine
  <1>5. Starts(sc, tl)
    BY <1>1, <1>4 DEF Starts
  <1>6. Starts(enriched, tl)
    BY <1>3, <1>4 DEF Starts
  <1> QED
    BY <1>2, <1>5, <1>6

(* Without pauses a walk takes no time. *)
LEMMA NoPauses ==
    ASSUME NEW n \in Nat \ {0}, NEW I, NEW ids \in [1..n -> I], \A i, j \in 1..n : ids[i] = ids[j] => i = j,
           \A k \in 1..n : ids[k] \notin {END, <<>>},
           NEW steps,
           \A k \in 1..n : IsStep(steps[ids[k]]) /\ steps[ids[k]].onFailure = "abort" /\ steps[ids[k]].pause = 0,
           NEW walk, walk = [k \in 1..n |-> steps[ids[k]].request],
           NEW tl, walk \in tl.walks, tl.pairs = {}, tl.limits = {0},
           NEW base, tl.hosts = {} \/ base \in tl.hosts, NEW sc, sc = Chained(base, ids, steps)
    PROVE  Starts(sc, tl) /\ Starts(Enrich(sc), tl)
  <1> DEFINE by == [k \in 0..n |-> 0]
  <1>1. /\ by \in [0..n -> Nat] /\ by[0] = 0 /\ by[n] = 0 /\ \A k \in 0..n : by[k] <= by[n]
        /\ \A k \in 1..n : by[k - 1] + 0 <= by[k]
    OBVIOUS
  <1> HIDE DEF by
  <1>2. \A k \in 1..n : by[k - 1] + steps[ids[k]].pause <= by[k]
    BY <1>1
  <1>3. \A k \in 1..n : IsStep(steps[ids[k]]) /\ steps[ids[k]].onFailure = "abort"
    OBVIOUS
  <1>6. sc.base = base
    BY ChainedBase
  <1>4. Plain(sc, n, ids, walk, by)
    BY <1>1, <1>2, <1>3, ChainedLine
  <1>7. 0 \in Nat /\ by[n] <= 0
    BY <1>1
  <1>8. \A limit \in tl.limits : limit \in Nat /\ by[n] <= limit
    BY <1>7
  <1>5. (\A limit \in tl.limits : limit \in Nat /\ by[n] <= limit) /\ Based(sc, tl)
    BY Zenon, <1>6, <1>8 DEF Based
  <1> QED
    BY <1>4, <1>5, PlainStarts

(* Walks tells walks and nothing else. *)
LEMMA ToldWalks ==
    ASSUME NEW walks, NEW hosts
    PROVE  /\ Walks(walks, hosts).walks = walks /\ Walks(walks, hosts).pairs = {}
           /\ Walks(walks, hosts).hosts = hosts /\ Walks(walks, hosts).limits = {0}
  BY DEF Walks, Silent

(* The common end of the importers hands out a line, if what is kept are  *)
(* distinct places.                                                       *)
LEMMA ImportStepsStart ==
    ASSUME NEW list, NEW m \in Nat, NEW D, NEW kept \in [1..m -> D], \A i, j \in 1..m : kept[i] = kept[j] => i = j,
           NEW base, NEW walks, kept \in walks, NEW hosts, kept # <<>> => BaseOf(list, kept, base) \in hosts,
           ImportSteps(list, kept, base, Walks(walks, hosts))
    PROVE  \E sc, tl : Hand(sc, tl) /\ Starts(sc, tl)
  <1> DEFINE ids == [n \in DOMAIN kept |-> StepId(kept[n])]
             steps == [id \in ToSet(ids) |-> Request(id[2], list[id[2]].page)]
             chain == Chained(BaseOf(list, kept, base), ids, steps)
             sc == Enrich(chain)
             tl == Walks(walks, hosts)
  <1>1. kept # <<>> /\ Hand(sc, tl)
    BY DEF ImportSteps
  <1>2. m \in Nat \ {0}
    BY <1>1
  <1>3. DOMAIN kept = 1..m /\ ids = [n \in 1..m |-> StepId(kept[n])] /\ ToSet(ids) = {StepId(kept[n]) : n \in 1..m}
    BY DEF ToSet
  <1>4. ASSUME NEW k \in 1..m PROVE ids[k] = <<"step", kept[k]>> /\ ids[k][2] = kept[k] /\ ids[k] \notin {END, <<>>}
    <2>1. ids[k] = <<"step", kept[k]>>
      BY <1>3 DEF StepId
    <2> HIDE DEF ids
    <2> QED
      BY <2>1, StepIds
  <1>5. ids \in [1..m -> ToSet(ids)] /\ \A i, j \in 1..m : ids[i] = ids[j] => i = j
    <2>1. ids \in [1..m -> ToSet(ids)]
      BY <1>3
    <2>2. ASSUME NEW i \in 1..m, NEW j \in 1..m, ids[i] = ids[j] PROVE i = j
      <3>1. kept[i] = kept[j]
        <4> HIDE DEF ids
        <4> QED
          BY <1>4, <2>2
      <3> QED
        BY <3>1
    <2> QED
      BY <2>1, <2>2
  <1>6. ASSUME NEW k \in 1..m
        PROVE  IsStep(steps[ids[k]]) /\ steps[ids[k]].request = kept[k]
               /\ steps[ids[k]].pause = 0 /\ steps[ids[k]].onFailure = "abort"
    <2>1. steps[ids[k]] = Request(kept[k], list[kept[k]].page)
      <3>1. ids[k] \in ToSet(ids) /\ ids[k][2] = kept[k]
        BY <1>3, <1>4
      <3> HIDE DEF ids
      <3> QED
        BY <3>1
    <2> HIDE DEF steps, ids
    <2> QED
      BY <2>1, RequestIsStep
  <1>7. kept = [k \in 1..m |-> steps[ids[k]].request]
    <2> HIDE DEF steps, ids
    <2> QED
      BY <1>3, <1>6
  <1>8. tl.walks = walks /\ tl.pairs = {} /\ tl.hosts = hosts /\ tl.limits = {0}
    BY ToldWalks
  <1> HIDE DEF ids, steps, chain, tl
  <1>9. Starts(sc, tl)
    <2>1. \A k \in 1..m : ids[k] \notin {END, <<>>}
      BY <1>4
    <2>2. \A k \in 1..m : IsStep(steps[ids[k]]) /\ steps[ids[k]].onFailure = "abort" /\ steps[ids[k]].pause = 0
      BY <1>6
    <2>3. PICK first : first = BaseOf(list, kept, base)
      OBVIOUS
    <2>5. chain = Chained(first, ids, steps) /\ first \in tl.hosts
      BY <1>1, <1>8, <2>3 DEF chain
    <2>4. kept \in tl.walks
      BY <1>8
    <2> QED
      BY <1>2, <1>5, <1>7, <1>8, <2>1, <2>2, <2>4, <2>5, NoPauses
  <1> QED
    BY <1>1, <1>9

(* Of numbers that are places of a list there is an order. *)
LEMMA SomePlaces ==
    ASSUME NEW list, list \in Seq(ToSet(list)), NEW S \in SUBSET DOMAIN list
    PROVE  /\ IsFiniteSet(S) /\ S \in SUBSET Nat
           /\ \E m \in Nat : /\ Places(S) \in [1..m -> S]
                             /\ \A i, j \in 1..m : Places(S)[i] = Places(S)[j] => i = j
  <1>1. PICK n \in Nat : DOMAIN list = 1..n
    OBVIOUS
  <1>2. IsFiniteSet(1..n)
    <2>1. 1 \in Int /\ n \in Int
      OBVIOUS
    <2> QED
      BY ONLY <2>1, FS_Interval
  <1>3. IsFiniteSet(S) /\ S \in SUBSET Nat
    <2>1. S \subseteq 1..n /\ 1..n \subseteq Nat
      BY <1>1
    <2> QED
      BY <1>2, <2>1, FS_Subset
  <1>4. /\ Cardinality(S) \in Nat /\ Places(S) \in [1..Cardinality(S) -> S]
        /\ \A i, j \in 1..Cardinality(S) : i < j => Places(S)[i] < Places(S)[j]
    BY <1>3, PlacesInOrder
  <1>5. PICK m \in Nat : m = Cardinality(S)
    BY <1>4
  <1>6. PICK at : at = Places(S)
    OBVIOUS
  <1>7. at \in [1..m -> Nat] /\ \A i, j \in 1..m : i < j => at[i] < at[j]
    BY <1>3, <1>4, <1>5, <1>6
  <1>8. \A i, j \in 1..m : at[i] = at[j] => i = j
    BY <1>7, GrowingDistinct
  <1> QED
    BY <1>3, <1>4, <1>5, <1>6, <1>8

(* f lists m distinct things. *)
Lists(f, m, D) == m \in Nat /\ f \in [1..m -> D] /\ \A i, j \in 1..m : f[i] = f[j] => i = j

(* Of distinct things what is kept is distinct. *)
LEMMA KeptDistinct ==
    ASSUME NEW n \in Nat, NEW D, NEW order \in [1..n -> D], IsInjective(order), NEW S
    PROVE  \E m : Lists(Kept(order, S), m, D)
  <1>1. PICK m, at : Picks(m, at, n, order, S)
    BY KeptInOrder
  <1>2. /\ m \in Nat /\ at \in [1..m -> 1..n] /\ \A i, j \in 1..m : i < j => at[i] < at[j]
        /\ Kept(order, S) = [k \in 1..m |-> order[at[k]]]
    BY <1>1 DEF Picks
  <1>3. at \in [1..m -> Nat]
    BY <1>2
  <1>4. \A i, j \in 1..m : at[i] = at[j] => i = j
    BY <1>2, <1>3, GrowingDistinct
  <1>5. \A a, b \in 1..n : order[a] = order[b] => a = b
    BY DEF IsInjective
  <1>6. \A i, j \in 1..m : order[at[i]] = order[at[j]] => i = j
    <2>1. \A i \in 1..m : at[i] \in 1..n
      BY <1>2
    <2> QED
      BY <1>4, <1>5, <2>1
  <1>7. [k \in 1..m |-> order[at[k]]] \in [1..m -> D]
    BY <1>2
  <1> QED
    <2>1. Kept(order, S) \in [1..m -> D]
      BY <1>2, <1>7
    <2>2. \A i, j \in 1..m : Kept(order, S)[i] = Kept(order, S)[j] => i = j
      <3>1. \A i \in 1..m : Kept(order, S)[i] = order[at[i]]
        BY <1>2
      <3> QED
        BY <1>6, <3>1
    <2>3. Lists(Kept(order, S), m, D)
      BY <1>2, <2>1, <2>2 DEF Lists
    <2> QED
      BY <2>3

(* The least of some numbers is the one that is. *)
LEMMA LeastIs ==
    ASSUME NEW S \in SUBSET Nat, S # {}
    PROVE  Min(S) \in S /\ \A n \in S : Min(S) <= n
  <1>1. \E least \in S : \A n \in S : least <= n
    BY LeastNumber
  <1> QED
    BY <1>1 DEF Min

(* The first of some places is the least. *)
LEMMA FirstPlace ==
    ASSUME NEW list, list \in Seq(ToSet(list)), NEW S \in SUBSET DOMAIN list, Places(S) # <<>>
    PROVE  S # {} /\ S \in SUBSET Nat /\ Places(S)[1] = Min(S)
  <1>1. IsFiniteSet(S) /\ S \in SUBSET Nat
    BY SomePlaces
  <1>2. /\ Cardinality(S) \in Nat /\ Places(S) \in [1..Cardinality(S) -> S]
        /\ \A i, j \in 1..Cardinality(S) : i < j => Places(S)[i] < Places(S)[j]
    BY <1>1, PlacesInOrder
  <1>3. PICK m, at : m \in Nat /\ m = Cardinality(S) /\ at = Places(S)
    BY <1>2
  <1>9. \A x \in S : \E k \in 1..m : at[k] = x
    <2>1. at \in [1..m -> Nat] /\ \A i, j \in 1..m : i < j => at[i] < at[j]
      BY <1>1, <1>2, <1>3
    <2>2. \A i, j \in 1..m : at[i] = at[j] => i = j
      BY <2>1, GrowingDistinct
    <2>3. IsInjective(at)
      BY <2>1, <2>2 DEF IsInjective
    <2> QED
      BY <1>1, <1>2, <1>3, <2>3, EachHasPlace
  <1>4. m # 0
    BY <1>2, <1>3
  <1>5. 1 \in 1..m /\ at[1] \in S
    BY <1>2, <1>3, <1>4
  <1>6. ASSUME NEW x \in S PROVE at[1] <= x
    <2>1. PICK k \in 1..m : at[k] = x
      BY <1>9
    <2>2. k = 1 \/ 1 < k
      OBVIOUS
    <2>3. at[1] = at[k] \/ at[1] < at[k]
      BY <1>2, <1>3, <1>5, <2>2
    <2>4. at[1] \in Nat /\ at[k] \in Nat
      BY <1>1, <1>5, <2>1
    <2> QED
      BY <2>1, <2>3, <2>4
  <1>7. Min(S) \in S /\ \A n \in S : Min(S) <= n
    BY <1>1, <1>5, LeastIs
  <1>8. Min(S) \in Nat /\ at[1] \in Nat /\ Min(S) <= at[1] /\ at[1] <= Min(S)
    BY <1>1, <1>5, <1>6, <1>7
  <1> QED
    BY <1>1, <1>3, <1>5, <1>8

(* The importers that keep the order of the document: k6, JMeter and,     *)
(* once flattened, Postman.                                               *)
LEMMA ListedStarts ==
    ASSUME NEW list, list \in Seq(ToSet(list)), NEW base, ImportListed(list, base)
    PROVE  \E sc, tl : Hand(sc, tl) /\ Starts(sc, tl)
  <1>1. PICK kept : kept = Places(Absolute(list))
    OBVIOUS
  <1>2. Absolute(list) \in SUBSET DOMAIN list
    BY DEF Absolute
  <1>3. PICK m \in Nat : kept \in [1..m -> Absolute(list)] /\ \A i, j \in 1..m : kept[i] = kept[j] => i = j
    BY <1>1, <1>2, SomePlaces
  <1>4. PICK walks, hosts : walks = {kept} /\ hosts = {Origin(list, base)}
    OBVIOUS
  <1>5. ImportSteps(list, kept, base, Walks(walks, hosts))
    BY <1>1, <1>4 DEF ImportListed
  <1>6. kept # <<>> => BaseOf(list, kept, base) \in hosts
    BY <1>1, <1>2, <1>4, FirstPlace DEF BaseOf, Origin
  <1>7. kept \in walks
    BY <1>4
  <1> QED
    BY <1>3, <1>5, <1>6, <1>7, ImportStepsStart

(* The base that is known after an entry is the one given, or the origin of *)
(* the first absolute URL so far. *)
LEMMA OneOrigin ==
    ASSUME NEW entries, entries \in Seq(ToSet(entries)), NEW base
    PROVE  SameOrigin(entries, base) = {i \in Absolute(entries) : entries[i].host = Origin(entries, base)}
  <1>1. PICK n \in Nat : Len(entries) = n /\ DOMAIN entries = 1..n
    OBVIOUS
  <1> DEFINE host(i) == entries[i].host
             Now(f) == [i \in 0..Len(entries) |-> IF i = 0 THEN base ELSE IF f[i - 1] = "" THEN entries[i].host ELSE f[i - 1]]
             known == CHOOSE f : f = Now(f)
             So(i) == {j \in Absolute(entries) : j <= i}
             first == [i \in 0..n |-> IF base # "" \/ So(i) = {} THEN base ELSE entries[Min(So(i))].host]
  <1>2. SameOrigin(entries, base) = {i \in DOMAIN entries : entries[i].host # "" /\ entries[i].host = known[i]}
    BY DEF SameOrigin
  <1>3. \A i \in 1..n : i \in Absolute(entries) <=> entries[i].host # ""
    BY <1>1 DEF Absolute
  <1>4. Absolute(entries) \in SUBSET Nat /\ Absolute(entries) \subseteq 1..n
    <2>1. Absolute(entries) \subseteq 1..n
      BY <1>1 DEF Absolute
    <2>2. 1..n \subseteq Nat
      OBVIOUS
    <2> QED
      BY <2>1, <2>2
  <1>5. ASSUME NEW i \in 0..n, NEW S, S \in {So(i), Absolute(entries)}, So(i) # {}
        PROVE  Min(S) = Min(So(i)) /\ Min(S) \in Absolute(entries) /\ Min(S) <= i
    <2>1. So(i) \subseteq Absolute(entries) /\ S \in SUBSET Nat /\ So(i) \in SUBSET Nat /\ So(i) \subseteq S /\ S \subseteq Absolute(entries)
      BY <1>4, <1>5
    <2>2. \A j \in S : j <= i => j \in So(i)
      BY <2>1
    <2>3. \A j \in So(i) : j <= i
      OBVIOUS
    <2> HIDE DEF So
    <2>4. Min(S) \in S /\ (\A j \in S : Min(S) <= j) /\ Min(So(i)) \in So(i) /\ \A j \in So(i) : Min(So(i)) <= j
      BY <1>5, <2>1, LeastIs
    <2>5. PICK a, b : a = Min(S) /\ b = Min(So(i))
      OBVIOUS
    <2>6. a \in S /\ b \in So(i) /\ a <= b /\ b <= i /\ a \in Nat /\ b \in Nat /\ i \in Nat
      <3>1. a \in S /\ b \in So(i) /\ b \in S /\ b <= i
        BY <2>1, <2>3, <2>4, <2>5
      <3>2. a <= b
        BY <2>4, <2>5, <3>1
      <3>3. a \in Nat /\ b \in Nat /\ i \in Nat
        BY <2>1, <3>1
      <3> QED
        BY <3>1, <3>2, <3>3
    <2>7. a \in So(i)
      BY <2>2, <2>6
    <2>8. b <= a
      BY <2>4, <2>5, <2>7
    <2> QED
      BY <2>1, <2>5, <2>6, <2>8
  <1>6. first = Now(first)
    <2>1. ASSUME NEW i \in 0..n
          PROVE  first[i] = IF i = 0 THEN base ELSE IF first[i - 1] = "" THEN entries[i].host ELSE first[i - 1]
      <3>5. i # 0 => i - 1 \in 0..n /\ i \in 1..n
        <4> HIDE DEF first, So
        <4> QED
          OBVIOUS
      <3>1. CASE i = 0
        <4>1. So(0) = {}
          BY <1>4
        <4> QED
          BY <3>1, <4>1
      <3>2. CASE i # 0 /\ base # ""
        <4>1. i - 1 \in 0..n
          BY <3>2, <3>5
        <4> QED
          BY <3>2, <4>1
      <3>3. CASE i # 0 /\ base = "" /\ So(i - 1) = {}
        <4>1. i - 1 \in 0..n /\ i \in 1..n
          BY <3>3, <3>5
        <4>2. first[i - 1] = ""
          BY <3>3, <4>1
        <4>3. \A j \in So(i) : j = i
          <5>1. \A j \in Absolute(entries) : j <= i => j = i \/ j <= i - 1
            BY <1>4, <4>1
          <5> QED
            BY <3>3, <5>1
        <4>4. CASE entries[i].host = ""
          <5>1. So(i) = {}
            BY <1>3, <4>1, <4>3, <4>4
          <5> QED
            BY <3>3, <4>2, <4>4, <5>1
        <4>5. CASE entries[i].host # ""
          <5>1. i \in So(i)
            <6>1. i \in Absolute(entries)
              BY <1>3, <4>1, <4>5
            <6>2. i <= i
              BY <4>1
            <6> QED
              BY <6>1, <6>2
          <5>2. So(i) \in SUBSET Nat /\ So(i) # {}
            BY <1>4, <5>1
          <5>3. Min(So(i)) = i
            <6> HIDE DEF So
            <6> QED
              BY <4>3, <5>2, LeastIs
          <5> QED
            BY <3>3, <4>2, <5>1, <5>3
        <4> QED
          BY <4>4, <4>5
      <3>4. CASE i # 0 /\ base = "" /\ So(i - 1) # {}
        <4>1. i - 1 \in 0..n /\ i \in 1..n
          BY <3>4, <3>5
        <4>2. So(i - 1) \subseteq So(i)
          BY <1>4, <4>1
        <4>3. Min(So(i - 1)) \in Absolute(entries)
          BY <1>5, <3>4, <4>1
        <4>4. Min(So(i - 1)) = Min(So(i))
          <5>1. Min(So(i - 1)) = Min(Absolute(entries))
            BY <1>5, <3>4, <4>1
          <5>2. Min(So(i)) = Min(Absolute(entries))
            BY <1>5, <3>4, <4>2
          <5> QED
            BY <5>1, <5>2
        <4>5. first[i - 1] = entries[Min(So(i - 1))].host /\ first[i] = entries[Min(So(i))].host
          BY <3>4, <4>1, <4>2
        <4>6. first[i - 1] # ""
          BY <1>3, <1>4, <4>3, <4>5
        <4> HIDE DEF first, So
        <4> QED
          BY <3>4, <4>4, <4>5, <4>6
      <3> QED
        BY <3>1, <3>2, <3>3, <3>4
    <2>2. first = [i \in 0..n |-> first[i]]
      OBVIOUS
    <2> HIDE DEF first
    <2> QED
      BY <1>1, <2>1, <2>2
  <1>7. known = Now(known)
    <2> HIDE DEF first, Now
    <2> QED
      BY <1>6
  <1>8. \A i \in 0..n : known[i] = first[i]
    <2> HIDE DEF known, first
    <2> DEFINE Equal == {i \in Nat : i <= n => known[i] = first[i]}
    <2>1. \A i \in 0..n : /\ known[i] = IF i = 0 THEN base ELSE IF known[i - 1] = "" THEN entries[i].host ELSE known[i - 1]
                          /\ first[i] = IF i = 0 THEN base ELSE IF first[i - 1] = "" THEN entries[i].host ELSE first[i - 1]
      BY <1>1, <1>6, <1>7
    <2>2. 0 \in Equal
      <3>1. 0 \in 0..n
        OBVIOUS
      <3> QED
        BY <2>1, <3>1
    <2>3. \A i \in Nat : i \in Equal => i + 1 \in Equal
      <3> SUFFICES ASSUME NEW i \in Nat, i \in Equal, i + 1 <= n PROVE known[i + 1] = first[i + 1]
        OBVIOUS
      <3>1. i + 1 \in 0..n /\ i + 1 # 0 /\ (i + 1) - 1 = i /\ known[i] = first[i]
        OBVIOUS
      <3> QED
        BY <2>1, <3>1
    <2>4. Nat \subseteq Equal
      <3> HIDE DEF Equal
      <3> QED
        BY <2>2, <2>3, NumberInduction
    <2> QED
      BY <2>4
  <1>9. ASSUME NEW i \in Absolute(entries) PROVE known[i] = Origin(entries, base)
    <2>1. i \in 1..n /\ i \in 0..n /\ i \in So(i)
      BY <1>4
    <2>2. Min(Absolute(entries)) = Min(So(i)) /\ Absolute(entries) # {}
      BY <1>5, <2>1
    <2>3. first[i] = IF base # "" THEN base ELSE entries[Min(Absolute(entries))].host
      BY <2>1, <2>2
    <2> HIDE DEF known, first
    <2> QED
      BY <1>8, <2>1, <2>2, <2>3 DEF Origin
  <1> HIDE DEF known
  <1> QED
    BY <1>1, <1>2, <1>3, <1>4, <1>9

(* ImportHAR keeps what has the one origin. *)
LEMMA HARStarts ==
    ASSUME NEW entries, entries \in Seq(ToSet(entries)), NEW base, ImportHAR(entries, base)
    PROVE  \E sc, tl : Hand(sc, tl) /\ Starts(sc, tl)
  <1>1. PICK S : S = SameOrigin(entries, base)
    OBVIOUS
  <1>2. S = {i \in Absolute(entries) : entries[i].host = Origin(entries, base)}
    BY <1>1, OneOrigin
  <1>3. S \in SUBSET DOMAIN entries
    BY <1>2 DEF Absolute
  <1>4. PICK kept : kept = Places(S)
    OBVIOUS
  <1>5. PICK m \in Nat : kept \in [1..m -> S] /\ \A i, j \in 1..m : kept[i] = kept[j] => i = j
    BY <1>3, <1>4, SomePlaces
  <1>6. PICK walks, hosts : walks = {kept} /\ hosts = {Origin(entries, base)}
    OBVIOUS
  <1>7. ImportSteps(entries, kept, base, Walks(walks, hosts))
    BY <1>1, <1>2, <1>4, <1>6 DEF ImportHAR
  <1>8. ASSUME kept # <<>> PROVE BaseOf(entries, kept, base) \in hosts
    <2>1. m # 0
      BY <1>5, <1>8
    <2>2. kept[1] \in S
      BY <1>5, <2>1
    <2>3. base # "" => Origin(entries, base) = base
      BY DEF Origin
    <2> QED
      BY <1>2, <1>6, <2>2, <2>3 DEF BaseOf
  <1>9. kept \in walks
    BY <1>6
  <1> QED
    BY <1>5, <1>7, <1>8, <1>9, ImportStepsStart

(* A sorted order is one of all of them, each once. *)
LEMMA SortedOrder ==
    ASSUME NEW S, IsFiniteSet(S), NEW list, NEW key, NEW order \in Sorted(S, list, key)
    PROVE  /\ Cardinality(S) \in Nat /\ order \in [1..Cardinality(S) -> S] /\ IsInjective(order)
           /\ \A i, j \in 1..Cardinality(S) : i < j => list[order[i]][key] <= list[order[j]][key]
           /\ \A x \in S : \E k \in 1..Cardinality(S) : order[k] = x
  <1>1. Cardinality(S) \in Nat
    BY FS_CardinalityType
  <1>2. /\ order \in [1..Cardinality(S) -> S] /\ IsInjective(order)
        /\ \A i, j \in DOMAIN order : i < j => list[order[i]][key] <= list[order[j]][key]
    BY DEF Sorted
  <1>3. DOMAIN order = 1..Cardinality(S)
    BY <1>2
  <1> QED
    BY <1>1, <1>2, <1>3, EachHasPlace

(* ImportInsomniaCollection keeps any order that respects the keys. *)
LEMMA InsomniaStarts ==
    ASSUME NEW resources, resources \in Seq(ToSet(resources)), NEW base, ImportInsomniaCollection(resources, base)
    PROVE  \E sc, tl : Hand(sc, tl) /\ Starts(sc, tl)
  <1> DEFINE requests == {i \in DOMAIN resources : resources[i].type = "request"}
             orders == Sorted(requests, resources, "key")
             walks == {Kept(o, Absolute(resources)) : o \in orders}
             hosts == {BaseOf(resources, w, base) : w \in walks \ {<<>>}}
  <1>1. PICK order \in orders : ImportSteps(resources, Kept(order, Absolute(resources)), base, Walks(walks, hosts))
    BY DEF ImportInsomniaCollection
  <1>2. requests \in SUBSET DOMAIN resources
    OBVIOUS
  <1>3. PICK kept : kept = Kept(order, Absolute(resources))
    OBVIOUS
  <1>4. kept \in walks
    BY <1>3
  <1>5. kept # <<>> => BaseOf(resources, kept, base) \in hosts
    <2> HIDE DEF walks
    <2> QED
      BY <1>4
  <1> HIDE DEF requests
  <1>6. IsFiniteSet(requests)
    BY <1>2, SomePlaces
  <1>7. PICK n \in Nat : n = Cardinality(requests) /\ order \in [1..n -> requests] /\ IsInjective(order)
    BY <1>6, SortedOrder
  <1> HIDE DEF orders, walks, hosts
  <1>8. PICK m : Lists(kept, m, requests)
    BY <1>3, <1>7, KeptDistinct
  <1>9. m \in Nat /\ kept \in [1..m -> requests] /\ \A i, j \in 1..m : kept[i] = kept[j] => i = j
    BY <1>8 DEF Lists
  <1>10. ImportSteps(resources, kept, base, Walks(walks, hosts))
    BY <1>1, <1>3
  <1> QED
    BY <1>4, <1>5, <1>9, <1>10, ImportStepsStart

(* AutoDiscover walks its pages, each once. *)
LEMMA CrawlStarts ==
    ASSUME NEW site, AutoDiscover(site)
    PROVE  \E sc, tl : Hand(sc, tl) /\ Starts(sc, tl)
  <1> DEFINE named == IF site.robots = <<>> THEN <<"usual">> ELSE site.robots
             mapped == FoldLeft(LAMBDA acc, map : GatherSitemap(acc, site.sitemaps[map]),
                                IF site.home = "" THEN <<"", "/">> ELSE <<site.home>>, named)
             pages == ToSet(Gather(mapped, site.links))
             walks == {w \in UNION {[1..n -> pages] : n \in 0..MaxPages} :
                          IsInjective(w) /\ (Len(w) = MaxPages \/ ToSet(w) = pages)}
  <1>11. PICK walk \in walks :
            LET ids == [n \in DOMAIN walk |-> <<"page", n>>]
            IN Hand(Chained("", ids, [id \in ToSet(ids) |-> Request(walk[id[2]], "")]), Walks(walks, {}))
    BY DEF AutoDiscover
  <1>12. PICK n \in 0..MaxPages : walk \in [1..n -> pages]
    <2> HIDE DEF pages
    <2> QED
      OBVIOUS
  <1> HIDE DEF walks, pages
  <1>1. DOMAIN walk = 1..n /\ walk = [k \in 1..n |-> walk[k]]
    BY <1>12
  <1> DEFINE ids == [k \in DOMAIN walk |-> <<"page", k>>]
             steps == [id \in ToSet(ids) |-> Request(walk[id[2]], "")]
             sc == Chained("", ids, steps)
             tl == Walks(walks, {})
  <1>2. Hand(sc, tl)
    BY <1>11
  <1>3. DOMAIN walk = 1..n /\ n \in Nat /\ ids = [k \in 1..n |-> <<"page", k>>] /\ ToSet(ids) = {<<"page", k>> : k \in 1..n}
    <2>1. n \in Nat
      BY ImportConstants
    <2> QED
      BY <1>1, <2>1 DEF ToSet
  <1>4. ASSUME NEW k \in 1..n PROVE ids[k] = <<"page", k>> /\ ids[k][2] = k /\ ids[k] \notin {END, <<>>}
    <2>1. ids[k] = <<"page", k>>
      BY <1>3
    <2> HIDE DEF ids
    <2> QED
      BY <2>1, StepIds
  <1>5. ids \in [1..n -> ToSet(ids)] /\ \A i, j \in 1..n : ids[i] = ids[j] => i = j
    <2>1. ids \in [1..n -> ToSet(ids)]
      BY <1>3
    <2>2. ASSUME NEW i \in 1..n, NEW j \in 1..n, ids[i] = ids[j] PROVE i = j
      <3> HIDE DEF ids
      <3> QED
        BY <1>4, <2>2
    <2> QED
      BY <2>1, <2>2
  <1>6. ASSUME NEW k \in 1..n
        PROVE  IsStep(steps[ids[k]]) /\ steps[ids[k]].request = walk[k]
               /\ steps[ids[k]].pause = 0 /\ steps[ids[k]].onFailure = "abort"
    <2>1. steps[ids[k]] = Request(walk[k], "")
      <3>1. ids[k] \in ToSet(ids) /\ ids[k][2] = k
        BY <1>3, <1>4
      <3> HIDE DEF ids
      <3> QED
        BY <3>1
    <2>2. /\ IsStep(Request(walk[k], "")) /\ Request(walk[k], "").request = walk[k]
          /\ Request(walk[k], "").pause = 0 /\ Request(walk[k], "").onFailure = "abort"
      BY RequestIsStep
    <2> HIDE DEF steps, ids
    <2> QED
      BY <2>1, <2>2
  <1>7. n # 0
    <2>1. ASSUME n = 0 PROVE DOMAIN sc.steps = {}
      <3>1. ToSet(ids) = {}
        BY <1>3, <2>1
      <3> HIDE DEF ids, steps
      <3> QED
        BY <3>1 DEF Chained
    <2> HIDE DEF sc
    <2> QED
      BY <1>2, <2>1 DEF Hand, ValidateScenario
  <1>8. walk = [k \in 1..n |-> steps[ids[k]].request]
    <2> HIDE DEF steps, ids
    <2> QED
      BY <1>1, <1>6
  <1>9. tl.walks = walks /\ tl.pairs = {} /\ tl.hosts = {} /\ tl.limits = {0}
    BY ToldWalks
  <1> HIDE DEF ids, steps, tl
  <1>10. Starts(sc, tl)
    <2>1. \A k \in 1..n : ids[k] \notin {END, <<>>}
      BY <1>4
    <2>2. \A k \in 1..n : IsStep(steps[ids[k]]) /\ steps[ids[k]].onFailure = "abort" /\ steps[ids[k]].pause = 0
      BY <1>6
    <2>3. walk \in tl.walks /\ n \in Nat \ {0}
      BY <1>1, <1>3, <1>7, <1>9
    <2> HIDE DEF sc
    <2>4. sc = Chained("", ids, steps)
      BY DEF sc
    <2> QED
      BY <1>5, <1>8, <1>9, <2>1, <2>2, <2>3, <2>4, NoPauses
  <1> QED
    BY <1>2, <1>10

(* By when the steps of a replay have been sent, so that the pauses fit. *)
Schedules(by, m, pause, length) ==
    /\ by \in [0..m -> Nat] /\ by[0] = 0 /\ length \in Nat /\ by[m] <= length
    /\ \A k \in 0..m : by[k] <= by[m]
    /\ \A k \in 1..m : pause[k] \in Nat /\ by[k - 1] + pause[k] <= by[k]

(* With the pauses of a recording nobody is later than the recording: the *)
(* step at at[k] is sent by the time its span began, and a pause is what  *)
(* lies between the end of the span before it and that.                   *)
LEMMA PausesFit ==
    ASSUME NEW n \in Nat, NEW starts \in [1..n -> Nat], NEW ends \in [1..n -> Nat], \A p \in 1..n : starts[p] <= ends[p],
           \A p, q \in 1..n : p < q => starts[p] <= starts[q],
           NEW m \in Nat \ {0}, NEW at \in [1..m -> 1..n], \A i, j \in 1..m : i < j => at[i] < at[j],
           NEW pause,
           \A k \in 1..m : pause[k] = IF at[k] = 1 THEN 0
                                      ELSE IF starts[at[k]] > ends[at[k] - 1] THEN starts[at[k]] - ends[at[k] - 1] ELSE 0
    PROVE  \E by : Schedules(by, m, pause, starts[n] - starts[1])
  <1>1. \A p, q \in 1..n : p <= q => starts[p] <= starts[q] /\ starts[p] \in Nat /\ starts[q] \in Nat
    <2> TAKE p, q \in 1..n
    <2> HAVE p <= q
    <2>1. starts[p] \in Nat /\ starts[q] \in Nat /\ (p = q \/ p < q)
      OBVIOUS
    <2> QED
      BY <2>1
  <1>2. 1 \in 1..n /\ n \in 1..n /\ 1 \in 1..m /\ m \in 1..m
    <2>1. at[1] \in 1..n
      OBVIOUS
    <2> QED
      BY <2>1
  <1> DEFINE by == [k \in 0..m |-> IF k = 0 THEN 0 ELSE starts[at[k]] - starts[1]]
  <1>3. ASSUME NEW k \in 1..m PROVE at[k] \in 1..n /\ by[k] = starts[at[k]] - starts[1] /\ by[k] \in Nat
    <2>1. at[k] \in 1..n /\ k \in 0..m /\ k # 0
      OBVIOUS
    <2>2. by[k] = starts[at[k]] - starts[1]
      BY <2>1
    <2>3. 1 <= at[k]
      BY <2>1
    <2>4. starts[1] <= starts[at[k]] /\ starts[1] \in Nat /\ starts[at[k]] \in Nat
      BY <1>1, <1>2, <2>1, <2>3
    <2>5. starts[at[k]] - starts[1] \in Nat
      <3>1. PICK a, b \in Nat : a = starts[at[k]] /\ b = starts[1]
        BY <2>4
      <3>2. b <= a
        BY <2>4, <3>1
      <3>3. a - b \in Nat
        BY <3>2
      <3> QED
        BY <3>1, <3>3
    <2> HIDE DEF by
    <2> QED
      BY <2>1, <2>2, <2>5
  <1>4. by[0] = 0
    OBVIOUS
  <1>5. by \in [0..m -> Nat]
    <2>1. \A k \in 0..m : k = 0 \/ k \in 1..m
      OBVIOUS
    <2>2. \A k \in 0..m : by[k] \in Nat
      <3> HIDE DEF by
      <3> QED
        BY <1>3, <1>4, <2>1
    <2>3. by = [k \in 0..m |-> by[k]]
      OBVIOUS
    <2> HIDE DEF by
    <2> QED
      BY <2>2, <2>3
  <1> HIDE DEF by
  <1>6. ASSUME NEW k \in 0..m PROVE by[k] <= by[m]
    <2>1. CASE k = 0
      <3>1. by[k] = 0 /\ by[m] \in Nat
        BY <1>2, <1>3, <1>4, <2>1
      <3> QED
        BY <3>1
    <2>2. CASE k # 0
      <3>1. k \in 1..m /\ (k = m \/ k < m)
        BY <2>2
      <3>2. at[k] <= at[m] /\ at[k] \in 1..n /\ at[m] \in 1..n
        <4>1. at[k] \in 1..n /\ at[m] \in 1..n
          BY <1>2, <3>1
        <4>2. k < m => at[k] < at[m]
          BY <1>2, <3>1
        <4>3. PICK p, q \in Nat : p = at[k] /\ q = at[m]
          BY <4>1
        <4>4. p <= q
          <5>1. CASE k = m
            BY <4>3, <5>1
          <5>2. CASE k < m
            BY <4>2, <4>3, <5>2
          <5> QED
            BY <3>1, <5>1, <5>2
        <4> QED
          BY <4>1, <4>3, <4>4
      <3>3. starts[at[k]] <= starts[at[m]] /\ starts[at[k]] \in Nat /\ starts[at[m]] \in Nat /\ starts[1] \in Nat
        BY <1>1, <1>2, <3>2
      <3>4. by[k] = starts[at[k]] - starts[1] /\ by[m] = starts[at[m]] - starts[1]
        BY <1>2, <1>3, <3>1
      <3>5. PICK a, b, c \in Nat : a = starts[at[k]] /\ b = starts[at[m]] /\ c = starts[1]
        BY <3>3
      <3>6. a <= b /\ by[k] = a - c /\ by[m] = b - c
        BY <3>3, <3>4, <3>5
      <3> QED
        BY <3>6
    <2> QED
      BY <2>1, <2>2
  <1>7. by[m] <= starts[n] - starts[1] /\ starts[n] - starts[1] \in Nat
    <2>1. at[m] \in 1..n /\ at[m] <= n /\ 1 <= n
      BY <1>2
    <2>2. starts[at[m]] <= starts[n] /\ starts[1] <= starts[n] /\ starts[at[m]] \in Nat /\ starts[n] \in Nat /\ starts[1] \in Nat
      BY <1>1, <1>2, <2>1
    <2>3. by[m] = starts[at[m]] - starts[1]
      BY <1>2, <1>3
    <2> QED
      BY <2>2, <2>3
  <1>8. ASSUME NEW k \in 1..m PROVE pause[k] \in Nat /\ by[k - 1] + pause[k] <= by[k]
    <2>1. PICK p \in 1..n : p = at[k]
      OBVIOUS
    <2>2. by[k] = starts[p] - starts[1]
      BY <1>3, <2>1
    <2>3. pause[k] = IF p = 1 THEN 0 ELSE IF starts[p] > ends[p - 1] THEN starts[p] - ends[p - 1] ELSE 0
      BY <2>1
    <2>4. CASE p = 1
      <3>1. k = 1
        <4>1. ASSUME k # 1 PROVE FALSE
          <5>1. 1 < k
            BY <4>1
          <5>2. at[1] < at[k] /\ at[1] \in 1..n
            BY <1>2, <5>1
          <5> QED
            BY <2>1, <2>4, <5>2
        <4> QED
          BY <4>1
      <3>2. pause[k] = 0 /\ by[k - 1] = 0 /\ by[k] \in Nat
        BY <1>3, <1>4, <2>3, <2>4, <3>1
      <3> QED
        BY <3>2
    <2>5. CASE p # 1
      <3>1. p - 1 \in 1..n
        BY <2>5
      <3>2. PICK a, b, c, d \in Nat : a = starts[p] /\ b = starts[p - 1] /\ c = ends[p - 1] /\ d = starts[1]
        BY <1>2, <3>1
      <3>3. b <= c /\ pause[k] = IF a > c THEN a - c ELSE 0
        BY <2>3, <2>5, <3>1, <3>2
      <3>4. b <= a
        <4>1. p - 1 <= p
          OBVIOUS
        <4> QED
          BY <1>1, <3>1, <3>2, <4>1
      <3>5. pause[k] \in Nat /\ pause[k] <= a - b
        BY <3>3, <3>4
      <3>6. by[k - 1] <= b - d /\ by[k - 1] \in Nat
        <4>1. d <= b
          <5>1. 1 <= p - 1 /\ 1 \in 1..n
            BY <1>2, <3>1
          <5> QED
            BY <1>1, <3>1, <3>2, <5>1
        <4>2. CASE k = 1
          <5>1. by[k - 1] = 0
            BY <1>4, <4>2
          <5> QED
            BY <4>1, <5>1
        <4>3. CASE k # 1
          <5>1. k - 1 \in 1..m /\ k - 1 < k
            BY <4>3
          <5>2. PICK q \in 1..n : q = at[k - 1]
            BY <5>1
          <5>3. q < p
            BY <2>1, <5>1, <5>2
          <5>4. q <= p - 1
            BY <5>3
          <5>5. starts[q] <= b /\ starts[q] \in Nat
            BY <1>1, <3>1, <3>2, <5>4
          <5>6. by[k - 1] = starts[q] - d /\ by[k - 1] \in Nat
            BY <1>3, <3>2, <5>1, <5>2
          <5> QED
            BY <5>5, <5>6
        <4> QED
          BY <4>2, <4>3
      <3>7. by[k] = a - d
        BY <2>2, <3>2
      <3>8. PICK e, f \in Nat : e = by[k - 1] /\ f = pause[k]
        BY <3>5, <3>6
      <3>9. e + f <= a - d
        <4>1. f <= a - b
          BY <3>5, <3>8
        <4>2. e <= b - d
          BY <3>6, <3>8
        <4> QED
          BY <4>1, <4>2
      <3> QED
        BY <3>7, <3>8, <3>9
    <2> QED
      BY <2>4, <2>5
  <1>9. Schedules(by, m, pause, starts[n] - starts[1])
    BY <1>4, <1>5, <1>6, <1>7, <1>8 DEF Schedules
  <1> QED
    BY <1>9

(* One more of the same. *)
LEMMA TimesOneMore ==
    ASSUME NEW s \in Nat, NEW k \in Nat \ {0}
    PROVE  k * s = (k - 1) * s + s /\ (k - 1) * s \in Nat
OBVIOUS

(* Whatever the spans say of their ends, a pause is never longer than the *)
(* last start.                                                            *)
LEMMA PausesEnd ==
    ASSUME NEW n \in Nat, NEW starts \in [1..n -> Nat], NEW ends \in [1..n -> Nat],
           \A p, q \in 1..n : p < q => starts[p] <= starts[q],
           NEW m \in Nat \ {0}, NEW at \in [1..m -> 1..n],
           NEW pause,
           \A k \in 1..m : pause[k] = IF at[k] = 1 THEN 0
                                      ELSE IF starts[at[k]] > ends[at[k] - 1] THEN starts[at[k]] - ends[at[k] - 1] ELSE 0
    PROVE  \E by : Schedules(by, m, pause, m * starts[n])
  <1>1. 1 \in 1..m /\ n \in 1..n
    <2>1. 1 \in 1..m /\ at[1] \in 1..n
      OBVIOUS
    <2> QED
      BY <2>1
  <1>2. PICK s \in Nat : s = starts[n]
    BY <1>1
  <1>3. ASSUME NEW k \in 1..m PROVE pause[k] \in Nat /\ pause[k] <= s
    <2>1. PICK p \in 1..n : p = at[k]
      OBVIOUS
    <2>2. PICK a \in Nat : a = starts[p]
      OBVIOUS
    <2>3. a <= s
      <3>1. p = n \/ p < n
        OBVIOUS
      <3> QED
        BY <1>1, <1>2, <2>2, <3>1
    <2>4. pause[k] = IF p = 1 THEN 0 ELSE IF a > ends[p - 1] THEN a - ends[p - 1] ELSE 0
      BY <2>1, <2>2
    <2>5. CASE p = 1
      BY <2>4, <2>5
    <2>6. CASE p # 1
      <3>1. p - 1 \in 1..n
        BY <2>6
      <3>2. PICK c \in Nat : c = ends[p - 1]
        BY <3>1
      <3>3. pause[k] = IF a > c THEN a - c ELSE 0
        BY <2>4, <2>6, <3>2
      <3> QED
        BY <2>3, <3>3
    <2> QED
      BY <2>5, <2>6
  <1> DEFINE by == [k \in 0..m |-> k * s]
  <1>4. \A k \in 0..m : by[k] = k * s /\ k * s \in Nat
    OBVIOUS
  <1>5. by \in [0..m -> Nat]
    BY <1>4
  <1> HIDE DEF by
  <1>6. by[0] = 0
    BY <1>4
  <1>7. ASSUME NEW k \in 0..m PROVE by[k] <= by[m]
    <2>1. m - k \in Nat /\ m \in 0..m
      OBVIOUS
    <2>2. (m - k) * s \in Nat /\ m * s = k * s + (m - k) * s
      BY <2>1
    <2>3. k * s \in Nat /\ m * s \in Nat
      OBVIOUS
    <2>4. k * s <= m * s
      BY <2>2, <2>3
    <2> QED
      BY <1>4, <2>1, <2>4
  <1>8. ASSUME NEW k \in 1..m PROVE pause[k] \in Nat /\ by[k - 1] + pause[k] <= by[k]
    <2>1. k - 1 \in 0..m /\ k \in 0..m /\ k \in Nat \ {0}
      OBVIOUS
    <2>2. by[k - 1] = (k - 1) * s /\ by[k] = k * s
      BY <1>4, <2>1
    <2>3. k * s = (k - 1) * s + s /\ (k - 1) * s \in Nat
      BY <2>1, TimesOneMore
    <2>4. PICK a, b \in Nat : a = by[k - 1] /\ b = pause[k]
      BY <1>3, <2>2, <2>3
    <2>5. b <= s
      BY <1>3, <2>4
    <2>6. by[k] = a + s
      BY <2>2, <2>3, <2>4
    <2>7. a + b <= a + s
      BY ONLY <2>5, s \in Nat, a \in Nat, b \in Nat
    <2> QED
      BY <2>4, <2>6, <2>7
  <1>9. m * s \in Nat /\ by[m] = m * s
    <2>1. m \in 0..m
      OBVIOUS
    <2> QED
      BY <1>4, <2>1
  <1>10. Schedules(by, m, pause, m * s)
    BY <1>5, <1>6, <1>7, <1>8, <1>9 DEF Schedules
  <1> QED
    BY <1>2, <1>10

(* BuildReplayScenario hands out a line whose pauses fit into the trace,  *)
(* unless spans of it end before they start.                              *)
LEMMA ReplayStarts ==
    ASSUME NEW spans \in Traces, NEW traceID, BuildReplayScenario(traceID, spans)
    PROVE  \E sc, tl : Hand(sc, tl) /\ Starts(sc, tl)
  <1> DEFINE S == {i \in DOMAIN spans : spans[i].trace = traceID}
             orders == Sorted(S, spans, "start")
             sound == \A i \in S : spans[i].start <= spans[i].end
             Steps(order) == Kept(order, Routed(spans))
             Pause(order, place) ==
                 LET i == CHOOSE n \in DOMAIN order : order[n] = place
                 IN IF i = 1 THEN 0 ELSE thinkTime(spans[place], spans[order[i - 1]])
  <1>1. PICK order \in orders :
          LET ids == [n \in DOMAIN Steps(order) |-> StepId(Steps(order)[n])] IN
          /\ ids # <<>>
          /\ Hand(Chained("", ids, [id \in ToSet(ids) |->
                 [Request(id[2], "") EXCEPT !.accepts = Answers, !.pause = Pause(order, id[2])]]),
                 [Silent EXCEPT !.walks = {Steps(o) : o \in orders},
                                !.limits = IF sound THEN {spans[Last(order)].start - spans[order[1]].start} ELSE {}])
    BY DEF BuildReplayScenario
  <1> DEFINE kept == Steps(order)
             ids == [n \in DOMAIN kept |-> StepId(kept[n])]
             steps == [id \in ToSet(ids) |->
                 [Request(id[2], "") EXCEPT !.accepts = Answers, !.pause = Pause(order, id[2])]]
             sc == Chained("", ids, steps)
             tl == [Silent EXCEPT !.walks = {Steps(o) : o \in orders},
                                  !.limits = IF sound THEN {spans[Last(order)].start - spans[order[1]].start} ELSE {}]
  <1>2. ids # <<>> /\ Hand(sc, tl)
    BY <1>1
  <1>3. /\ kept \in tl.walks /\ tl.pairs = {} /\ tl.hosts = {}
        /\ tl.limits = IF sound THEN {spans[Last(order)].start - spans[order[1]].start} ELSE {}
    <2> HIDE DEF orders, Steps, sound
    <2> QED
      BY DEF Silent
  <1>4. S \in SUBSET DOMAIN spans /\ spans \in Seq(ToSet(spans))
    BY ImportConstants DEF Listed
  <1>5. IsFiniteSet(S)
    <2> HIDE DEF S
    <2> QED
      BY <1>4, SomePlaces
  <1>6. PICK n : n = Cardinality(S)
    OBVIOUS
  <1>7. /\ n \in Nat /\ order \in [1..n -> S] /\ IsInjective(order)
        /\ \A i, j \in 1..n : i < j => spans[order[i]].start <= spans[order[j]].start
    <2> HIDE DEF S
    <2> QED
      BY <1>5, <1>6, SortedOrder
  <1>8. PICK m, at : Picks(m, at, n, order, Routed(spans))
    <2> HIDE DEF S, orders
    <2> QED
      BY <1>7, KeptInOrder
  <1> HIDE DEF orders
  <1>9. /\ m \in Nat /\ at \in [1..m -> 1..n] /\ \A i, j \in 1..m : i < j => at[i] < at[j]
        /\ kept = [k \in 1..m |-> order[at[k]]]
    BY <1>8 DEF Picks
  <1> HIDE DEF Steps
  <1>10. m \in Nat \ {0} /\ DOMAIN kept = 1..m /\ ids = [k \in 1..m |-> StepId(kept[k])]
         /\ ToSet(ids) = {StepId(kept[k]) : k \in 1..m}
    <2> HIDE DEF kept
    <2>1. DOMAIN kept = 1..m
      BY <1>9
    <2>2. m # 0
      <3>1. PICK A : ids \in [1..m -> A]
        <4>1. ids \in [1..m -> {StepId(kept[k]) : k \in 1..m}]
          BY <2>1
        <4> HIDE DEF ids
        <4> QED
          BY <4>1
      <3>2. ids # <<>> /\ m \in Nat
        BY <1>2, <1>9
      <3> HIDE DEF ids
      <3> QED
        BY ONLY <3>1, <3>2
    <2> QED
      BY <1>9, <2>1, <2>2 DEF ToSet
  <1>11. ASSUME NEW k \in 1..m
         PROVE  at[k] \in 1..n /\ kept[k] = order[at[k]] /\ order[at[k]] \in S
                /\ \A p \in 1..n : order[p] = kept[k] => p = at[k]
    <2> HIDE DEF kept, S, ids
    <2>1. at[k] \in 1..n /\ kept[k] = order[at[k]]
      BY <1>9
    <2> QED
      BY <1>7, <2>1 DEF IsInjective
  <1>12. ASSUME NEW k \in 1..m PROVE ids[k] = <<"step", kept[k]>> /\ ids[k][2] = kept[k] /\ ids[k] \notin {END, <<>>}
    <2>1. ids[k] = <<"step", kept[k]>>
      BY <1>10 DEF StepId
    <2> HIDE DEF ids, kept
    <2> QED
      BY <2>1, StepIds
  <1>13. ids \in [1..m -> ToSet(ids)] /\ \A i, j \in 1..m : ids[i] = ids[j] => i = j
    <2>1. ids \in [1..m -> ToSet(ids)]
      <3> HIDE DEF kept
      <3> QED
        BY <1>10
    <2>2. ASSUME NEW i \in 1..m, NEW j \in 1..m, ids[i] = ids[j] PROVE i = j
      <3>1. kept[i] = kept[j]
        <4> HIDE DEF ids, kept
        <4> QED
          BY <1>12, <2>2
      <3>2. at[i] = at[j]
        <4> HIDE DEF ids, kept
        <4> QED
          BY <1>11, <3>1
      <3>3. at \in [1..m -> Nat]
        BY <1>9
      <3> QED
        BY <1>9, <3>2, <3>3, GrowingDistinct
    <2> QED
      BY <2>1, <2>2
  <1> DEFINE starts == [p \in 1..n |-> spans[order[p]].start]
             ends == [p \in 1..n |-> spans[order[p]].end]
             pause == [k \in 1..m |-> Pause(order, kept[k])]
  <1>14. /\ starts \in [1..n -> Nat] /\ ends \in [1..n -> Nat] /\ (sound => \A p \in 1..n : starts[p] <= ends[p])
         /\ \A p, q \in 1..n : p < q => starts[p] <= starts[q]
    <2>1. \A p \in 1..n : order[p] \in DOMAIN spans
      BY <1>4, <1>7
    <2>2. \A i \in DOMAIN spans : spans[i].start \in Nat /\ spans[i].end \in Nat
      BY ImportConstants
    <2>3. \A p \in 1..n : order[p] \in S
      BY <1>7
    <2> QED
      BY <1>7, <2>1, <2>2, <2>3
  <1>15. ASSUME NEW k \in 1..m
         PROVE  pause[k] = IF at[k] = 1 THEN 0
                           ELSE IF starts[at[k]] > ends[at[k] - 1] THEN starts[at[k]] - ends[at[k] - 1] ELSE 0
    <2>1. (CHOOSE p \in DOMAIN order : order[p] = kept[k]) = at[k]
      <3>1. DOMAIN order = 1..n
        BY <1>7
      <3> HIDE DEF kept
      <3> QED
        BY <1>11, <3>1
    <2>2. pause[k] = IF at[k] = 1 THEN 0 ELSE thinkTime(spans[kept[k]], spans[order[at[k] - 1]])
      <3> DEFINE chosen == CHOOSE p \in DOMAIN order : order[p] = kept[k]
      <3>1. pause[k] = Pause(order, kept[k])
        <4> HIDE DEF kept, Pause
        <4> QED
          OBVIOUS
      <3>2. Pause(order, kept[k]) = IF chosen = 1 THEN 0 ELSE thinkTime(spans[kept[k]], spans[order[chosen - 1]])
        <4> HIDE DEF kept
        <4> QED
          OBVIOUS
      <3>3. chosen = at[k]
        BY <2>1
      <3> HIDE DEF chosen, kept, pause, Pause
      <3> QED
        BY <3>1, <3>2, <3>3
    <2>3. PICK p \in 1..n : p = at[k] /\ kept[k] = order[p]
      BY <1>11
    <2>4. CASE p = 1
      <3> HIDE DEF kept, pause
      <3> QED
        BY <2>2, <2>3, <2>4
    <2>5. CASE p # 1
      <3>1. p - 1 \in 1..n
        BY <2>5, <1>7
      <3>2. starts[p] = spans[kept[k]].start /\ ends[p - 1] = spans[order[p - 1]].end
        BY <2>3, <3>1
      <3>3. pause[k] = thinkTime(spans[kept[k]], spans[order[p - 1]])
        <4> HIDE DEF kept, pause
        <4> QED
          BY <2>2, <2>3, <2>5
      <3>4. PICK from, span, pauseK : from = spans[order[p - 1]] /\ span = spans[kept[k]] /\ pauseK = pause[k]
        OBVIOUS
      <3>5. pauseK = IF span.start > from.end THEN span.start - from.end ELSE 0
        <4> HIDE DEF kept, pause
        <4> QED
          BY <3>3, <3>4 DEF thinkTime
      <3>6. PICK a, c : a = starts[p] /\ c = ends[p - 1]
        OBVIOUS
      <3>7. pauseK = IF a > c THEN a - c ELSE 0
        <4> HIDE DEF kept, pause, starts, ends
        <4> QED
          BY <3>2, <3>4, <3>5, <3>6
      <3> HIDE DEF kept, pause, starts, ends
      <3> QED
        BY <2>3, <2>5, <3>4, <3>6, <3>7
    <2> QED
      BY <2>4, <2>5
  <1> HIDE DEF sound
  <1>16. PICK by, length : Schedules(by, m, pause, length) /\ (sound => length = starts[n] - starts[1])
    <2> HIDE DEF starts, ends, pause
    <2>1. CASE sound
      <3>1. \E by : Schedules(by, m, pause, starts[n] - starts[1])
        BY <1>7, <1>9, <1>10, <1>14, <1>15, <2>1, PausesFit
      <3> QED
        BY <3>1
    <2>2. CASE ~sound
      <3>1. starts \in [1..n -> Nat] /\ ends \in [1..n -> Nat] /\ \A p, q \in 1..n : p < q => starts[p] <= starts[q]
        BY <1>14
      <3>2. m \in Nat \ {0} /\ at \in [1..m -> 1..n] /\ n \in Nat
        BY <1>7, <1>9, <1>10
      <3>3. \E by : Schedules(by, m, pause, m * starts[n])
        BY <1>15, <3>1, <3>2, PausesEnd
      <3> QED
        BY <2>2, <3>3
    <2> QED
      BY <2>1, <2>2
  <1>17. \A limit \in tl.limits : limit = length
    <2>1. Last(order) = order[n] /\ 1 \in 1..n /\ n \in 1..n
      <3>1. 1 \in 1..m
        BY <1>10
      <3>2. at[1] \in 1..n
        BY <1>9, <3>1
      <3>3. 1 \in 1..n /\ n \in 1..n
        BY <1>7, <3>2
      <3>4. Len(order) = n
        BY <1>7
      <3> QED
        BY <3>3, <3>4 DEF Last
    <2>2. starts[n] = spans[Last(order)].start /\ starts[1] = spans[order[1]].start
      BY <2>1
    <2> HIDE DEF tl, starts
    <2> QED
      BY <1>3, <1>16, <2>2
  <1>18. ASSUME NEW k \in 1..m
         PROVE  IsStep(steps[ids[k]]) /\ steps[ids[k]].request = kept[k]
                /\ steps[ids[k]].pause = pause[k] /\ steps[ids[k]].onFailure = "abort"
    <2>1. steps[ids[k]] = [Request(kept[k], "") EXCEPT !.accepts = Answers, !.pause = Pause(order, kept[k])]
      <3>1. ids[k] \in ToSet(ids) /\ ids[k][2] = kept[k]
        <4>1. ids[k] \in ToSet(ids)
          BY <1>13
        <4> QED
          BY <1>12, <4>1
      <3> HIDE DEF ids, kept, Pause
      <3> QED
        BY <3>1
    <2>2. pause[k] = Pause(order, kept[k])
      <3> HIDE DEF Pause, kept
      <3> QED
        OBVIOUS
    <2>3. pause[k] \in Nat
      <3> HIDE DEF pause
      <3> QED
        BY <1>16 DEF Schedules
    <2>4. /\ IsStep(Request(kept[k], "")) /\ Request(kept[k], "").request = kept[k]
          /\ Request(kept[k], "").onFailure = "abort" /\ DOMAIN Request(kept[k], "") = Fields
      BY RequestIsStep
    <2> HIDE DEF steps, ids, kept, pause, Pause
    <2> QED
      BY <2>1, <2>2, <2>3, <2>4 DEF IsStep, Fields
  <1> HIDE DEF kept, ids, steps, tl, pause, starts
  <1>19. kept = [k \in 1..m |-> steps[ids[k]].request]
    BY <1>9, <1>10, <1>18
  <1>23. sc.base = ""
    <2> HIDE DEF sc
    <2>1. sc = Chained("", ids, steps)
      BY DEF sc
    <2> QED
      BY <2>1, ChainedBase
  <1>20. Plain(sc, m, ids, kept, by)
    <2>1. \A k \in 1..m : ids[k] \notin {END, <<>>}
      BY <1>12
    <2>2. \A k \in 1..m : IsStep(steps[ids[k]]) /\ steps[ids[k]].onFailure = "abort"
      BY <1>18
    <2>3. \A k \in 1..m : by[k - 1] + steps[ids[k]].pause <= by[k]
      BY <1>16, <1>18 DEF Schedules
    <2>4. by \in [0..m -> Nat] /\ by[0] = 0 /\ \A k \in 0..m : by[k] <= by[m]
      BY <1>16 DEF Schedules
    <2> HIDE DEF sc
    <2>5. sc = Chained("", ids, steps)
      BY DEF sc
    <2>6. m \in Nat \ {0}
      BY <1>10
    <2> QED
      BY ONLY <1>13, <1>19, <2>1, <2>2, <2>3, <2>4, <2>5, <2>6, ChainedLine
  <1>21. (\A limit \in tl.limits : limit \in Nat /\ by[m] <= limit) /\ Based(sc, tl)
    BY <1>3, <1>16, <1>17 DEF Schedules, Based
  <1> HIDE DEF sc
  <1>22. Starts(sc, tl)
    BY <1>3, <1>20, <1>21, PlainStarts
  <1> QED
    BY <1>2, <1>22

(* A place in the list of all variants of all targets is a target and a *)
(* variant of it. *)
LEMMA PlaceOfVariant ==
    ASSUME NEW many \in Nat, NEW i \in 1..(5 * many)
    PROVE  /\ 1 + ((i - 1) \div 5) \in 1..many /\ 1 + ((i - 1) % 5) \in 1..5
           /\ i = 5 * ((1 + ((i - 1) \div 5)) - 1) + (1 + ((i - 1) % 5))
  <1>1. PICK j \in Nat : j = i - 1 /\ j < 5 * many
    OBVIOUS
  <1>2. j \div 5 \in Nat /\ j % 5 \in 0..4 /\ j = 5 * (j \div 5) + (j % 5)
    OBVIOUS
  <1>3. PICK q, r \in Nat : q = j \div 5 /\ r = j % 5
    BY <1>2
  <1>4. r <= 4 /\ j = 5 * q + r /\ q < many /\ i = j + 1
    BY <1>1, <1>2, <1>3
  <1>5. 1 + q \in 1..many /\ 1 + r \in 1..5 /\ i = 5 * ((1 + q) - 1) + (1 + r)
    BY <1>4
  <1> QED
    BY <1>1, <1>3, <1>5

(* BuildFuzzScenario hands out the line of all variants of all targets:   *)
(* place and variant are found in the number again.                       *)
LEMMA FuzzStarts ==
    ASSUME FollowInv(scenario, told, user), BuildFuzzScenario
    PROVE  \E sc, tl : /\ ValidateScenario(sc) /\ Starts(sc, tl)
                       /\ scenario' = sc /\ told' = tl /\ user' = user /\ user = Nobody
  <1> DEFINE old == scenario.steps
             T == {id \in DOMAIN old : HasBody(old[id])}
             Fuzzed(id) == [old[id[2]] EXCEPT !.request = <<@, id[3]>>, !.gives = <<>>, !.accepts = Answers \cap 100..499,
                                              !.pause = 0, !.onFailure = "abort"]
  <1>1. PICK targets \in Sorted(T, [id \in DOMAIN old |-> id], 2) :
          LET ids == [n \in 1..(Len(FuzzVariants) * Len(targets)) |->
                         <<"fuzz", targets[1 + ((n - 1) \div Len(FuzzVariants))], 1 + ((n - 1) % Len(FuzzVariants))>>]
              fuzz == Chained(scenario.base, ids, [id \in ToSet(ids) |-> Fuzzed(id)])
          IN /\ ids # <<>> /\ ValidateScenario(fuzz)
             /\ scenario' = fuzz
             /\ told' = Walks({[i \in DOMAIN ids |-> <<old[ids[i][2]].request, ids[i][3]>>]}, told.hosts)
    BY DEF BuildFuzzScenario
  <1>2. user' = user /\ user = Nobody
    BY DEF BuildFuzzScenario
  <1>3. scenario # NoScenario => HasSteps(scenario)
    BY DEF FollowInv, IsScenario
  <1>4. IsFiniteSet(T) /\ \A id \in T : IsStep(old[id])
    <2>1. CASE scenario = NoScenario
      <3>1. DOMAIN old = {}
        <4>1. NoScenario.steps = <<>> /\ DOMAIN <<>> = {}
          BY DEF NoScenario
        <4> QED
          BY <2>1, <4>1
      <3>2. T = {}
        <4> HIDE DEF old
        <4> QED
          BY <3>1
      <3> QED
        BY <3>2, FS_EmptySet
    <2>2. CASE scenario # NoScenario
      <3>1. IsFiniteSet(DOMAIN old) /\ \A id \in DOMAIN old : IsStep(old[id])
        BY <1>3, <2>2 DEF HasSteps
      <3>2. T \subseteq DOMAIN old
        OBVIOUS
      <3> HIDE DEF T, old
      <3>3. IsFiniteSet(T)
        BY <3>1, <3>2, FS_Subset
      <3> QED
        BY <3>1, <3>2, <3>3
    <2> QED
      BY <2>1, <2>2
  <1> HIDE DEF old
  <1>5. PICK many : many = Cardinality(T)
    OBVIOUS
  <1>6. many \in Nat /\ targets \in [1..many -> T] /\ \A i, j \in 1..many : targets[i] = targets[j] => i = j
    <2>1. many \in Nat /\ targets \in [1..many -> T] /\ IsInjective(targets)
      <3> HIDE DEF T
      <3> QED
        BY <1>4, <1>5, SortedOrder
    <2> HIDE DEF T
    <2>2. DOMAIN targets = 1..many
      BY <2>1
    <2> QED
      BY <2>1, <2>2 DEF IsInjective
  <1> HIDE DEF T
  <1>7. Len(targets) = many /\ Len(FuzzVariants) = 5
    BY <1>6 DEF FuzzVariants
  <1> DEFINE n == 5 * many
             of(i) == targets[1 + ((i - 1) \div 5)]
             ids == [i \in 1..n |-> <<"fuzz", of(i), 1 + ((i - 1) % 5)>>]
             steps == [id \in ToSet(ids) |-> Fuzzed(id)]
             fuzz == Chained(scenario.base, ids, steps)
             walk == [i \in DOMAIN ids |-> <<old[ids[i][2]].request, ids[i][3]>>]
             tl == Walks({walk}, told.hosts)
  <1>8. ids # <<>> /\ ValidateScenario(fuzz) /\ scenario' = fuzz /\ told' = tl
    BY <1>1, <1>7
  <1>9. n \in Nat \ {0}
    <2>1. n \in Nat
      BY <1>6
    <2>2. n # 0
      <3>1. PICK A : ids \in [1..n -> A]
        <4>1. ids \in [1..n -> {ids[i] : i \in 1..n}]
          OBVIOUS
        <4> HIDE DEF ids, n
        <4> QED
          BY <4>1
      <3>2. ids # <<>>
        BY <1>8
      <3> HIDE DEF ids, n
      <3> QED
        BY ONLY <3>1, <3>2
    <2> QED
      BY <2>1, <2>2
  <1>10. ASSUME NEW i \in 1..n
         PROVE  /\ ids[i] = <<"fuzz", of(i), 1 + ((i - 1) % 5)>> /\ of(i) \in T
                /\ ids[i][2] = of(i) /\ ids[i][3] = 1 + ((i - 1) % 5) /\ ids[i] \notin {END, <<>>}
    <2>1. ids[i] = <<"fuzz", of(i), 1 + ((i - 1) % 5)>>
      <3> HIDE DEF of
      <3> QED
        OBVIOUS
    <2>2. 1 + ((i - 1) \div 5) \in 1..many
      BY <1>6, PlaceOfVariant
    <2>3. of(i) \in T
      BY <1>6, <2>2
    <2>4. PICK t, v : t = of(i) /\ v = 1 + ((i - 1) % 5)
      OBVIOUS
    <2>5. <<"fuzz", t, v>>[2] = t /\ <<"fuzz", t, v>>[3] = v /\ <<"fuzz", t, v>> \notin {END, <<>>}
      <3>1. Len(<<"fuzz", t, v>>) = 3 /\ Len(<<>>) = 0 /\ Len(END) = 1
        BY DEF END
      <3> QED
        BY <3>1
    <2> HIDE DEF of, ids
    <2> QED
      BY <2>1, <2>3, <2>4, <2>5
  <1>11. \A i, j \in 1..n : ids[i] = ids[j] => i = j
    <2> SUFFICES ASSUME NEW i \in 1..n, NEW j \in 1..n, ids[i] = ids[j] PROVE i = j
      OBVIOUS
    <2>1. of(i) = of(j) /\ 1 + ((i - 1) % 5) = 1 + ((j - 1) % 5)
      <3> HIDE DEF ids, of
      <3> QED
        BY <1>10
    <2>2. /\ 1 + ((i - 1) \div 5) \in 1..many /\ 1 + ((j - 1) \div 5) \in 1..many
          /\ i = 5 * ((1 + ((i - 1) \div 5)) - 1) + (1 + ((i - 1) % 5))
          /\ j = 5 * ((1 + ((j - 1) \div 5)) - 1) + (1 + ((j - 1) % 5))
      BY <1>6, PlaceOfVariant
    <2>3. 1 + ((i - 1) \div 5) = 1 + ((j - 1) \div 5)
      BY <1>6, <2>1, <2>2
    <2> QED
      BY <2>1, <2>2, <2>3
  <1> HIDE DEF of, n
  <1>12. ids \in [1..n -> ToSet(ids)] /\ \A i \in 1..n : ids[i] \in ToSet(ids)
    <2>1. DOMAIN ids = 1..n /\ ids = [i \in 1..n |-> ids[i]]
      OBVIOUS
    <2> HIDE DEF ids
    <2> QED
      BY <2>1 DEF ToSet
  <1>13. ASSUME NEW i \in 1..n
         PROVE  /\ IsStep(steps[ids[i]]) /\ steps[ids[i]].request = <<old[ids[i][2]].request, ids[i][3]>>
                /\ steps[ids[i]].pause = 0 /\ steps[ids[i]].onFailure = "abort"
    <2>1. steps[ids[i]] = Fuzzed(ids[i])
      <3> HIDE DEF Fuzzed, ids
      <3> QED
        BY <1>12
    <2>2. IsStep(old[ids[i][2]])
      <3> HIDE DEF ids
      <3> QED
        BY <1>4, <1>10
    <2>3. PICK step, variant : step = old[ids[i][2]] /\ variant = ids[i][3]
      OBVIOUS
    <2>4. Fuzzed(ids[i]) = [step EXCEPT !.request = <<step.request, variant>>, !.gives = <<>>, !.accepts = Answers \cap 100..499,
                                        !.pause = 0, !.onFailure = "abort"]
      <3> HIDE DEF ids
      <3> QED
        BY <2>3
    <2>5. <<>> \in Seq(Extractors)
      OBVIOUS
    <2> HIDE DEF steps, ids, Fuzzed
    <2> QED
      BY <2>1, <2>2, <2>3, <2>4, <2>5 DEF IsStep, Fields
  <1>14. walk = [i \in 1..n |-> steps[ids[i]].request]
    <2>1. DOMAIN ids = 1..n
      OBVIOUS
    <2> HIDE DEF ids, steps
    <2> QED
      BY <1>13, <2>1
  <1>15. walk \in tl.walks /\ tl.pairs = {} /\ tl.hosts = told.hosts /\ tl.limits = {0}
    <2> HIDE DEF walk
    <2> QED
      BY ToldWalks
  <1> HIDE DEF ids, steps, walk, tl
  <1>16. Starts(fuzz, tl)
    <2>1. \A i \in 1..n : ids[i] \notin {END, <<>>}
      BY <1>10
    <2>2. \A i \in 1..n : IsStep(steps[ids[i]]) /\ steps[ids[i]].onFailure = "abort" /\ steps[ids[i]].pause = 0
      BY <1>13
    <2> HIDE DEF fuzz
    <2>3. PICK base : base = scenario.base
      OBVIOUS
    <2>4. fuzz = Chained(base, ids, steps)
      BY <2>3 DEF fuzz
    <2>5. tl.hosts = {} \/ base \in tl.hosts
      BY <1>15, <2>3 DEF FollowInv, Based
    <2> QED
      BY <1>9, <1>11, <1>12, <1>14, <1>15, <2>1, <2>2, <2>4, <2>5, NoPauses
  <1> QED
    BY <1>2, <1>8, <1>16

-----------------------------------------------------------------------------
(* Mined transitions                                                       *)

(* Spans are listed and begin at a time. *)
Timed(spans) == spans \in Seq(ToSet(spans)) /\ \A i \in DOMAIN spans : spans[i].start \in Nat

(* Those of a trace are, and no spans at all. *)
LEMMA SpansAreTimed == \A spans \in Traces \cup {<<>>} : Timed(spans)
  <1>1. <<>> \in Seq(ToSet(<<>>)) /\ DOMAIN <<>> = {}
    OBVIOUS
  <1>2. Timed(<<>>)
    BY <1>1 DEF Timed
  <1>3. ASSUME NEW spans \in Traces PROVE Timed(spans)
    BY ImportConstants DEF Listed, Timed
  <1> QED
    BY <1>2, <1>3

(* What comes next in an order by start may follow, and what comes last may *)
(* be the last. *)
LEMMA Neighbours ==
    ASSUME NEW spans, Timed(spans), NEW t, NEW order \in Sorted(RoutedSpans(spans, t), spans, "start")
    PROVE  \E n \in Nat :
              /\ order \in [1..n -> RoutedSpans(spans, t)]
              /\ \A i \in RoutedSpans(spans, t) : \E k \in 1..n : order[k] = i
              /\ \A k \in 1..n : k = n => MayBeLast(spans, order[k])
              /\ \A k \in 1..n : k < n => order[k + 1] \in MayFollow(spans, order[k])
  <1> DEFINE S == RoutedSpans(spans, t)
  <1>1. S \in SUBSET DOMAIN spans /\ \A i \in S : spans[i].trace = t
    BY DEF RoutedSpans
  <1>2. IsFiniteSet(S)
    <2> HIDE DEF S
    <2> QED
      BY <1>1, SomePlaces DEF Timed
  <1>3. PICK n : n = Cardinality(S)
    OBVIOUS
  <1>4. /\ n \in Nat /\ order \in [1..n -> S] /\ IsInjective(order)
        /\ \A i, j \in 1..n : i < j => spans[order[i]].start <= spans[order[j]].start
        /\ \A i \in S : \E k \in 1..n : order[k] = i
    <2> HIDE DEF S
    <2>1. order \in Sorted(S, spans, "start")
      BY DEF S
    <2> QED
      BY <1>2, <1>3, <2>1, SortedOrder
  <1>5. \A i, j \in 1..n : order[i] = order[j] => i = j
    <2>1. DOMAIN order = 1..n
      BY <1>4
    <2> QED
      BY <1>4, <2>1 DEF IsInjective
  <1>6. \A k \in 1..n : order[k] \in S /\ spans[order[k]].start \in Nat
    <2> HIDE DEF S
    <2>1. \A k \in 1..n : order[k] \in S
      BY <1>4
    <2> QED
      BY <1>1, <2>1 DEF Timed
  <1>7. \A k \in 1..n : Rivals(spans, order[k]) = S \ {order[k]}
    BY <1>1, <1>6 DEF Rivals
  <1> HIDE DEF S
  <1>8. ASSUME NEW k \in 1..n, k = n PROVE MayBeLast(spans, order[k])
    <2>1. ASSUME NEW i \in S \ {order[k]} PROVE spans[i].start <= spans[order[k]].start
      <3>1. PICK j \in 1..n : order[j] = i
        BY <1>4
      <3>2. j # k
        BY <2>1, <3>1
      <3>3. j < k
        BY <1>4, <1>8, <3>2
      <3> QED
        BY <1>4, <3>1, <3>3
    <2> QED
      BY <1>7, <2>1 DEF MayBeLast
  <1>9. ASSUME NEW k \in 1..n, k < n PROVE order[k + 1] \in MayFollow(spans, order[k])
    <2>1. k + 1 \in 1..n /\ k < k + 1
      BY <1>4, <1>9
    <2>2. order[k + 1] \in S /\ order[k + 1] # order[k]
      BY <1>5, <1>6, <2>1
    <2>3. spans[order[k]].start <= spans[order[k + 1]].start
      BY <1>4, <2>1
    <2>4. ASSUME NEW i \in S \ {order[k]}
          PROVE  ~(spans[order[k]].start < spans[i].start /\ spans[i].start < spans[order[k + 1]].start)
      <3>1. PICK j \in 1..n : order[j] = i
        BY <1>4
      <3>2. PICK a, b, c \in Nat : a = spans[order[k]].start /\ b = spans[i].start /\ c = spans[order[k + 1]].start
        BY <1>6, <2>1, <3>1
      <3>3. CASE j < k
        <4>1. b <= a
          BY <1>4, <3>1, <3>2, <3>3
        <4> QED
          BY <3>2, <4>1
      <3>4. CASE j = k + 1
        <4>1. b = c
          BY <3>1, <3>2, <3>4
        <4> QED
          BY <3>2, <4>1
      <3>5. CASE k + 1 < j
        <4>1. c <= b
          BY <1>4, <2>1, <3>1, <3>2, <3>5
        <4> QED
          BY <3>2, <4>1
      <3>6. j # k
        BY <2>4, <3>1
      <3>7. j < k \/ j = k + 1 \/ k + 1 < j
        BY <3>6
      <3> QED
        BY <3>3, <3>4, <3>5, <3>7
    <2> QED
      BY <1>7, <2>1, <2>2, <2>3, <2>4 DEF MayFollow
  <1>10. /\ order \in [1..n -> RoutedSpans(spans, t)]
         /\ \A i \in RoutedSpans(spans, t) : \E k \in 1..n : order[k] = i
    BY <1>4 DEF S
  <1> QED
    BY <1>4, <1>8, <1>9, <1>10

(* What is mined is made of one order of each trace. *)
LEMMA Mined ==
    ASSUME NEW spans, NEW pairs \in MineBehavioralTransitions(spans)
    PROVE  /\ \A p \in pairs : \E t : \E order \in Sorted(RoutedSpans(spans, t), spans, "start") :
                 p \in Transitions(spans, order)
           /\ \A i \in DOMAIN spans : \E order \in Sorted(RoutedSpans(spans, spans[i].trace), spans, "start") :
                 Transitions(spans, order) \subseteq pairs
  <1> DEFINE traces == {spans[i].trace : i \in DOMAIN spans}
             Of(t) == {Transitions(spans, order) : order \in Sorted(RoutedSpans(spans, t), spans, "start")}
             all == [traces -> UNION {Of(t) : t \in traces}]
  <1>1. PICK f \in {g \in all : \A t \in traces : g[t] \in Of(t)} : pairs = UNION {f[t] : t \in traces}
    BY DEF MineBehavioralTransitions
  <1>2. \A t \in traces : f[t] \in Of(t)
    <2> HIDE DEF Of
    <2> QED
      BY <1>1
  <1>3. ASSUME NEW p \in pairs
        PROVE  \E t : \E order \in Sorted(RoutedSpans(spans, t), spans, "start") : p \in Transitions(spans, order)
    <2>1. PICK t \in traces : p \in f[t]
      <3> HIDE DEF traces
      <3> QED
        BY <1>1, <1>3
    <2>2. f[t] \in Of(t)
      BY <1>2
    <2>3. PICK order \in Sorted(RoutedSpans(spans, t), spans, "start") : f[t] = Transitions(spans, order)
      BY <2>2
    <2> QED
      BY <2>1, <2>3
  <1>4. ASSUME NEW i \in DOMAIN spans
        PROVE  \E order \in Sorted(RoutedSpans(spans, spans[i].trace), spans, "start") :
                   Transitions(spans, order) \subseteq pairs
    <2>1. spans[i].trace \in traces
      OBVIOUS
    <2>2. f[spans[i].trace] \subseteq pairs
      <3> HIDE DEF traces
      <3> QED
        BY <1>1, <2>1
    <2>3. f[spans[i].trace] \in Of(spans[i].trace)
      BY <1>2, <2>1
    <2> QED
      BY <2>2, <2>3
  <1> QED
    BY <1>3, <1>4

(* What Follows says, without its sets *)
LEMMA SeenToFollow ==
    ASSUME NEW spans, NEW p
    PROVE  p \in Follows(spans) <=>
              \E i \in Routed(spans) :
                 \/ \E j \in MayFollow(spans, i) : p = <<spans[i].route, spans[j].route>>
                 \/ MayBeLast(spans, i) /\ p = <<spans[i].route, END>>
  <1> DEFINE AfterSpan(i) == {<<spans[i].route, spans[j].route>> : j \in MayFollow(spans, i)}
             nexts == UNION {AfterSpan(i) : i \in Routed(spans)}
             lasts == {<<spans[i].route, END>> : i \in {k \in Routed(spans) : MayBeLast(spans, k)}}
  <1>1. Follows(spans) = nexts \cup lasts
    BY DEF Follows
  <1>2. p \in lasts <=> \E i \in Routed(spans) : MayBeLast(spans, i) /\ p = <<spans[i].route, END>>
    OBVIOUS
  <1>3. \A i : p \in AfterSpan(i) <=> \E j \in MayFollow(spans, i) : p = <<spans[i].route, spans[j].route>>
    OBVIOUS
  <1>4. p \in nexts <=> \E i \in Routed(spans) : p \in AfterSpan(i)
    <2> HIDE DEF AfterSpan
    <2> QED
      OBVIOUS
  <1> HIDE DEF nexts, lasts, AfterSpan
  <1> QED
    BY <1>1, <1>2, <1>3, <1>4

(* No pair is mined that a reader of the spans would not see. *)
LEMMA MinedFollows ==
    ASSUME NEW spans, Timed(spans), NEW pairs \in MineBehavioralTransitions(spans)
    PROVE  pairs \subseteq Follows(spans)
  <1> SUFFICES ASSUME NEW p \in pairs PROVE p \in Follows(spans)
    OBVIOUS
  <1>1. PICK t : \E order \in Sorted(RoutedSpans(spans, t), spans, "start") : p \in Transitions(spans, order)
    BY Mined
  <1>2. PICK order \in Sorted(RoutedSpans(spans, t), spans, "start") : p \in Transitions(spans, order)
    BY <1>1
  <1>3. PICK n \in Nat :
           /\ order \in [1..n -> RoutedSpans(spans, t)]
           /\ \A k \in 1..n : k = n => MayBeLast(spans, order[k])
           /\ \A k \in 1..n : k < n => order[k + 1] \in MayFollow(spans, order[k])
    BY <1>2, Neighbours
  <1>4. Len(order) = n /\ DOMAIN order = 1..n
    BY <1>3
  <1>5. PICK k \in 1..n : p = <<spans[order[k]].route, IF k = n THEN END ELSE spans[order[k + 1]].route>>
    BY <1>2, <1>4 DEF Transitions
  <1>6. order[k] \in Routed(spans)
    <2>1. order[k] \in RoutedSpans(spans, t)
      BY <1>3
    <2> QED
      BY <2>1 DEF RoutedSpans, Routed
  <1>7. CASE k = n
    <2>1. MayBeLast(spans, order[k]) /\ p = <<spans[order[k]].route, END>>
      BY <1>3, <1>5, <1>7
    <2> QED
      BY <1>6, <2>1, SeenToFollow
  <1>8. CASE k # n
    <2>1. k < n
      BY <1>8
    <2>2. order[k + 1] \in MayFollow(spans, order[k]) /\ p = <<spans[order[k]].route, spans[order[k + 1]].route>>
      BY <1>3, <1>5, <1>8, <2>1
    <2> QED
      BY <1>6, <2>2, SeenToFollow
  <1> QED
    BY <1>7, <1>8

(* What a reader sees without a doubt is mined. *)
LEMMA MinedUnlessOpen ==
    ASSUME NEW spans, Timed(spans), NEW pairs \in MineBehavioralTransitions(spans),
           NEW p \in Follows(spans), ~Open(spans, p[1])
    PROVE  p \in pairs
  <1>1. PICK i \in Routed(spans) :
           \/ \E j \in MayFollow(spans, i) : p = <<spans[i].route, spans[j].route>>
           \/ MayBeLast(spans, i) /\ p = <<spans[i].route, END>>
    BY SeenToFollow
  <1>2. i \in DOMAIN spans /\ spans[i].route = p[1] /\ i \in RoutedSpans(spans, spans[i].trace)
    <2>1. p[1] = spans[i].route
      BY <1>1
    <2> QED
      BY <2>1 DEF Routed, RoutedSpans
  <1>3. PICK order \in Sorted(RoutedSpans(spans, spans[i].trace), spans, "start") : Transitions(spans, order) \subseteq pairs
    BY <1>2, Mined
  <1>4. PICK n \in Nat :
           /\ order \in [1..n -> RoutedSpans(spans, spans[i].trace)]
           /\ \A j \in RoutedSpans(spans, spans[i].trace) : \E k \in 1..n : order[k] = j
           /\ \A k \in 1..n : k = n => MayBeLast(spans, order[k])
           /\ \A k \in 1..n : k < n => order[k + 1] \in MayFollow(spans, order[k])
    BY Neighbours
  <1>5. PICK k \in 1..n : order[k] = i
    BY <1>2, <1>4
  <1>6. Len(order) = n /\ DOMAIN order = 1..n
    BY <1>4
  <1>7. <<spans[i].route, IF k = n THEN END ELSE spans[order[k + 1]].route>> \in pairs
    <2>1. <<spans[order[k]].route, IF k = n THEN END ELSE spans[order[k + 1]].route>> \in Transitions(spans, order)
      BY <1>6 DEF Transitions
    <2> QED
      BY <1>3, <1>5, <2>1
  <1>8. \A j \in MayFollow(spans, i) : ~MayBeLast(spans, i) /\ \A l \in MayFollow(spans, i) : l = j
    BY <1>1, <1>2 DEF Open
  <1>9. CASE k = n
    <2>1. MayBeLast(spans, i) /\ <<spans[i].route, END>> \in pairs
      BY <1>4, <1>5, <1>7, <1>9
    <2> QED
      BY <1>1, <1>8, <2>1
  <1>10. CASE k # n
    <2>1. k < n
      BY <1>10
    <2>2. order[k + 1] \in MayFollow(spans, i) /\ <<spans[i].route, spans[order[k + 1]].route>> \in pairs
      BY <1>4, <1>5, <1>7, <1>10, <2>1
    <2> QED
      BY <1>1, <1>8, <2>2
  <1> QED
    BY <1>9, <1>10

-----------------------------------------------------------------------------
(* Scenarios from a document of the API                                    *)

(* What is finite and not empty can be listed. *)
LEMMA SomeListing ==
    ASSUME NEW S, IsFiniteSet(S), S # {}
    PROVE  \E m \in Nat \ {0} : SetToSeq(S) \in [1..m -> S]
  <1>1. PICK n \in Nat : n = Cardinality(S)
    BY FS_CardinalityType
  <1>2. PICK f \in [1..n -> S] : IsInjective(f) /\ \A x \in S : \E k \in 1..n : f[k] = x
    <2>1. ExistsBijection(1..n, S)
      BY <1>1, FS_CardinalityType
    <2> QED
      BY <2>1 DEF ExistsBijection, Bijection, Injection, Surjection
  <1>3. SetToSeq(S) \in [1..n -> S]
    BY <1>1, <1>2 DEF SetToSeq
  <1>4. n # 0
    BY <1>2
  <1> QED
    BY <1>3, <1>4

(* There are finitely many operations, and none has the empty name. *)
LEMMA OperationsFinite ==
    ASSUME NEW spec \in Specs
    PROVE  /\ IsFiniteSet(Operations(spec)) /\ <<>> \notin Operations(spec) /\ IsFiniteSet(Routes(spec))
           /\ \E n \in Nat : Len(spec) = n /\ DOMAIN spec = 1..n
  <1>1. spec \in Seq(ToSet(spec))
    BY ImportConstants DEF Listed
  <1>2. PICK n \in Nat : n = Len(spec) /\ DOMAIN spec = 1..n
    BY <1>1
  <1>3. IsFiniteSet(1..n)
    <2>1. 1 \in Int /\ n \in Int
      OBVIOUS
    <2> QED
      BY ONLY <2>1, FS_Interval
  <1>4. PICK T, R : T = Operations(spec) /\ R = Routes(spec)
    OBVIOUS
  <1>5. /\ [i \in 1..n |-> spec[i].id] \in Surjection(1..n, T)
        /\ [i \in 1..n |-> spec[i].route] \in Surjection(1..n, R)
    BY <1>2, <1>4 DEF Operations, Routes, Surjection
  <1>6. IsFiniteSet(T) /\ IsFiniteSet(R)
    BY <1>3, <1>5, FS_Surjection
  <1>7. <<>> \notin T
    BY <1>4, ImportConstants DEF Operations
  <1> QED
    BY <1>2, <1>4, <1>6, <1>7

(* There is a way on from every endpoint, and it leads to one or to the end. *)
LEMMA LeadsOn ==
    ASSUME NEW spec \in Specs, NEW pairs, NEW i \in DOMAIN spec
    PROVE  /\ IsFiniteSet(Leads(spec, pairs, i)) /\ Leads(spec, pairs, i) # {}
           /\ Leads(spec, pairs, i) \subseteq Routes(spec) \cup {END}
  <1>1. PICK n \in Nat : Len(spec) = n /\ DOMAIN spec = 1..n
    BY OperationsFinite
  <1>2. PICK T : T = Routes(spec) \cup {END}
    OBVIOUS
  <1>3. IsFiniteSet(T)
    BY <1>2, OperationsFinite, FS_AddElement
  <1>4. Known(spec, pairs, spec[i].route) \subseteq T
    BY <1>2 DEF Known
  <1>5. ASSUME Known(spec, pairs, spec[i].route) = {}
        PROVE  Leads(spec, pairs, i) # {} /\ Leads(spec, pairs, i) \subseteq T
    <2>1. i < n => i + 1 \in 1..n
      BY <1>1
    <2>2. i < n => spec[i + 1].route \in Routes(spec)
      BY <1>1, <2>1 DEF Routes
    <2> QED
      BY <1>1, <1>2, <1>5, <2>2 DEF Leads
  <1>6. Leads(spec, pairs, i) # {} /\ Leads(spec, pairs, i) \subseteq T
    BY <1>4, <1>5 DEF Leads
  <1> QED
    BY <1>2, <1>3, <1>6, FS_Subset

(* Where an endpoint leads is where a user may go. *)
LEMMA LeadsWhereTracesMay ==
    ASSUME NEW spec, NEW spans, Timed(spans), NEW pairs \in MineBehavioralTransitions(spans), NEW i \in DOMAIN spec
    PROVE  Leads(spec, pairs, i) \subseteq MayGo(spec, spans, i)
  <1> SUFFICES ASSUME NEW target \in Leads(spec, pairs, i) PROVE target \in MayGo(spec, spans, i)
    OBVIOUS
  <1> DEFINE route == spec[i].route
  <1>1. MayGo(spec, spans, i) = Leads(spec, Follows(spans), i) \cup (IF Open(spans, route) THEN Leads(spec, {}, i) ELSE {})
    BY DEF MayGo
  <1>2. pairs \subseteq Follows(spans)
    BY MinedFollows
  <1>3. Known(spec, pairs, route) \subseteq Known(spec, Follows(spans), route)
    BY <1>2 DEF Known
  <1>4. CASE Known(spec, pairs, route) # {}
    <2>1. target \in Known(spec, pairs, route)
      BY <1>4 DEF Leads
    <2>2. target \in Leads(spec, Follows(spans), i)
      BY <1>3, <2>1 DEF Leads
    <2> QED
      BY <1>1, <2>2
  <1>5. CASE Known(spec, pairs, route) = {}
    <2>1. Known(spec, {}, route) = {}
      BY DEF Known
    <2>2. Leads(spec, pairs, i) = Leads(spec, {}, i)
      BY <1>5, <2>1 DEF Leads
    <2>3. CASE Open(spans, route)
      BY <1>1, <2>2, <2>3
    <2>4. CASE ~Open(spans, route)
      <3>1. Known(spec, Follows(spans), route) = {}
        <4>1. SUFFICES ASSUME NEW p \in Follows(spans), p[1] = route, p[2] \in Routes(spec) \cup {END} PROVE FALSE
          BY DEF Known
        <4>2. p \in pairs
          BY <2>4, <4>1, MinedUnlessOpen
        <4>3. p[2] \in Known(spec, pairs, route)
          BY <4>1, <4>2 DEF Known
        <4> QED
          BY <1>5, <4>3
      <3>2. Leads(spec, Follows(spans), i) = Leads(spec, {}, i)
        BY <2>1, <3>1 DEF Leads
      <3> QED
        BY <1>1, <2>2, <3>2
    <2> QED
      BY <2>3, <2>4
  <1> QED
    BY <1>4, <1>5

(* Of the operations of one name one is the last. *)
LEMMA StandingIs ==
    ASSUME NEW spec \in Specs, NEW id \in Operations(spec)
    PROVE  /\ Standing(spec, id) \in LastOfName(spec) /\ Standing(spec, id) \in DOMAIN spec
           /\ spec[Standing(spec, id)].id = id
  <1>1. PICK n \in Nat : Len(spec) = n /\ DOMAIN spec = 1..n
    BY OperationsFinite
  <1> DEFINE S == {i \in 1..n : spec[i].id = id}
  <1>2. S # {} /\ S \in SUBSET Nat /\ S \subseteq 1..n
    BY <1>1 DEF Operations
  <1>3. IsFiniteSet(S)
    <2>1. 1 \in Int /\ n \in Int
      OBVIOUS
    <2>2. IsFiniteSet(1..n)
      BY ONLY <2>1, FS_Interval
    <2> HIDE DEF S
    <2> QED
      BY <1>2, <2>2, FS_Subset
  <1>4. PICK last \in S : \A i \in S : i <= last
    <2> HIDE DEF S
    <2> QED
      BY <1>2, <1>3, GreatestOf
  <1>5. /\ Standing(spec, id) \in DOMAIN spec /\ spec[Standing(spec, id)].id = id
        /\ \A j \in DOMAIN spec : spec[j].id = id => j <= Standing(spec, id)
    <2>1. last \in DOMAIN spec /\ spec[last].id = id /\ \A j \in DOMAIN spec : spec[j].id = id => j <= last
      BY <1>1, <1>4
    <2> QED
      BY <2>1 DEF Standing
  <1> QED
    BY <1>5 DEF LastOfName

(* A target is the name of an operation, or the end; an operation may have *)
(* the name of the end.                                                   *)
LEMMA NamedIs ==
    ASSUME NEW spec \in Specs, NEW target \in Routes(spec) \cup {END}
    PROVE  Named(spec, target) \in Operations(spec) \cup {END} /\ Named(spec, target) # <<>>
  <1>1. END # <<>>
    <2>1. Len(END) = 1 /\ Len(<<>>) = 0
      BY DEF END
    <2> QED
      BY <2>1
  <1>2. CASE target = END
    BY <1>1, <1>2 DEF Named
  <1>3. CASE target # END
    <2>1. PICK i \in DOMAIN spec : spec[i].route = target
      BY <1>3 DEF Routes
    <2>2. PICK j \in DOMAIN spec : Named(spec, target) = spec[j].id
      BY <1>3, <2>1 DEF Named
    <2>4. Named(spec, target) = spec[j].id
      BY <2>2
    <2>5. Named(spec, target) \in Operations(spec)
      BY <2>2, <2>4 DEF Operations
    <2> QED
      BY <2>5, OperationsFinite
  <1> QED
    BY <1>2, <1>3

(* What is sent after the step of an operation is what a reader expects. *)
LEMMA LandsWhereMayLead ==
    ASSUME NEW spec \in Specs, NEW spans, NEW i \in LastOfName(spec), NEW target \in MayGo(spec, spans, i)
    PROVE  /\ Named(spec, target) = END => <<spec[i].route, END>> \in MayLead(spec, spans)
           /\ Named(spec, target) \in Operations(spec) /\ Named(spec, target) # END =>
                 <<spec[i].route, spec[Standing(spec, Named(spec, target))].route>> \in MayLead(spec, spans)
  <1>1. PICK id : id = Named(spec, target)
    OBVIOUS
  <1>2. ASSUME NEW x \in Lands(spec, target) PROVE <<spec[i].route, x>> \in MayLead(spec, spans)
    <2> DEFINE all(k) == UNION {Lands(spec, t) : t \in MayGo(spec, spans, k)}
    <2>1. x \in all(i)
      BY <1>2
    <2>2. MayLead(spec, spans) = UNION {{spec[k].route} \X all(k) : k \in LastOfName(spec)}
      BY DEF MayLead
    <2> HIDE DEF all
    <2>3. <<spec[i].route, x>> \in {spec[i].route} \X all(i)
      BY <2>1
    <2> QED
      BY <2>2, <2>3
  <1>3. id = END => END \in Lands(spec, target)
    BY <1>1 DEF Lands
  <1>4. ASSUME id \in Operations(spec), id # END PROVE spec[Standing(spec, id)].route \in Lands(spec, target)
    <2>1. Standing(spec, id) \in LastOfName(spec) /\ spec[Standing(spec, id)].id = id
      BY <1>4, StandingIs
    <2> QED
      BY <1>1, <1>4, <2>1 DEF Lands
  <1> QED
    BY <1>1, <1>2, <1>3, <1>4

(* The ways on of a step, as Synthesize writes them down *)
LEMMA WaysOn ==
    ASSUME NEW S, IsFiniteSet(S), S # {}, NEW next, next = SetToSeq({To(target) : target \in S})
    PROVE  /\ \E m \in Nat \ {0} : DOMAIN next = 1..m
           /\ \A k \in DOMAIN next : next[k].condition = Always /\ next[k].target \in S
  <1>1. PICK T : T = {To(target) : target \in S}
    OBVIOUS
  <1>2. [target \in S |-> To(target)] \in Surjection(S, T)
    BY <1>1 DEF Surjection
  <1>3. IsFiniteSet(T) /\ T # {}
    BY <1>1, <1>2, FS_Surjection
  <1>4. PICK m \in Nat \ {0} : next \in [1..m -> T]
    BY <1>1, <1>3, SomeListing
  <1>5. DOMAIN next = 1..m
    BY <1>4
  <1>6. ASSUME NEW k \in 1..m PROVE next[k].condition = Always /\ next[k].target \in S
    <2>1. PICK target \in S : next[k] = To(target)
      BY <1>1, <1>4
    <2> QED
      BY <2>1 DEF To
  <1> QED
    BY <1>5, <1>6

(* Synthesize hands out steps that lead only where the traces may. *)
LEMMA SynthesizeStarts ==
    ASSUME NEW spec \in Specs, NEW spans \in Traces \cup {<<>>}, Synthesize(spec, spans)
    PROVE  \E sc, tl : Hand(sc, tl) /\ Starts(sc, tl)
  <1> DEFINE auth == {i \in DOMAIN spec : spec[i].page \in {"login", "token"}}
             Step(pairs, i) == [Request(spec[i].route, spec[i].page) EXCEPT
                                   !.needs = spec[i].needs, !.gives = spec[i].gives, !.accepts = Answers \cap 200..299,
                                   !.next = SetToSeq({To(Named(spec, target)) : target \in Leads(spec, pairs, i)})]
             Plan(pairs) == [base |-> "", initial |-> spec[IF auth # {} THEN Min(auth) ELSE 1].id,
                             steps |-> [id \in Operations(spec) |-> Step(pairs, Standing(spec, id))]]
             tl == [Silent EXCEPT !.pairs = MayLead(spec, spans), !.limits = {0}]
  <1>1. PICK pairs \in MineBehavioralTransitions(spans) : Hand(Enrich(Plan(pairs)), tl)
    BY DEF Synthesize
  <1>2. tl.walks = {} /\ tl.pairs = MayLead(spec, spans) /\ tl.hosts = {} /\ tl.limits = {0}
    BY DEF Silent
  <1>3. PICK plan : plan = Plan(pairs)
    OBVIOUS
  <1>4. DOMAIN plan = {"base", "initial", "steps"} /\ DOMAIN plan.steps = Operations(spec)
    <2> HIDE DEF Step
    <2> QED
      BY <1>3
  <1>5. Timed(spans)
    BY SpansAreTimed
  <1>6. ASSUME NEW id \in Operations(spec)
        PROVE  /\ IsStep(plan.steps[id]) /\ plan.steps[id].request = spec[Standing(spec, id)].route
               /\ plan.steps[id].pause = 0 /\ plan.steps[id].onFailure = "abort"
               /\ \E m \in Nat \ {0} : DOMAIN plan.steps[id].next = 1..m
               /\ \A k \in DOMAIN plan.steps[id].next :
                     /\ plan.steps[id].next[k].condition = Always
                     /\ \E target \in Leads(spec, pairs, Standing(spec, id)) :
                           plan.steps[id].next[k].target = Named(spec, target)
    <2>1. PICK i \in DOMAIN spec : i = Standing(spec, id)
      BY StandingIs
    <2>3. PICK step : step = plan.steps[id]
      OBVIOUS
    <2>2. PICK S : S = {Named(spec, target) : target \in Leads(spec, pairs, i)}
      OBVIOUS
    <2>4. PICK next : next = SetToSeq({To(name) : name \in S})
      OBVIOUS
    <2>5. step = [Request(spec[i].route, spec[i].page) EXCEPT
                     !.needs = spec[i].needs, !.gives = spec[i].gives, !.accepts = Answers \cap 200..299, !.next = next]
      <3>1. step = Step(pairs, i)
        <4> HIDE DEF Step
        <4> QED
          BY <1>3, <2>1, <2>3
      <3>2. {To(Named(spec, target)) : target \in Leads(spec, pairs, i)} = {To(name) : name \in S}
        BY <2>2
      <3> QED
        BY <2>4, <3>1, <3>2
    <2>6. spec[i].gives \in Seq(Extractors)
      BY ImportConstants
    <2>7. PICK plain : plain = Request(spec[i].route, spec[i].page)
      OBVIOUS
    <2>12. /\ IsStep(plain) /\ plain.request = spec[i].route /\ plain.pause = 0 /\ plain.onFailure = "abort"
           /\ DOMAIN plain = Fields
      BY <2>7, RequestIsStep
    <2>8. IsStep(step) /\ step.request = spec[i].route /\ step.pause = 0 /\ step.onFailure = "abort" /\ step.next = next
      BY <2>5, <2>6, <2>7, <2>12 DEF IsStep, Fields
    <2>10. IsFiniteSet(S) /\ S # {}
      <3>1. PICK L : L = Leads(spec, pairs, i)
        OBVIOUS
      <3>2. IsFiniteSet(L) /\ L # {}
        BY <3>1, LeadsOn
      <3>3. S = {Named(spec, target) : target \in L}
        BY <2>2, <3>1
      <3>4. [target \in L |-> Named(spec, target)] \in Surjection(L, S)
        BY <3>3 DEF Surjection
      <3>5. IsFiniteSet(S)
        BY ONLY <3>2, <3>4, FS_Surjection
      <3> QED
        BY <3>2, <3>3, <3>5
    <2>9. /\ \E m \in Nat \ {0} : DOMAIN next = 1..m
          /\ \A k \in DOMAIN next : next[k].condition = Always /\ next[k].target \in S
      BY <2>4, <2>10, WaysOn
    <2>11. \A k \in DOMAIN next : \E target \in Leads(spec, pairs, i) : next[k].target = Named(spec, target)
      BY <2>2, <2>9
    <2> QED
      BY <2>1, <2>3, <2>8, <2>9, <2>11
  <1> HIDE DEF tl, Plan
  <1>7. PICK sc : sc = Enrich(plan)
    OBVIOUS
  <1>8. /\ DOMAIN sc.steps = Operations(spec)
        /\ \A id \in Operations(spec) :
              /\ IsStep(sc.steps[id])
              /\ sc.steps[id].next = plan.steps[id].next
              /\ sc.steps[id].request = plan.steps[id].request
              /\ sc.steps[id].pause = plan.steps[id].pause
              /\ sc.steps[id].onFailure = plan.steps[id].onFailure
    <2>1. \A id \in DOMAIN plan.steps : IsStep(plan.steps[id])
      BY <1>4, <1>6
    <2> QED
      BY <1>4, <1>7, <2>1, EnrichKeeps
  <1>9. ASSUME NEW id \in Operations(spec), NEW k \in DOMAIN sc.steps[id].next
        PROVE  /\ sc.steps[id].next[k].condition = Always /\ sc.steps[id].next[k].target # <<>>
               /\ sc.steps[id].next[k].target \in DOMAIN sc.steps \cup {END}
               /\ <<sc.steps[id].request, Comes(sc, sc.steps[id].next[k].target)>> \in tl.pairs
    <2>1. PICK i : i = Standing(spec, id)
      OBVIOUS
    <2>2. i \in LastOfName(spec) /\ i \in DOMAIN spec /\ sc.steps[id].request = spec[i].route
      BY <1>6, <1>8, <2>1, StandingIs
    <2>3. PICK next : next = sc.steps[id].next
      OBVIOUS
    <2>4. PICK target \in Leads(spec, pairs, i) : next[k].target = Named(spec, target) /\ next[k].condition = Always
      BY <1>6, <1>8, <1>9, <2>1, <2>3
    <2>5. target \in MayGo(spec, spans, i) /\ target \in Routes(spec) \cup {END}
      BY <1>5, <2>2, <2>4, LeadsWhereTracesMay, LeadsOn
    <2>6. PICK name : name = Named(spec, target)
      OBVIOUS
    <2>7. name \in Operations(spec) \cup {END} /\ name # <<>>
      BY <2>5, <2>6, NamedIs
    <2>8. <<spec[i].route, Comes(sc, name)>> \in MayLead(spec, spans)
      <3>1. CASE name = END
        <4>1. Comes(sc, name) = END
          BY <3>1 DEF Comes
        <4> QED
          BY <2>2, <2>5, <2>6, <3>1, <4>1, LandsWhereMayLead
      <3>2. CASE name # END
        <4>1. name \in Operations(spec)
          BY <2>7, <3>2
        <4>2. Comes(sc, name) = spec[Standing(spec, name)].route
          BY <1>6, <1>8, <3>2, <4>1 DEF Comes
        <4>3. <<spec[i].route, spec[Standing(spec, name)].route>> \in MayLead(spec, spans)
          BY <2>2, <2>5, <2>6, <3>2, <4>1, LandsWhereMayLead
        <4> QED
          BY <4>2, <4>3
      <3> QED
        BY <3>1, <3>2
    <2>9. /\ sc.steps[id].next[k].target = name /\ sc.steps[id].next[k].condition = Always
      BY <2>3, <2>4, <2>6
    <2> QED
      BY <1>2, <1>8, <2>2, <2>7, <2>8, <2>9
  <1>10. HasSteps(sc) /\ Based(sc, tl)
    BY <1>2, <1>8, OperationsFinite DEF HasSteps, Based
  <1>12. Paired(sc, tl)
    <2>1. tl.walks = {} /\ tl.limits = {0}
      BY <1>2
    <2>2. ASSUME NEW id \in DOMAIN sc.steps
          PROVE  /\ sc.steps[id].pause = 0 /\ sc.steps[id].onFailure = "abort"
                 /\ \E m \in Nat \ {0} : DOMAIN sc.steps[id].next = 1..m
      BY <1>6, <1>8
    <2>3. \A id \in DOMAIN sc.steps : \A k \in DOMAIN sc.steps[id].next :
             /\ sc.steps[id].next[k].condition = Always /\ sc.steps[id].next[k].target # <<>>
             /\ sc.steps[id].next[k].target \in DOMAIN sc.steps \cup {END}
             /\ <<sc.steps[id].request, Comes(sc, sc.steps[id].next[k].target)>> \in tl.pairs
      BY <1>8, <1>9
    <2> QED
      BY <2>1, <2>2, <2>3 DEF Paired
  <1>11. Starts(sc, tl)
    BY <1>10, <1>12 DEF Starts
  <1> QED
    BY <1>1, <1>3, <1>7, <1>11

-----------------------------------------------------------------------------
(* All of them together                                                    *)

(* What is written by hand is told nothing about. *)
LEMMA AuthoredStarts ==
    ASSUME NEW sc \in Authored, ParseScenario(sc)
    PROVE  Hand(sc, Silent) /\ Starts(sc, Silent)
  <1>1. HasSteps(sc)
    BY ImportConstants DEF HasSteps
  <1>2. Based(sc, Silent)
    BY DEF Based, Silent
  <1> QED
    BY <1>1, <1>2 DEF ParseScenario, Starts

(* A flattened collection is a list. *)
LEMMA PostmanStarts ==
    ASSUME NEW tree \in Collections, NEW base, ImportPostmanCollection(tree, base)
    PROVE  \E sc, tl : Hand(sc, tl) /\ Starts(sc, tl)
  <1>1. PICK list : list = flattenPostmanItems(tree)
    OBVIOUS
  <1>2. list \in {flattenPostmanItems(t) : t \in Collections}
    BY <1>1
  <1>3. list \in Seq(ToSet(list))
    BY <1>2, ImportConstants DEF Listed
  <1>4. ImportListed(list, base)
    BY <1>1 DEF ImportPostmanCollection
  <1> QED
    BY <1>3, <1>4, ListedStarts

(* Every importer hands out something that is in order. *)
LEMMA ImportStarts ==
    ASSUME Import
    PROVE  \E sc, tl : Hand(sc, tl) /\ Starts(sc, tl)
  <1>1. \A list \in Recordings \cup Exports : list \in Seq(ToSet(list))
    BY ImportConstants DEF Listed
  <1>2. CASE \E base \in Bases : \E entries \in Recordings : ImportHAR(entries, base)
    BY <1>1, <1>2, HARStarts
  <1>3. CASE \E base \in Bases : \E tree \in Collections : ImportPostmanCollection(tree, base)
    BY <1>3, PostmanStarts
  <1>4. CASE \E base \in Bases : \E calls \in Recordings : ImportK6Script(calls, base)
    BY <1>1, <1>4, ListedStarts DEF ImportK6Script
  <1>5. CASE \E base \in Bases : \E samplers \in Recordings : ImportJMeterPlan(samplers, base)
    BY <1>1, <1>5, ListedStarts DEF ImportJMeterPlan
  <1>6. CASE \E base \in Bases : \E resources \in Exports : ImportInsomniaCollection(resources, base)
    BY <1>1, <1>6, InsomniaStarts
  <1>7. CASE \E spans \in Traces : \E i \in DOMAIN spans : BuildReplayScenario(spans[i].trace, spans)
    BY <1>7, ReplayStarts
  <1>8. CASE \E site \in Sites : AutoDiscover(site)
    BY <1>8, CrawlStarts
  <1>9. CASE \E spec \in Specs, spans \in Traces \cup {<<>>} : Synthesize(spec, spans)
    BY <1>9, SynthesizeStarts
  <1>10. CASE \E sc \in Authored : ParseScenario(sc)
    BY <1>10, AuthoredStarts
  <1> QED
    BY <1>2, <1>3, <1>4, <1>5, <1>6, <1>7, <1>8, <1>9, <1>10 DEF Import

(* Every step keeps the invariant. *)
LEMMA FollowIsInductive ==
    ASSUME FollowInv(scenario, told, user), [ImportNext]_importVars
    PROVE  FollowInv(scenario, told, user)'
  <1>1. ASSUME NEW sc, NEW tl, ValidateScenario(sc), Starts(sc, tl),
               scenario' = sc, told' = tl, user' = user, user = Nobody
        PROVE  FollowInv(scenario, told, user)'
    <2>1. FollowInv(sc, tl, Nobody)
      BY <1>1, StartsFollow
    <2>2. FollowInv(scenario', told', user')
      BY <1>1, <2>1
    <2> QED
      BY <2>2
  <1>2. CASE Import
    <2>1. PICK sc, tl : Hand(sc, tl) /\ Starts(sc, tl)
      BY <1>2, ImportStarts
    <2>2. user = Nobody
      BY <1>2 DEF Import, FollowInv
    <2> QED
      BY <1>1, <2>1, <2>2 DEF Hand
  <1>3. CASE BuildFuzzScenario
    <2>1. PICK sc, tl : /\ ValidateScenario(sc) /\ Starts(sc, tl)
                        /\ scenario' = sc /\ told' = tl /\ user' = user /\ user = Nobody
      BY <1>3, FuzzStarts
    <2> QED
      BY <1>1, <2>1
  <1>4. CASE Walk /\ UNCHANGED told
    BY <1>4, WalkKeepsFollow
  <1>5. CASE UNCHANGED importVars
    <2>1. scenario' = scenario /\ told' = told /\ user' = user
      BY <1>5 DEF importVars, journeyVars
    <2>2. FollowInv(scenario', told', user')
      BY <2>1
    <2> QED
      BY <2>2
  <1> QED
    BY <1>2, <1>3, <1>4, <1>5 DEF ImportNext

(* It holds before there is a scenario. *)
LEMMA FollowInitially == ImportInit => FollowInv(scenario, told, user)
  <1> SUFFICES ASSUME ImportInit PROVE FollowInv(scenario, told, user)
    OBVIOUS
  <1>1. scenario = NoScenario /\ user = Nobody /\ told = Silent
    BY DEF ImportInit, JourneyInit
  <1>2. /\ DOMAIN Nobody = {"at", "sent", "vars", "paused", "steps", "state"}
        /\ Nobody.state = "absent" /\ Nobody.steps = 0 /\ Nobody.paused = 0 /\ Nobody.vars = {}
        /\ Nobody.sent = <<>>
    BY DEF Nobody
  <1>3. <<>> \in Seq(Requested(scenario)) /\ Len(<<>>) = 0 /\ 0 \in 0..MaxStepTransitions /\ 0 <= 0 /\ 0 \in Nat
    BY JourneyConstants
  <1>4. "absent" \in States /\ "walking" # "absent"
    BY DEF States
  <1>5. UserFits(scenario, Nobody)
    BY <1>2, <1>3, <1>4 DEF UserFits
  <1>6. Based(scenario, told)
    <2>1. Silent.hosts = {}
      BY DEF Silent
    <2> QED
      BY <1>1, <2>1 DEF Based
  <1> QED
    BY <1>1, <1>5, <1>6 DEF FollowInv, Follow

(* So it always holds. *)
LEMMA FollowAlways == ImportSpec => []FollowInv(scenario, told, user)
  BY FollowInitially, FollowIsInductive, PTL DEF ImportSpec

(* What an importer hands out is a valid scenario, as ValidateScenario    *)
(* sees it, and a session through it keeps within the limit of steps      *)
(* (pkg/scenario/parser.go, pkg/vusession/engine.go).                      *)
THEOREM ImportTypeCorrect == ImportSpec => []ImportTypeOK
  <1>1. FollowInv(scenario, told, user) => ImportTypeOK
    BY FollowImplies
  <1> QED
    BY <1>1, FollowAlways, PTL

(* The paths a session sends are those of the source, in one of the       *)
(* orders the source has, each once and to the last, at the base of the   *)
(* caller or the first host of the source.  Of mined traffic it goes only *)
(* where a trace went, or on to the next; of operations with one name only *)
(* the last is sent.  The pauses of a replay fit into the recording unless *)
(* a span ends before it starts.  Only a scenario that somebody has        *)
(* written, with spaces around a target, leads to a step that does not     *)
(* exist (pkg/generator: the importers, replay_scenario.go, synthesizer.go, *)
(* fuzz.go; pkg/scenario/parser.go:88).                                    *)
THEOREM JourneyFaithful == ImportSpec => []JourneyIsFaithful
  <1>1. FollowInv(scenario, told, user) => JourneyIsFaithful
    BY FollowImplies
  <1> QED
    BY <1>1, FollowAlways, PTL

-----------------------------------------------------------------------------
(* All the services side by side                                           *)

(* The parts keep their invariants, and a step of one leaves the variables of
   the others alone. *)
ServicesInv ==
    GameDayTypeOK /\ VerificationInv /\ PresetInv /\ MetricsInv /\ FollowInv(scenario, told, user) /\ DiagInv

(* Each begins with its own, *)
LEMMA ServicesInitially ==
    ASSUME GameDayConstants, VerificationConstants, Init PROVE ServicesInv
<1>1. GameDayTypeOK /\ VerificationInv
  BY GameDayTypeInit, VerificationInvInit DEF Init
<1>2. PresetInv /\ MetricsInv /\ DiagInv
  BY PresetInitial, MetricsInitially, DiagInitInv DEF Init
<1>3. FollowInv(scenario, told, user)
  BY FollowInitially DEF Init
<1> QED BY <1>1, <1>2, <1>3 DEF ServicesInv

(* and keeps it, whoever takes a step. *)
LEMMA ServicesStep ==
    ASSUME GameDayConstants, VerificationConstants, ServicesInv,
           [Next]_<<focus, gameDayVars, verificationVars, presetVars, metricsVars, importVars, diagVars>>
    PROVE  ServicesInv'
<1> DEFINE all == <<focus, gameDayVars, verificationVars, presetVars, metricsVars, importVars, diagVars>>
<1>1. /\ [GameDayNext]_gameDayVars /\ [VerificationNext]_verificationVars /\ [PresetNext]_presetVars
      /\ [MetricsNext]_metricsVars /\ [ImportNext]_importVars /\ [DiagNext]_diagVars
  <2>1. CASE GameDays
    BY <2>1 DEF GameDays
  <2>2. CASE Verification
    BY <2>2 DEF Verification
  <2>3. CASE Presets
    BY <2>3 DEF Presets
  <2>4. CASE Metrics
    BY <2>4 DEF Metrics
  <2>5. CASE Imports
    BY <2>5 DEF Imports
  <2>6. CASE Diagnosis
    BY <2>6 DEF Diagnosis
  <2>7. CASE UNCHANGED all
    BY <2>7
  <2> QED BY <2>1, <2>2, <2>3, <2>4, <2>5, <2>6, <2>7 DEF Next
<1>2. GameDayTypeOK'
  BY <1>1, GameDayTypeNext DEF ServicesInv
<1>3. VerificationInv'
  BY <1>1, VerificationInvNext DEF ServicesInv
<1>4. PresetInv'
  BY <1>1, PresetStep DEF ServicesInv
<1>5. MetricsInv'
  BY <1>1, MetricsStep DEF ServicesInv
<1>6. FollowInv(scenario, told, user)'
  BY <1>1, FollowIsInductive DEF ServicesInv
<1>7. DiagInv'
  BY <1>1, DiagNextInv DEF ServicesInv
<1> QED BY <1>2, <1>3, <1>4, <1>5, <1>6, <1>7 DEF ServicesInv

(* Whichever of the services goes on, every variable of every one of them
   keeps its type, and the list of presets names those there are. *)
THEOREM ServicesTypeCorrect ==
    ASSUME GameDayConstants, VerificationConstants PROVE Spec => []TypeOK
<1>1. ServicesInv => TypeOK
  <2> SUFFICES ASSUME ServicesInv PROVE TypeOK
    OBVIOUS
  <2>1. GameDayTypeOK /\ ImportTypeOK
    BY FollowImplies DEF ServicesInv
  <2>2. VerificationTypeOK
    BY VerificationInvTypes DEF ServicesInv
  <2>3. PresetTypeOK /\ MetricsTypeOK /\ DiagTypeOK
    BY PresetInvTypes, MetricsInvTypes, DiagInvTypes DEF ServicesInv
  <2> QED BY <2>1, <2>2, <2>3 DEF TypeOK
<1> QED BY <1>1, ServicesInitially, ServicesStep, PTL DEF Spec
=============================================================================
