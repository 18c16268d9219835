--------------------------- MODULE ResourceStress ---------------------------
(***************************************************************************)
(* The driver that burdens the CPU, the memory and the disk of its host    *)
(* (pkg/chaos/resource_stress.go).  Apply starts workers and a watcher     *)
(* under a context that ends with the fault's duration, with the next      *)
(* Apply or with Revert; workers and watcher notice that on their own.     *)
(* The context of Apply's caller is not looked at.                         *)
(***************************************************************************)
EXTENDS Integers

CONSTANTS
    StressFaults,   \* the faults that may be applied
    StressIdOf,     \* the ID of a fault
    StressKinds,    \* what a fault burdens: sets of "cpu", "memory", "disk"
    MaxStresses     \* bound: calls of Apply

ASSUME StressConstants ==
    /\ StressKinds \in [StressFaults -> SUBSET {"cpu", "memory", "disk"}]
    /\ MaxStresses \in Nat

VARIABLES
    started,     \* the number of the last stress
    ended,       \* the stresses whose context is done
    stressFault, \* the fault of every stress
    current,     \* driver.cancel: the stress it ends, or NoStress
    workers,     \* the workers that run: <<stress, kind>>
    watchers,    \* the stresses whose watcher waits
    stress,      \* driver.status: the state, and the fault when injected
    tempDir,     \* driver.tempDir: the stress it was made for, or NoStress
    directories  \* the directories on the disk

stressVars == <<started, ended, stressFault, current, workers, watchers, stress, tempDir,
                directories>>

NoStress == 0
NoStressFault == "no fault"
Stresses == 1..MaxStresses
StressStatus(state, f) == [state |-> state, fault |-> f]

StressInit ==
    /\ started = 0
    /\ ended = {}
    /\ stressFault = [n \in Stresses |-> NoStressFault]
    /\ current = NoStress
    /\ workers = {}
    /\ watchers = {}
    /\ stress = StressStatus("idle", NoStressFault)
    /\ tempDir = NoStress
    /\ directories = {}

-----------------------------------------------------------------------------
(* Mutant: Apply does not end the stress before. *)
Superseded_None == {}

Superseded == {current} \ {NoStress}

(* Without a directory for the disk worker Apply fails; the workers it has
   started are ended, the status is left as it was. *)
ApplyStress(f, hasDirectory) ==
    LET n == started + 1
        fails == "disk" \in StressKinds[f] /\ ~hasDirectory
        begun == IF fails THEN StressKinds[f] \ {"disk"} ELSE StressKinds[f]
    IN  /\ started < MaxStresses
        /\ StressKinds[f] # {}
        /\ started' = n
        /\ stressFault' = [stressFault EXCEPT ![n] = f]
        /\ current' = n
        /\ ended' = ended \cup Superseded \cup (IF fails THEN {n} ELSE {})
        /\ workers' = workers \cup ({n} \X begun)
        /\ IF "disk" \in begun
           THEN tempDir' = n /\ directories' = directories \cup {n}
           ELSE UNCHANGED <<tempDir, directories>>
        /\ IF fails
           THEN UNCHANGED <<watchers, stress>>
           ELSE watchers' = watchers \cup {n} /\ stress' = StressStatus("injected", f)

RevertStress ==
    /\ ended' = ended \cup Superseded
    /\ current' = NoStress
    /\ directories' = directories \ {tempDir}
    /\ tempDir' = NoStress
    /\ stress' = StressStatus("reverted", NoStressFault)
    /\ UNCHANGED <<started, stressFault, workers, watchers>>

(* Mutant: the context has no deadline. *)
StressExpires_Never(n) == n \in {} /\ UNCHANGED stressVars

(* The duration of a fault is over. *)
StressExpires(n) ==
    /\ n \in 1..started /\ n \notin ended
    /\ ended' = ended \cup {n}
    /\ UNCHANGED <<started, stressFault, current, workers, watchers, stress, tempDir, directories>>

IsWatched(n) == StressIdOf[stress.fault] = StressIdOf[stressFault[n]]

(* The watcher knows its fault by the ID only: it may end the status of a
   newer stress, whose workers go on. *)
Watch(n) ==
    /\ n \in watchers \cap ended
    /\ watchers' = watchers \ {n}
    /\ IF stress.state = "injected" /\ IsWatched(n)
       THEN stress' = StressStatus("reverted", NoStressFault)
       ELSE UNCHANGED stress
    /\ UNCHANGED <<started, ended, stressFault, current, workers, tempDir, directories>>

(* A worker that is told to stop does; the disk worker also gives up when it
   cannot create its file. *)
WorkerReturns(n, kind) ==
    /\ <<n, kind>> \in workers
    /\ n \in ended \/ kind = "disk"
    /\ workers' = workers \ {<<n, kind>>}
    /\ UNCHANGED <<started, ended, stressFault, current, watchers, stress, tempDir, directories>>

StressNext ==
    \/ \E f \in StressFaults, hasDirectory \in BOOLEAN : ApplyStress(f, hasDirectory)
    \/ RevertStress
    \/ \E n \in Stresses : StressExpires(n) \/ Watch(n)
    \/ \E n \in Stresses, kind \in {"cpu", "memory", "disk"} : WorkerReturns(n, kind)

StressSpec == StressInit /\ [][StressNext]_stressVars

-----------------------------------------------------------------------------
(* Whatever still burdens the host and has not been told to stop, a Revert
   would stop: at most one stress goes on, and it is the one the driver can
   cancel. *)
StressIsHeld == \A n \in 1..started : n \notin ended => n = current

StressTypeOK ==
    /\ started \in 0..MaxStresses
    /\ ended \subseteq 1..started
    /\ stressFault \in [Stresses -> StressFaults \cup {NoStressFault}]
    /\ current \in 0..started
    /\ workers \subseteq (1..started) \X {"cpu", "memory", "disk"}
    /\ watchers \subseteq 1..started
    /\ stress \in [state : {"idle", "injected", "reverted"},
                   fault : StressFaults \cup {NoStressFault}]
    /\ tempDir \in 0..started
    /\ directories \subseteq 1..started
    /\ StressIsHeld

(* A stress that is reported as injected does not stay so for good, and every
   worker returns, without anybody calling Revert. *)
StressEnds ==
    /\ stress.state = "injected" ~> stress.state # "injected"
    /\ workers # {} ~> workers = {}
=============================================================================
