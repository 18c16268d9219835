----------------------------- MODULE SystemLog ------------------------------
(***************************************************************************)
(* The ring of recent log entries (pkg/server/logbuffer.go) and the        *)
(* handlers that read, stream and clear it (handler.go).  Every method     *)
(* holds the mutex throughout and is one step; the handler of a stream     *)
(* copies the recent entries in one and subscribes in another.             *)
(*                                                                         *)
(* An entry is its number.  What Write splits is a message of several      *)
(* lines, each added under the lock by itself; level and time are left     *)
(* out.                                                                    *)
(***************************************************************************)
EXTENDS Integers, Sequences

CONSTANTS
    Readers,      \* the connections that stream the log
    LogCapacity,  \* LogBuffer.capacity
    Backlog,      \* the limit of GetRecent when a stream connects
    LogBuffering, \* the size of a subscriber's channel
    MaxEntries    \* bound: entries logged

ASSUME LogConstants ==
    /\ LogCapacity \in Nat \ {0}
    /\ Backlog \in Nat \ {0}
    /\ LogBuffering \in Nat \ {0}
    /\ MaxEntries \in Nat

VARIABLES
    lastEntry,    \* history: the number of the last entry
    unwritten,    \* the lines of the message at hand that are not added yet
    entries,      \* LogBuffer.entries
    followers,    \* LogBuffer.subscribers
    reader,       \* per connection: where its handler is
    page,         \* per connection: what the handler copied or was sent
    written,      \* per connection: how much of it has gone to the browser
    copiedAt,     \* history: the last entry when the handler copied
    followsFrom,  \* history: the last entry when it subscribed
    overflow      \* history: the entries it missed with a full channel

logVars == <<lastEntry, unwritten, entries, followers, reader, page, written, copiedAt,
             followsFrom, overflow>>
readerVars == <<followers, reader, page, written, copiedAt, followsFrom, overflow>>

LogInit ==
    /\ lastEntry = 0
    /\ unwritten = 0
    /\ entries = <<>>
    /\ followers = {}
    /\ reader = [c \in Readers |-> "idle"]
    /\ page = [c \in Readers |-> <<>>]
    /\ written = [c \in Readers |-> 0]
    /\ copiedAt = [c \in Readers |-> 0]
    /\ followsFrom = [c \in Readers |-> 0]
    /\ overflow = [c \in Readers |-> {}]

-----------------------------------------------------------------------------
(* log.Logger passes on one message at a time. *)
WriteMessage(lines) ==
    /\ unwritten = 0
    /\ unwritten' = lines
    /\ UNCHANGED <<lastEntry, entries, readerVars>>

Awaiting(c) == Len(page[c]) - written[c]

Room(c) == Awaiting(c) < LogBuffering

(* The oldest entry makes room before the newest is appended. *)
Kept == IF Len(entries) >= LogCapacity THEN Tail(entries) ELSE entries

Add ==
    LET entry == lastEntry + 1 IN
    /\ unwritten > 0
    /\ unwritten' = unwritten - 1
    /\ lastEntry < MaxEntries
    /\ lastEntry' = entry
    /\ entries' = Append(Kept, entry)
    /\ page' = [c \in Readers |->
                  IF c \in followers /\ Room(c) THEN Append(page[c], entry) ELSE page[c]]
    /\ overflow' = [c \in Readers |->
                      IF c \in followers /\ ~Room(c) THEN overflow[c] \cup {entry}
                      ELSE overflow[c]]
    /\ UNCHANGED <<followers, reader, written, copiedAt, followsFrom>>

GetRecent(limit) ==
    LET total == Len(entries)
        count == IF limit <= 0 \/ limit > total THEN total ELSE limit
    IN  SubSeq(entries, total - count + 1, total)

Clear ==
    /\ entries # <<>>
    /\ entries' = <<>>
    /\ UNCHANGED <<lastEntry, unwritten, readerVars>>

-----------------------------------------------------------------------------
(* Mutant: the handler subscribes first and then copies the recent entries,
   so that none is missed; what is logged in between it gets twice. *)
OpenLogStream_SubscribesFirst(c) ==
    \/ /\ reader[c] = "idle"
       /\ followers' = followers \cup {c}
       /\ followsFrom' = [followsFrom EXCEPT ![c] = lastEntry]
       /\ reader' = [reader EXCEPT ![c] = "copied"]
       /\ UNCHANGED <<page, written, copiedAt>>
    \/ /\ reader[c] = "copied"
       /\ page' = [page EXCEPT ![c] = GetRecent(Backlog) \o @]
       /\ written' = [written EXCEPT ![c] = Len(GetRecent(Backlog))]
       /\ copiedAt' = [copiedAt EXCEPT ![c] = lastEntry]
       /\ reader' = [reader EXCEPT ![c] = "streaming"]
       /\ UNCHANGED <<followers, followsFrom>>

(* The two steps in which a connection gets to its stream: what it copied is
   written before it subscribes. *)
OpenLogStream(c) ==
    \/ /\ reader[c] = "idle"
       /\ page' = [page EXCEPT ![c] = GetRecent(Backlog)]
       /\ written' = [written EXCEPT ![c] = Len(GetRecent(Backlog))]
       /\ copiedAt' = [copiedAt EXCEPT ![c] = lastEntry]
       /\ reader' = [reader EXCEPT ![c] = "copied"]
       /\ UNCHANGED <<followers, followsFrom>>
    \/ /\ reader[c] = "copied"
       /\ followers' = followers \cup {c}
       /\ followsFrom' = [followsFrom EXCEPT ![c] = lastEntry]
       /\ reader' = [reader EXCEPT ![c] = "streaming"]
       /\ UNCHANGED <<page, written, copiedAt>>

(* The handler writes an entry, or its request is over and it unsubscribes;
   the channel is closed by nobody else. *)
StreamLogs(c) ==
    /\ reader[c] = "streaming"
    /\ \/ /\ Awaiting(c) > 0
          /\ written' = [written EXCEPT ![c] = @ + 1]
          /\ UNCHANGED <<followers, reader>>
       \/ /\ followers' = followers \ {c}
          /\ reader' = [reader EXCEPT ![c] = "done"]
          /\ UNCHANGED written
    /\ UNCHANGED <<page, copiedAt, followsFrom>>

LogNext ==
    \/ \E lines \in 1..2 : WriteMessage(lines)
    \/ Add
    \/ Clear
    \/ \E c \in Readers :
          (OpenLogStream(c) \/ StreamLogs(c))
             /\ UNCHANGED <<lastEntry, unwritten, entries, overflow>>

LogSpec == LogInit /\ [][LogNext]_logVars

-----------------------------------------------------------------------------
LogTypeOK ==
    /\ lastEntry \in Nat
    /\ unwritten \in Nat
    /\ entries \in Seq(Nat)
    /\ followers \subseteq Readers
    /\ reader \in [Readers -> {"idle", "copied", "streaming", "done"}]
    /\ page \in [Readers -> Seq(Nat)]
    /\ written \in [Readers -> Nat]
    /\ copiedAt \in [Readers -> Nat]
    /\ followsFrom \in [Readers -> Nat]
    /\ overflow \in [Readers -> SUBSET Nat]

(* A connection is shown the entries in the order they were logged and none
   twice, across the seam between its copy of the recent ones and its
   subscription; while it is subscribed, an entry logged since that it was not
   shown it missed because its channel was full.  (What is logged in the seam
   itself nobody shows it.) *)
LogIsInOrder ==
    \A c \in Readers : \A i, j \in 1..Len(page[c]) : i < j => page[c][i] < page[c][j]

LogIsFollowed ==
    \A c \in followers : \A n \in (followsFrom[c] + 1)..lastEntry :
       n \in overflow[c] \/ \E i \in 1..Len(page[c]) : page[c][i] = n

LogIsFaithful == LogIsInOrder /\ LogIsFollowed
=============================================================================
