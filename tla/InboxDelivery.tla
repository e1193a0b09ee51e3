--------------------------- MODULE InboxDelivery ---------------------------
(***************************************************************************)
(* The inbound half of adapter.py: wrappers drop JSON files into           *)
(* inbox/<bridge>/, the poll task sweeps the directories, hands each chat  *)
(* message to the gateway (handle_message) and unlinks the file.           *)
(*                                                                         *)
(* The adapter is one asyncio task that gives up control only while it     *)
(* awaits handle_message or the reaction handler and between two sweeps;   *)
(* the wrappers are other processes and write at any time, and the         *)
(* adapter process may be killed between any two of its file operations.   *)
(***************************************************************************)
EXTENDS Integers, Sequences, FiniteSets

CONSTANTS
    Files,               \* inbox file names a wrapper may use
    Bridges,             \* registered bridges
    BridgeOrder,         \* self._bridges, the order a sweep visits them in
    BridgeOf,            \* the bridge in whose directory a file lies
    IdOf,                \* the wrapper's message id in the file, or NoId
    NoId,
    RawFiles,            \* files written in place, without the SDK
    MayHold,             \* the kinds of message a file may hold
    ParseFailureLimit,   \* PARSE_FAILURE_LIMIT
    DedupCap,            \* DEDUP_CAP
    MaxWrites,           \* bound: how often a wrapper writes each file
    MaxStops,            \* bound: crashes plus disconnects
    MaxFaults,           \* bound: failing renames, unlinks and handlers
    MaxExpiries          \* bound: dedup entries that outlive DEDUP_TTL

\* What the adapter does with a message: hand it to the gateway; refuse it (a
\* group message without a mention, a command of an unauthorized sender); absorb
\* it (a /unified command, a message a digest buffer or a protokoll collects);
\* call the reaction handler; leave it (no sender); fail on it (JSON that is not
\* a message); fail to parse it; fail to decode it (bytes that are not UTF-8);
\* or reject it as a symbolic link.
Kinds == {"chat", "refused", "absorbed", "reaction",
          "nosender", "malformed", "corrupt", "undecodable", "link"}

HasId(f) == IdOf[f] # NoId

\* The dedup key "<bridge>~<local id>".
Key(f) == <<BridgeOf[f], IdOf[f]>>

Keys == {Key(f) : f \in {g \in Files : HasId(g)}}

ASSUME InboxAssumption ==
    /\ IsFiniteSet(Files) /\ "none" \notin Files
    /\ BridgeOrder \in Seq(Bridges)
    /\ BridgeOf \in [Files -> Bridges]
    /\ DOMAIN IdOf = Files
    /\ RawFiles \subseteq Files
    /\ MayHold \in [Files -> SUBSET Kinds]
    /\ ParseFailureLimit \in Nat \ {0}
    /\ DedupCap \in Nat \ {0}
    /\ MaxWrites \in [Files -> Nat] /\ MaxStops \in Nat
    /\ MaxFaults \in Nat /\ MaxExpiries \in Nat

VARIABLES
    kind,         \* what each file's message is (chosen once)
    file,         \* "absent", "torn" (being written) or "whole"
    inbox,        \* per bridge, the present files by modification time
    quarantined,  \* files renamed to *.json.corrupt
    proc,         \* the adapter: "running", "disconnected" or "dead"
    phase,        \* where the poll task is
    bridgesLeft,  \* bridges this sweep has not listed yet
    todo,         \* rest of the listing of the current bridge
    cur,          \* the file being processed, or NoFile
    seen,         \* _seen_files
    failures,     \* _parse_failures
    dedup,        \* keys of dedup_map.json
    newer,        \* per key, the keys recorded after it: the order of "ts"
    aged,         \* recorded keys whose ts is older than DEDUP_TTL
    budget,       \* what is left of the bounds
    served,       \* history: files whose message was taken over
    handed,       \* history: hand-offs of a key since it last lapsed
    lapsed,       \* history: keys the dedup window no longer covers
    gaveUp        \* history: files the running adapter has abandoned

vars == <<kind, file, inbox, quarantined, proc, phase, bridgesLeft, todo, cur,
          seen, failures, dedup, newer, aged, budget, served, handed, lapsed,
          gaveUp>>

disk     == <<kind, file, inbox, quarantined>>
sweep    == <<bridgesLeft, todo>>
window   == <<dedup, newer, aged>>
history  == <<served, handed, lapsed, gaveUp>>

NoFile == "none"
Phases == {"idle", "sweep", "recorded", "handing", "reacting", "done"}

Init ==
    /\ kind \in {k \in [Files -> Kinds] : \A f \in Files : k[f] \in MayHold[f]}
    /\ file = [f \in Files |-> "absent"]
    /\ inbox = [b \in Bridges |-> <<>>]
    /\ quarantined = {}
    /\ proc = "running" /\ phase = "idle"
    /\ bridgesLeft = <<>> /\ todo = <<>> /\ cur = NoFile
    /\ seen = {} /\ failures = [f \in Files |-> 0]
    /\ dedup = {} /\ newer = [k \in Keys |-> {}] /\ aged = {}
    /\ budget = [writes |-> MaxWrites,
                 stops |-> MaxStops, faults |-> MaxFaults,
                 expiries |-> MaxExpiries]
    /\ served = {} /\ handed = [k \in Keys |-> 0] /\ lapsed = {} /\ gaveUp = {}

----------------------------------------------------------------------------
(* Directories. *)

\* s without the first occurrence of f.
Without(s, f) ==
    IF \E i \in 1..Len(s) : s[i] = f
    THEN LET i == CHOOSE j \in 1..Len(s) : s[j] = f
         IN  SubSeq(s, 1, i - 1) \o SubSeq(s, i + 1, Len(s))
    ELSE s

\* f becomes the most recently modified file of its directory.
Touched(f) ==
    [inbox EXCEPT ![BridgeOf[f]] = Append(Without(@, f), f)]

\* f's name disappears from its directory.
Removed(f) ==
    /\ file' = [file EXCEPT ![f] = "absent"]
    /\ inbox' = [inbox EXCEPT ![BridgeOf[f]] = Without(@, f)]

Fault ==
    /\ budget.faults > 0
    /\ budget' = [budget EXCEPT !.faults = @ - 1]

----------------------------------------------------------------------------
(* The wrappers. *)

\* The wrapper writes a temporary file and renames it over f.  An id-carrying
\* message may be written again (a retry); an id-less name is used once.
WrapperWrites(f) ==
    /\ budget.writes[f] > 0 /\ f \notin RawFiles
    /\ file' = [file EXCEPT ![f] = "whole"]
    /\ inbox' = Touched(f)
    /\ budget' = [budget EXCEPT !.writes[f] = @ - 1]
    /\ UNCHANGED <<kind, quarantined, proc, phase, sweep, cur, seen, failures,
                   window, history>>

\* A wrapper without the SDK opens f for writing in place ...
RawWriteBegins(f) ==
    /\ budget.writes[f] > 0 /\ f \in RawFiles /\ file[f] = "absent"
    /\ file' = [file EXCEPT ![f] = "torn"]
    /\ inbox' = Touched(f)
    /\ budget' = [budget EXCEPT !.writes[f] = @ - 1]
    /\ UNCHANGED <<kind, quarantined, proc, phase, sweep, cur, seen, failures,
                   window, history>>

\* ... and completes it.  It may also die and leave f torn.
RawWriteEnds(f) ==
    /\ file[f] = "torn"
    /\ file' = [file EXCEPT ![f] = "whole"]
    /\ inbox' = Touched(f)
    /\ UNCHANGED <<kind, quarantined, proc, phase, sweep, cur, seen, failures,
                   window, budget, history>>

----------------------------------------------------------------------------
(* The sweep: _poll_loop and _poll_all. *)

\* _poll_loop wakes up and calls _poll_all.
BeginSweep ==
    /\ proc = "running" /\ phase = "idle"
    /\ phase' = "sweep" /\ bridgesLeft' = BridgeOrder
    /\ UNCHANGED <<disk, proc, todo, cur, seen, failures, window, budget, history>>

\* Mutant: the listing is not sorted by modification time.
ListBridgeUnsorted ==
    /\ phase = "sweep" /\ todo = <<>> /\ bridgesLeft # <<>>
    /\ LET q == inbox[Head(bridgesLeft)]
       IN  todo' = [i \in 1..Len(q) |-> q[Len(q) + 1 - i]]
    /\ bridgesLeft' = Tail(bridgesLeft)
    /\ UNCHANGED <<disk, proc, phase, cur, seen, failures, window, budget, history>>

\* The next bridge's directory is listed, sorted by modification time.
ListBridge ==
    /\ phase = "sweep" /\ todo = <<>> /\ bridgesLeft # <<>>
    /\ todo' = inbox[Head(bridgesLeft)]
    /\ bridgesLeft' = Tail(bridgesLeft)
    /\ UNCHANGED <<disk, proc, phase, cur, seen, failures, window, budget, history>>

\* A file that is gone before its stat fails the listing: the temporary file of a
\* write that is completed meanwhile.  The bridge is passed over in this sweep.
ListFails ==
    /\ phase = "sweep" /\ todo = <<>> /\ bridgesLeft # <<>>
    /\ bridgesLeft' = Tail(bridgesLeft)
    /\ UNCHANGED <<disk, proc, phase, todo, cur, seen, failures, window, budget, history>>

EndSweep ==
    /\ phase = "sweep" /\ todo = <<>> /\ bridgesLeft = <<>>
    /\ phase' = "idle"
    /\ UNCHANGED <<disk, proc, sweep, cur, seen, failures, window, budget, history>>

\* f is the next file of the listing.
Visits(f) ==
    /\ phase = "sweep" /\ todo # <<>> /\ f = Head(todo)
    /\ todo' = Tail(todo)
    /\ UNCHANGED <<kind, proc, bridgesLeft>>

\* A symbolic link is marked and never read.
RejectLink(f) ==
    /\ Visits(f) /\ kind[f] = "link"
    /\ seen' = seen \cup {f}
    /\ UNCHANGED <<file, inbox, quarantined, phase, cur, failures, window, budget,
                   history>>

SkipSeen(f) ==
    /\ Visits(f) /\ kind[f] # "link" /\ f \in seen
    /\ UNCHANGED <<file, inbox, quarantined, phase, cur, seen, failures, window,
                   budget, history>>

Unread(f) == Visits(f) /\ kind[f] # "link" /\ f \notin seen

Parses(f) == file[f] = "whole" /\ kind[f] \notin {"corrupt", "undecodable"}

\* json.loads or read_text raises what the sweep expects: an OSError for a file
\* that is gone, a JSONDecodeError for one that is torn or corrupt.
BadRead(f) ==
    \/ file[f] # "whole"
    \/ kind[f] = "corrupt"

\* Mutant: a file that does not parse is marked at once (before T-097).
MarkBadRead(f) ==
    /\ Unread(f) /\ BadRead(f)
    /\ failures[f] + 1 < ParseFailureLimit
    /\ seen' = seen \cup {f}
    /\ UNCHANGED <<file, inbox, quarantined, phase, cur, failures, window, budget,
                   history>>

\* The read fails and is counted.
CountBadRead(f) ==
    /\ Unread(f) /\ BadRead(f)
    /\ failures[f] + 1 < ParseFailureLimit
    /\ failures' = [failures EXCEPT ![f] = @ + 1]
    /\ UNCHANGED <<file, inbox, quarantined, phase, cur, seen, window, budget,
                   history>>

\* The last allowed read fails: f is renamed to *.corrupt and its name marked.
Quarantine(f) ==
    /\ Unread(f) /\ BadRead(f)
    /\ failures[f] + 1 >= ParseFailureLimit
    /\ failures' = [failures EXCEPT ![f] = 0]
    /\ seen' = seen \cup {f}
    /\ gaveUp' = gaveUp \cup {f}
    /\ \/ /\ Removed(f)
          /\ quarantined' = quarantined \cup {f}
          /\ UNCHANGED budget
       \/ /\ Fault                                \* the rename fails, quietly
          /\ UNCHANGED <<file, inbox, quarantined>>
    /\ UNCHANGED <<phase, cur, window, served, handed, lapsed>>

\* The file is read; it is marked before its message is looked at.
Reads(f) ==
    /\ Unread(f) /\ Parses(f)
    /\ failures' = [failures EXCEPT ![f] = 0]

\* _unlink_inbox_file: a failing unlink is ignored, the mark goes either way.
Unlinks(f) ==
    /\ seen' = seen \ {f}
    /\ \/ Removed(f) /\ UNCHANGED budget
       \/ Fault /\ UNCHANGED <<file, inbox>>

\* An exception leaves _poll_all: the rest of the sweep is skipped.
AbortSweep ==
    /\ phase' = "idle" /\ bridgesLeft' = <<>> /\ todo' = <<>> /\ cur' = NoFile

\* A file that is not UTF-8, or is torn inside a character, raises
\* UnicodeDecodeError instead, which no except clause of the sweep names: it is
\* neither counted nor marked, and the sweep ends here every time.
FailOnUndecodable(f) ==
    /\ phase = "sweep" /\ todo # <<>> /\ f = Head(todo)
    /\ kind[f] # "link" /\ f \notin seen
    /\ file[f] = "torn" \/ (file[f] = "whole" /\ kind[f] = "undecodable")
    /\ AbortSweep
    /\ UNCHANGED <<disk, proc, seen, failures, window, budget, history>>

----------------------------------------------------------------------------
(* One message: _process_incoming and _process_reaction. *)

\* _is_duplicate
IsDuplicate(f) == HasId(f) /\ Key(f) \in dedup

\* A message without a sender stays on disk, marked.
SkipNoSender(f) ==
    /\ Reads(f) /\ kind[f] = "nosender"
    /\ seen' = seen \cup {f}
    /\ gaveUp' = gaveUp \cup {f}
    /\ UNCHANGED <<file, inbox, quarantined, phase, cur, window, budget, served,
                   handed, lapsed>>

\* JSON of the wrong shape raises: the file stays, marked, the sweep ends.
FailOnMalformed(f) ==
    /\ phase = "sweep" /\ todo # <<>> /\ f = Head(todo)
    /\ f \notin seen /\ file[f] = "whole" /\ kind[f] = "malformed"
    /\ failures' = [failures EXCEPT ![f] = 0]
    /\ seen' = seen \cup {f}
    /\ gaveUp' = gaveUp \cup {f}
    /\ AbortSweep
    /\ UNCHANGED <<disk, proc, window, budget, served, handed, lapsed>>

\* A message whose id is recorded is dropped.
SuppressDuplicate(f) ==
    /\ Reads(f) /\ kind[f] \in {"chat", "refused", "absorbed"}
    /\ IsDuplicate(f)
    /\ Unlinks(f)
    /\ UNCHANGED <<quarantined, phase, cur, window, history>>

Refuse(f) ==
    /\ Reads(f) /\ kind[f] = "refused" /\ ~IsDuplicate(f)
    /\ Unlinks(f)
    /\ UNCHANGED <<quarantined, phase, cur, window, history>>

\* A command runs, or a buffer that takes the message is saved.  No id is
\* recorded.
Absorb(f) ==
    /\ Reads(f) /\ kind[f] = "absorbed" /\ ~IsDuplicate(f)
    /\ seen' = seen \cup {f}
    /\ phase' = "done" /\ cur' = f
    /\ served' = served \cup {f}
    /\ UNCHANGED <<file, inbox, quarantined, window, budget, handed, lapsed,
                   gaveUp>>

\* The reaction handler is awaited; ids play no part.
StartReaction(f) ==
    /\ Reads(f) /\ kind[f] = "reaction"
    /\ seen' = seen \cup {f}
    /\ phase' = "reacting" /\ cur' = f
    /\ UNCHANGED <<file, inbox, quarantined, window, budget, history>>

\* It returns or raises: the exception is caught.
ReactionReturns ==
    /\ phase = "reacting"
    /\ phase' = "done"
    /\ served' = served \cup {cur}
    /\ UNCHANGED <<disk, proc, sweep, cur, seen, failures, window, budget, handed,
                   lapsed, gaveUp>>

\* The keys _record_dispatched_id keeps when it records k: those younger than
\* the TTL and k itself, of which the DedupCap newest.
Kept(k) ==
    LET pruned == (dedup \ aged) \cup {k}
    IN  {j \in pruned :
            \/ j = k
            \/ Cardinality((newer[j] \cup {k}) \cap pruned) < DedupCap}

\* _record_dispatched_id; lapsed gains the keys the cap no longer covers.
RecordId(k) ==
    /\ dedup' = Kept(k)
    /\ newer' = [j \in Keys |-> IF j = k THEN {} ELSE newer[j] \cup {k}]
    /\ aged' = {}
    /\ lapsed' = lapsed \cup
           {j \in Keys \ {k} : Cardinality(newer[j] \cup {k}) >= DedupCap}

\* Mutant: the id is not recorded before the hand-off (before T-100).
DispatchUnrecorded(f) ==
    /\ Reads(f) /\ kind[f] = "chat" /\ ~IsDuplicate(f)
    /\ seen' = seen \cup {f}
    /\ phase' = "recorded" /\ cur' = f
    /\ UNCHANGED <<file, inbox, quarantined, window, budget, history>>

\* A chat message is about to be handed off: its id is recorded first.
RecordChat(f) ==
    /\ Reads(f) /\ kind[f] = "chat" /\ ~IsDuplicate(f)
    /\ seen' = seen \cup {f}
    /\ phase' = "recorded" /\ cur' = f
    /\ IF HasId(f) THEN RecordId(Key(f)) ELSE UNCHANGED <<window, lapsed>>
    /\ UNCHANGED <<file, inbox, quarantined, budget, served, handed, gaveUp>>

\* handle_message is called.
HandOff ==
    /\ phase = "recorded"
    /\ phase' = "handing"
    /\ IF HasId(cur)
       THEN /\ handed' = [handed EXCEPT ![Key(cur)] =
                             IF Key(cur) \in lapsed THEN 1 ELSE @ + 1]
            /\ lapsed' = lapsed \ {Key(cur)}
       ELSE UNCHANGED <<handed, lapsed>>
    /\ UNCHANGED <<disk, proc, sweep, cur, seen, failures, window, budget, served,
                   gaveUp>>

HandlerReturns ==
    /\ phase = "handing"
    /\ phase' = "done"
    /\ served' = served \cup {cur}
    /\ UNCHANGED <<disk, proc, sweep, cur, seen, failures, window, budget, handed,
                   lapsed, gaveUp>>

\* Mutant: the file is unlinked also when the handler raises.
HandlerRaisesAndUnlinks ==
    /\ phase = "handing" /\ budget.faults > 0
    /\ Removed(cur) /\ seen' = seen \ {cur}
    /\ budget' = [budget EXCEPT !.faults = @ - 1]
    /\ AbortSweep
    /\ UNCHANGED <<kind, quarantined, proc, failures, window, history>>

\* The file stays, marked; _poll_loop logs the exception.
HandlerRaises ==
    /\ phase = "handing" /\ Fault
    /\ gaveUp' = gaveUp \cup {cur}
    /\ AbortSweep
    /\ UNCHANGED <<disk, proc, seen, failures, window, served, handed, lapsed>>

\* The processed file is unlinked and the sweep goes on.
Unlink ==
    /\ phase = "done"
    /\ Unlinks(cur)
    /\ phase' = "sweep" /\ cur' = NoFile
    /\ UNCHANGED <<kind, quarantined, proc, sweep, failures, window, history>>

----------------------------------------------------------------------------
(* Stops and restarts. *)

Stop ==
    /\ budget.stops > 0
    /\ budget' = [budget EXCEPT !.stops = @ - 1]
    /\ AbortSweep

\* The process is killed: what is not on disk is gone.
Crash ==
    /\ proc # "dead" /\ Stop
    /\ proc' = "dead"
    /\ seen' = {} /\ failures' = [f \in Files |-> 0] /\ gaveUp' = {}
    /\ UNCHANGED <<disk, window, served, handed, lapsed>>

\* disconnect cancels the poll task where it waits; memory survives.
Disconnect ==
    /\ proc = "running" /\ phase \in {"idle", "handing", "reacting"} /\ Stop
    /\ proc' = "disconnected"
    /\ gaveUp' = IF cur = NoFile THEN gaveUp ELSE gaveUp \cup {cur}
    /\ UNCHANGED <<disk, seen, failures, window, served, handed, lapsed>>

\* connect starts the poll task; the dedup map is read back from its file.
Connect ==
    /\ proc # "running"
    /\ proc' = "running"
    /\ UNCHANGED <<disk, phase, sweep, cur, seen, failures, window, budget, history>>

\* The oldest young key passes DEDUP_TTL (not within the instant between its
\* recording and the call that follows).
Expire(k) ==
    /\ budget.expiries > 0 /\ phase # "recorded"
    /\ k \in dedup \ aged
    /\ \A j \in dedup \ aged : k \notin newer[j]
    /\ aged' = aged \cup {k}
    /\ lapsed' = lapsed \cup {k}
    /\ budget' = [budget EXCEPT !.expiries = @ - 1]
    /\ UNCHANGED <<disk, proc, phase, sweep, cur, seen, failures, dedup, newer,
                   served, handed, gaveUp>>

----------------------------------------------------------------------------
Wrapper == \E f \in Files :
    WrapperWrites(f) \/ RawWriteBegins(f) \/ RawWriteEnds(f)

Visit(f) ==
    \/ RejectLink(f) \/ SkipSeen(f) \/ CountBadRead(f) \/ Quarantine(f)
    \/ FailOnUndecodable(f) \/ SkipNoSender(f) \/ FailOnMalformed(f) \/ SuppressDuplicate(f)
    \/ Refuse(f) \/ Absorb(f) \/ StartReaction(f) \/ RecordChat(f)

PollTask ==
    \/ BeginSweep \/ ListBridge \/ ListFails \/ EndSweep
    \/ \E f \in Files : Visit(f)
    \/ HandOff \/ Unlink

Gateway == ReactionReturns \/ HandlerReturns \/ HandlerRaises

Next ==
    \/ Wrapper \/ PollTask \/ Gateway
    \/ Crash \/ Disconnect \/ Connect
    \/ \E k \in Keys : Expire(k)

Spec == Init /\ [][Next]_vars

\* The event loop keeps running the poll task, an awaited handler comes back,
\* and a stopped adapter is started again.  The listing of a bridge fails once for
\* a write, so not every time.
FairSpec ==
    /\ Spec /\ WF_vars(PollTask) /\ WF_vars(Gateway) /\ WF_vars(Connect)
    /\ \A b \in Bridges : SF_vars(ListBridge /\ b = Head(bridgesLeft))

----------------------------------------------------------------------------
(* Properties. *)

\* Every variable keeps its type.
TypeOK ==
    /\ kind \in [Files -> Kinds]
    /\ file \in [Files -> {"absent", "torn", "whole"}]
    /\ inbox \in [Bridges -> Seq(Files)]
    /\ quarantined \subseteq Files
    /\ proc \in {"running", "disconnected", "dead"}
    /\ phase \in Phases
    /\ bridgesLeft \in Seq(Bridges)
    /\ todo \in Seq(Files)
    /\ phase \in {"recorded", "handing", "reacting", "done"} => cur \in Files
    /\ phase \in {"idle", "sweep"} => cur = NoFile
    /\ seen \subseteq Files
    /\ failures \in [Files -> Nat]
    /\ dedup \subseteq Keys
    /\ newer \in [Keys -> SUBSET Keys]
    /\ aged \subseteq Keys
    /\ budget \in [writes : [Files -> Nat], stops : Nat, faults : Nat,
                   expiries : Nat]
    /\ served \subseteq Files
    /\ handed \in [Keys -> Nat]
    /\ lapsed \subseteq Keys
    /\ gaveUp \subseteq Files

\* T-100: an id-carrying message is handed to the gateway at most once while
\* its dedup entry is younger than DEDUP_TTL and among the DEDUP_CAP newest,
\* whatever the wrapper writes again and wherever the adapter stops.
AtMostOnce == \A k \in Keys : handed[k] <= 1

\* The map covers the window it promises: a key handed off since it last
\* lapsed is in dedup_map.json.
DedupWindow == \A k \in Keys : handed[k] > 0 /\ k \notin lapsed => k \in dedup

Stopped == budget.stops < MaxStops
Faulted == budget.faults < MaxFaults

\* At-least-once: a message leaves the inbox only after it was served (itself
\* or under the same id) or refused.  An id-carrying one has no such guarantee
\* once the adapter stopped or a handler failed: its id was recorded first.
AccountedRemoval ==
    [][\A f \in Files :
          file[f] = "whole" /\ file'[f] = "absent" /\ f \notin quarantined'
          => \/ f \in served \/ kind[f] = "refused"
             \/ /\ HasId(f)
                /\ \/ Stopped \/ Faulted
                   \/ \E g \in served : HasId(g) /\ Key(g) = Key(f)]_vars

\* Messages of one bridge are handed off in the order they were written: at a
\* hand-off no older readable message waits unmarked.  (Both by
\* the SDK and once, and no unlink failed.)
InOrder ==
    [][\A g \in Files :
          phase = "sweep" /\ phase' \in {"recorded", "reacting", "done"} /\ cur' = g
          => \A i, j \in DOMAIN inbox[BridgeOf[g]] :
                LET f == inbox[BridgeOf[g]][i]
                IN  /\ i < j /\ inbox[BridgeOf[g]][j] = g
                    /\ Parses(f) /\ kind[f] # "link"
                    /\ {f, g} \cap RawFiles = {}
                    /\ budget.writes[f] + 1 = MaxWrites[f]
                    /\ budget.writes[g] + 1 = MaxWrites[g]
                    /\ ~Faulted
                    => f \in seen]_vars

\* Every complete message is eventually dealt with: its file goes away, or the
\* adapter has knowingly abandoned it (a handler or parser exception, a
\* cancelled hand-off, a quarantined name).  In particular a torn read that
\* completes in time (T-097) and a message behind a failing one (T-089) do not
\* stay for ever.  (A file that stays undecodable is the exception: what is
\* listed behind it waits for ever.  The instance has none in front of others.)
EveryMessageSettles ==
    \A f \in Files :
        file[f] = "whole" /\ kind[f] \in {"chat", "refused", "absorbed", "reaction"}
        ~> file[f] = "absent" \/ f \in gaveUp

============================================================================
