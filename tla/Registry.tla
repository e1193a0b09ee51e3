------------------------------ MODULE Registry ------------------------------
(***************************************************************************)
(* Bridges come and go by their manifests, registry/<bridge>.yaml.  The    *)
(* adapter compares the directory with its list of bridges every few       *)
(* seconds, makes the directories of a new bridge and deletes status/ and  *)
(* media/ of one that is gone.  It shares these directories with the       *)
(* wrappers (hermes_bridge_sdk/bridge_runner.py) and with whoever edits a  *)
(* manifest by hand, and the list with its poll of the inboxes, which goes *)
(* through the live list and waits for the gateway at each message.        *)
(*                                                                         *)
(* A message stands for an inbox file with one attachment.  Reading        *)
(* registry/ is one step; each deletion is a step of its own.              *)
(***************************************************************************)
EXTENDS Integers, Sequences, FiniteSets, SequencesExt

CONSTANTS
    Bridges, Runners,   \* all names, and those a BridgeRunner looks after
    Watchers,           \* those whose wrapper has a watch thread (imsg-wrapper.py)
    NMsgs, BridgeOf,    \* bound: messages 1..NMsgs; the bridge of each
    FileOf,             \* the path under media/ that the attachment is kept at
    MaxRuns, MaxFaults  \* bounds: wrapper starts; kills, edits and crashes

Msgs == 1..NMsgs

NoMsg == 0

ASSUME RegistryAssumption ==
    /\ Runners \subseteq Bridges /\ IsFiniteSet(Bridges) /\ Watchers \subseteq Runners
    /\ BridgeOf \in [Msgs -> Bridges] /\ DOMAIN FileOf = Msgs /\ NMsgs \in Nat
    /\ \A m, k \in Msgs : FileOf[m] = FileOf[k] => BridgeOf[m] = BridgeOf[k]
    /\ MaxRuns \in Nat /\ MaxFaults \in Nat

Files == {FileOf[m] : m \in Msgs}

VARIABLES
    manifest,  \* registry/<bridge>.yaml: "none", "good", "torn" (a scan skips
               \* it) or "broken" (a YAML error)
    run,       \* the wrapper's main: "down", "dir", "up", "closing"
               \* or "closed"
    beat,      \* its heartbeat thread: "none", "sleep", "dir" or "dead"
    watch,     \* its watch thread: "none" or "dead", with the stream "up" or
               \* "down", or about to write so: "upDir", "downDir"
    dir,       \* status/<bridge>/ exists
    status,    \* status.json: "none", "up" or "down"
    media,     \* the message whose attachment a file holds
    msg,       \* "out", "fetched", "inbox", then "whole", "bare" or "other", or
               \* "left" by an error until a restart
    on,        \* the adapter is connected
    list,      \* self._bridges
    drops,     \* bridges the reconcile in progress has yet to unregister
    at, next,  \* the poll: "idle", "sweep" or "await", and its place in the list
    old,       \* attachments older than 24 hours, of messages in an inbox
    runs, faults,
    seen, there, removed,  \* history of a sweep: bridges visited, bridges on the
                           \* list all along, the number removed meanwhile
    away,                  \* history: bridges whose manifest was removed or torn
    cleaned                \* history: messages cleaned up for their age

wrapperVars == <<run, beat, watch, runs>>
dirVars     == <<dir, status>>
mediaVars   == <<media, msg, old>>
pollVars    == <<at, next, seen, there, removed>>
adapterVars == <<on, list, drops, pollVars>>
vars == <<manifest, wrapperVars, dirVars, mediaVars, adapterVars, faults, away, cleaned>>

\* Manifests kept by hand are there before the adapter and the wrappers start.
Init ==
    /\ manifest = [b \in Bridges |-> IF b \in Runners THEN "none" ELSE "good"]
    /\ run = [b \in Bridges |-> "down"] /\ beat = [b \in Bridges |-> "none"]
    /\ watch = [b \in Bridges |-> "none"]
    /\ dir = [b \in Bridges |-> FALSE] /\ status = [b \in Bridges |-> "none"]
    /\ media = [f \in Files |-> NoMsg] /\ msg = [m \in Msgs |-> "out"]
    /\ on = FALSE /\ list = <<>> /\ drops = {}
    /\ at = "idle" /\ next = 1
    /\ old = {} /\ runs = 0 /\ faults = 0
    /\ seen = <<>> /\ there = {} /\ removed = 0
    /\ away = {} /\ cleaned = {}

Listed == Range(list)

Fails == faults < MaxFaults /\ faults' = faults + 1

----------------------------------------------------------------------------
(* A wrapper. *)

\* What a process that ends had fetched for a message is fetched again.
Ends(b) ==
    /\ run' = [run EXCEPT ![b] = "down"] /\ beat' = [beat EXCEPT ![b] = "none"]
    /\ watch' = [watch EXCEPT ![b] = "none"]
    /\ msg' = [m \in Msgs |->
                  IF BridgeOf[m] = b /\ msg[m] = "fetched" THEN "out" ELSE msg[m]]

MakesDir(b) == dir' = [dir EXCEPT ![b] = TRUE]

\* start: the manifest is written, then write_status makes the directory (what
\* the adapter does in between makes no difference) ...
Registers(b) ==
    /\ run[b] = "down" /\ runs < MaxRuns /\ runs' = runs + 1
    /\ manifest' = [manifest EXCEPT ![b] = "good"]
    /\ run' = [run EXCEPT ![b] = "dir"] /\ MakesDir(b)
    /\ UNCHANGED <<beat, watch, status, mediaVars, adapterVars, faults, away, cleaned>>

\* ... and writes the file, which fails if the directory is gone again.  That
\* ends the process, its manifest stays.  Else the threads are started.
Starts(b) ==
    /\ run[b] = "dir"
    /\ IF dir[b]
       THEN /\ status' = [status EXCEPT ![b] = "up"]
            /\ run' = [run EXCEPT ![b] = "up"]
            /\ beat' = [beat EXCEPT ![b] = "sleep"]
            /\ watch' = [watch EXCEPT ![b] = IF b \in Watchers THEN "down" ELSE @]
            /\ UNCHANGED msg
       ELSE Ends(b) /\ UNCHANGED status
    /\ UNCHANGED <<manifest, runs, dir, media, old, adapterVars, faults, away,
                   cleaned>>

\* heartbeat_loop: nothing catches an error of write_status, it ends the thread.
BeatDir(b) ==
    /\ beat[b] = "sleep"
    /\ beat' = [beat EXCEPT ![b] = "dir"] /\ MakesDir(b)
    /\ UNCHANGED <<manifest, run, watch, runs, status, mediaVars, adapterVars, faults,
                   away, cleaned>>

\* Mutant: the thread ends with its first write.
BeatsOnce(b) ==
    /\ beat[b] = "dir"
    /\ beat' = [beat EXCEPT ![b] = IF dir[b] THEN "none" ELSE "dead"]
    /\ status' = [status EXCEPT ![b] = IF dir[b] THEN "up" ELSE @]
    /\ UNCHANGED <<manifest, run, watch, runs, dir, mediaVars, adapterVars, faults,
                   away, cleaned>>

\* The file, or the end of the thread.
Beats(b) ==
    /\ beat[b] = "dir"
    /\ IF dir[b]
       THEN /\ beat' = [beat EXCEPT ![b] = "sleep"]
            /\ status' = [status EXCEPT ![b] = "up"]
       ELSE beat' = [beat EXCEPT ![b] = "dead"] /\ UNCHANGED status
    /\ UNCHANGED <<manifest, run, watch, runs, dir, mediaVars, adapterVars, faults,
                   away, cleaned>>

\* watch_loop: a stream that starts is said to be up, one that ends, or does not
\* start, to be down; the first write is in the try that catches everything, the
\* second is not.
SaysDir(b) ==
    /\ watch[b] \in {"down", "up"} /\ MakesDir(b)
    /\ \/ watch[b] = "down" /\ watch' = [watch EXCEPT ![b] = "upDir"]
       \/ watch' = [watch EXCEPT ![b] = "downDir"]
    /\ UNCHANGED <<manifest, run, beat, runs, status, mediaVars, adapterVars, faults,
                   away, cleaned>>

SaysUp(b) ==
    /\ watch[b] = "upDir"
    /\ watch' = [watch EXCEPT ![b] = "up"]
    /\ status' = [status EXCEPT ![b] = IF dir[b] THEN "up" ELSE @]
    /\ UNCHANGED <<manifest, run, beat, runs, dir, mediaVars, adapterVars, faults,
                   away, cleaned>>

SaysDown(b) ==
    /\ watch[b] = "downDir"
    /\ watch' = [watch EXCEPT ![b] = IF dir[b] THEN "down" ELSE "dead"]
    /\ status' = [status EXCEPT ![b] = IF dir[b] THEN "down" ELSE @]
    /\ UNCHANGED <<manifest, run, beat, runs, dir, mediaVars, adapterVars, faults,
                   away, cleaned>>

\* A signal ends wait.  write_status says so, and the manifest is removed.
Stops(b) ==
    /\ run[b] = "up"
    /\ run' = [run EXCEPT ![b] = "closing"] /\ MakesDir(b)
    /\ UNCHANGED <<manifest, beat, watch, runs, status, mediaVars, adapterVars,
                   faults, away, cleaned>>

Closes(b) ==
    /\ run[b] = "closing"
    /\ IF dir[b]
       THEN /\ status' = [status EXCEPT ![b] = "down"]
            /\ run' = [run EXCEPT ![b] = "closed"] /\ UNCHANGED <<beat, watch, msg>>
       ELSE Ends(b) /\ UNCHANGED status
    /\ UNCHANGED <<manifest, runs, dir, media, old, adapterVars, faults, away,
                   cleaned>>

Unregisters(b) ==
    /\ run[b] = "closed" /\ Ends(b)
    /\ manifest' = [manifest EXCEPT ![b] = "none"] /\ away' = away \cup {b}
    /\ UNCHANGED <<runs, dirVars, media, old, adapterVars, faults, cleaned>>

Killed(b) ==
    /\ run[b] # "down" /\ Fails /\ Ends(b)
    /\ UNCHANGED <<manifest, runs, dirVars, media, old, adapterVars, away,
                   cleaned>>

\* A wrapper fetches the attachment to media/<bridge>/incoming/<name>; its threads do
\* so beside each other, and messages are numbered as their fetches begin,
Fetches(m) ==
    /\ \A k \in 1..m - 1 : BridgeOf[k] = BridgeOf[m] => msg[k] # "out"
    /\ msg[m] = "out" /\ run[BridgeOf[m]] \in {"up", "closing", "closed"}
    /\ media' = [media EXCEPT ![FileOf[m]] = m]
    /\ msg' = [msg EXCEPT ![m] = "fetched"]
    /\ old' = old \ {FileOf[m]}
    /\ UNCHANGED <<manifest, wrapperVars, dirVars, adapterVars, faults, away,
                   cleaned>>

\* and writes the message that names it to the inbox.
Delivers(m) ==
    /\ msg[m] = "fetched"
    /\ msg' = [msg EXCEPT ![m] = "inbox"]
    /\ UNCHANGED <<manifest, wrapperVars, dirVars, media, old, adapterVars,
                   faults, away, cleaned>>

\* A bridge without BridgeRunner: test-wrapper.py send, no attachment.
Sends(m) ==
    /\ BridgeOf[m] \notin Runners /\ msg[m] = "out"
    /\ msg' = [msg EXCEPT ![m] = "inbox"]
    /\ UNCHANGED <<manifest, wrapperVars, dirVars, media, old, adapterVars,
                   faults, away, cleaned>>

----------------------------------------------------------------------------
(* Manifests edited by hand, as README.md shows: cat > and rm.             *)

Edits(b, content) ==
    /\ manifest[b] # content /\ Fails
    /\ manifest' = [manifest EXCEPT ![b] = content]
    /\ away' = away \cup {b}
    /\ UNCHANGED <<wrapperVars, dirVars, mediaVars, adapterVars, cleaned>>

\* What cat > has truncated it completes, or leaves with a slip in the YAML.
Completes(b, content) ==
    /\ manifest[b] = "torn" /\ content \in {"good", "broken"}
    /\ manifest' = [manifest EXCEPT ![b] = content]
    /\ UNCHANGED <<wrapperVars, dirVars, mediaVars, adapterVars, faults, away,
                   cleaned>>

----------------------------------------------------------------------------
(* The adapter's reconcile: one task, never interrupted by its own poll.   *)

\* Mutant: a bridge whose wrapper does not run is taken for gone.
FoundRunning ==
    {b \in Bridges : manifest[b] = "good" /\ (b \in Runners => run[b] # "down")}

\* scan_registry, for the runs in which it returns.
Found == {b \in Bridges : manifest[b] = "good"}

\* A YAML error is neither an OSError nor a ValueError, it ends the scan.
ScanRaises == \E b \in Bridges : manifest[b] = "broken"

\* Mutant: a new bridge is put in front.
ListedFirst(new) == SetToSeq(new) \o list

\* _register_bridge for each of them, after those there are.
ListedLast(new) == list \o SetToSeq(new)

\* _reconcile_registry_sync: registers what is new, and notes what is gone.
Reconciles ==
    /\ on /\ at \in {"idle", "await"} /\ drops = {}
    /\ ~ScanRaises /\ Found # Listed
    /\ LET new == Found \ Listed IN
       /\ list' = ListedLast(new)
       /\ dir' = [b \in Bridges |-> dir[b] \/ b \in new]
    /\ drops' = Listed \ Found
    /\ UNCHANGED <<manifest, wrapperVars, status, mediaVars, on, pollVars,
                   faults, away, cleaned>>

\* The first bridge on the list that is to go, and the list without it.
Goes(i) ==
    i \in DOMAIN list /\ list[i] \in drops /\ \A j \in 1..i - 1 : list[j] \notin drops

\* Mutant: all of status/ is deleted, not the directory of the bridge.
DropsStatus(i) ==
    /\ Goes(i)
    /\ list' = RemoveAt(list, i) /\ drops' = drops \ {list[i]}
    /\ there' = there \ {list[i]} /\ removed' = removed + 1
    /\ dir' = [b \in Bridges |-> FALSE] /\ status' = [b \in Bridges |-> "none"]
    /\ UNCHANGED <<manifest, wrapperVars, mediaVars, on, at, next, seen, faults, away,
                   cleaned>>

\* _unregister_bridge.
Drops(i) ==
    /\ Goes(i)
    /\ list' = RemoveAt(list, i) /\ drops' = drops \ {list[i]}
    /\ there' = there \ {list[i]} /\ removed' = removed + 1
    /\ dir' = [dir EXCEPT ![list[i]] = FALSE]
    /\ status' = [status EXCEPT ![list[i]] = "none"]
    /\ media' = [f \in Files |->
                    IF \E m \in Msgs : FileOf[m] = f /\ BridgeOf[m] = list[i]
                    THEN NoMsg ELSE media[f]]
    /\ UNCHANGED <<manifest, wrapperVars, msg, old, on, at, next, seen, faults, away,
                   cleaned>>

----------------------------------------------------------------------------
(* The adapter's poll, _poll_all: `for bridge in self._bridges`.           *)

Waiting(b) == {m \in Msgs : BridgeOf[m] = b /\ msg[m] = "inbox"}

\* A sweep that finds no file does nothing and is not worth a step.
Sweeps ==
    /\ on /\ at = "idle" /\ drops = {}
    /\ \E b \in Listed : Waiting(b) # {}
    /\ at' = "sweep" /\ next' = 1
    /\ seen' = <<>> /\ there' = Listed /\ removed' = 0
    /\ UNCHANGED <<manifest, wrapperVars, dirVars, mediaVars, on, list, drops,
                   faults, away, cleaned>>

\* _build_event: an attachment whose path does not exist is left out.
Handed(m) ==
    IF BridgeOf[m] \notin Runners \/ media[FileOf[m]] = m THEN "whole"
    ELSE IF media[FileOf[m]] = NoMsg THEN "bare" ELSE "other"

\* Mutant: the poll keeps a place for the bridge it is at.
VisitsTwo ==
    /\ at \in {"sweep", "await"} /\ drops = {} /\ next <= Len(list)
    /\ next' = next + 2 /\ seen' = Append(seen, list[next])
    /\ LET ms == Waiting(list[next]) IN
       IF ms = {} THEN at' = "sweep" /\ UNCHANGED msg
       ELSE at' = "await" /\
            msg' = [m \in Msgs |-> IF m \in ms THEN Handed(m) ELSE msg[m]]
    /\ UNCHANGED <<manifest, wrapperVars, dirVars, media, old, on, list, drops,
                   there, removed, faults, away, cleaned>>

\* The files of the bridge whose turn it is are handed over (InboxDelivery takes
\* them apart), which lets the reconcile run; without any the sweep goes on.
Visits ==
    /\ at \in {"sweep", "await"} /\ drops = {} /\ next <= Len(list)
    /\ next' = next + 1 /\ seen' = Append(seen, list[next])
    /\ LET ms == Waiting(list[next]) IN
       IF ms = {} THEN at' = "sweep" /\ UNCHANGED msg
       ELSE at' = "await" /\
            msg' = [m \in Msgs |-> IF m \in ms THEN Handed(m) ELSE msg[m]]
    /\ UNCHANGED <<manifest, wrapperVars, dirVars, media, old, on, list, drops,
                   there, removed, faults, away, cleaned>>

\* An error ends the sweep at one of the bridge's files, which is left alone
\* until a restart; files before it are handed over.
Breaks ==
    /\ at \in {"sweep", "await"} /\ drops = {} /\ next <= Len(list) /\ Fails
    /\ \E m \in Waiting(list[next]) : \E ms \in SUBSET (Waiting(list[next]) \ {m}) :
          msg' = [k \in Msgs |-> IF k = m THEN "left"
                                 ELSE IF k \in ms THEN Handed(k) ELSE msg[k]]
    /\ at' = "idle" /\ next' = 1 /\ seen' = <<>> /\ there' = {} /\ removed' = 0
    /\ UNCHANGED <<manifest, wrapperVars, dirVars, media, old, on, list, drops,
                   away, cleaned>>

SweepEnds ==
    /\ at \in {"sweep", "await"} /\ drops = {} /\ next > Len(list)
    /\ at' = "idle" /\ next' = 1 /\ seen' = <<>> /\ there' = {} /\ removed' = 0
    /\ UNCHANGED <<manifest, wrapperVars, dirVars, mediaVars, on, list, drops,
                   faults, away, cleaned>>

----------------------------------------------------------------------------
(* The adapter goes down, for more than a day or less, and comes back.     *)

Crashes ==
    /\ on /\ Fails
    /\ on' = FALSE /\ list' = <<>> /\ drops' = {}
    /\ at' = "idle" /\ next' = 1 /\ seen' = <<>> /\ there' = {} /\ removed' = 0
    /\ msg' = [m \in Msgs |-> IF msg[m] = "left" THEN "inbox" ELSE msg[m]]
    /\ old' \in {old, {FileOf[m] : m \in {k \in Msgs : msg'[k] = "inbox"}}}
    /\ UNCHANGED <<manifest, wrapperVars, dirVars, media, away, cleaned>>

\* connect reconciles before it starts its tasks: a YAML error fails it.
Connects ==
    /\ ~on /\ ~ScanRaises
    /\ on' = TRUE /\ list' = SetToSeq(Found)
    /\ dir' = [b \in Bridges |-> dir[b] \/ b \in Found]
    /\ UNCHANGED <<manifest, wrapperVars, status, mediaVars, drops, pollVars,
                   faults, away, cleaned>>

\* _run_cleanup_sync, in a thread beside the poll.
Cleans ==
    /\ on /\ old # {}
    /\ media' = [f \in Files |-> IF f \in old THEN NoMsg ELSE media[f]]
    /\ cleaned' = cleaned \cup {m \in Msgs : FileOf[m] \in old}
    /\ old' = {}
    /\ UNCHANGED <<manifest, wrapperVars, dirVars, msg, adapterVars, faults,
                   away>>

----------------------------------------------------------------------------

Wrapper(b) ==
    \/ Registers(b) \/ Starts(b)
    \/ Stops(b) \/ Closes(b) \/ Unregisters(b) \/ Killed(b)

Heartbeat(b) == BeatDir(b) \/ Beats(b)

Watch(b) == SaysDir(b) \/ SaysUp(b) \/ SaysDown(b)

Poll == Sweeps \/ Visits \/ SweepEnds

Unregister == \E i \in DOMAIN list : Drops(i)

Adapter == Reconciles \/ Unregister \/ Crashes \/ Connects \/ Cleans \/ Poll \/ Breaks

Hand(b) ==
    \/ \E content \in {"none", "torn"} : Edits(b, content)
    \/ \E content \in {"good", "broken"} : Completes(b, content)

Next ==
    \/ Adapter
    \/ \E b \in Runners : Wrapper(b) \/ Heartbeat(b) \/ Watch(b)
    \/ \E b \in Bridges : Hand(b)
    \/ \E m \in Msgs : Delivers(m) \/ Sends(m) \/
                       (BridgeOf[m] \in Runners /\ Fetches(m))

Spec == Init /\ [][Next]_vars

\* The adapter's loops and the heartbeat threads go on, and a gateway that has
\* failed to connect tries again.  The registry task, once its sleep is over, is
\* ahead of the poll task in asyncio's queue: it runs when the poll next waits.
FairSpec ==
    /\ Spec
    /\ SF_vars(Reconciles) /\ WF_vars(Unregister) /\ WF_vars(Connects) /\ WF_vars(Poll)
    /\ \A b \in Runners : WF_vars(Heartbeat(b))

----------------------------------------------------------------------------
(* Properties. *)

TypeOK ==
    /\ manifest \in [Bridges -> {"none", "torn", "good", "broken"}]
    /\ run \in [Bridges -> {"down", "dir", "up", "closing", "closed"}]
    /\ beat \in [Bridges -> {"none", "sleep", "dir", "dead"}]
    /\ \A b \in Bridges : run[b] \in {"down", "dir"} <=> beat[b] = "none"
    /\ watch \in [Bridges -> {"none", "down", "upDir", "up", "downDir", "dead"}]
    /\ \A b \in Bridges : beat[b] = "none" => watch[b] = "none"
    /\ dir \in [Bridges -> BOOLEAN] /\ status \in [Bridges -> {"none", "up", "down"}]
    /\ \A b \in Bridges : status[b] # "none" => dir[b]
    /\ media \in [Files -> Msgs \cup {NoMsg}]
    /\ msg \in [Msgs -> {"out", "fetched", "inbox", "left", "whole", "bare", "other"}]
    /\ on \in BOOLEAN
    /\ ~on => list = <<>> /\ drops = {} /\ at = "idle"
    /\ list \in Seq(Bridges) /\ IsInjective(list)
    /\ drops \subseteq Listed
    /\ at \in {"idle", "sweep", "await"} /\ next \in Nat /\ next # 0
    /\ old \subseteq Files /\ seen \in Seq(Bridges)
    /\ there \subseteq Listed /\ removed \in Nat
    /\ runs \in 0..MaxRuns /\ faults \in 0..MaxFaults
    /\ away \subseteq Bridges /\ cleaned \subseteq Msgs

\* A fetched attachment is lost to its message only if the wrapper had
\* unregistered the bridge, or somebody edited the manifest, or the file was cleaned up for its
\* age; never by a kill, a restart of the adapter or another bridge's manifest.
\* A message gets a wrong one only if two messages name the same file.
AttachmentsHaveAReason ==
    \A m \in Msgs :
        /\ msg[m] = "bare" =>
              BridgeOf[m] \in away \/ m \in cleaned
        /\ msg[m] = "other" =>
              \E k \in Msgs \ {m} : FileOf[k] = FileOf[m]

\* The directory of a status write is gone, which ends the wrapper, its heartbeat or
\* its watch, only after its manifest has been away: the deletion is late.
TornHasAReason ==
    \A b \in Bridges :
        (\/ run[b] \in {"dir", "closing"} \/ beat[b] = "dir"
         \/ watch[b] \in {"upDir", "downDir"}) /\ ~dir[b] => b \in away

\* A bridge that is on the list during a whole sweep is visited once, but for
\* one bridge for each that is removed meanwhile.
SweepMissesFew ==
    [][SweepEnds =>
          /\ Cardinality(there \ Range(seen)) <= removed
          /\ \A i, j \in DOMAIN seen :
                seen[i] = seen[j] /\ seen[i] \in there => i = j]_vars

NothingBroken == ~ScanRaises

\* README.md:58: the adapter follows the manifests, once they are left alone and
\* none of them has a YAML error.  The inbox of a bridge that stays registered
\* is emptied again and again, although a sweep may miss the bridge or end at an
\* error; one whose manifest is gone leaves the list.
ManifestsAreFollowed ==
    \A b \in Bridges :
        /\ <>[](NothingBroken /\ manifest[b] = "good")
           => <>[](b \in Listed) /\ []<>(Waiting(b) = {})
        /\ <>[](NothingBroken /\ manifest[b] = "none") => <>[](b \notin Listed)

\* The heartbeat brings back the status of a wrapper that stays up, whatever was
\* deleted, unless it was ended by the deletion: it is there, and is "up" again and
\* again, between what a watch says of its stream, or for good without a watch.
StatusComesBack ==
    \A b \in Runners :
        <>[](run[b] = "up") =>
            \/ <>[](beat[b] = "dead")
            \/ IF b \in Watchers
               THEN <>[](status[b] # "none") /\ []<>(status[b] = "up")
               ELSE <>[](status[b] = "up")

=============================================================================
