---------------------------- MODULE ThreadDigest ----------------------------
(***************************************************************************)
(* What adapter.py does with the messages of one unified thread before the *)
(* agent sees them: the modes, the digest buffer that the participant and  *)
(* the silent mode share, the protokoll session, and the timer task that   *)
(* flushes the buffer of a silent thread.  Of the members it matters only  *)
(* whether there are any: the timer hands a bundle over in the name of the *)
(* first, while messages still come from who has switched to the thread.   *)
(*                                                                         *)
(* The thread's record is saved to unified_threads.json in the same        *)
(* stretch without await that changes it, so one variable stands for both: *)
(* it survives a kill.  The bundle made from an emptied buffer lives in    *)
(* the memory of the task that hands it over, and does not.                *)
(*                                                                         *)
(* The poll task has one inbox file at a time.  Messages are numbered in   *)
(* the order in which it takes them.  Times are ticks from now.            *)
(***************************************************************************)
EXTENDS Integers, Sequences, FiniteSets

CONSTANTS
    Names,                         \* names of protokoll sessions
    Window30, Window60,            \* ADAPTIVE_WINDOW_30, _60, in ticks
    Threshold30, Threshold60,      \* ADAPTIVE_THRESHOLD_30, _60
    Interval,                      \* ADAPTIVE_DIGEST_INTERVAL
    Cooldown,                      \* ADAPTIVE_COOLDOWN
    MaxMessages, MaxCommands,      \* bounds: messages; commands, not counting
                                   \* the close of an open session
    MaxFaults                      \* bound: failing calls and kills

ASSUME DigestAssumption ==
    /\ Window30 \in Nat \ {0} /\ Window60 \in Nat /\ Window30 <= Window60
    /\ Threshold30 \in Nat \ {0} /\ Threshold60 \in Nat \ {0}
    /\ Interval \in Nat \ {0} /\ Cooldown \in 0..Interval
    /\ MaxMessages \in Nat /\ MaxCommands \in Nat
    /\ MaxFaults \in Nat

Messages == 1..MaxMessages
Modes    == {"participant", "reactive", "off", "silent", "protokoll"}

\* A direct message, a group message that mentions the agent, and one that
\* does not.
Kinds == {"direct", "named", "group"}

\* Why a message that left the inbox does not reach the agent.
Reasons == {"mode", "gate", "raised", "killed", "reopened", "overwritten",
            "nobody"}

VARIABLES
    \* unified_threads.json
    mode, state, buffer, due, cool, session,
    peopled,    \* it has a member
    \* the other files: dedup map, written artifacts
    recorded, artifacts,
    \* the poll task: the inbox file in hand, its phase, the messages of its turn
    hand, phase, turn,
    timerTurn,  \* the bundle in hand of the timer task
    kinds,      \* kinds of the messages so far
    commands, failures, crashes,
    told,       \* history: how often a message was part of a turn
    gone        \* history: reasons for which it was not

thread  == <<mode, state, buffer, due, cool, session>>
files   == <<peopled, recorded, artifacts>>
poll    == <<hand, phase, turn>>
counts  == <<commands, failures, crashes>>
history == <<told, gone>>
vars    == <<thread, files, poll, timerTurn, kinds, counts, history>>

NoItem == [cmd |-> "none"]
Closed == [name |-> "none"]

Init ==
    /\ mode = "participant" /\ state = "idle" /\ buffer = <<>>
    /\ due = 0 /\ cool = 0 /\ session = Closed
    /\ peopled = TRUE /\ recorded = {} /\ artifacts = [n \in Names |-> <<>>]
    /\ hand = NoItem /\ phase = "new" /\ turn = <<>> /\ timerTurn = <<>>
    /\ kinds = <<>> /\ commands = 0 /\ failures = 0 /\ crashes = 0
    /\ told = [m \in Messages |-> 0] /\ gone = [m \in Messages |-> {}]

Idle == hand = NoItem

\* The poll task is between two files or awaits: the relay of the message before
\* its mode stage, or handle_message.  The rest is one stretch without await.
Awaits == phase \in {"new", "handing"}

Faults == failures + crashes
Free == hand' = NoItem /\ phase' = "new" /\ turn' = <<>>

\* The messages of a bundle, a session or an artifact.
In(s) == {s[i] : i \in DOMAIN s}

Gone(ms, reason) ==
    gone' = [m \in Messages |-> gone[m] \cup IF m \in ms THEN {reason} ELSE {}]

Times(s, m) == Cardinality({i \in DOMAIN s : s[i] = m})

Told(s) == told' = [m \in Messages |-> told[m] + Times(s, m)]

----------------------------------------------------------------------------
(* Time. *)

Later(n) == IF n = 0 THEN 0 ELSE n - 1

\* No age above the longest window is told apart.
MaxAge == IF Window60 > Interval THEN Window60 ELSE Interval

Aged(b) ==
    [i \in DOMAIN b |->
        [b[i] EXCEPT !.age = IF @ = MaxAge THEN MaxAge ELSE @ + 1]]

Tick ==
    /\ Awaits
    /\ <<Aged(buffer), Later(due), Later(cool)>> # <<buffer, due, cool>>
    /\ buffer' = Aged(buffer) /\ due' = Later(due) /\ cool' = Later(cool)
    /\ UNCHANGED <<mode, state, session, files, poll, timerTurn, kinds, counts,
                   history>>

----------------------------------------------------------------------------
(* Inbox files. *)

Arrives(kind) ==
    /\ Idle /\ Len(kinds) < MaxMessages
    /\ kinds' = Append(kinds, kind)
    /\ hand' = [cmd |-> "say", id |-> Len(kinds) + 1]
    /\ UNCHANGED <<thread, files, phase, turn, timerTurn, counts, history>>

CommandItems ==
    [cmd : {"mode"}, mode : Modes] \cup [cmd : {"open"}, name : Names]
        \cup [cmd : {"close", "leave", "join"}]

\* Of the leaves only the last member's matters here, of the joins only the first.
Commanded(c) ==
    /\ Idle
    /\ c.cmd = "leave" => peopled
    /\ c.cmd = "join" => ~peopled
    /\ hand' = c
    /\ IF c.cmd = "close" /\ session # Closed
       THEN UNCHANGED commands
       ELSE commands < MaxCommands /\ commands' = commands + 1
    /\ UNCHANGED <<thread, files, phase, turn, timerTurn, kinds, failures,
                   crashes, history>>

\* A message is before its mode stage; a recorded one is dropped before it.
New == hand.cmd = "say" /\ phase = "new"
Fresh == New /\ hand.id \notin recorded

Duplicate ==
    /\ New /\ hand.id \in recorded
    /\ Free
    /\ UNCHANGED <<thread, files, timerTurn, kinds, counts, history>>

----------------------------------------------------------------------------
(* The mode stage of _process_incoming. *)

Named(m) == kinds[m] = "named"

\* Mode off, and reactive without a mention: the agent gets nothing.
Drops ==
    /\ Fresh
    /\ mode = "off" \/ (mode = "reactive" /\ ~Named(hand.id))
    /\ Free /\ Gone({hand.id}, "mode")
    /\ UNCHANGED <<thread, files, timerTurn, kinds, counts, told>>

\* The digest may be flushed.
Due == state = "digesting" /\ due = 0 /\ cool = 0

Younger(window) == Cardinality({i \in DOMAIN buffer : buffer[i].age < window})

Frequent == Younger(Window30) >= Threshold30 \/ Younger(Window60) >= Threshold60

Entry(m) == [id |-> m, age |-> 0]
Ids(b) == [i \in DOMAIN b |-> b[i].id]

\* The message joins the buffer: always in silent mode; in participant mode
\* while digesting or when messages are frequent.  Each one restarts the window.
Buffers ==
    /\ Fresh /\ ~Due
    /\ \/ mode = "silent"
       \/ mode = "participant" /\ (state = "digesting" \/ Frequent)
    /\ state' = "digesting" /\ buffer' = Append(buffer, Entry(hand.id))
    /\ due' = Interval
    /\ phase' = "unlink"
    /\ UNCHANGED <<mode, cool, session, files, hand, turn, timerTurn, kinds,
                   counts, history>>

\* The buffer is taken, whoever hands it over.
Flushed == state' = "active" /\ cool' = Cooldown /\ buffer' = <<>>

\* Mutant: the message that finds the digest due is not added to the bundle.
FlushesWithout ==
    /\ Fresh /\ Due /\ mode \in {"silent", "participant"}
    /\ turn' = Ids(buffer) /\ Flushed
    /\ phase' = "gate"
    /\ UNCHANGED <<mode, due, session, files, hand, timerTurn, kinds, counts,
                   history>>

\* The message that finds the digest due joins it; the bundle is its turn.
Flushes ==
    /\ Fresh /\ Due /\ mode \in {"silent", "participant"}
    /\ turn' = Append(Ids(buffer), hand.id) /\ Flushed
    /\ phase' = "gate"
    /\ UNCHANGED <<mode, due, session, files, hand, timerTurn, kinds, counts,
                   history>>

\* A message at low frequency is a turn of its own, and is noted in the buffer.
Notes ==
    /\ Fresh /\ mode = "participant" /\ state # "digesting" /\ ~Frequent
    /\ state' = "active" /\ buffer' = Append(buffer, Entry(hand.id))
    /\ turn' = <<hand.id>> /\ phase' = "gate"
    /\ UNCHANGED <<mode, due, cool, session, files, hand, timerTurn, kinds,
                   counts, history>>

\* Mentioned in reactive mode, or in protokoll mode with no session open.
Passes ==
    /\ Fresh
    /\ \/ mode = "reactive" /\ Named(hand.id)
       \/ mode = "protokoll" /\ session = Closed
    /\ turn' = <<hand.id>> /\ phase' = "gate"
    /\ UNCHANGED <<thread, files, hand, timerTurn, kinds, counts, history>>

\* Mutant: a collected message is handed over as well.
CollectsAndPasses ==
    /\ Fresh /\ mode = "protokoll" /\ session # Closed
    /\ session' = [session EXCEPT !.msgs = Append(@, hand.id)]
    /\ turn' = <<hand.id>> /\ phase' = "gate"
    /\ UNCHANGED <<mode, state, buffer, due, cool, files, hand, timerTurn,
                   kinds, counts, history>>

\* The open protokoll session collects the message.
Collects ==
    /\ Fresh /\ mode = "protokoll" /\ session # Closed
    /\ session' = [session EXCEPT !.msgs = Append(@, hand.id)]
    /\ phase' = "unlink"
    /\ UNCHANGED <<mode, state, buffer, due, cool, files, hand, turn, timerTurn,
                   kinds, counts, history>>

\* The file of a message that was buffered or collected.
Unlinks ==
    /\ phase = "unlink" /\ Free
    /\ UNCHANGED <<thread, files, timerTurn, kinds, counts, history>>

----------------------------------------------------------------------------
(* The mention gate and the hand-over to the gateway. *)

\* Mutant: the gate looks at the message that carries the bundle only.
GatedByCarrier == kinds[hand.id] = "group"

\* A group message with no mention in the text it carries, bundle or not.
Gated == kinds[hand.id] = "group" /\ \A m \in In(turn) : ~Named(m)

Skips ==
    /\ phase = "gate" /\ Gated
    /\ Free /\ Gone(In(turn), "gate")
    /\ UNCHANGED <<thread, files, timerTurn, kinds, counts, told>>

\* _record_dispatched_id, then handle_message is awaited.
Records ==
    /\ phase = "gate" /\ ~Gated
    /\ recorded' = recorded \cup {hand.id} /\ phase' = "handing"
    /\ UNCHANGED <<thread, peopled, artifacts, hand, turn, timerTurn, kinds, counts,
                   history>>

HandsOver ==
    /\ phase = "handing"
    /\ Free /\ Told(turn)
    /\ UNCHANGED <<thread, files, timerTurn, kinds, counts, gone>>

\* handle_message raises: the file is read again, and is a duplicate.
Raises ==
    /\ phase = "handing" /\ Faults < MaxFaults
    /\ failures' = failures + 1
    /\ phase' = "new" /\ turn' = <<>> /\ Gone(In(turn), "raised")
    /\ UNCHANGED <<thread, files, hand, timerTurn, kinds, commands, crashes,
                   told>>

\* Mutant: the test for an empty buffer is the wrong way round.
TimerFlushesEmpty ==
    /\ Awaits /\ timerTurn = <<>> /\ mode = "silent" /\ Due /\ peopled /\ buffer = <<>>
    /\ timerTurn' = Ids(buffer) /\ Flushed
    /\ UNCHANGED <<mode, due, session, files, poll, kinds, counts, history>>

\* _flush_due_silent_digests; it may run whenever the poll task awaits.
TimerFlushes ==
    /\ Awaits /\ timerTurn = <<>> /\ mode = "silent" /\ Due /\ peopled
    /\ timerTurn' = Ids(buffer) /\ Flushed
    /\ UNCHANGED <<mode, due, session, files, poll, kinds, counts, history>>

\* The thread has no members: the buffer is emptied and saved before
\* _dispatch_silent_digest finds nobody in whose name to hand the bundle over.
TimerLoses ==
    /\ Awaits /\ timerTurn = <<>> /\ mode = "silent" /\ Due /\ ~peopled
    /\ Flushed /\ Gone(In(Ids(buffer)), "nobody")
    /\ UNCHANGED <<mode, due, session, files, poll, timerTurn, kinds, counts, told>>

TimerHandsOver ==
    /\ Awaits /\ timerTurn # <<>>
    /\ timerTurn' = <<>> /\ Told(timerTurn)
    /\ UNCHANGED <<thread, files, poll, kinds, counts, gone>>

TimerRaises ==
    /\ Awaits /\ timerTurn # <<>> /\ Faults < MaxFaults
    /\ failures' = failures + 1
    /\ timerTurn' = <<>> /\ Gone(In(timerTurn), "raised")
    /\ UNCHANGED <<thread, files, poll, kinds, commands, crashes, told>>

----------------------------------------------------------------------------
(* The commands mode, leave by the last member, join, protokoll open and    *)
(* protokoll close; the last two from the leader, as they change nothing    *)
(* for others.                                                              *)

SetsMode ==
    /\ hand.cmd = "mode"
    /\ mode' = hand.mode /\ Free
    /\ UNCHANGED <<state, buffer, due, cool, session, files, timerTurn, kinds,
                   counts, history>>

Leaves ==
    /\ hand.cmd = "leave"
    /\ peopled' = FALSE /\ Free
    /\ UNCHANGED <<thread, recorded, artifacts, timerTurn, kinds, counts, history>>

Joins ==
    /\ hand.cmd = "join"
    /\ peopled' = TRUE /\ Free
    /\ UNCHANGED <<thread, recorded, artifacts, timerTurn, kinds, counts, history>>

\* A session that is open already is replaced.
Opens ==
    /\ hand.cmd = "open"
    /\ session' = [name |-> hand.name, msgs |-> <<>>] /\ mode' = "protokoll"
    /\ IF session = Closed THEN UNCHANGED gone ELSE Gone(In(session.msgs), "reopened")
    /\ Free
    /\ UNCHANGED <<state, buffer, due, cool, files, timerTurn, kinds, counts,
                   told>>

CloseRefused ==
    /\ hand.cmd = "close" /\ session = Closed
    /\ Free
    /\ UNCHANGED <<thread, files, timerTurn, kinds, counts, history>>

\* The artifact of that name is written over.
Writes(msgs) ==
    /\ artifacts' = [artifacts EXCEPT ![session.name] = msgs]
    /\ Gone(In(artifacts[session.name]) \ In(msgs), "overwritten")

\* mkdir fails, or write_text with the file already truncated: the session
\* stays open.
CloseFails ==
    /\ hand.cmd = "close" /\ phase = "new" /\ session # Closed
    /\ Faults < MaxFaults /\ failures' = failures + 1
    /\ Writes(artifacts[session.name]) \/ Writes(<<>>)
    /\ Free
    /\ UNCHANGED <<thread, peopled, recorded, timerTurn, kinds, commands, crashes, told>>

CloseWrites ==
    /\ hand.cmd = "close" /\ phase = "new" /\ session # Closed
    /\ Writes(session.msgs)
    /\ phase' = "written"
    /\ UNCHANGED <<thread, peopled, recorded, hand, turn, timerTurn, kinds, counts, told>>

\* Mutant: the word for the digest state is put where the mode belongs.
CloseSavesActive ==
    /\ phase = "written"
    /\ session' = Closed /\ mode' = "active" /\ Free
    /\ UNCHANGED <<state, buffer, due, cool, files, timerTurn, kinds, counts,
                   history>>

CloseSaves ==
    /\ phase = "written"
    /\ session' = Closed /\ mode' = "participant" /\ Free
    /\ UNCHANGED <<state, buffer, due, cool, files, timerTurn, kinds, counts,
                   history>>

----------------------------------------------------------------------------
\* The process is killed and started again: the files are read again, and the
\* inbox file in hand is there still.
Crashes ==
    /\ Faults < MaxFaults /\ (hand # NoItem \/ timerTurn # <<>>)
    /\ crashes' = crashes + 1
    /\ phase' = "new" /\ turn' = <<>> /\ timerTurn' = <<>>
    /\ Gone(In(turn) \cup In(timerTurn), "killed")
    /\ UNCHANGED <<thread, files, hand, kinds, commands, failures, told>>

MessageStep ==
    \/ Duplicate \/ Drops \/ Buffers \/ Flushes \/ Notes \/ Passes \/ Collects
    \/ Unlinks \/ Skips \/ Records \/ HandsOver

CommandStep ==
    SetsMode \/ Leaves \/ Joins \/ Opens \/ CloseRefused \/ CloseWrites \/ CloseSaves

Timer == TimerFlushes \/ TimerLoses \/ TimerHandsOver

Next ==
    \/ Tick
    \/ \E k \in Kinds : Arrives(k)
    \/ \E c \in CommandItems : Commanded(c)
    \/ MessageStep \/ CommandStep \/ Timer
    \/ Raises \/ TimerRaises \/ CloseFails \/ Crashes

Spec == Init /\ [][Next]_vars

\* Time passes, and each of the two tasks goes on.
FairSpec ==
    Spec /\ WF_vars(Tick) /\ WF_vars(Timer) /\ WF_vars(MessageStep \/ CommandStep)

----------------------------------------------------------------------------
(* Properties. *)

Seen == 1..Len(kinds)

FieldsOK ==
    /\ mode \in Modes /\ state \in {"idle", "active", "digesting"}
    /\ buffer \in Seq([id : Seen, age : 0..MaxAge])
    /\ due \in 0..Interval /\ cool \in 0..Cooldown
    /\ session = Closed \/ session \in [name : Names, msgs : Seq(Seen)]
    /\ peopled \in BOOLEAN /\ recorded \subseteq Seen /\ artifacts \in [Names -> Seq(Seen)]
    /\ hand \in CommandItems \cup {NoItem} \cup [cmd : {"say"}, id : Seen]
    /\ phase \in {"new", "unlink", "gate", "handing", "written"}
    /\ phase = "written" => hand.cmd = "close" /\ session # Closed
    /\ phase \in {"unlink", "gate", "handing"} => hand.cmd = "say"
    /\ turn \in Seq(Seen) /\ timerTurn \in Seq(Seen)
    /\ kinds \in Seq(Kinds) /\ Len(kinds) <= MaxMessages
    /\ commands \in 0..MaxCommands
    /\ failures \in Nat /\ crashes \in Nat /\ Faults <= MaxFaults
    /\ told \in [Messages -> Nat] /\ gone \in [Messages -> SUBSET Reasons]

\* The buffer of a digest is not empty, its window is what is left of Interval
\* since its last message, and a cooldown never outlasts it: the timer's branch
\* for an empty buffer and the cooldown (T-080) decide nothing.
DigestWindow ==
    state = "digesting" =>
        /\ buffer # <<>>
        /\ LET age == buffer[Len(buffer)].age
           IN  due = IF age >= Interval THEN 0 ELSE Interval - age
        /\ cool <= due

TypeOK == FieldsOK /\ DigestWindow

\* Where a message may be.
Waiting(m)   == hand = [cmd |-> "say", id |-> m]
Buffered(m)  == m \in In(Ids(buffer))
Bundled(m)   == m \in In(turn) \cup In(timerTurn)
Collected(m) ==
    \/ session # Closed /\ m \in In(session.msgs)
    \/ \E n \in Names : m \in In(artifacts[n])

\* No message vanishes on its way through buffer, bundle, session and artifact
\* without one of the reasons: it is somewhere, or was told, or there is a
\* kill, a failed hand-over, the mode, the mention gate, a session of the same
\* thread or artifact of the same name that took its place, or a thread without
\* members when the timer flushed it.
NothingUnaccounted ==
    \A m \in Seen :
        \/ Waiting(m) \/ Buffered(m) \/ Bundled(m) \/ Collected(m)
        \/ told[m] > 0 \/ gone[m] # {}

\* A message that mentions the agent is never lost to the mention gate, also
\* when a later message that does not mention it carries it in a bundle.
MentionPassesTheGate == \A m \in Seen : Named(m) => "gate" \notin gone[m]

\* The agent reads a message once by itself and once more in a digest (a note
\* at low frequency stays in the buffer), and once more for each kill; one in the
\* minutes was not, and is not going to be, a turn.
ToldAsMeant ==
    \A m \in Seen :
        /\ told[m] <= 2 + crashes
        /\ Collected(m) => told[m] = 0 /\ ~Bundled(m) /\ ~Buffered(m)

\* While the mode stays, the digest of a silent thread is flushed when messages
\* pause, by the timer if none comes after the window, also when the poll task
\* is in a hand-over meanwhile.
SilentDigestIsFlushed ==
    (state = "digesting" /\ mode = "silent")
        ~> (state # "digesting" \/ mode # "silent")

=============================================================================
