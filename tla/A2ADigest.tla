----------------------------- MODULE A2ADigest -----------------------------
(***************************************************************************)
(* The a2a digest of adapter.py (T-061E/F): messages of agent peers that   *)
(* come in a series are buffered and handed to the gateway as one bundle.  *)
(* The poll task notes each message and flushes when the burst cap or the  *)
(* window is reached; the flush timer, a task of its own, first dispatches *)
(* again every bundle still in a2a_pending_bundles.json and then flushes   *)
(* the windows that ran out.  Both await handle_message, so either may     *)
(* find the other in the middle of a hand-off.                             *)
(*                                                                         *)
(* Time is counted in ticks relative to now.  A bundle is the sequence of  *)
(* its messages; messages are numbered in the order of their arrival.      *)
(***************************************************************************)
EXTENDS Integers, Sequences, SequencesExt

CONSTANTS
    NMsgs, Peers, PeerOf,    \* bound: the messages, and who sends each
    SerieGap,                \* A2A_SERIE_GAP, in ticks
    Window,                  \* A2A_DIGEST_WINDOW
    BurstCap,                \* A2A_BURST_CAP
    Cooldown,                \* ADAPTIVE_COOLDOWN
    MaxCrashes, MaxRaises    \* bounds: crashes, failing hand-offs

Msgs == 1..NMsgs

ASSUME DigestAssumption ==
    /\ NMsgs \in Nat /\ PeerOf \in [Msgs -> Peers]
    /\ SerieGap \in Nat /\ Window \in Nat \ {0}
    /\ BurstCap \in Nat \ {0} /\ Cooldown \in Nat
    /\ MaxCrashes \in Nat /\ MaxRaises \in Nat

VARIABLES
    file,       \* inbox files: "none", "waiting", "stuck" (marked seen), "gone"
    dedup,      \* ids recorded by the single-message path
    st,         \* _a2a_digest_states, its times as ticks from now
    pend,       \* _a2a_pending, as in a2a_pending_bundles.json
    poll,       \* the poll task
    timer,      \* the flush timer
    crashes, raises,
    started,    \* history: messages whose hand-off began
    delivered,  \* history: hand-offs that came back, up to 2
    lost        \* history: messages a stop or failure took with it

vars == <<file, dedup, st, pend, poll, timer, crashes, raises, started,
          delivered, lost>>

history == <<started, delivered, lost>>

Fresh == [state |-> "active", buffer |-> <<>>, gap |-> SerieGap + 1,
          savedGap |-> SerieGap + 1, until |-> 0, cool |-> 0]

PollIdle  == [at |-> "idle", msg |-> 0, bundle |-> <<>>]
TimerIdle == [at |-> "idle", rest |-> <<>>, back |-> "recover", due |-> {},
              bundle |-> <<>>]

Init ==
    /\ file = [m \in Msgs |-> "none"]
    /\ dedup = {}
    /\ st = [p \in Peers |-> Fresh]
    /\ pend = <<>>
    /\ poll = PollIdle /\ timer = TimerIdle
    /\ crashes = 0 /\ raises = 0
    /\ started = {} /\ delivered = [m \in Msgs |-> 0] /\ lost = {}

----------------------------------------------------------------------------
\* The wrapper drops the next message.
Arrive(m) ==
    /\ file[m] = "none" /\ \A k \in 1..(m - 1) : file[k] # "none"
    /\ file' = [file EXCEPT ![m] = "waiting"]
    /\ UNCHANGED <<dedup, st, pend, poll, timer, crashes, raises, history>>

LessOne(n) == IF n > 0 THEN n - 1 ELSE 0
OneMore(n) == IF n > SerieGap THEN n ELSE n + 1

Aged(s) == [s EXCEPT !.gap = OneMore(@), !.savedGap = OneMore(@),
                     !.until = LessOne(@), !.cool = LessOne(@)]

Tick ==
    /\ \E p \in Peers : Aged(st[p]) # st[p]
    /\ st' = [p \in Peers |-> Aged(st[p])]
    /\ UNCHANGED <<file, dedup, pend, poll, timer, crashes, raises, history>>

\* _save_a2a_digest_states writes the states of all peers.
Saved(states) == [p \in Peers |-> [states[p] EXCEPT !.savedGap = states[p].gap]]

\* A task gives up the event loop only while it sleeps or awaits a hand-off.
PollWaits  == poll.at \in {"idle", "hand"}
TimerWaits == timer.at \in {"idle", "hand"}

----------------------------------------------------------------------------
(* The poll task: _process_incoming and _a2a_note_digest. *)

\* m is the oldest readable file of the inbox.
Takes(m) ==
    /\ poll.at = "idle" /\ file[m] = "waiting"
    /\ \A k \in 1..(m - 1) : file[k] # "waiting"
    /\ UNCHANGED <<pend, crashes, raises>>

Suppress(m) ==
    /\ Takes(m) /\ m \in dedup
    /\ file' = [file EXCEPT ![m] = "gone"]
    /\ UNCHANGED <<dedup, st, poll, timer, history>>

\* Mutant: an isolated message passes although the window is open.
PassOpenWindow(m) ==
    LET p == PeerOf[m] IN
    /\ Takes(m) /\ m \notin dedup
    /\ st[p].gap > SerieGap
    /\ st' = [st EXCEPT ![p].gap = 0]
    /\ dedup' = dedup \cup {m}
    /\ poll' = [at |-> "hand", msg |-> m, bundle |-> <<>>]
    /\ started' = started \cup {m}
    /\ UNCHANGED <<file, timer, delivered, lost>>

\* "pass": an isolated message is recorded and handed off by itself.  The new
\* last_inbound_ts is not saved.
Pass(m) ==
    LET p == PeerOf[m] IN
    /\ Takes(m) /\ m \notin dedup
    /\ st[p].state = "active" /\ st[p].gap > SerieGap
    /\ st' = [st EXCEPT ![p].gap = 0]
    /\ dedup' = dedup \cup {m}
    /\ poll' = [at |-> "hand", msg |-> m, bundle |-> <<>>]
    /\ started' = started \cup {m}
    /\ UNCHANGED <<file, timer, delivered, lost>>

\* A series: the window opens with this message.
Open(m) ==
    LET p == PeerOf[m] IN
    /\ Takes(m) /\ m \notin dedup
    /\ st[p].state = "active" /\ st[p].gap <= SerieGap
    /\ st' = Saved([st EXCEPT ![p] = [@ EXCEPT !.state = "digesting", !.gap = 0,
                                               !.buffer = <<m>>, !.until = Window]])
    /\ timer' = [timer EXCEPT !.due = @ \ {p}]
    /\ poll' = [at |-> "unlink", msg |-> m, bundle |-> <<>>]
    /\ UNCHANGED <<file, dedup, history>>

\* The window stays open: during a cooldown whatever the buffer holds.
Buffers(s) ==
    \/ s.cool > 0
    \/ s.until > 0 /\ Len(s.buffer) + 1 < BurstCap

Buffer(m) ==
    LET p == PeerOf[m] IN
    /\ Takes(m) /\ m \notin dedup
    /\ st[p].state = "digesting" /\ Buffers(st[p])
    /\ st' = Saved([st EXCEPT ![p].buffer = Append(@, m)])
    /\ poll' = [at |-> "unlink", msg |-> m, bundle |-> <<>>]
    /\ UNCHANGED <<file, dedup, timer, history>>

\* The first half of _a2a_flush: the emptied state is saved.
Emptied(p) ==
    Saved([st EXCEPT ![p] = [@ EXCEPT !.state = "active", !.buffer = <<>>,
                                      !.cool = Cooldown]])

FlushNow(m) ==
    LET p == PeerOf[m] IN
    /\ Takes(m) /\ m \notin dedup
    /\ st[p].state = "digesting" /\ ~Buffers(st[p])
    /\ st' = Emptied(p)
    /\ poll' = [at |-> "flush", msg |-> m, bundle |-> Append(st[p].buffer, m)]
    /\ UNCHANGED <<file, dedup, timer, history>>

\* Mutant: the bundle is dispatched without being saved (before T-061F).
PollSkipsPending ==
    /\ poll.at = "flush"
    /\ poll' = [poll EXCEPT !.at = "hand"]
    /\ started' = started \cup Range(poll.bundle)
    /\ UNCHANGED <<file, dedup, st, pend, timer, crashes, raises, delivered, lost>>

\* Its second half: the bundle is saved; its hand-off begins.
PollSavesBundle ==
    /\ poll.at = "flush"
    /\ pend' = Append(pend, poll.bundle)
    /\ poll' = [poll EXCEPT !.at = "hand"]
    /\ started' = started \cup Range(poll.bundle)
    /\ UNCHANGED <<file, dedup, st, timer, crashes, raises, delivered, lost>>

Counted(ms) ==
    [m \in Msgs |-> IF m \in ms /\ delivered[m] < 2
                    THEN delivered[m] + 1 ELSE delivered[m]]

PollAccepted ==
    /\ poll.at = "hand"
    /\ delivered' = Counted(IF poll.bundle = <<>> THEN {poll.msg}
                            ELSE Range(poll.bundle))
    /\ poll' = [poll EXCEPT !.at = IF poll.bundle = <<>> THEN "unlink" ELSE "clear"]
    /\ UNCHANGED <<file, dedup, st, pend, timer, crashes, raises, started, lost>>

\* The exception leaves the file marked; a bundle stays pending.
PollRaised ==
    /\ poll.at = "hand" /\ raises < MaxRaises
    /\ raises' = raises + 1
    /\ file' = [file EXCEPT ![poll.msg] = "stuck"]
    /\ lost' = IF poll.bundle = <<>> THEN lost \cup {poll.msg} ELSE lost
    /\ poll' = PollIdle
    /\ UNCHANGED <<dedup, st, pend, timer, crashes, started, delivered>>

\* The newest pending entry with this text goes.
WithoutNewest(b) ==
    IF b \in Range(pend)
    THEN RemoveAt(pend, CHOOSE i \in DOMAIN pend :
                            /\ pend[i] = b
                            /\ \A j \in DOMAIN pend : pend[j] = b => j <= i)
    ELSE pend

PollClears ==
    /\ poll.at = "clear"
    /\ pend' = WithoutNewest(poll.bundle)
    /\ poll' = [poll EXCEPT !.at = "unlink"]
    /\ UNCHANGED <<file, dedup, st, timer, crashes, raises, history>>

PollUnlinks ==
    /\ poll.at = "unlink"
    /\ file' = [file EXCEPT ![poll.msg] = "gone"]
    /\ poll' = PollIdle
    /\ UNCHANGED <<dedup, st, pend, timer, crashes, raises, history>>

----------------------------------------------------------------------------
(* The timer: _a2a_flush_loop and _flush_a2a_digests. *)

TimerOnly == UNCHANGED <<file, dedup, poll, crashes>>

\* It wakes up and copies the pending entries ...
TimerWakes ==
    /\ timer.at = "idle"
    /\ timer' = [TimerIdle EXCEPT !.at = "recover", !.rest = pend]
    /\ TimerOnly /\ UNCHANGED <<st, pend, raises, history>>

\* ... and dispatches each of them again, wherever the entry is by then.
TimerRecovers ==
    /\ timer.at = "recover" /\ timer.rest # <<>>
    /\ timer' = [timer EXCEPT !.at = "hand", !.bundle = Head(timer.rest),
                              !.rest = Tail(@)]
    /\ started' = started \cup Range(Head(timer.rest))
    /\ TimerOnly /\ UNCHANGED <<st, pend, raises, delivered, lost>>

\* Then it reads the clock once and looks at every window.
TimerReadsClock ==
    /\ timer.at = "recover" /\ timer.rest = <<>>
    /\ timer' = [timer EXCEPT !.at = "windows", !.back = "windows",
                     !.due = {p \in Peers : st[p].cool = 0 /\ st[p].until = 0}]
    /\ TimerOnly /\ UNCHANGED <<st, pend, raises, history>>

\* Mutant: the timer leaves a window with a single message open.
TimerFlushesSeries(p) ==
    /\ timer.at = "windows" /\ p \in timer.due
    /\ st[p].state = "digesting" /\ st[p].cool = 0 /\ Len(st[p].buffer) > 1
    /\ st' = Emptied(p)
    /\ timer' = [timer EXCEPT !.at = "flush", !.due = @ \ {p},
                              !.bundle = st[p].buffer]
    /\ TimerOnly /\ UNCHANGED <<pend, raises, history>>

TimerFlushes(p) ==
    /\ timer.at = "windows" /\ p \in timer.due
    /\ st[p].state = "digesting" /\ st[p].cool = 0 /\ st[p].buffer # <<>>
    /\ st' = Emptied(p)
    /\ timer' = [timer EXCEPT !.at = "flush", !.due = @ \ {p},
                              !.bundle = st[p].buffer]
    /\ TimerOnly /\ UNCHANGED <<pend, raises, history>>

TimerSavesBundle ==
    /\ timer.at = "flush"
    /\ pend' = Append(pend, timer.bundle)
    /\ timer' = [timer EXCEPT !.at = "hand"]
    /\ started' = started \cup Range(timer.bundle)
    /\ TimerOnly /\ UNCHANGED <<st, raises, delivered, lost>>

TimerAccepted ==
    /\ timer.at = "hand"
    /\ delivered' = Counted(Range(timer.bundle))
    /\ timer' = [timer EXCEPT !.at = "clear"]
    /\ TimerOnly /\ UNCHANGED <<st, pend, raises, started, lost>>

\* The exception ends this round of the timer.
TimerRaised ==
    /\ timer.at = "hand" /\ raises < MaxRaises
    /\ raises' = raises + 1
    /\ timer' = TimerIdle
    /\ TimerOnly /\ UNCHANGED <<st, pend, history>>

TimerClears ==
    /\ timer.at = "clear"
    /\ pend' = WithoutNewest(timer.bundle)
    /\ timer' = [timer EXCEPT !.at = timer.back]
    /\ TimerOnly /\ UNCHANGED <<st, raises, history>>

\* The next round comes after a sleep.
TimerSleeps ==
    /\ timer.at = "windows"
    /\ \A p \in timer.due : st[p].state = "active" \/ st[p].cool > 0
    /\ timer' = TimerIdle
    /\ TimerOnly /\ UNCHANGED <<st, pend, raises, history>>

----------------------------------------------------------------------------
\* What the tasks hold in memory only: a bundle between the two saves, or a
\* message that is recorded as dispatched and not yet taken over.
InHand ==
    (IF poll.at = "flush" THEN Range(poll.bundle) ELSE {})
    \cup (IF timer.at = "flush" THEN Range(timer.bundle) ELSE {})
    \cup (IF poll.at = "hand" /\ poll.bundle = <<>> THEN {poll.msg} ELSE {})

\* The adapter is killed and starts again: unsaved times and the marks are lost.
Crash ==
    /\ crashes < MaxCrashes
    /\ crashes' = crashes + 1
    /\ file' = [m \in Msgs |-> IF file[m] = "stuck" THEN "waiting" ELSE file[m]]
    /\ st' = [p \in Peers |-> [st[p] EXCEPT !.gap = st[p].savedGap]]
    /\ lost' = lost \cup {m \in InHand : m \in dedup \/ file[m] = "gone"}
    /\ poll' = PollIdle /\ timer' = TimerIdle
    /\ UNCHANGED <<dedup, pend, raises, started, delivered>>

PollTask ==
    \/ \E m \in Msgs : Suppress(m) \/ Pass(m) \/ Open(m) \/ Buffer(m) \/ FlushNow(m)
    \/ PollSavesBundle \/ PollClears \/ PollUnlinks

TimerTask ==
    \/ TimerWakes \/ TimerRecovers \/ TimerReadsClock \/ TimerSavesBundle
    \/ \E p \in Peers : TimerFlushes(p)
    \/ TimerClears \/ TimerSleeps

PollRuns  == TimerWaits /\ PollTask
TimerRuns == PollWaits /\ TimerTask
PollHandOff  == TimerWaits /\ (PollAccepted \/ PollRaised)
TimerHandOff == PollWaits /\ (TimerAccepted \/ TimerRaised)

Next ==
    \/ \E m \in Msgs : Arrive(m)
    \/ Tick
    \/ PollRuns \/ PollHandOff
    \/ TimerRuns \/ TimerHandOff
    \/ Crash

Spec == Init /\ [][Next]_vars

\* The event loop queues ready tasks first in, first out, so a task that is
\* ready again and again whenever the other waits gets its turn (strong
\* fairness); every hand-off comes back, and time passes.
FairSpec ==
    /\ Spec
    /\ SF_vars(PollRuns) /\ SF_vars(PollHandOff)
    /\ SF_vars(TimerRuns) /\ SF_vars(TimerHandOff)
    /\ WF_vars(Tick)

----------------------------------------------------------------------------
(* Properties. *)

DigestStates ==
    [state : {"active", "digesting"}, buffer : Seq(Msgs),
     gap : 0..(SerieGap + 1), savedGap : 0..(SerieGap + 1),
     until : 0..Window, cool : 0..Cooldown]

PollStates ==
    [at : {"idle", "flush", "hand", "clear", "unlink"}, msg : Msgs \cup {0},
     bundle : Seq(Msgs)]

\* back: where the timer goes on after a hand-off.
TimerStates ==
    [at : {"idle", "recover", "windows", "flush", "hand", "clear"},
     rest : Seq(Seq(Msgs)), back : {"recover", "windows"}, due : SUBSET Peers,
     bundle : Seq(Msgs)]

FieldsOK ==
    /\ file \in [Msgs -> {"none", "waiting", "stuck", "gone"}]
    /\ dedup \subseteq Msgs
    /\ st \in [Peers -> DigestStates]
    /\ pend \in Seq(Seq(Msgs))
    /\ poll \in PollStates
    /\ poll.at # "idle" => poll.msg \in Msgs
    /\ timer \in TimerStates
    /\ crashes \in 0..MaxCrashes /\ raises \in 0..MaxRaises
    /\ started \subseteq Msgs /\ lost \subseteq Msgs
    /\ delivered \in [Msgs -> 0..2]

\* On disk and in memory alike a window is open exactly while something is
\* buffered in it, also across restarts: no message waits for a flush that no
\* window will ever trigger.
OpenIffBuffered ==
    \A p \in Peers : st[p].state = "digesting" <=> st[p].buffer # <<>>

TypeOK == FieldsOK /\ OpenIffBuffered

Stored(m) ==
    \/ \E p \in Peers : m \in Range(st[p].buffer)
    \/ \E b \in Range(pend) : m \in Range(b)

\* A message whose file is gone has reached the gateway, is stored, or is in
\* the bundle a task has in hand between the two saves of _a2a_flush; a restart
\* finds it again except from that window.
NothingUnaccounted ==
    \A m \in Msgs :
        file[m] = "gone" => delivered[m] > 0 \/ Stored(m) \/ m \in InHand \/ m \in lost

\* Without a failure or a crash the agent sees a peer's messages in the order
\* they arrived, whether they pass or come in bundles of either task: none is
\* first handed off before an older one.
FirstHandOffsInOrder ==
    crashes = 0 /\ raises = 0 =>
        \A m \in started : \A k \in 1..(m - 1) :
            PeerOf[k] = PeerOf[m] => k \in started

\* Every message reaches the gateway at last, buffered or not and also when a
\* hand-off failed: the timer closes every window and retries every bundle.
\* What is excepted was lost with a crash or a failing single hand-off.
EveryMessageArrives ==
    \A m \in Msgs : file[m] = "waiting" ~> delivered[m] > 0 \/ m \in lost

============================================================================
