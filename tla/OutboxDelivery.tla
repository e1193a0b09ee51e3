--------------------------- MODULE OutboxDelivery ---------------------------
(***************************************************************************)
(* The outbox of one bridge, from the file the adapter writes to the       *)
(* wrapper's send.  Four actors share the directory and no lock: the       *)
(* gateway writes by rename (_write_outbox), a cron process of its own     *)
(* writes in place (_standalone_send), the wrapper's outbox thread drains  *)
(* it (drain_outbox_once of hermes_bridge_sdk), and a worker thread of the *)
(* gateway removes stale files (_run_cleanup_sync).                        *)
(*                                                                         *)
(* A file is the message it carries; what is left of its content is        *)
(* whether it parses and whether it is a text, a typing marker or empty    *)
(* (neither target nor text).  The time of its last write is kept as its   *)
(* age in ticks; files written within one tick have equal ages.            *)
(***************************************************************************)
EXTENDS Integers, Sequences, FiniteSets

CONSTANTS
    NMsgs,      \* bound: messages are 1..NMsgs, written in this order
    CronMsgs,   \* those that a cron process writes
    MaxAge,     \* OUTBOX_CLEANUP_MAX_AGE, in ticks
    MaxFaults   \* bound: sends that raise, unlinks that fail, stops of the wrapper

Msgs == 1..NMsgs

ASSUME OutboxAssumption ==
    /\ NMsgs \in Nat /\ CronMsgs \subseteq Msgs /\ MaxAge \in Nat
    /\ MaxFaults \in Nat

VARIABLES
    file,      \* the file of each message
    age,       \* ticks since it was written, up to MaxAge + 1
    drain,     \* the wrapper's outbox thread
    faults,
    accepted,  \* history: texts that were whole in the outbox
    sent,      \* history: how often each reached the platform, up to 2
    swallowed, \* history: texts whose send failed and returned
    aged       \* history: texts the cleanup removed

vars == <<file, age, drain, faults, accepted, sent, swallowed, aged>>

history == <<accepted, sent, swallowed, aged>>

Contents == {"text", "typing", "empty"}
Present  == {m \in Msgs : file[m] \in Contents \cup {"torn"}}

\* found: the files that were there when the listing began; todo: the sorted
\* list; msg: the message in hand.
Idle == [at |-> "idle", found |-> {}, todo |-> <<>>, msg |-> 0]

Init ==
    /\ file = [m \in Msgs |-> "none"]
    /\ age = [m \in Msgs |-> 0]
    /\ drain = Idle
    /\ faults = 0
    /\ accepted = {} /\ sent = [m \in Msgs |-> 0]
    /\ swallowed = {} /\ aged = {}

----------------------------------------------------------------------------
(* The writers. *)

InTurn(m) == file[m] = "none" /\ \A k \in 1..(m - 1) : file[k] # "none"

Written(m, c) ==
    /\ file' = [file EXCEPT ![m] = c]
    /\ age' = [age EXCEPT ![m] = 0]
    /\ accepted' = IF c = "text" THEN accepted \cup {m} ELSE accepted
    /\ UNCHANGED <<drain, faults, sent, swallowed, aged>>

\* The temporary file is not listed; the rename makes the message appear whole.
GatewayWrites(m) ==
    /\ m \notin CronMsgs /\ InTurn(m)
    /\ \E c \in {"text", "typing"} : Written(m, c)

\* _atomic_write_json logs an OSError and returns; the send reports success.
GatewayFailsToWrite(m) ==
    /\ m \notin CronMsgs /\ InTurn(m)
    /\ Written(m, "gone")

\* write_text creates the file and fills it; the process may die in between.
CronCreates(m) ==
    /\ m \in CronMsgs /\ InTurn(m)
    /\ Written(m, "torn")

CronCompletes(m) ==
    /\ file[m] = "torn"
    /\ \E c \in {"text", "empty"} : Written(m, c)

----------------------------------------------------------------------------
(* The worker thread and the time. *)

\* Mutant: the limit is never reached.
CleansUpLate(m) ==
    /\ m \in Present /\ age[m] > MaxAge + 1
    /\ file' = [file EXCEPT ![m] = "gone"]
    /\ age' = IF drain.msg = m THEN age ELSE [age EXCEPT ![m] = 0]
    /\ aged' = IF file[m] = "text" THEN aged \cup {m} ELSE aged
    /\ UNCHANGED <<drain, faults, accepted, sent, swallowed>>

CleansUp(m) ==
    /\ m \in Present /\ age[m] > MaxAge
    /\ file' = [file EXCEPT ![m] = "gone"]
    /\ age' = IF drain.msg = m THEN age ELSE [age EXCEPT ![m] = 0]
    /\ aged' = IF file[m] = "text" THEN aged \cup {m} ELSE aged
    /\ UNCHANGED <<drain, faults, accepted, sent, swallowed>>

Older(m) == IF m \in Present /\ age[m] <= MaxAge THEN age[m] + 1 ELSE age[m]

Tick ==
    /\ \E m \in Msgs : Older(m) # age[m]
    /\ age' = [m \in Msgs |-> Older(m)]
    /\ UNCHANGED <<file, drain, faults, history>>

----------------------------------------------------------------------------
(* drain_outbox_once, one sweep after the other. *)

DrainOnly == UNCHANGED <<accepted, aged>>
Keeps == UNCHANGED <<file, age>>

Removes(m) ==
    /\ file' = [file EXCEPT ![m] = "gone"]
    /\ age' = [age EXCEPT ![m] = 0]

ListBegins ==
    /\ drain.at = "idle"
    /\ drain' = [Idle EXCEPT !.at = "list", !.found = Present]
    /\ DrainOnly /\ Keeps /\ UNCHANGED <<faults, sent, swallowed>>

\* Mutant: the list is left as the directory gave it.
InAnyOrder(S) ==
    {s \in [1..Cardinality(S) -> S] : \A i, j \in DOMAIN s : i # j => s[i] # s[j]}

\* sorted(..., key=st_mtime): the oldest file first, equal ages in any order.
ByMtime(S) ==
    {s \in [1..Cardinality(S) -> S] :
        /\ \A i, j \in DOMAIN s : i # j => s[i] # s[j]
        /\ \A i, j \in DOMAIN s : i < j => age[s[i]] >= age[s[j]]}

\* Of the files that appear during the listing any number is seen.
ListEnds ==
    /\ drain.at = "list" /\ drain.found \subseteq Present
    /\ \E new \in SUBSET (Present \ drain.found) :
       \E s \in ByMtime(drain.found \cup new) :
            drain' = [drain EXCEPT !.at = "next", !.todo = s]
    /\ DrainOnly /\ Keeps /\ UNCHANGED <<faults, sent, swallowed>>

\* stat raises for a file that the cleanup has removed since: the sweep ends.
StatFails ==
    /\ drain.at = "list" /\ ~(drain.found \subseteq Present)
    /\ drain' = Idle
    /\ DrainOnly /\ Keeps /\ UNCHANGED <<faults, sent, swallowed>>

SweepEnds ==
    /\ drain.at = "next" /\ drain.todo = <<>>
    /\ drain' = Idle
    /\ DrainOnly /\ Keeps /\ UNCHANGED <<faults, sent, swallowed>>

NextIs(m) ==
    /\ drain.at = "next" /\ drain.todo # <<>> /\ m = Head(drain.todo)
    /\ DrainOnly

\* A file that is gone or does not parse is kept for the next sweep ...
Skips(m) ==
    /\ NextIs(m) /\ file[m] \in {"gone", "torn"}
    /\ drain' = [drain EXCEPT !.todo = Tail(@)]
    /\ Keeps /\ UNCHANGED <<faults, sent, swallowed>>

\* ... but one that is cut inside a character raises UnicodeDecodeError, which
\* is no JSONDecodeError: the sweep ends with it.
CutCharacter(m) ==
    /\ NextIs(m) /\ file[m] = "torn"
    /\ drain' = Idle
    /\ Keeps /\ UNCHANGED <<faults, sent, swallowed>>

\* A typing marker, or a message with neither target nor text, is not sent.
Consumes(m) ==
    /\ NextIs(m) /\ file[m] \in {"typing", "empty"}
    /\ Removes(m)
    /\ drain' = [drain EXCEPT !.todo = Tail(@)]
    /\ UNCHANGED <<faults, sent, swallowed>>

\* The failing unlink of a typing marker ends the sweep, that of an empty
\* message is caught.
ConsumeFails(m) ==
    /\ NextIs(m) /\ file[m] \in {"typing", "empty"} /\ faults < MaxFaults
    /\ faults' = faults + 1
    /\ drain' = IF file[m] = "typing" THEN Idle ELSE [drain EXCEPT !.todo = Tail(@)]
    /\ Keeps /\ UNCHANGED <<sent, swallowed>>

Reads(m) ==
    /\ NextIs(m) /\ file[m] = "text"
    /\ drain' = [drain EXCEPT !.at = "send", !.todo = Tail(@), !.msg = m]
    /\ Keeps /\ UNCHANGED <<faults, sent, swallowed>>

\* send hands the message to the platform ...
PlatformTakes ==
    /\ drain.at = "send"
    /\ sent' = [sent EXCEPT ![drain.msg] = IF @ < 2 THEN @ + 1 ELSE @]
    /\ drain' = [drain EXCEPT !.at = "reached"]
    /\ DrainOnly /\ Keeps /\ UNCHANGED <<faults, swallowed>>

SendReturns ==
    /\ drain.at = "reached"
    /\ drain' = [drain EXCEPT !.at = "unlink"]
    /\ DrainOnly /\ Keeps /\ UNCHANGED <<faults, sent, swallowed>>

\* ... or fails, logs it and returns: send_message and send_imessage.
SendFailsAndReturns ==
    /\ drain.at = "send"
    /\ swallowed' = swallowed \cup {drain.msg}
    /\ drain' = [drain EXCEPT !.at = "unlink"]
    /\ DrainOnly /\ Keeps /\ UNCHANGED <<faults, sent>>

\* Mutant: the file goes whether the send raised or not (before T-095).
RaiseRemoves ==
    /\ drain.at \in {"send", "reached"} /\ faults < MaxFaults
    /\ faults' = faults + 1
    /\ Removes(drain.msg)
    /\ drain' = [drain EXCEPT !.at = "next", !.msg = 0]
    /\ DrainOnly /\ UNCHANGED <<sent, swallowed>>

\* An exception, before or after the platform took it, keeps the file.
SendRaises ==
    /\ drain.at \in {"send", "reached"} /\ faults < MaxFaults
    /\ faults' = faults + 1
    /\ drain' = [drain EXCEPT !.at = "next", !.msg = 0]
    /\ DrainOnly /\ Keeps /\ UNCHANGED <<sent, swallowed>>

\* Mutant: the file outlives its send.
KeepsSent ==
    /\ drain.at = "unlink"
    /\ drain' = [drain EXCEPT !.at = "next", !.msg = 0]
    /\ DrainOnly /\ Keeps /\ UNCHANGED <<faults, sent, swallowed>>

Unlinks ==
    /\ drain.at = "unlink"
    /\ Removes(drain.msg)
    /\ drain' = [drain EXCEPT !.at = "next", !.msg = 0]
    /\ DrainOnly /\ UNCHANGED <<faults, sent, swallowed>>

UnlinkFails ==
    /\ drain.at = "unlink" /\ faults < MaxFaults
    /\ faults' = faults + 1
    /\ drain' = [drain EXCEPT !.at = "next", !.msg = 0]
    /\ DrainOnly /\ Keeps /\ UNCHANGED <<sent, swallowed>>

\* The wrapper stops anywhere and is started again.
WrapperCrashes ==
    /\ drain # Idle /\ faults < MaxFaults
    /\ faults' = faults + 1
    /\ drain' = Idle
    /\ UNCHANGED <<file, age, history>>

----------------------------------------------------------------------------
Writers ==
    \E m \in Msgs : \/ GatewayWrites(m) \/ GatewayFailsToWrite(m)
                    \/ CronCreates(m) \/ CronCompletes(m)

Drain ==
    \/ ListBegins \/ ListEnds \/ StatFails \/ SweepEnds
    \/ \E m \in Msgs : \/ Skips(m) \/ CutCharacter(m) \/ Consumes(m)
                       \/ ConsumeFails(m) \/ Reads(m)
    \/ PlatformTakes \/ SendReturns \/ SendFailsAndReturns \/ SendRaises
    \/ Unlinks \/ UnlinkFails

Next ==
    \/ Writers
    \/ \E m \in Msgs : CleansUp(m)
    \/ Tick
    \/ Drain
    \/ WrapperCrashes

Spec == Init /\ [][Next]_vars

\* The drain loop runs for ever, every send comes back (ssh and urlopen have
\* timeouts), the cleanup comes round and time passes.
FairSpec ==
    /\ Spec
    /\ WF_vars(Drain) /\ WF_vars(Tick)
    /\ \A m \in Msgs : WF_vars(CleansUp(m))

----------------------------------------------------------------------------
(* Properties. *)

TypeOK ==
    /\ file \in [Msgs -> Contents \cup {"none", "torn", "gone"}]
    /\ age \in [Msgs -> 0..(MaxAge + 1)]
    /\ drain \in [at : {"idle", "list", "next", "send", "reached", "unlink"},
                  found : SUBSET Msgs, todo : Seq(Msgs), msg : Msgs \cup {0}]
    /\ drain.msg \in Msgs <=> drain.at \in {"send", "reached", "unlink"}
    /\ faults \in 0..MaxFaults
    /\ accepted \subseteq Msgs /\ swallowed \subseteq Msgs /\ aged \subseteq Msgs
    /\ sent \in [Msgs -> 0..2]

\* A message reaches the platform twice only where a fault pays for it: a stop
\* or an exception after the platform took it, or an unlink that failed.
RepeatsArePaidFor ==
    Cardinality({m \in Msgs : sent[m] > 1}) <= faults

\* Without faults the platform sees the gateway's texts in the order of their
\* writing.  Overtaken is at most one that was written in the same tick, or
\* that appeared while the sweep was being listed.
OldestFirst ==
    [][ \A j, k \in Msgs \ CronMsgs :
            (/\ faults = 0 /\ swallowed = {}
             /\ sent[k] = 0 /\ sent'[k] > 0
             /\ file[j] = "text" /\ sent[j] = 0 /\ j \in drain.found)
            => age[j] <= age[k] ]_vars

InHand(m) == drain.at \in {"send", "reached", "unlink"} /\ drain.msg = m

\* A text is held while its file is there or its send is under way.
Held(m) == file[m] = "text" \/ InHand(m)

Place == [m \in Msgs |-> IF m \notin accepted THEN "absent"
                         ELSE IF Held(m) THEN "held" ELSE "out"]

Excused == swallowed \cup aged

Channel == INSTANCE MessageChannel WITH
    Most <- 2, place <- Place, got <- sent, excused <- Excused

\* The outbox is a MessageChannel: a whole text stays until it was sent, unless
\* it outlived the cleanup's limit or its send failed without raising; nothing
\* torn, consumed or already removed is sent.
ImplementsChannel == Channel!Spec

\* Every text leaves at last, also behind a file on which every sweep ends.
EveryTextSettles == Channel!Settles

\* The docstring of drain_outbox_once: "files are unlinked only after a
\* successful send (T-095, at-least-once - a failed send leaves the file in
\* place and it is retried on the next sweep".
UnlinkedOnlyAfterSuccess ==
    [][ \A m \in Msgs :
            file[m] = "text" /\ file'[m] = "gone" => sent[m] > 0 \/ m \in aged' ]_vars

=============================================================================
