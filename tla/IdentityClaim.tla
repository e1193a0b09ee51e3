---------------------------- MODULE IdentityClaim ----------------------------
(***************************************************************************)
(* The identity claims of adapter.py (T-065): an account claims to be the  *)
(* same person as a target account, a code is sent to the target, and the  *)
(* target confirms with it.  Pending claims and the identity map have a    *)
(* file each.  A confirm saves the map before the claims; the command is   *)
(* not recorded in the dedup map, so a kill before the reply and unlink    *)
(* runs it again.  The cleanup task purges expired claims.                 *)
(*                                                                         *)
(* The claims are a map, kept in the order of insertion: the ids here are  *)
(* numbers in that order.  Times are ticks from now.  The commands come    *)
(* from permitted senders and name a registered bridge; the others only    *)
(* get a reply.                                                            *)
(***************************************************************************)
EXTENDS Identity

CONSTANTS
    Accounts,                 \* records [bridge, user]
    Codes,
    MaxAttempts,              \* IDENTITY_CONFIRM_MAX_ATTEMPTS
    Lifetime,                 \* the 300 s of a claim, in ticks
    MaxClaims, MaxConfirms,   \* bounds: claims made, confirm commands
    MaxCrashes                \* bound: kills

ASSUME ClaimAssumption ==
    /\ \A a \in Accounts : a = [bridge |-> a.bridge, user |-> a.user]
    /\ MaxAttempts \in Nat \ {0} /\ Lifetime \in Nat \ {0}
    /\ MaxClaims \in Nat /\ MaxConfirms \in Nat /\ MaxCrashes \in Nat

VARIABLES
    claims,     \* _pending_claims
    saved,      \* pending_claims.json
    identity,   \* _identity_map, and identity_map.json
    hand,       \* the command in hand of the poll task
    step,       \* "new", "merged", "sending", "answer"
    made, confirms, crashes,
    missed,     \* history: wrong codes answered while a claim was open
    tried,      \* history: the claims that counted the code in hand as wrong
    lastMerge   \* history: the claim the last merge was made for

claimVars == <<claims, saved, identity, hand, step, made, confirms, crashes, missed,
               tried, lastMerge>>

history == <<missed, tried, lastMerge>>

NoItem  == [cmd |-> "none"]
NoClaim == [id |-> 0]

ClaimInit ==
    /\ claims = {} /\ saved = {} /\ identity = <<>>
    /\ hand = NoItem /\ step = "new"
    /\ made = 0 /\ confirms = 0 /\ crashes = 0
    /\ missed = [k \in 1..MaxClaims |-> 0] /\ tried = {} /\ lastMerge = NoClaim

----------------------------------------------------------------------------
(* Claims. *)

Open(c) == c.left > 0

\* The unexpired claims on an account of the bridge.
Candidates(bridge) == {c \in claims : c.target.bridge = bridge /\ Open(c)}

Ids(S) == {c.id : c \in S}

\* The claim that was added first.
Oldest(S) == CHOOSE c \in S : \A d \in S : c.id <= d.id

\* Mutant: only the claim that is first is compared (T-086 undone).
FirstOnly(bridge, code) ==
    {c \in Candidates(bridge) : c.code = code /\ \A d \in Candidates(bridge) : c.id <= d.id}

\* The claims whose code matches; the oldest one decides.
Matching(bridge, code) == {c \in Candidates(bridge) : c.code = code}

Later(S) == {[c EXCEPT !.left = IF @ = 0 THEN 0 ELSE @ - 1] : c \in S}

\* (The clock is read once in a command.)
Tick ==
    /\ step # "merged"
    /\ <<Later(claims), Later(saved)>> # <<claims, saved>>
    /\ claims' = Later(claims) /\ saved' = Later(saved)
    /\ UNCHANGED <<identity, hand, step, made, confirms, crashes, history>>

----------------------------------------------------------------------------
(* Commands. *)

ArrivesClaim(source, target) ==
    /\ hand = NoItem /\ made < MaxClaims
    /\ hand' = [cmd |-> "claim", source |-> source, target |-> target]
    /\ UNCHANGED <<claims, saved, identity, step, made, confirms, crashes, history>>

ArrivesConfirm(sender, code) ==
    /\ hand = NoItem /\ confirms < MaxConfirms
    /\ hand' = [cmd |-> "confirm", sender |-> sender, code |-> code]
    /\ confirms' = confirms + 1
    /\ UNCHANGED <<claims, saved, identity, step, made, crashes, history>>

\* A claim is added and saved; then its code is written to the target's outbox.
Claims ==
    /\ hand.cmd = "claim" /\ step = "new" /\ made < MaxClaims
    /\ \E code \in Codes :
          claims' = claims \cup {[id |-> made + 1, code |-> code,
                                 source |-> hand.source, target |-> hand.target,
                                 left |-> Lifetime, attempts |-> 0]}
    /\ saved' = claims' /\ made' = made + 1
    /\ step' = "sending"
    /\ UNCHANGED <<identity, hand, confirms, crashes, history>>

\* What a confirm looks at.
Confirming == hand.cmd = "confirm" /\ step = "new"
Matched    == Matching(hand.sender.bridge, hand.code)

\* Mutant: the bridge of the confirm is enough.
ConfirmsBridge ==
    /\ Confirming /\ Matched # {}
    /\ LET c == Oldest(Matched)
       IN  /\ c.target.bridge = hand.sender.bridge
           /\ identity' = Merged(identity, c.source, hand.sender)
           /\ lastMerge' = [id |-> c.id, source |-> c.source, target |-> c.target]
    /\ step' = "merged"
    /\ UNCHANGED <<claims, saved, hand, made, confirms, crashes, missed, tried>>

\* The target gives the code: the map is merged and saved.
Confirms ==
    /\ Confirming /\ Matched # {}
    /\ LET c == Oldest(Matched)
       IN  /\ c.target = hand.sender
           /\ identity' = Merged(identity, c.source, c.target)
           /\ lastMerge' = [id |-> c.id, source |-> c.source, target |-> c.target]
    /\ step' = "merged"
    /\ UNCHANGED <<claims, saved, hand, made, confirms, crashes, missed, tried>>

\* Mutant: the claim is taken from the map in memory only.
DeletesUnsaved ==
    /\ step = "merged"
    /\ claims' = claims \ {Oldest(Matched)} /\ UNCHANGED saved
    /\ step' = "answer"
    /\ UNCHANGED <<identity, hand, made, confirms, crashes, history>>

\* Then the claim is deleted and the claims are saved.
Deletes ==
    /\ step = "merged"
    /\ claims' = claims \ {Oldest(Matched)} /\ saved' = claims'
    /\ step' = "answer"
    /\ UNCHANGED <<identity, hand, made, confirms, crashes, history>>

\* The code is right but the sender is not the target of the first match.
Refuses ==
    /\ Confirming /\ Matched # {} /\ Oldest(Matched).target # hand.sender
    /\ step' = "answer"
    /\ UNCHANGED <<claims, saved, identity, hand, made, confirms, crashes, history>>

\* A wrong code counts an attempt on each candidate.
Counted(bridge) ==
    {[c EXCEPT !.attempts = IF c \in Candidates(bridge) THEN @ + 1 ELSE @] : c \in claims}

\* Mutant: a claim goes when it is above the cap.
AfterMissAboveCap(bridge) ==
    {c \in Counted(bridge) : c.target.bridge = bridge => Open(c) /\ c.attempts <= MaxAttempts}

\* The claims after a wrong code: those at the cap go, and expired ones of the
\* bridge, too.
AfterMiss(bridge) ==
    {c \in Counted(bridge) : c.target.bridge = bridge => Open(c) /\ c.attempts < MaxAttempts}

\* Mutant: attempts are saved only when a claim goes.
MissesUnsaved ==
    /\ Confirming /\ Matched = {}
    /\ claims' = AfterMiss(hand.sender.bridge)
    /\ saved' = IF Ids(claims') # Ids(claims) THEN claims' ELSE saved
    /\ tried' = Ids(Candidates(hand.sender.bridge))
    /\ step' = "answer"
    /\ UNCHANGED <<identity, hand, made, confirms, crashes, missed, lastMerge>>

Misses ==
    /\ Confirming /\ Matched = {}
    /\ claims' = AfterMiss(hand.sender.bridge) /\ saved' = claims'
    /\ tried' = Ids(Candidates(hand.sender.bridge))
    /\ step' = "answer"
    /\ UNCHANGED <<identity, hand, made, confirms, crashes, missed, lastMerge>>

\* The code, and the reply, are written; the file is unlinked.
Answers ==
    /\ step \in {"sending", "answer"}
    /\ hand' = NoItem /\ step' = "new"
    /\ missed' = [k \in DOMAIN missed |->
                     IF k \in tried THEN missed[k] + 1 ELSE missed[k]]
    /\ tried' = {}
    /\ UNCHANGED <<claims, saved, identity, made, confirms, crashes, lastMerge>>

\* The bound on claims stops a claim command that a kill made run again.
GivesUp ==
    /\ hand.cmd = "claim" /\ step = "new" /\ made = MaxClaims
    /\ hand' = NoItem
    /\ UNCHANGED <<claims, saved, identity, step, made, confirms, crashes, history>>

\* _run_cleanup, while the poll task awaits.
CleansUp ==
    /\ step \in {"new", "sending", "answer"}
    /\ \E c \in claims : ~Open(c)
    /\ claims' = {c \in claims : Open(c)} /\ saved' = claims'
    /\ UNCHANGED <<identity, hand, step, made, confirms, crashes, history>>

\* The process is killed; the files are read and the command is run again.
Kills ==
    /\ crashes < MaxCrashes /\ hand # NoItem
    /\ crashes' = crashes + 1
    /\ claims' = saved /\ step' = "new" /\ tried' = {}
    /\ UNCHANGED <<saved, identity, hand, made, confirms, missed, lastMerge>>

Command == Claims \/ Confirms \/ Deletes \/ Refuses \/ Misses \/ Answers \/ GivesUp

ClaimNext ==
    \/ Tick
    \/ \E a, b \in Accounts : a # b /\ ArrivesClaim(a, b)
    \/ \E a \in Accounts, c \in Codes : ArrivesConfirm(a, c)
    \/ Command \/ CleansUp \/ Kills

ClaimSpec == ClaimInit /\ [][ClaimNext]_claimVars

----------------------------------------------------------------------------
(* Properties. *)

ClaimType ==
    [id : 1..MaxClaims, code : Codes, source : Accounts, target : Accounts,
     left : 0..Lifetime, attempts : 0..(MaxAttempts - 1)]

Users == {a.user : a \in Accounts}

ClaimTypeOK ==
    /\ claims \subseteq ClaimType /\ saved \subseteq ClaimType
    /\ \A c, d \in claims : c.id = d.id => c = d
    /\ \A i \in DOMAIN identity : identity[i].person \in Users
    /\ step \in {"new", "merged", "sending", "answer"}
    /\ hand = NoItem => step = "new"
    /\ made \in 0..MaxClaims /\ confirms \in 0..MaxConfirms
    /\ crashes \in 0..MaxCrashes
    /\ missed \in [1..MaxClaims -> 0..MaxConfirms]
    /\ tried \subseteq 1..MaxClaims

\* Every wrong code that was answered stays counted on the claims it could have
\* been for, across kills, and nothing else is counted but a confirm that a
\* kill made run again (after its own claim was closed it is a wrong code).
AttemptsAreMisses ==
    \A c \in claims :
        /\ c.attempts >= missed[c.id]
        /\ c.attempts <= missed[c.id] + crashes + IF c.id \in tried THEN 1 ELSE 0

\* A claim that was confirmed and answered is not open again: a kill later does
\* not bring it back from the file (expired, it may wait for the cleanup).
ClosedStaysClosed ==
    hand = NoItem =>
        \A c \in claims \cup saved : c.id = lastMerge.id => ~Open(c)

\* An entry in front of the one the target is merged into names the target.
EarlierEntry(map, c) ==
    LET p == Resolve(map, c.source)
    IN  \E i \in DOMAIN map :
           /\ map[i].person # p /\ Matches(map[i], c.target)
           /\ \A k \in DOMAIN map : map[k].person = p => i < k

\* A confirmed claim moves nobody but accounts that have the target's user name
\* (a bare alias counts on every bridge): who was the same person as the source,
\* or as anybody else, stays so.  And the reply "X and Y are now the same person"
\* is true, except when an entry in front of the source's names the target
\* already.
ConfirmMergesTheTwo ==
    [][/\ \A a \in Accounts :
             Resolve(identity', a) # Resolve(identity, a)
             => a.user = lastMerge'.target.user
       /\ step = "new" /\ step' = "merged" =>
             LET c == lastMerge'
             IN  \/ Resolve(identity', c.target) = Resolve(identity', c.source)
                 \/ EarlierEntry(identity, c)]_claimVars

\* T-086: the target of an open claim that gives its code is refused, or counted
\* as wrong, only when an older claim on its bridge has the same code.
RightCodeConfirms ==
    [][\A c \in claims :
          /\ Confirming /\ step' = "answer"
          /\ Open(c) /\ c.target = hand.sender /\ c.code = hand.code
          => \E d \in claims :
                /\ d.id < c.id
                /\ d.code = hand.code /\ d.target # hand.sender
                /\ d.target.bridge = hand.sender.bridge]_claimVars

=============================================================================
