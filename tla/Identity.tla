------------------------------ MODULE Identity ------------------------------
(***************************************************************************)
(* The identity map of adapter.py: who is the same person.  It is a list   *)
(* of entries in the order in which they were added; an entry gives its    *)
(* person a set of bare aliases and, per bridge, one declared user.  An    *)
(* account is a user of a bridge.  (The legacy entry that is a bare list   *)
(* is an entry that declares nothing.)                                     *)
(***************************************************************************)
EXTENDS Integers, Sequences

Entry(person, aliases, wrappers) ==
    [person |-> person, aliases |-> aliases, wrappers |-> wrappers]

\* The entry names the account for its bridge, or has its user as an alias.
Matches(e, account) ==
    \/ /\ account.bridge \in DOMAIN e.wrappers
       /\ e.wrappers[account.bridge] = account.user
    \/ account.user \in e.aliases

First(places) == CHOOSE i \in places : \A j \in places : i <= j

\* The person of the first entry that matches; an unknown account is itself.
Resolve(map, account) ==
    LET found == {i \in DOMAIN map : Matches(map[i], account)}
    IN  IF found = {} THEN account.user ELSE map[First(found)].person

Declaring(wrappers, account) ==
    [b \in DOMAIN wrappers \cup {account.bridge} |->
        IF b = account.bridge THEN account.user ELSE wrappers[b]]

\* A confirmed claim adds the target to the entry of the source's person.
Merged(map, source, target) ==
    LET p == Resolve(map, source)
    IN  IF \E i \in DOMAIN map : map[i].person = p
        THEN [i \in DOMAIN map |->
                IF map[i].person = p
                THEN [map[i] EXCEPT !.aliases = @ \cup {target.user},
                                    !.wrappers = Declaring(@, target)]
                ELSE map[i]]
        ELSE Append(map,
                    Entry(p, {source.user, target.user},
                          Declaring([b \in {source.bridge} |-> source.user], target)))

=============================================================================
