------------------------------- MODULE Ownership -------------------------------
(***************************************************************************)
(* What the queue promises to the agents, without files, leases, clocks,   *)
(* statuses or scopes: an item has one owner at a time, who got it with a  *)
(* token nobody had before; ownership ends once; an item is finished only  *)
(* by its owner, who thereby gives it up; and a finished item is never     *)
(* owned, or finished by another agent, again.                             *)
(***************************************************************************)
EXTENDS Naturals

CONSTANTS
    Items,
    Agents,
    Nobody     \* no agent

VARIABLES
    owner,      \* the agent that owns each item, or Nobody
    token,      \* the token it owns the item with (0 for none)
    ended,      \* the tokens whose ownership is over
    finished,   \* the agent who finished each item, or Nobody
    discarded,  \* the items that are out of the queue for good
    given       \* how many tokens were handed out

promises == <<owner, token, ended, finished, discarded, given>>

Owned == {i \in Items : owner[i] # Nobody}

Begin ==
    /\ owner = [i \in Items |-> Nobody]
    /\ token = [i \in Items |-> 0]
    /\ ended = {}
    /\ finished = [i \in Items |-> Nobody]
    /\ discarded = {}
    /\ given = 0

Ended(items) == ended' = ended \cup {token[i] : i \in items}

\* Some owners lose or give up their items.
GiveUp(gone) ==
    /\ owner' = [i \in Items |-> IF i \in gone THEN Nobody ELSE owner[i]]
    /\ token' = [i \in Items |-> IF i \in gone THEN 0 ELSE token[i]]
    /\ Ended(gone)
    /\ UNCHANGED <<finished, discarded, given>>

\* They do, and an agent gets an item that is open and not owned any more.
Get(gone, i, a) ==
    /\ i \notin Owned \ gone
    /\ finished[i] = Nobody /\ i \notin discarded
    /\ given' = given + 1
    /\ owner' = [j \in Items |-> IF j = i THEN a
                                 ELSE IF j \in gone THEN Nobody ELSE owner[j]]
    /\ token' = [j \in Items |-> IF j = i THEN given + 1
                                 ELSE IF j \in gone THEN 0 ELSE token[j]]
    /\ Ended(gone)
    /\ UNCHANGED <<finished, discarded>>

Finish(i) ==
    /\ finished[i] = Nobody /\ i \notin discarded
    /\ finished' = [finished EXCEPT ![i] = owner[i]]
    /\ owner' = [owner EXCEPT ![i] = Nobody]
    /\ token' = [token EXCEPT ![i] = 0]
    /\ Ended({i})
    /\ UNCHANGED <<discarded, given>>

\* An item leaves the queue; its owner may not know it yet.
Discard(i) ==
    /\ discarded' = discarded \cup {i}
    /\ finished' = [finished EXCEPT ![i] = Nobody]
    /\ UNCHANGED <<owner, token, ended, given>>

Serve ==
    \/ \E gone \in SUBSET Owned :
         \/ GiveUp(gone)
         \/ \E i \in Items, a \in Agents : Get(gone, i, a)
    \/ \E i \in Owned : Finish(i)
    \/ \E i \in Items : Discard(i)

PromiseSpec == Begin /\ [][Serve]_promises
=============================================================================
