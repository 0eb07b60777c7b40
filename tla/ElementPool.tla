----------------------------- MODULE ElementPool -----------------------------
(***************************************************************************)
(* What a Manager promises to a client about the elements in it: an        *)
(* element exists from create() to erase(), its set changes by add and     *)
(* remove alone, and an erased element leaves every set.  Whether an       *)
(* element is in memory or in a file does not show.                        *)
(***************************************************************************)
EXTENDS Integers

CONSTANT Ids

VARIABLES
    live,       \* the elements created and not erased
    erased,     \* the elements erased
    pool        \* pool[a]: the elements in the set of a

vars == <<live, erased, pool>>

Init ==
    /\ live = {}
    /\ erased = {}
    /\ pool = [a \in Ids |-> {}]

Create(a) ==
    /\ a \notin live \cup erased
    /\ live' = live \cup {a}
    /\ UNCHANGED <<erased, pool>>

Add(a, b) ==
    /\ {a, b} \subseteq live
    /\ a # b
    /\ b \notin pool[a]
    /\ pool' = [pool EXCEPT ![a] = @ \cup {b}]
    /\ UNCHANGED <<live, erased>>

Remove(a, b) ==
    /\ b \in pool[a]
    /\ pool' = [pool EXCEPT ![a] = @ \ {b}]
    /\ UNCHANGED <<live, erased>>

Erase(b) ==
    /\ b \in live
    /\ live' = live \ {b}
    /\ erased' = erased \cup {b}
    /\ pool' = [a \in Ids |-> IF a = b THEN {} ELSE pool[a] \ {b}]

Next ==
    \E a \in Ids : \/ Create(a)
                   \/ Erase(a)
                   \/ \E b \in Ids : Add(a, b) \/ Remove(a, b)

Spec == Init /\ [][Next]_vars

=============================================================================
