----------------------------- MODULE Associations -----------------------------
(***************************************************************************)
(* What two opposite sets promise: they are the two ends of an             *)
(* association, a relation between elements that each end shows from its   *)
(* side.  A link is a triple of an element, one of its sets and an element *)
(* in that set.                                                            *)
(***************************************************************************)
CONSTANTS
    Elems,
    Features,   \* the sets an element has
    Singletons, \* those that hold at most one element
    Opp         \* Opp[f]: the set at the other end

VARIABLE links

Links == Elems \X Features \X Elems

\* The same link seen from the other end.
Rev(t) == <<t[3], Opp[t[2]], t[1]>>

\* The links that leave no room for t in a singleton at its near end.
Rivals(t) == {u \in links : t[2] \in Singletons /\ u[1] = t[1] /\ u[2] = t[2]}

Init == links = {}

\* A new link takes the place of those in the singletons at its ends.
Link(t) ==
    /\ t[1] # t[3]
    /\ LET gone == Rivals(t) \cup Rivals(Rev(t))
       IN  links' = (links \ (gone \cup {Rev(u) : u \in gone})) \cup {t, Rev(t)}

Unlink(t) ==
    /\ t \in links
    /\ links' = links \ {t, Rev(t)}

Next == \E t \in Links : Link(t) \/ Unlink(t)

Spec == Init /\ [][Next]_links

=============================================================================
