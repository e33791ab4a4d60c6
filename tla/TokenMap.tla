------------------------------ MODULE TokenMap ------------------------------
(***************************************************************************)
(* What the scratch pad promises its callers: a map from token names to    *)
(* values.  A set stores one token and leaves the others alone, a get      *)
(* returns what was stored last.  A set or a clear that fails says so; it  *)
(* has changed nothing or, when the flash gave out under it, lost every    *)
(* token.                                                                  *)
(***************************************************************************)
CONSTANTS
    Name,    \* token names
    Value,   \* values a token can have
    None     \* a name that has no token

VARIABLES
    map,     \* map[n]: the value of token n
    last,    \* the call that was made last
    ret      \* what it returned

vars == <<map, last, ret>>

Empty == [n \in Name |-> None]

Init ==
    /\ map = Empty
    /\ last = <<"none">> /\ ret = <<"ok">>

\* A call that does not do what it was called for.
Fail == ret' = <<"fail">> /\ map' \in {map, Empty}

\* v is None for a set that removes the token.
Set(n, v) ==
    /\ last' = <<"set", n, v>>
    /\ \/ ret' = <<"ok">> /\ map' = [map EXCEPT ![n] = v]
       \/ Fail

Get(n) ==
    /\ last' = <<"get", n>>
    /\ ret' = <<"fail">> \/ (map[n] # None /\ ret' = <<"value", map[n]>>)
    /\ UNCHANGED map

Clear ==
    /\ last' = <<"clear">>
    /\ \/ ret' = <<"ok">> /\ map' = Empty
       \/ Fail

Next ==
    \/ \E n \in Name : Get(n) \/ \E v \in Value \cup {None} : Set(n, v)
    \/ Clear

Spec == Init /\ [][Next]_vars
=============================================================================
