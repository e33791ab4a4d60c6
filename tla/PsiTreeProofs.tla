---------------------------- MODULE PsiTreeProofs ----------------------------
(***************************************************************************)
(* Proofs about PsiTree for any number of processes, applications, objects *)
(* and values, and any memory.                                             *)
(*                                                                         *)
(* The lists are reasoned about through Walk, the least set that is closed *)
(* under the steps of a loop: what a step does to the nodes of a list      *)
(* follows from that without induction.  The steps are first sorted by     *)
(* what they change (StepKinds).                                           *)
(***************************************************************************)
EXTENDS PsiTree, TLAPS

\* Pointers to nodes, and the next pointers of the nodes.
Ptr == Node \cup {None}
Chain == [Node -> Ptr]

\* The name for no node is not a node, and neither is the list m_apps.
LEMMA NoneFacts == None \notin Node /\ Top \notin Node
BY NameAssumption

----------------------------------------------------------------------------
\* Walks.

\* A walk is closed under its steps.
LEMMA WalkAlong ==
    ASSUME NEW nx \in Chain, NEW f \in Ptr, NEW stop
    PROVE  /\ Walk(nx, f, stop) \subseteq Node
           /\ f # None => f \in Walk(nx, f, stop)
           /\ \A m \in Walk(nx, f, stop) \ stop : nx[m] \in Walk(nx, f, stop) \cup {None}
<1>1. f # None => f \in Walk(nx, f, stop)
    BY DEF Walk, Along, Ptr
<1>2. ASSUME NEW m \in Walk(nx, f, stop) \ stop, nx[m] # None
      PROVE  nx[m] \in Walk(nx, f, stop)
    <2>1. m \in Node /\ nx[m] \in Node
        BY <1>2 DEF Walk, Chain, Ptr
    <2>2. \A S \in SUBSET Node : Along(nx, f, stop, S) => nx[m] \in S
        BY <1>2, <2>1 DEF Walk, Along
    <2> QED  BY <2>1, <2>2 DEF Walk
<1> QED  BY <1>1, <1>2 DEF Walk

\* It is the least such set.
LEMMA WalkLeast ==
    ASSUME NEW nx \in Chain, NEW f \in Ptr, NEW stop, NEW S \in SUBSET Node,
           f \in S \cup {None}, \A m \in S \ stop : nx[m] \in S \cup {None}
    PROVE  Walk(nx, f, stop) \subseteq S
BY DEF Walk, Along

\* From nowhere a walk comes to no node.
LEMMA WalkNone ==
    ASSUME NEW nx \in Chain, NEW stop
    PROVE  Walk(nx, None, stop) = {}
<1>1. PICK S : S = {}
    OBVIOUS
<1>2. Walk(nx, None, stop) \subseteq S
    BY <1>1, WalkLeast DEF Ptr
<1> QED  BY <1>1, <1>2

\* Every node of a walk but the first has one before it.
LEMMA WalkBefore ==
    ASSUME NEW nx \in Chain, NEW f \in Ptr, NEW n \in Walk(nx, f, {}), n # f
    PROVE  \E m \in Walk(nx, f, {}) : nx[m] = n
<1> DEFINE W == Walk(nx, f, {})
<1> SUFFICES ASSUME \A m \in W : nx[m] # n PROVE FALSE
    OBVIOUS
<1>1. W \subseteq Node /\ (f # None => f \in W) /\ \A m \in W : nx[m] \in W \cup {None}
    BY WalkAlong
<1> HIDE DEF W
<1>2. /\ W \ {n} \in SUBSET Node /\ f \in (W \ {n}) \cup {None}
      /\ \A m \in (W \ {n}) \ {} : nx[m] \in (W \ {n}) \cup {None}
    BY <1>1
<1>3. Walk(nx, f, {}) \subseteq W \ {n}
    BY <1>2, WalkLeast
<1> QED  BY <1>3 DEF W

\* Only the nodes of a walk decide where it goes.
LEMMA WalkSame ==
    ASSUME NEW nx \in Chain, NEW ny \in Chain, NEW f \in Ptr,
           \A m \in Walk(nx, f, {}) : ny[m] = nx[m]
    PROVE  Walk(ny, f, {}) = Walk(nx, f, {})
<1>1. Walk(ny, f, {}) \subseteq Walk(nx, f, {})
    BY WalkAlong, WalkLeast
<1>2. Walk(nx, f, {}) \subseteq Walk(ny, f, {})
    <2>1. \A m \in Walk(ny, f, {}) \ {} : nx[m] \in Walk(ny, f, {}) \cup {None}
        BY <1>1, WalkAlong
    <2> QED  BY <2>1, WalkAlong, WalkLeast
<1> QED  BY <1>1, <1>2

\* append() behind b: the walk goes as far as b and on to the new node.
LEMMA WalkAppend ==
    ASSUME NEW nx \in Chain, NEW f \in Ptr, NEW b \in Walk(nx, f, {}), NEW c \in Node,
           nx[c] = None, c # b, NEW ny \in Chain, ny[b] = c,
           \A m \in Node \ {b} : ny[m] = nx[m]
    PROVE  /\ Walk(ny, f, {}) \subseteq Walk(nx, f, {}) \cup {c}
           /\ b \in Walk(ny, f, {}) /\ c \in Walk(ny, f, {}) /\ ny[c] = None
           /\ nx[b] = None => Walk(ny, f, {}) = Walk(nx, f, {}) \cup {c}
<1> DEFINE W == Walk(nx, f, {})
           V == Walk(ny, f, {})
<1>1. W \subseteq Node /\ (f # None => f \in W) /\ \A m \in W : nx[m] \in W \cup {None}
    BY WalkAlong
<1>2. V \subseteq Node /\ (f # None => f \in V) /\ \A m \in V : ny[m] \in V \cup {None}
    BY WalkAlong
<1>3. b \in Node /\ ny[b] = c /\ ny[c] = None /\ \A m \in Node : m # b => ny[m] = nx[m]
    BY <1>1
<1>4. V \subseteq W \cup {c}
    <2> PICK S : S = W \cup {c}
        OBVIOUS
    <2>1. /\ S \in SUBSET Node /\ f \in S \cup {None}
          /\ \A m \in S \ {} : ny[m] \in S \cup {None}
        BY <1>1, <1>3
    <2> QED  BY <2>1, WalkLeast
<1>5. b \in V
    <2> SUFFICES ASSUME b \notin V PROVE FALSE
        OBVIOUS
    <2>1. V \in SUBSET Node /\ f \in V \cup {None} /\ \A m \in V \ {} : nx[m] \in V \cup {None}
        BY <1>2, <1>3
    <2>2. W \subseteq V
        BY <2>1, WalkLeast
    <2> QED  BY <2>2
<1>6. c \in V
    BY <1>2, <1>3, <1>5, NoneFacts
<1>7. ASSUME nx[b] = None PROVE W \subseteq V
    <2>1. V \in SUBSET Node /\ f \in V \cup {None} /\ \A m \in V \ {} : nx[m] \in V \cup {None}
        BY <1>2, <1>3, <1>7
    <2> QED  BY <2>1, WalkLeast
<1> QED  BY <1>3, <1>4, <1>5, <1>6, <1>7

\* remove() of the first node.
LEMMA WalkDropFirst ==
    ASSUME NEW nx \in Chain, NEW f \in Node, \A m \in Walk(nx, f, {}) : nx[m] # f,
           NEW ny \in Chain, \A m \in Walk(nx, f, {}) \ {f} : ny[m] = nx[m]
    PROVE  Walk(ny, nx[f], {}) = Walk(nx, f, {}) \ {f}
<1> DEFINE W == Walk(nx, f, {})
           V == Walk(ny, nx[f], {})
<1>0. nx[f] \in Ptr /\ f \in Ptr
    BY DEF Chain, Ptr
<1>1. W \subseteq Node /\ f \in W /\ \A m \in W : nx[m] \in W \cup {None}
    BY <1>0, WalkAlong, NoneFacts
<1>2. V \subseteq Node /\ (nx[f] # None => nx[f] \in V) /\ \A m \in V : ny[m] \in V \cup {None}
    BY <1>0, WalkAlong
<1>3. V \subseteq W \ {f}
    <2> PICK S : S = W \ {f}
        OBVIOUS
    <2>1. /\ S \in SUBSET Node /\ nx[f] \in S \cup {None}
          /\ \A m \in S \ {} : ny[m] \in S \cup {None}
        BY <1>1
    <2> QED  BY <1>0, <2>1, WalkLeast
<1>4. W \subseteq V \cup {f}
    <2> PICK S : S = V \cup {f}
        OBVIOUS
    <2>1. /\ S \in SUBSET Node /\ f \in S \cup {None}
          /\ \A m \in S \ {} : nx[m] \in S \cup {None}
        BY <1>2, <1>3
    <2> QED  BY <1>0, <2>1, WalkLeast
<1> QED  BY <1>3, <1>4

\* remove() of a node behind b.
LEMMA WalkDrop ==
    ASSUME NEW nx \in Chain, NEW f \in Ptr, NEW b \in Walk(nx, f, {}), NEW n \in Node,
           nx[b] = n, f # n, n # b, nx[n] # n,
           \A m \in Walk(nx, f, {}) : nx[m] = n => m = b,
           NEW ny \in Chain, ny[b] = nx[n],
           \A m \in Walk(nx, f, {}) \ {b, n} : ny[m] = nx[m]
    PROVE  Walk(ny, f, {}) = Walk(nx, f, {}) \ {n}
<1> DEFINE W == Walk(nx, f, {})
           V == Walk(ny, f, {})
<1>1. W \subseteq Node /\ (f # None => f \in W) /\ \A m \in W : nx[m] \in W \cup {None}
    BY WalkAlong
<1>2. V \subseteq Node /\ (f # None => f \in V) /\ \A m \in V : ny[m] \in V \cup {None}
    BY WalkAlong
<1>n. n \in W
    BY <1>1, NoneFacts
<1>3. V \subseteq W \ {n}
    <2> PICK S : S = W \ {n}
        OBVIOUS
    <2>1. /\ S \in SUBSET Node /\ f \in S \cup {None}
          /\ \A m \in S \ {} : ny[m] \in S \cup {None}
        BY <1>1, <1>n
    <2> QED  BY <2>1, WalkLeast
<1>4. b \in V
    <2> SUFFICES ASSUME b \notin V PROVE FALSE
        OBVIOUS
    <2>1. V \in SUBSET Node /\ f \in V \cup {None} /\ \A m \in V \ {} : nx[m] \in V \cup {None}
        BY <1>2, <1>3
    <2>2. W \subseteq V
        BY <2>1, WalkLeast
    <2> QED  BY <2>2
<1>5. W \subseteq V \cup {n}
    <2> PICK S : S = V \cup {n}
        OBVIOUS
    <2>1. /\ S \in SUBSET Node /\ f \in S \cup {None}
          /\ \A m \in S \ {} : nx[m] \in S \cup {None}
        BY <1>2, <1>3, <1>4
    <2> QED  BY <2>1, WalkLeast
<1> QED  BY <1>3, <1>5

\* A walk that stops at some nodes comes to one of them if the whole walk does.
LEMMA WalkStops ==
    ASSUME NEW nx \in Chain, NEW f \in Ptr, NEW stop
    PROVE  /\ Walk(nx, f, stop) \subseteq Walk(nx, f, {})
           /\ Walk(nx, f, {}) \cap stop # {} => Walk(nx, f, stop) \cap stop # {}
<1>1. Walk(nx, f, stop) \subseteq Walk(nx, f, {})
    BY WalkAlong, WalkLeast
<1>2. ASSUME Walk(nx, f, stop) \cap stop = {}
      PROVE  Walk(nx, f, {}) \subseteq Walk(nx, f, stop)
    <2> DEFINE W == Walk(nx, f, stop)
    <2>1. W \in SUBSET Node /\ f \in W \cup {None} /\ \A m \in W \ {} : nx[m] \in W \cup {None}
        BY <1>2, WalkAlong
    <2> QED  BY <2>1, WalkLeast
<1> QED  BY <1>1, <1>2

----------------------------------------------------------------------------
\* The types.

Calls == [fn : {"none", "open", "store", "retrieve", "remove", "drop"},
          list : List, key : App \cup Id \cup {None}, value : Value \cup {None}]
Places == {"idle", "find", "create", "tail", "link", "assign", "realloc", "unlink", "crashed"}

\* TypeOK, part by part.
TreeType ==
    /\ used \subseteq Node
    /\ head \in [List -> Ptr] /\ next \in Chain
    /\ key \in [Node -> App \cup Id \cup {None}] /\ value \in [Node -> Value \cup {None}]
CallType ==
    /\ handle \in [Proc -> Ptr] /\ pc \in [Proc -> Places] /\ call \in [Proc -> Calls]
    /\ at \in [Proc -> Ptr] /\ prev \in [Proc -> Ptr]
HistType ==
    /\ want \in [App -> [open : BOOLEAN, obj : [Id -> Value \cup {None}]]]
    /\ leaked \subseteq Node /\ overlap \in BOOLEAN /\ failed \in BOOLEAN
    /\ freed \subseteq {"node", "value"}

\* TypeOK in three parts: the tree, the calls and the history.
LEMMA TypeParts == TypeOK <=> TreeType /\ CallType /\ HistType /\ lost \subseteq Node
BY DEF TypeOK, TreeType, CallType, HistType, Calls, Places, Ptr, Chain

\* What the walks of the code return.
LEMMA NodesFacts ==
    ASSUME TreeType, NEW l \in List
    PROVE  /\ Nodes(l) \subseteq Node
           /\ head[l] # None => head[l] \in Nodes(l)
           /\ \A m \in Nodes(l) : next[m] \in Nodes(l) \cup {None}
           /\ head[l] = None => Nodes(l) = {}
<1>1. next \in Chain /\ head[l] \in Ptr
    BY DEF TreeType
<1>2. head[l] = None => Nodes(l) = {}
    BY <1>1, WalkNone DEF Nodes
<1> QED  BY <1>1, <1>2, WalkAlong DEF Nodes

\* find() returns a node of the list with the key, or none when no node has it.
LEMMA FindFacts ==
    ASSUME TreeType, NEW l \in List, NEW k
    PROVE  /\ Find(l, k) \in Ptr
           /\ Find(l, k) # None => Find(l, k) \in Nodes(l) /\ key[Find(l, k)] = k
           /\ Find(l, k) = None => \A m \in Nodes(l) : key[m] # k
<1> DEFINE hit   == {n \in Node : key[n] = k}
           found == Walk(next, head[l], hit) \cap hit
<1>1. next \in Chain /\ head[l] \in Ptr
    BY DEF TreeType
<1>2. /\ Walk(next, head[l], hit) \subseteq Nodes(l)
      /\ Nodes(l) \cap hit # {} => found # {}
    BY <1>1, WalkStops DEF Nodes
<1>3. Nodes(l) \subseteq Node
    BY NodesFacts
<1>4. Find(l, k) = IF found = {} THEN None ELSE CHOOSE n \in found : TRUE
    BY DEF Find
<1>5. CASE found = {}
    BY <1>2, <1>3, <1>4, <1>5 DEF Ptr
<1>6. CASE found # {}
    <2>1. Find(l, k) \in found
        BY <1>4, <1>6
    <2> QED  BY <2>1, <1>2, <1>3, NoneFacts DEF Ptr
<1> QED  BY <1>5, <1>6

\* The loop of append() ends at a node of the list with nothing behind it.
LEMMA LastFacts ==
    ASSUME TreeType, NEW l \in List, Ends(l)
    PROVE  /\ Last(l) \in Ptr
           /\ IF head[l] = None THEN Last(l) = None
              ELSE Last(l) \in Nodes(l) /\ next[Last(l)] = None
<1>1. Nodes(l) \subseteq Node
    BY NodesFacts
<1>2. CASE head[l] = None
    BY <1>2 DEF Last, Ptr
<1>3. CASE head[l] # None
    BY <1>1, <1>3 DEF Last, Ends, Ptr
<1> QED  BY <1>2, <1>3

\* The walk of remove() remembers the node before the one it looks for.
LEMMA BeforeFacts ==
    ASSUME TreeType, NEW l \in List, NEW n \in Nodes(l)
    PROVE  /\ Before(l, n) \in Ptr
           /\ IF head[l] = n THEN Before(l, n) = None
              ELSE Before(l, n) \in Nodes(l) /\ next[Before(l, n)] = n
<1>1. Nodes(l) \subseteq Node
    BY NodesFacts
<1>2. CASE head[l] = n
    BY <1>2 DEF Before, Ptr
<1>3. CASE head[l] # n
    <2>1. next \in Chain /\ head[l] \in Ptr
        BY DEF TreeType
    <2>2. \E m \in Nodes(l) : next[m] = n
        BY <2>1, <1>3, WalkBefore DEF Nodes
    <2> QED  BY <1>1, <1>3, <2>2 DEF Before, Ptr
<1> QED  BY <1>2, <1>3

\* What the first walk of a call finds.
LEMMA SoughtFacts ==
    ASSUME TreeType, CallType, NEW p \in Proc
    PROVE  /\ Sought(p) \in Ptr
           /\ Sought(p) # None =>
                 Sought(p) \in Nodes(IF call[p].fn = "drop" THEN Top ELSE call[p].list)
           /\ call[p].fn # "drop" =>
                 IF Sought(p) = None THEN \A m \in Nodes(call[p].list) : key[m] # call[p].key
                 ELSE key[Sought(p)] = call[p].key
           /\ call[p].fn = "drop" => Sought(p) \in {None, handle[p]}
<1>1. call[p].list \in List /\ Top \in List
    BY DEF CallType, Calls, List
<1>2. CASE call[p].fn # "drop"
    BY <1>1, <1>2, FindFacts DEF Sought
<1>3. CASE call[p].fn = "drop"
    <2>1. Nodes(Top) \subseteq Node
        BY <1>1, NodesFacts
    <2> QED  BY <1>3, <2>1 DEF Sought, Ptr
<1> QED  BY <1>2, <1>3

----------------------------------------------------------------------------
\* What a step of process p does, sorted by what it changes.

\* The tree stays as it is.
Still == UNCHANGED <<used, head, next, key, value, leaked, overlap, freed>>

\* What the API lets a process call with its handle.
Valid(p, c) ==
    \/ /\ c.fn = "open" /\ c.list = Top /\ handle[p] = None
       /\ c.key \in App /\ c.value = None
    \/ /\ c.fn \in {"store", "retrieve", "remove"} /\ c.list = handle[p] /\ handle[p] # None
       /\ c.key \in Id /\ (IF c.fn = "store" THEN c.value \in Value ELSE c.value = None)
    \/ /\ c.fn = "drop" /\ c.list = Top /\ handle[p] # None
       /\ c.key = None /\ c.value = None

Begins(p) == \E c \in Calls : Valid(p, c) /\ Start(p, c)

\* Why a process may crash while memory lasts.
Cause(p) ==
    \/ pc[p] \in {"find", "tail", "unlink"} /\ ~Walkable(call[p].list)
    \/ pc[p] = "find" /\ call[p].fn = "retrieve" /\ Sought(p) # None /\ value[Sought(p)] = None
    \/ /\ pc[p] = "link"
       /\ call[p].list \notin used \cup {Top} \/ prev[p] \notin used \cup {None}
    \/ pc[p] = "assign" /\ (at[p] \notin used \/ value[at[p]] = None)
    \/ /\ pc[p] = "unlink"
       /\ \/ at[p] \notin used \/ ~Walkable(at[p]) \/ prev[p] \notin used \cup {None}
          \/ \E m \in Doomed(p) : value[m] = None

Crashes(p) ==
    /\ pc' = [pc EXCEPT ![p] = "crashed"]
    /\ \/ failed' = failed /\ Cause(p)
       \/ failed' = TRUE
    /\ Still /\ UNCHANGED <<handle, call, at, prev, want>>

Misses(p) ==
    /\ pc[p] = "find" /\ call[p].fn \in {"open", "store"} /\ Sought(p) = None
    /\ pc' = [pc EXCEPT ![p] = "create"]
    /\ Still /\ UNCHANGED <<handle, call, at, prev, want, failed>>

Leaves(p) ==
    /\ pc[p] \in {"find", "create"}
    /\ failed' \in {failed, TRUE}
    /\ Return(p)
    /\ Still /\ UNCHANGED <<handle, want>>

Opens(p) ==
    /\ pc[p] = "find" /\ call[p].fn = "open" /\ Sought(p) # None
    /\ handle' = [handle EXCEPT ![p] = Sought(p)]
    /\ Return(p)
    /\ Still /\ UNCHANGED <<want, failed>>

Picks(p) ==
    /\ pc[p] = "find" /\ call[p].fn = "store" /\ Sought(p) # None
    /\ pc' = [pc EXCEPT ![p] = "assign"] /\ at' = [at EXCEPT ![p] = Sought(p)]
    /\ Still /\ UNCHANGED <<handle, call, prev, want, failed>>

Aims(p) ==
    /\ pc[p] = "find" /\ call[p].fn \notin {"open", "store", "retrieve"} /\ Sought(p) # None
    /\ pc' = [pc EXCEPT ![p] = "unlink"] /\ at' = [at EXCEPT ![p] = Sought(p)]
    /\ prev' = [prev EXCEPT ![p] = Before(call[p].list, Sought(p))]
    /\ Still /\ UNCHANGED <<handle, call, want, failed>>

Makes(p, v) ==
    /\ pc[p] = "create" /\ Spare # {}
    /\ Created(p, v)
    /\ \/ v = call[p].value /\ failed' = failed
       \/ v = None /\ call[p].fn = "store" /\ failed' = TRUE

Reaches(p) ==
    /\ pc[p] = "tail" /\ Walkable(call[p].list)
    /\ pc' = [pc EXCEPT ![p] = "link"] /\ prev' = [prev EXCEPT ![p] = Last(call[p].list)]
    /\ Still /\ UNCHANGED <<handle, call, at, want, failed>>

Links(p) ==
    /\ pc[p] = "link" /\ call[p].list \in used \cup {Top} /\ prev[p] \in used \cup {None}
    /\ head' = IF prev[p] = None THEN [head EXCEPT ![call[p].list] = at[p]] ELSE head
    /\ next' = IF prev[p] = None THEN next ELSE [next EXCEPT ![prev[p]] = at[p]]
    /\ want' = Wanted(p)
    /\ handle' = IF call[p].list = Top THEN [handle EXCEPT ![p] = at[p]] ELSE handle
    /\ Return(p)
    /\ UNCHANGED <<used, key, value, leaked, overlap, freed, failed>>

Sets(p, v) ==
    /\ \/ /\ pc[p] = "assign" /\ at[p] \in used /\ value[at[p]] # None
          /\ v = call[p].value /\ failed' = failed
       \/ pc[p] = "realloc" /\ v = call[p].value /\ failed' = failed
       \/ pc[p] = "realloc" /\ v = None /\ failed' = TRUE
    /\ Assigned(p, v)

Empties(p) ==
    /\ pc[p] = "assign" /\ at[p] \in used /\ value[at[p]] # None
    /\ value' = [value EXCEPT ![at[p]] = None] /\ freed' = freed \cup {"value"}
    /\ pc' = [pc EXCEPT ![p] = "realloc"]
    /\ UNCHANGED <<used, head, next, key, handle, call, at, prev, want, leaked, overlap, failed>>

Removal(p) ==
    IF overlap THEN want
    ELSE IF call[p].fn = "drop" THEN [want EXCEPT ![key[at[p]]] = Closed]
    ELSE [want EXCEPT ![key[call[p].list]].obj[call[p].key] = None]

Removes(p) ==
    /\ pc[p] = "unlink" /\ at[p] \in used /\ prev[p] \in used \cup {None}
    /\ Walkable(call[p].list) /\ Walkable(at[p])
    /\ Unlinked(p)
    /\ value'  = [m \in Node |-> IF m \in Doomed(p) THEN None ELSE value[m]]
    /\ key'    = [m \in Node |-> IF m \in Freed(p) THEN None ELSE key[m]]
    /\ used'   = used \ Freed(p)
    /\ leaked' = IF call[p].fn = "remove" THEN leaked \cup {at[p]} ELSE leaked
    /\ freed'  = freed \cup {"node"}
    /\ want'   = Removal(p)
    /\ handle' = IF call[p].fn = "drop" THEN [handle EXCEPT ![p] = None] ELSE handle
    /\ Return(p)
    /\ UNCHANGED <<overlap, failed>>

AnyKind(p) ==
    \/ Begins(p) \/ BcmPsi_appClose(p) \/ Crashes(p) \/ Misses(p) \/ Leaves(p)
    \/ Opens(p) \/ Picks(p) \/ Aims(p) \/ (\E v : Makes(p, v)) \/ Reaches(p)
    \/ Links(p) \/ (\E v : Sets(p, v)) \/ Empties(p) \/ Removes(p)

\* Every step of a process is one of these.
LEMMA StepKinds ==
    ASSUME TypeOK, Next
    PROVE  \E p \in Proc : AnyKind(p)
<1> USE DEF treeVars, histVars, Goto, Still, AnyKind
<1>t. TreeType /\ CallType /\ HistType
    BY TypeParts
<1> PICK p \in Proc : \/ BcmPsi_appOpen(p) \/ BcmPsi_appClose(p) \/ BcmPsi_appRemove(p)
                      \/ BcmPsi_objStore(p) \/ BcmPsi_objRetrieve(p) \/ BcmPsi_objRemove(p)
                      \/ Step(p)
    BY DEF Next
<1>h. handle[p] \in Ptr
    BY <1>t DEF CallType
<1>1. CASE BcmPsi_appOpen(p)
    BY <1>1 DEF BcmPsi_appOpen, Begins, Valid, Calls, List
<1>2. CASE BcmPsi_objStore(p) \/ BcmPsi_objRetrieve(p) \/ BcmPsi_objRemove(p)
    BY <1>2, <1>h DEF BcmPsi_objStore, BcmPsi_objRetrieve, BcmPsi_objRemove, OnObject,
                      Begins, Valid, Calls, List, Ptr
<1>3. CASE BcmPsi_appRemove(p)
    BY <1>3 DEF BcmPsi_appRemove, Begins, Valid, Calls, List
<1>4. CASE FindStep(p)
    <2>1. CASE ~Walkable(call[p].list)
        BY <1>4, <2>1 DEF FindStep, Crash, Crashes, Cause
    <2>2. CASE Walkable(call[p].list) /\ Sought(p) = None
        BY <1>4, <2>2 DEF FindStep, NotFound, Misses, Leaves
    <2>3. CASE Walkable(call[p].list) /\ Sought(p) # None
        <3>1. pc[p] = "find" /\ Found(p, Sought(p))
            BY <1>4, <2>3 DEF FindStep
        <3>2. CASE call[p].fn = "open"
            BY <3>1, <3>2, <2>3 DEF Found, Opens
        <3>3. CASE call[p].fn = "store"
            BY <3>1, <3>3, <2>3 DEF Found, Picks
        <3>4. CASE call[p].fn = "retrieve"
            BY <3>1, <3>4, <2>3 DEF Found, Crash, Crashes, Cause, Leaves
        <3>5. CASE call[p].fn \notin {"open", "store", "retrieve"}
            BY <3>1, <3>5, <2>3 DEF Found, Aims
        <3> QED  BY <3>2, <3>3, <3>4, <3>5
    <2> QED  BY <2>1, <2>2, <2>3
<1>5. CASE Create(p)
    BY <1>5 DEF Create, Makes
<1>6. CASE CreateFails(p)
    BY <1>6 DEF CreateFails, Crashes, Makes, Leaves
<1>7. CASE Tail(p)
    BY <1>7 DEF Tail, Crash, Crashes, Cause, Reaches
<1>8. CASE Link(p)
    <2>1. CASE call[p].list \notin used \cup {Top} \/ prev[p] \notin used \cup {None}
        BY <1>8, <2>1 DEF Link, LinkAs, Crash, Crashes, Cause
    <2>2. CASE call[p].list \in used \cup {Top} /\ prev[p] \in used \cup {None}
        BY <1>8, <2>2 DEF Link, LinkAs, Links
    <2> QED  BY <2>1, <2>2
<1>9. CASE Assign(p)
    <2>1. CASE at[p] \notin used \/ value[at[p]] = None
        BY <1>9, <2>1 DEF Assign, Crash, Crashes, Cause
    <2>2. CASE at[p] \in used /\ value[at[p]] # None
        BY <1>9, <2>2 DEF Assign, Sets, Empties
    <2> QED  BY <2>1, <2>2
<1>10. CASE Realloc(p)
    BY <1>10 DEF Realloc, Sets
<1>11. CASE Unlink(p)
    <2>1. CASE Cause(p)
        BY <1>11, <2>1 DEF Unlink, UnlinkTo, Crash, Crashes, Cause
    <2>2. CASE ~Cause(p)
        BY <1>11, <2>2 DEF Unlink, UnlinkTo, Cause, Removes, Removal
    <2> QED  BY <2>1, <2>2
<1> QED  BY <1>1, <1>2, <1>3, <1>4, <1>5, <1>6, <1>7, <1>8, <1>9, <1>10, <1>11 DEF Step

----------------------------------------------------------------------------
\* The invariant.

\* The lists of the tree: m_apps, and that of every node in use.
Live == used \cup {Top}

\* The processes took turns and all of them are alive.
Orderly == ~overlap /\ \A p \in Proc : pc[p] # "crashed"

\* The lists are well formed as long as removals met no other call.
Sound == Orderly \/ "node" \notin freed

\* The call has a node that is in no list yet.
Pending(p) == pc[p] \in {"tail", "link"}

\* The call has a node.
Carries(p) == pc[p] \in {"tail", "link", "assign", "realloc", "unlink"}

\* A call is under way.
Active(p) == pc[p] \notin {"idle", "crashed"}

\* The arguments of the calls, and how far each may be.
OpenCall(p) ==
    /\ call[p].fn = "open" /\ call[p].list = Top /\ handle[p] = None
    /\ call[p].key \in App /\ call[p].value = None
    /\ pc[p] \in {"find", "create", "tail", "link"}
ObjectCall(p) ==
    /\ call[p].list = handle[p] /\ handle[p] \in Node /\ call[p].key \in Id
    /\ \/ call[p].fn = "store" /\ call[p].value \in Value
          /\ pc[p] \in {"find", "create", "tail", "link", "assign", "realloc"}
       \/ call[p].fn = "retrieve" /\ pc[p] = "find"
       \/ call[p].fn = "remove" /\ pc[p] \in {"find", "unlink"}
DropCall(p) ==
    /\ call[p].fn = "drop" /\ call[p].list = Top /\ handle[p] \in Node
    /\ pc[p] = "find" \/ (pc[p] = "unlink" /\ at[p] = handle[p])

CallInv ==
    \A p \in Proc :
        /\ Active(p) => OpenCall(p) \/ ObjectCall(p) \/ DropCall(p)
        /\ pc[p] = "idle" => at[p] = None /\ prev[p] = None

\* Pointers stay in memory that is in use, and no two lead to the same node.
Pointers ==
    /\ \A m \in used : next[m] \in used \cup {None}
    /\ \A l \in Live : head[l] \in used \cup {None}
    /\ \A m, n \in used : next[m] = next[n] /\ next[m] # None => m = n
    /\ \A l, k \in Live : head[l] = head[k] /\ head[l] # None => l = k
    /\ \A l \in Live, m \in used : head[l] = next[m] => head[l] = None

\* Every list ends.
Ending == \A l \in Live : Ends(l)

\* The processes have pointers to memory in use only.
Referred ==
    \A p \in Proc :
        /\ handle[p] \in used \cup {None}
        /\ prev[p] \in used \cup {None}
        /\ at[p] \in used \cup {None}
        /\ Carries(p) => at[p] \in used

\* No pointer of the tree leads to node n and none leads on from it.
Fresh(n) ==
    /\ next[n] = None /\ head[n] = None
    /\ \A m \in used : next[m] # n
    /\ \A l \in Live : head[l] # n

\* Nobody but its call knows a node that is in no list yet.
Unseen ==
    \A p \in Proc : Pending(p) =>
        /\ Fresh(at[p])
        /\ \A q \in Proc : handle[q] # at[p] /\ prev[q] # at[p] /\ (q # p => at[q] # at[p])

ListInv == Sound => Pointers /\ Ending /\ Referred /\ Unseen

\* Before anything was released, every object has its value; a node that appOpen is
\* going to link comes behind no object.
ValInv ==
    freed = {} /\ ~failed =>
        /\ \A l \in used : \A m \in Nodes(l) : value[m] # None
        /\ \A p \in Proc : Carries(p) /\ call[p].fn \in {"store", "remove"} => value[at[p]] # None
        /\ \A p \in Proc : pc[p] # "realloc"
        /\ \A p \in Proc : pc[p] = "link" /\ call[p].fn = "open" =>
              \A l \in used : prev[p] \notin Nodes(l)
\* The nodes that the application programs can come to.
Reach == Nodes(Top) \cup UNION {Nodes(n) : n \in Nodes(Top)}

\* The nodes of the calls under way that no list holds yet.
Held == {at[q] : q \in {r \in Proc : Pending(r)}}

\* One process at a time works with the tree.
TurnInv == Orderly => \A p, q \in Proc : Busy(p) /\ Busy(q) => p = q

\* Applications have names, objects have ids, and no two of a list have the same.
KeyInv ==
    Orderly =>
        /\ \A n \in Nodes(Top) : key[n] \in App /\ \A m \in Nodes(n) : key[m] \in Id
        /\ \A l \in {Top} \cup Nodes(Top) : \A m, n \in Nodes(l) : key[m] = key[n] => m = n

\* Where the nodes in use are.
UsedInv ==
    Orderly => used = leaked \cup Reach \cup Held /\ leaked \cap (Reach \cup Held) = {}

\* Where process q is in the tree.
Placed(q) ==
    /\ handle[q] \in Nodes(Top) \cup {None}
    /\ pc[q] \in {"create", "tail", "link"} => \A m \in Nodes(call[q].list) : key[m] # call[q].key
    /\ Pending(q) => key[at[q]] = call[q].key
    /\ pc[q] = "link" => IF prev[q] = None THEN head[call[q].list] = None
                         ELSE prev[q] \in Nodes(call[q].list) /\ next[prev[q]] = None
    /\ pc[q] \in {"assign", "realloc", "unlink"} => at[q] \in Nodes(call[q].list)
    /\ pc[q] \in {"assign", "realloc"} \/ (pc[q] = "unlink" /\ call[q].fn = "remove") =>
          key[at[q]] = call[q].key
    /\ pc[q] = "unlink" => IF prev[q] = None THEN head[call[q].list] = at[q]
                           ELSE prev[q] \in Nodes(call[q].list) /\ next[prev[q]] = at[q]
PlaceInv == Orderly => \A q \in Proc : Placed(q)

\* The value of m is being replaced by a longer or shorter one.
Changing(m) == \E p \in Proc : pc[p] = "realloc" /\ at[p] = m
\* Object i of the application in node n is what was stored last.
Holding(n, i) ==
    /\ \A m \in Nodes(n) : key[m] = i /\ ~Changing(m) =>
          value[m] # None /\ value[m] = want[key[n]].obj[i]
    /\ want[key[n]].obj[i] # None => \E m \in Nodes(n) : key[m] = i

\* The tree and the history agree.
HoldsInv ==
    Orderly /\ ~failed =>
        /\ \A a \in App : want[a].open <=> \E n \in Nodes(Top) : key[n] = a
        /\ \A a \in App : ~want[a].open => want[a] = Closed
        /\ \A n \in Nodes(Top) : \A i \in Id : Holding(n, i)
        /\ \A p \in Proc : Pending(p) => value[at[p]] = call[p].value

----------------------------------------------------------------------------
\* The types are kept.

\* The tree keeps its type.
LEMMA TreeTypeStep ==
    ASSUME TypeOK, NEW p \in Proc, AnyKind(p)
    PROVE  TreeType'
<1>t. TreeType /\ CallType
    BY TypeParts
<1>n. at[p] \in Ptr /\ call[p].list \in List /\ call[p].key \in App \cup Id \cup {None}
      /\ call[p].value \in Value \cup {None} /\ None \in Ptr
    BY <1>t DEF CallType, Calls, Ptr
<1>1. CASE Begins(p) \/ BcmPsi_appClose(p) \/ Crashes(p) \/ Misses(p) \/ Leaves(p)
           \/ Opens(p) \/ Picks(p) \/ Aims(p) \/ Reaches(p)
    <2>1. UNCHANGED treeVars
        BY <1>1 DEF Begins, Start, BcmPsi_appClose, Crashes, Misses, Leaves, Opens, Picks, Aims,
                    Reaches, Still, treeVars
    <2> QED  BY <1>t, <2>1 DEF TreeType, treeVars
<1>2. ASSUME NEW v, Makes(p, v) PROVE TreeType'
    <2>1. v \in Value \cup {None}
        BY <1>2, <1>n DEF Makes
    <2>2. Spare # {} /\ Spare \subseteq Node
        BY <1>2 DEF Makes, Spare
    <2> QED  BY <1>2, <2>1, <2>2, <1>t, <1>n DEF Makes, Created, TreeType, Chain, Ptr, List
<1>3. CASE Links(p)
    BY <1>3, <1>t, <1>n DEF Links, TreeType, Chain
<1>4. ASSUME NEW v, Sets(p, v) PROVE TreeType'
    BY <1>4, <1>t, <1>n DEF Sets, Assigned, TreeType
<1>5. CASE Empties(p)
    BY <1>5, <1>t DEF Empties, TreeType
<1>6. CASE Removes(p)
    <2>1. at[p] \in Node /\ next[at[p]] \in Ptr
        BY <1>6, <1>t DEF Removes, TreeType, Chain
    <2>2. used' \subseteq Node /\ key' \in [Node -> App \cup Id \cup {None}]
          /\ value' \in [Node -> Value \cup {None}]
        BY <1>6, <1>t DEF Removes, TreeType
    <2>3. next' \in Chain /\ head' \in [List -> Ptr]
        BY <1>6, <2>1, <1>t, <1>n DEF Removes, Unlinked, TreeType, Chain
    <2> QED  BY <2>2, <2>3 DEF TreeType
<1> QED  BY <1>1, <1>2, <1>3, <1>4, <1>5, <1>6 DEF AnyKind

\* The calls keep their type.
LEMMA CallTypeStep ==
    ASSUME TypeOK, CallInv, NEW p \in Proc, AnyKind(p)
    PROVE  CallType'
<1>t. TreeType /\ CallType
    BY TypeParts
<1>n. at[p] \in Ptr /\ call[p] \in Calls /\ call[p].list \in List /\ None \in Ptr
      /\ NoCall \in Calls
    BY <1>t DEF CallType, Calls, Ptr, NoCall, List
<1>p. Places = Places \cup {"idle", "find", "create", "tail", "link", "assign", "realloc",
                            "unlink", "crashed"}
    BY DEF Places
<1>s. Sought(p) \in Ptr
    BY <1>t, SoughtFacts
<1>1. CASE Begins(p) \/ BcmPsi_appClose(p) \/ Crashes(p) \/ Misses(p) \/ Leaves(p)
           \/ Opens(p) \/ Picks(p)
    BY <1>1, <1>t, <1>n, <1>s, <1>p
       DEF Begins, Start, BcmPsi_appClose, Crashes, Misses, Leaves, Opens, Picks, Return, CallType
<1>2. CASE Aims(p)
    <2>1. pc[p] = "find" /\ Sought(p) # None
        BY <1>2 DEF Aims
    <2>2. call[p].fn = "drop" => call[p].list = Top
        BY <2>1 DEF CallInv, Active, OpenCall, ObjectCall, DropCall
    <2>3. Sought(p) \in Nodes(call[p].list)
        BY <2>1, <2>2, <1>t, SoughtFacts
    <2>4. Before(call[p].list, Sought(p)) \in Ptr
        BY <2>3, <1>t, <1>n, BeforeFacts
    <2> QED  BY <1>2, <2>4, <1>t, <1>s, <1>p DEF Aims, CallType
<1>3. ASSUME NEW v, Makes(p, v) PROVE CallType'
    <2>1. Spare # {} /\ Spare \subseteq Node
        BY <1>3 DEF Makes, Spare
    <2> QED  BY <1>3, <2>1, <1>t, <1>p DEF Makes, Created, Goto, CallType, Ptr
<1>4. CASE Reaches(p)
    <2>1. Last(call[p].list) \in Ptr
        BY <1>4, <1>t, <1>n, LastFacts DEF Reaches, Walkable
    <2> QED  BY <1>4, <2>1, <1>t, <1>p DEF Reaches, CallType
<1>5. CASE Links(p) \/ (\E v : Sets(p, v)) \/ Empties(p) \/ Removes(p)
    BY <1>5, <1>t, <1>n, <1>p DEF Links, Sets, Assigned, Empties, Removes, Return, CallType
<1> QED  BY <1>1, <1>2, <1>3, <1>4, <1>5 DEF AnyKind

\* The history keeps its type.
LEMMA HistTypeStep ==
    ASSUME TypeOK, NEW p \in Proc, AnyKind(p)
    PROVE  HistType'
<1>t. TreeType /\ CallType /\ HistType
    BY TypeParts
<1>v. call[p].value \in Value \cup {None}
    BY <1>t DEF CallType, Calls
<1>1. leaked' \subseteq Node
    BY <1>t DEF AnyKind, Begins, Start, BcmPsi_appClose, Crashes, Misses, Leaves, Opens, Picks, Aims,
            Makes, Created, Reaches, Links, Sets, Assigned, Empties, Removes, HistType, TreeType,
            Still, histVars
<1>2. overlap' \in BOOLEAN /\ failed' \in BOOLEAN
    BY <1>t DEF AnyKind, Begins, Start, BcmPsi_appClose, Crashes, Misses, Leaves, Opens, Picks, Aims,
            Makes, Created, Reaches, Links, Sets, Assigned, Empties, Removes, HistType,
            Still, histVars
<1>3. freed' \subseteq {"node", "value"}
    BY <1>t DEF AnyKind, Begins, Start, BcmPsi_appClose, Crashes, Misses, Leaves, Opens, Picks, Aims,
            Makes, Created, Reaches, Links, Sets, Assigned, Empties, Removes, HistType,
            Still, histVars
<1> DEFINE Wants == [App -> [open : BOOLEAN, obj : [Id -> Value \cup {None}]]]
<1>4. want' \in {want, Wanted(p), Removal(p)}
    BY DEF AnyKind, Begins, Start, BcmPsi_appClose, Crashes, Misses, Leaves, Opens, Picks, Aims,
            Makes, Created, Reaches, Links, Sets, Assigned, Empties, Removes,
            Still, histVars
<1>5. Wanted(p) \in Wants
    BY <1>t, <1>v DEF Wanted, HistType
<1>6. Removal(p) \in Wants
    BY <1>t DEF Removal, HistType, Closed, NoObj
<1> QED  BY <1>1, <1>2, <1>3, <1>4, <1>5, <1>6, <1>t DEF HistType

----------------------------------------------------------------------------
\* Who moves, and when.

\* Nobody but process p moves.
LEMMA Frame ==
    ASSUME TypeOK, NEW p \in Proc, AnyKind(p), NEW q \in Proc, q # p
    PROVE  /\ pc'[q] = pc[q] /\ call'[q] = call[q] /\ handle'[q] = handle[q]
           /\ at'[q] = at[q] /\ prev'[q] = prev[q]
<1>t. CallType
    BY TypeParts
<1> QED  BY <1>t DEF AnyKind, Begins, Start, BcmPsi_appClose, Crashes, Misses, Leaves, Opens, Picks,
                     Aims, Makes, Created, Reaches, Links, Sets, Assigned, Empties, Removes, Goto,
                     Return, CallType

\* A call is where its function may be, with the arguments the API lets it have.
LEMMA CallInvStep ==
    ASSUME TypeOK, CallInv, NEW p \in Proc, AnyKind(p)
    PROVE  CallInv'
<1>t. TreeType /\ CallType
    BY TypeParts
<1>o. ASSUME NEW q \in Proc, q # p
      PROVE  /\ Active(q)' => OpenCall(q)' \/ ObjectCall(q)' \/ DropCall(q)'
             /\ pc'[q] = "idle" => at'[q] = None /\ prev'[q] = None
    <2>1. /\ pc'[q] = pc[q] /\ call'[q] = call[q] /\ handle'[q] = handle[q]
          /\ at'[q] = at[q] /\ prev'[q] = prev[q]
        BY <1>o, Frame
    <2> QED  BY <2>1 DEF CallInv, Active, OpenCall, ObjectCall, DropCall
<1> SUFFICES /\ Active(p)' => OpenCall(p)' \/ ObjectCall(p)' \/ DropCall(p)'
             /\ pc'[p] = "idle" => at'[p] = None /\ prev'[p] = None
    BY <1>o DEF CallInv
<1> USE DEF Active, OpenCall, ObjectCall, DropCall
<1>i. /\ Active(p) => OpenCall(p) \/ ObjectCall(p) \/ DropCall(p)
      /\ pc[p] = "idle" => at[p] = None /\ prev[p] = None
    BY DEF CallInv
<1>1. CASE Begins(p)
    <2>1. PICK c \in Calls : Valid(p, c) /\ Start(p, c)
        BY <1>1 DEF Begins
    <2>2. pc'[p] = "find" /\ call'[p] = c /\ handle'[p] = handle[p] /\ handle[p] \in Ptr
        BY <2>1, <1>t DEF Start, CallType
    <2> QED  BY <2>1, <2>2 DEF Valid, Ptr
<1>2. CASE BcmPsi_appClose(p)
    BY <1>2, <1>t, <1>i DEF BcmPsi_appClose, CallType
<1>3. CASE Crashes(p)
    BY <1>3, <1>t DEF Crashes, CallType
<1>4. CASE Leaves(p) \/ Opens(p) \/ Links(p) \/ (\E v : Sets(p, v)) \/ Removes(p)
    <2>1. pc'[p] = "idle" /\ at'[p] = None /\ prev'[p] = None
        BY <1>4, <1>t DEF Leaves, Opens, Links, Sets, Assigned, Removes, Return, CallType
    <2> QED  BY <2>1
<1>5. CASE Misses(p)
    BY <1>5, <1>t, <1>i DEF Misses, CallType
<1>6. CASE Picks(p)
    BY <1>6, <1>t, <1>i DEF Picks, CallType
<1>7. CASE Aims(p)
    <2>1. call[p].fn = "drop" => Sought(p) \in {None, handle[p]}
        BY <1>t, SoughtFacts
    <2> QED  BY <1>7, <2>1, <1>t, <1>i DEF Aims, CallType
<1>8. CASE (\E v : Makes(p, v)) \/ Reaches(p) \/ Empties(p)
    BY <1>8, <1>t, <1>i DEF Makes, Created, Goto, Reaches, Empties, CallType
<1> QED  BY <1>1, <1>2, <1>3, <1>4, <1>5, <1>6, <1>7, <1>8 DEF AnyKind

\* Once out of order, a behaviour stays so.
LEMMA OrderSteps ==
    ASSUME TypeOK, NEW p \in Proc, AnyKind(p)
    PROVE  /\ Orderly' => Orderly
           /\ freed \subseteq freed'
           /\ Sound' => Sound
           /\ failed => failed'
           /\ Orderly' => ~Crashes(p)
           /\ Sound' /\ Removes(p) => Orderly
<1>t. CallType /\ HistType
    BY TypeParts
<1>1. freed \subseteq freed' /\ (failed => failed') /\ (overlap => overlap')
    BY <1>t DEF AnyKind, Begins, Start, BcmPsi_appClose, Crashes, Misses, Leaves, Opens, Picks,
                     Aims, Makes, Created, Reaches, Links, Sets, Assigned, Empties, Removes,
                     Still, histVars, HistType
<1>2. pc[p] = "crashed" => pc'[p] = "crashed"
    BY <1>t DEF CallType, AnyKind, Begins, Start, BcmPsi_appClose, Crashes, Misses, Leaves, Opens, Picks,
                     Aims, Makes, Created, Reaches, Links, Sets, Assigned, Empties, Removes
<1>3. \A q \in Proc : pc[q] = "crashed" => pc'[q] = "crashed"
    BY <1>2, Frame
<1>4. Orderly' => Orderly
    BY <1>1, <1>3 DEF Orderly
<1>5. Crashes(p) => pc'[p] = "crashed"
    BY <1>t DEF Crashes, CallType
<1>6. Removes(p) => "node" \in freed'
    BY DEF Removes
<1> QED  BY <1>1, <1>4, <1>5, <1>6 DEF Sound, Orderly

\* The lists of the tree, and m_apps is none of the nodes.
LEMMA LiveLists ==
    ASSUME TreeType
    PROVE  Live \subseteq List /\ Top \in Live /\ used \subseteq Live /\ Top \notin used
BY NoneFacts DEF TreeType, Live, List

\* The nodes of a list in use are in use.
LEMMA ListInUse ==
    ASSUME TreeType, Pointers, NEW l \in Live
    PROVE  Nodes(l) \subseteq used
<1>1. next \in Chain /\ head[l] \in Ptr /\ used \in SUBSET Node
    BY LiveLists DEF TreeType
<1>2. head[l] \in used \cup {None} /\ \A m \in used \ {} : next[m] \in used \cup {None}
    BY DEF Pointers
<1> QED  BY <1>1, <1>2, WalkLeast DEF Nodes

\* Pointers into a list come from that list.
LEMMA PointersInside ==
    ASSUME TreeType, Pointers, NEW l \in Live, NEW n \in Nodes(l)
    PROVE  /\ \A m \in used : next[m] = n => m \in Nodes(l)
           /\ \A k \in Live : head[k] = n => k = l
<1>1. next \in Chain /\ head[l] \in Ptr /\ Nodes(l) \subseteq used /\ n \in Node
    BY LiveLists, ListInUse DEF TreeType
<1>2. n # None
    BY <1>1, NoneFacts
<1>3. CASE n = head[l]
    BY <1>2, <1>3 DEF Pointers
<1>4. CASE n # head[l]
    <2>1. PICK m \in Nodes(l) : next[m] = n
        BY <1>1, <1>4, WalkBefore DEF Nodes
    <2>2. m \in used
        BY <1>1
    <2> QED  BY <1>2, <2>1, <2>2 DEF Pointers
<1> QED  BY <1>3, <1>4

\* No node is in two lists.
LEMMA ListsApart ==
    ASSUME TreeType, Pointers, NEW l \in Live, NEW k \in Live, l # k
    PROVE  Nodes(l) \cap Nodes(k) = {}
<1>1. next \in Chain /\ head[l] \in Ptr
    BY LiveLists DEF TreeType
<1>2. Nodes(l) \subseteq used /\ Nodes(k) \subseteq used /\ used \subseteq Node
    BY ListInUse DEF TreeType
<1>3. (head[l] # None => head[l] \in Nodes(l)) /\ \A m \in Nodes(l) : next[m] \in Nodes(l) \cup {None}
    BY LiveLists, NodesFacts
<1> PICK S : S = Nodes(l) \ Nodes(k)
    OBVIOUS
<1>4. head[l] \in S \cup {None}
    BY <1>3, PointersInside
<1>5. \A m \in S \ {} : next[m] \in S \cup {None}
    BY <1>2, <1>3, PointersInside
<1>6. Nodes(l) \subseteq S
    BY <1>1, <1>2, <1>4, <1>5, WalkLeast DEF Nodes
<1> QED  BY <1>6

\* No node of a list is its own successor.
LEMMA NoLoop ==
    ASSUME TreeType, Pointers, NEW l \in Live, NEW n \in Nodes(l)
    PROVE  next[n] # n
<1> SUFFICES ASSUME next[n] = n PROVE FALSE
    OBVIOUS
<1>1. next \in Chain /\ head[l] \in Ptr /\ used \subseteq Node /\ Nodes(l) \subseteq used
    BY LiveLists, ListInUse DEF TreeType
<1>2. n # None /\ head[l] # n
    BY <1>1, NoneFacts DEF Pointers
<1>3. (head[l] # None => head[l] \in Nodes(l)) /\ \A m \in Nodes(l) : next[m] \in Nodes(l) \cup {None}
    BY LiveLists, NodesFacts
<1> PICK S : S = Nodes(l) \ {n}
    OBVIOUS
<1>4. head[l] \in S \cup {None} /\ \A m \in S \ {} : next[m] \in S \cup {None}
    BY <1>1, <1>2, <1>3 DEF Pointers
<1>5. Nodes(l) \subseteq S
    BY <1>1, <1>4, WalkLeast DEF Nodes
<1> QED  BY <1>5

\* A node nobody points to is in no list.
LEMMA FreshApart ==
    ASSUME TreeType, Pointers, NEW l \in Live, NEW n \in Nodes(l)
    PROVE  ~Fresh(n)
<1>1. next \in Chain /\ head[l] \in Ptr /\ Nodes(l) \subseteq used
    BY LiveLists, ListInUse DEF TreeType
<1>2. CASE n = head[l]
    BY <1>2 DEF Fresh
<1>3. CASE n # head[l]
    BY <1>1, <1>3, WalkBefore DEF Nodes, Fresh
<1> QED  BY <1>2, <1>3

\* Steps that leave the lists alone.
LEMMA SameLists ==
    ASSUME used' = used, head' = head, next' = next
    PROVE  /\ Live' = Live
           /\ \A l : Nodes(l)' = Nodes(l) /\ (Ends(l)' <=> Ends(l)) /\ (Fresh(l)' <=> Fresh(l))
           /\ Pointers => Pointers'
           /\ Ending => Ending'
BY DEF Live, Nodes, Ends, Fresh, Pointers, Ending

----------------------------------------------------------------------------
\* What the steps do to the lists.

\* A new node changes no list.
LEMMA MakesLists ==
    ASSUME TypeOK, Pointers, Ending, NEW p \in Proc, NEW v, Makes(p, v), NEW n, n = at'[p]
    PROVE  /\ n \in Node \ used /\ used' = used \cup {n} /\ Live' = Live \cup {n}
           /\ \A l \in Live : Nodes(l)' = Nodes(l) /\ head'[l] = head[l]
           /\ Nodes(n)' = {} /\ next'[n] = None /\ head'[n] = None
           /\ \A m \in used : next'[m] = next[m] /\ key'[m] = key[m] /\ value'[m] = value[m]
           /\ key'[n] = call[p].key /\ value'[n] = v
           /\ Pointers' /\ Ending' /\ Fresh(n)'
           /\ \A x \in used : Fresh(x) => Fresh(x)'
<1>t. TreeType /\ CallType /\ TreeType'
    BY TypeParts, TreeTypeStep DEF AnyKind
<1>0. n = CHOOSE m \in Spare : TRUE
    BY <1>t DEF Makes, Created, CallType
<1>1. n \in Node /\ n \notin used /\ n # Top /\ n # None
    <2>1. Spare # {} /\ Spare \subseteq Node /\ Spare \cap used = {}
        BY DEF Makes, Spare
    <2> QED  BY <1>0, <2>1, NoneFacts
<1>2. /\ used' = used \cup {n} /\ head' = [head EXCEPT ![n] = None]
      /\ next' = [next EXCEPT ![n] = None] /\ key' = [key EXCEPT ![n] = call[p].key]
      /\ value' = [value EXCEPT ![n] = v] 
    BY <1>0 DEF Makes, Created
<1>3. /\ next'[n] = None /\ head'[n] = None /\ key'[n] = call[p].key /\ value'[n] = v
      /\ \A m \in Node : m # n => next'[m] = next[m] /\ key'[m] = key[m] /\ value'[m] = value[m]
      /\ \A l \in List : l # n => head'[l] = head[l]
    BY <1>1, <1>2, <1>t DEF TreeType, CallType, Chain, List
<1>4. Live' = Live \cup {n} /\ Live \subseteq List /\ n \notin Live /\ used \subseteq Node
    BY <1>1, <1>2, LiveLists, <1>t DEF Live, TreeType
<1> HIDE DEF Live
<1>5. ASSUME NEW l \in Live PROVE Nodes(l)' = Nodes(l) /\ head'[l] = head[l]
    <2>1. head'[l] = head[l] /\ head[l] \in Ptr /\ next \in Chain /\ next' \in Chain
        BY <1>3, <1>4, <1>t DEF TreeType
    <2>2. \A m \in Walk(next, head[l], {}) : next'[m] = next[m]
        BY <1>1, <1>3, <1>4, <1>t, ListInUse DEF Nodes
    <2> QED  BY <2>1, <2>2, WalkSame DEF Nodes
<1>6. Nodes(n)' = {}
    BY <1>3, <1>t, WalkNone DEF Nodes, TreeType
<1>s. /\ \A m \in used : m # n /\ next'[m] = next[m] /\ next[m] \in used \cup {None}
      /\ \A l \in Live : head'[l] = head[l] /\ head[l] \in used \cup {None}
    BY <1>1, <1>3, <1>4 DEF Pointers
<1>u. used' = used \cup {n}
    BY <1>2
<1>e. next'[n] = None /\ head'[n] = None
    BY <1>3
<1>l. Live' = Live \cup {n}
    BY <1>4
<1>7. Pointers'
    <2>1. \A m \in used' : next'[m] \in used' \cup {None}
        BY <1>u, <1>e, <1>s
    <2>2. \A l \in Live' : head'[l] \in used' \cup {None}
        BY <1>u, <1>e, <1>l, <1>s
    <2>3. \A l, m \in used' : next'[l] = next'[m] /\ next'[l] # None => l = m
        <3>1. \A l, m \in used : next[l] = next[m] /\ next[l] # None => l = m
            BY DEF Pointers
        <3> SUFFICES ASSUME NEW l \in used', NEW m \in used', next'[l] = next'[m], next'[l] # None
                     PROVE  l = m
            OBVIOUS
        <3>2. l \in used /\ m \in used
            BY <1>u, <1>e
        <3> QED  BY <1>s, <3>1, <3>2
    <2>4. \A l, k \in Live' : head'[l] = head'[k] /\ head'[l] # None => l = k
        <3>1. \A l, k \in Live : head[l] = head[k] /\ head[l] # None => l = k
            BY DEF Pointers
        <3> SUFFICES ASSUME NEW l \in Live', NEW k \in Live', head'[l] = head'[k], head'[l] # None
                     PROVE  l = k
            OBVIOUS
        <3>2. l \in Live /\ k \in Live
            BY <1>l, <1>e
        <3> QED  BY <1>s, <3>1, <3>2
    <2>5. \A l \in Live', m \in used' : head'[l] = next'[m] => head'[l] = None
        <3>1. \A l \in Live, m \in used : head[l] = next[m] => head[l] = None
            BY DEF Pointers
        <3> SUFFICES ASSUME NEW l \in Live', NEW m \in used', head'[l] = next'[m], head'[l] # None
                     PROVE  FALSE
            OBVIOUS
        <3>2. l \in Live /\ m \in used
            BY <1>l, <1>u, <1>e
        <3> QED  BY <1>s, <3>1, <3>2
    <2> QED  BY <2>1, <2>2, <2>3, <2>4, <2>5 DEF Pointers
<1>8. Ending'
    <2>1. \A l \in Live : Ends(l)'
        BY <1>5, <1>1, <1>3, <1>4, <1>t, ListInUse DEF Ending, Ends
    <2>2. Ends(n)'
        BY <1>3 DEF Ends
    <2> QED  BY <2>1, <2>2, <1>4 DEF Ending
<1>9. Fresh(n)'
    <2>1. \A m \in used' : next'[m] # n
        BY <1>1, <1>2, <1>3, <1>s
    <2>2. \A l \in Live' : head'[l] # n
        BY <1>1, <1>3, <1>4, <1>s
    <2> QED  BY <1>3, <2>1, <2>2 DEF Fresh
<1>10. ASSUME NEW x \in used, Fresh(x) PROVE Fresh(x)'
    <2>1. x \in Node /\ x # None /\ x \in List /\ x # n
        BY <1>1, <1>4, NoneFacts DEF List
    <2>2. /\ next[x] = None /\ head[x] = None
          /\ \A m \in used : next[m] # x
          /\ \A l \in Live : head[l] # x
        BY <1>10 DEF Fresh
    <2>3. next'[x] = None /\ head'[x] = None
        BY <1>3, <2>1, <2>2
    <2>4. \A m \in used' : next'[m] # x
        BY <1>2, <1>3, <1>s, <2>1, <2>2
    <2>5. \A l \in Live' : head'[l] # x
        BY <1>3, <1>4, <1>s, <2>1, <2>2
    <2> QED  BY <2>3, <2>4, <2>5 DEF Fresh
<1>11. \A m \in used : next'[m] = next[m] /\ key'[m] = key[m] /\ value'[m] = value[m]
    BY <1>1, <1>3, <1>4
<1>12. key'[n] = call[p].key /\ value'[n] = v
    BY <1>3
<1>13. n \in Node \ used
    BY <1>1
<1>14. \A l \in Live : Nodes(l)' = Nodes(l) /\ head'[l] = head[l]
    BY <1>5
<1>15. \A x \in used : Fresh(x) => Fresh(x)'
    BY <1>10
<1> QED  BY <1>13, <1>u, <1>e, <1>l, <1>14, <1>6, <1>7, <1>8, <1>9, <1>15, <1>11, <1>12

\* A new link ends the list at the new node.
LEMMA LinksLists ==
    ASSUME TypeOK, Pointers, Ending, NEW p \in Proc, Links(p),
           NEW n, n = at[p], NEW b, b = prev[p], NEW c, c = call[p].list,
           n \in used, Fresh(n), b # n, c # n
    PROVE  /\ Pointers' /\ Ending' /\ Live' = Live
           /\ \A l \in Live : b \notin Nodes(l) /\ (l # c \/ b # None) => Nodes(l)' = Nodes(l)
           /\ \A l \in Live : Nodes(l)' \subseteq Nodes(l) \cup {n}
           /\ \A l \in Live : n \in Nodes(l)' => IF b = None THEN l = c ELSE b \in Nodes(l)
           /\ b = None /\ head[c] = None => Nodes(c)' = {n}
           /\ \A l \in Live : b \in Nodes(l) /\ next[b] = None => Nodes(l)' = Nodes(l) \cup {n}
           /\ \A x \in used : Fresh(x) /\ x # n /\ x # b /\ x # c => Fresh(x)'
<1>t. TreeType /\ CallType /\ TreeType'
    BY TypeParts, TreeTypeStep DEF AnyKind
<1>1. /\ n \in used /\ used \subseteq Node /\ n \in Node /\ n # None
      /\ c \in Live /\ b \in used \cup {None} /\ b # n /\ c # n
      /\ Live \subseteq List /\ Fresh(n)
    BY <1>t, LiveLists, NoneFacts DEF Links, Live, TreeType
<1>2. /\ used' = used /\ Live' = Live
      /\ head' = IF b = None THEN [head EXCEPT ![c] = n] ELSE head
      /\ next' = IF b = None THEN next ELSE [next EXCEPT ![b] = n]
    BY DEF Links, Live
<1>3. CASE b = None
    <2>1. /\ next' = next /\ head'[c] = n /\ \A l \in List : l # c => head'[l] = head[l]
        BY <1>1, <1>2, <1>3, <1>t DEF TreeType
    <2>2. next \in Chain /\ \A l \in Live : head[l] \in Ptr
        BY <1>1, <1>t DEF TreeType
    <2>3. \A l \in Live : l # c => Nodes(l)' = Nodes(l)
        BY <1>1, <2>1 DEF Nodes
    <2>4. Nodes(c)' = {n}
        <3> PICK S : S = {n}
            OBVIOUS
        <3>1. n \in Ptr /\ S \in SUBSET Node /\ n \in S \cup {None}
              /\ \A m \in S \ {} : next[m] \in S \cup {None}
            BY <1>1 DEF Fresh, Ptr
        <3>2. Walk(next, n, {}) \subseteq S
            BY <2>2, <3>1, WalkLeast
        <3>3. n \in Walk(next, n, {})
            BY <1>1, <2>2, <3>1, WalkAlong
        <3> QED  BY <2>1, <3>2, <3>3 DEF Nodes
    <2>5. Pointers'
        BY <1>1, <1>2, <2>1 DEF Pointers, Fresh
    <2>6. Ending'
        <3>1. Ends(c)'
            BY <2>1, <2>4, <1>1 DEF Ends, Fresh
        <3>2. \A l \in Live : l # c => Ends(l)'
            BY <2>1, <2>3, <1>1 DEF Ends, Ending
        <3> QED  BY <3>1, <3>2, <1>2 DEF Ending
    <2>7. \A x \in used : Fresh(x) /\ x # n /\ x # c => Fresh(x)'
        <3>1. used \subseteq List
            BY <1>1 DEF List
        <3> QED  BY <1>1, <1>2, <2>1, <3>1 DEF Fresh
    <2>8. \A l \in Live : n \notin Nodes(l)
        BY <1>t, <1>1, FreshApart
    <2>9. \A l \in Live : b \notin Nodes(l)
        BY <1>3, <1>t, <1>1, NodesFacts, NoneFacts
    <2>10. \A l \in Live : Nodes(l)' \subseteq Nodes(l) \cup {n}
        BY <2>3, <2>4
    <2>11. \A l \in Live : n \in Nodes(l)' => l = c
        BY <2>3, <2>8
    <2>12. \A l \in Live : b \notin Nodes(l) /\ (l # c \/ b # None) => Nodes(l)' = Nodes(l)
        BY <1>3, <2>3
    <2>13. \A l \in Live : n \in Nodes(l)' => IF b = None THEN l = c ELSE b \in Nodes(l)
        BY <1>3, <2>11
    <2>14. \A l \in Live : b \in Nodes(l) /\ next[b] = None => Nodes(l)' = Nodes(l) \cup {n}
        BY <2>9
    <2>15. \A x \in used : Fresh(x) /\ x # n /\ x # b /\ x # c => Fresh(x)'
        BY <2>7
    <2>16. b = None /\ head[c] = None => Nodes(c)' = {n}
        BY <2>4
    <2> QED  BY <2>12, <2>13, <2>14, <2>15, <2>16, <2>5, <2>6, <2>10, <1>2
<1>4. CASE b # None
    <2>1. /\ head' = head /\ b \in used /\ b \in Node /\ next'[b] = n
          /\ \A m \in Node \ {b} : next'[m] = next[m]
        BY <1>1, <1>2, <1>4, <1>t DEF TreeType, Chain
    <2>2. next \in Chain /\ next' \in Chain /\ \A l \in Live : head[l] \in Ptr
        BY <1>1, <1>t DEF TreeType
    <2>3. ASSUME NEW l \in Live, b \notin Nodes(l) PROVE Nodes(l)' = Nodes(l)
        <3>1. \A m \in Walk(next, head[l], {}) : next'[m] = next[m]
            BY <2>1, <2>3, <1>t, <1>1, NodesFacts DEF Nodes
        <3> QED  BY <3>1, <2>1, <2>2, WalkSame DEF Nodes
    <2>4. ASSUME NEW l \in Live, b \in Nodes(l)
          PROVE  /\ Nodes(l)' \subseteq Nodes(l) \cup {n}
                 /\ n \in Nodes(l)' /\ next'[n] = None
                 /\ next[b] = None => Nodes(l)' = Nodes(l) \cup {n}
        <3>1. next[n] = None /\ n # b
            BY <1>1 DEF Fresh
        <3> QED  BY <2>1, <2>2, <2>4, <3>1, <1>1, WalkAppend DEF Nodes
    <2>5. Pointers'
        <3>1. used \subseteq Node
            BY <1>1
        <3> QED  BY <1>1, <1>2, <2>1, <3>1 DEF Pointers, Fresh
    <2>6. Ending'
        <3>1. ASSUME NEW l \in Live PROVE Ends(l)'
            <4>1. CASE b \in Nodes(l)
                BY <2>4, <4>1 DEF Ends
            <4>2. CASE b \notin Nodes(l)
                BY <2>1, <2>3, <4>2, <1>t, <1>1, NodesFacts DEF Ends, Ending
            <4> QED  BY <4>1, <4>2
        <3> QED  BY <3>1, <1>2 DEF Ending
    <2>7. \A x \in used : Fresh(x) /\ x # n /\ x # b => Fresh(x)'
        BY <1>1, <1>2, <2>1 DEF Fresh
    <2>8. \A l \in Live : n \notin Nodes(l)
        BY <1>t, <1>1, FreshApart
    <2> QED  BY <1>2, <1>4, <2>3, <2>4, <2>5, <2>6, <2>7, <2>8
<1> QED  BY <1>3, <1>4

\* The node at[p] is taken out of its list and what it frees was in no other.
LEMMA RemovesLists ==
    ASSUME TypeOK, Pointers, Ending, NEW p \in Proc, Removes(p),
           NEW n, n = at[p], NEW b, b = prev[p], NEW c, c = call[p].list,
           NEW F, F = Freed(p), c \in Live, c # n, n \in Nodes(c),
           IF b = None THEN head[c] = n ELSE b \in Nodes(c) /\ next[b] = n,
           F # {} => c = Top
    PROVE  /\ Pointers' /\ Ending' /\ used' = used \ F /\ Live' = Live \ F
           /\ Nodes(c)' = Nodes(c) \ {n}
           /\ \A l \in Live \ F : l # c => Nodes(l)' = Nodes(l)
<1>t. TreeType /\ CallType /\ TreeType'
    BY TypeParts, TreeTypeStep DEF AnyKind
<1>1. /\ n \in used /\ used \subseteq Node /\ n # None /\ n \in Live /\ Live \subseteq List
      /\ next \in Chain /\ next' \in Chain
      /\ \A l \in Live : head[l] \in Ptr /\ Nodes(l) \subseteq used
    BY <1>t, LiveLists, ListInUse, NoneFacts DEF Removes, TreeType
<1>2. F = {} \/ (F = {n} \cup Nodes(n) /\ c = Top)
    BY DEF Freed
<1>3. \A l \in Live : l # c => n \notin Nodes(l)
    BY <1>t, ListsApart
<1>4. Nodes(c) \cap Nodes(n) = {} /\ n \notin Nodes(n)
    BY <1>t, <1>1, <1>3, ListsApart
<1>5. next[n] # n /\ next[n] \in Nodes(c) \cup {None}
    BY <1>t, <1>1, NoLoop, NodesFacts
<1>6. /\ F \subseteq used /\ c \notin F /\ Top \notin F
      /\ None \notin Nodes(n) \cup Nodes(c)
    BY <1>1, <1>2, <1>t, NoneFacts, LiveLists
<1>7. b # None => b \in used /\ b # n /\ b \notin F /\ b \in Node
    BY <1>1, <1>2, <1>4, <1>5
\* The new pointers.
<1>8. /\ used' = used \ F /\ Live' = Live \ F
      /\ \A m \in Node : m \notin F /\ m # n =>
            next'[m] = IF m = b THEN next[n] ELSE next[m]
      /\ n \notin F => next'[n] = None
      /\ \A l \in List : ~(l = c /\ b = None) /\ l \notin F => head'[l] = head[l]
      /\ b = None => head'[c] = next[n]
    <2>1. used' = used \ F
        BY DEF Removes
    <2>2. Live' = Live \ F
        BY <1>6, <2>1 DEF Live
    <2>3. /\ next' = [m \in Node |-> IF m \in {n} \cup F THEN None
                                     ELSE IF m = b THEN next[n] ELSE next[m]]
          /\ head' = [m \in List |-> IF m = c /\ b = None THEN next[n]
                                     ELSE IF m \in F THEN None ELSE head[m]]
        BY DEF Removes, Unlinked
    <2> QED  BY <1>1, <2>1, <2>2, <2>3
<1>n. /\ \A m \in used : next[m] \in used \cup {None}
      /\ \A l \in Live : head[l] \in used \cup {None}
      /\ \A k, m \in used : next[k] = next[m] /\ next[k] # None => k = m
      /\ \A l, k \in Live : head[l] = head[k] /\ head[l] # None => l = k
      /\ \A l \in Live, m \in used : head[l] = next[m] => head[l] = None
    BY DEF Pointers
<1>9. ASSUME NEW m \in used, m \notin F, m # n, m # b
      PROVE  next'[m] = next[m] /\ next[m] \in (used \ F) \cup {None} /\ next[m] # n
    <2>1. next'[m] = next[m]
        BY <1>1, <1>8, <1>9
    <2>2. next[m] # n
        BY <1>1, <1>7, <1>9, <1>n
    <2>3. ASSUME next[m] \in Nodes(n), F # {} PROVE FALSE
        BY <1>1, <1>2, <1>9, <2>3, <1>t, PointersInside
    <2> QED  BY <2>1, <2>2, <2>3, <1>2, <1>n
<1>10. next[n] \in (used \ F) \cup {None} /\ next[n] # n
    BY <1>1, <1>2, <1>4, <1>5
<1>11. b # None => next'[b] = next[n]
    BY <1>7, <1>8
<1>12. ASSUME NEW l \in Live, l \notin F, ~(l = c /\ b = None)
       PROVE  head'[l] = head[l] /\ head[l] \in (used \ F) \cup {None} /\ head[l] # n
    <2>1. head'[l] = head[l]
        BY <1>1, <1>8, <1>12
    <2>2. head[l] # n
        BY <1>1, <1>7, <1>12, <1>n
    <2>3. ASSUME head[l] \in Nodes(n), F # {} PROVE FALSE
        BY <1>1, <1>2, <1>12, <2>3, <1>t, PointersInside
    <2> QED  BY <2>1, <2>2, <2>3, <1>2, <1>n
<1>13. Pointers'
    <2>1. ASSUME NEW m \in used' PROVE next'[m] \in used' \cup {None}
        <3>1. m \in used /\ m \notin F /\ used' = used \ F
            BY <1>8
        <3>2. CASE m = n
            BY <3>1, <3>2, <1>8
        <3>3. CASE m # n /\ m = b
            <4>1. b # None
                BY <3>1, <3>3, <1>1, NoneFacts
            <4> QED  BY <3>1, <3>3, <4>1, <1>10, <1>11
        <3>4. CASE m # n /\ m # b
            BY <3>1, <3>4, <1>9
        <3> QED  BY <3>2, <3>3, <3>4
    <2>2. ASSUME NEW l \in Live' PROVE head'[l] \in used' \cup {None}
        BY <1>8, <1>10, <1>12
    <2>3. ASSUME NEW k \in used', NEW m \in used', next'[k] = next'[m], next'[k] # None
          PROVE  k = m
        <3>1. k \in used /\ m \in used /\ k # n /\ m # n /\ k \notin F /\ m \notin F
            BY <1>8, <2>3
        <3>2. CASE k # b /\ m # b
            BY <3>1, <3>2, <1>9, <2>3, <1>n
        <3>3. CASE k = b /\ m # b
            BY <3>1, <3>3, <1>9, <1>8, <2>3, <1>n, <1>1
        <3>4. CASE k # b /\ m = b
            BY <3>1, <3>4, <1>9, <1>8, <2>3, <1>n, <1>1
        <3> QED  BY <3>2, <3>3, <3>4
    <2>4. ASSUME NEW l \in Live', NEW k \in Live', head'[l] = head'[k], head'[l] # None
          PROVE  l = k
        <3>1. l \in Live /\ k \in Live /\ l \notin F /\ k \notin F
            BY <1>8
        <3>2. CASE b # None \/ (l # c /\ k # c)
            BY <3>1, <3>2, <1>12, <2>4, <1>n
        <3>3. CASE b = None /\ l = c /\ k # c
            BY <3>1, <3>3, <1>12, <1>8, <2>4, <1>n, <1>1
        <3>4. CASE b = None /\ l # c /\ k = c
            BY <3>1, <3>4, <1>12, <1>8, <2>4, <1>n, <1>1
        <3> QED  BY <3>2, <3>3, <3>4
    <2>5. ASSUME NEW l \in Live', NEW m \in used', head'[l] = next'[m], head'[l] # None
          PROVE  FALSE
        <3>1. l \in Live /\ l \notin F /\ m \in used /\ m # n /\ m \notin F
            BY <1>8, <2>5
        <3>2. CASE b = None /\ l = c
            BY <3>1, <3>2, <1>1, <1>8, <1>9, <2>5, <1>n, NoneFacts
        <3>3. CASE ~(b = None /\ l = c) /\ m = b
            BY <3>1, <3>3, <1>1, <1>8, <1>12, <2>5, <1>n
        <3>4. CASE ~(b = None /\ l = c) /\ m # b
            BY <3>1, <3>4, <1>9, <1>12, <2>5, <1>n
        <3> QED  BY <3>2, <3>3, <3>4
    <2> QED  BY <2>1, <2>2, <2>3, <2>4, <2>5 DEF Pointers
<1>14. ASSUME NEW l \in Live, l \notin F, l # c
       PROVE  Nodes(l)' = Nodes(l) /\ Ends(l)'
    <2>1. \A m \in Nodes(l) : m \in used /\ m \notin F /\ m # n /\ m # b
        <3>1. Nodes(l) \cap Nodes(c) = {}
            BY <1>t, <1>14, ListsApart
        <3>2. l = n => F = {}
            BY <1>2, <1>14
        <3>3. l # n => Nodes(l) \cap Nodes(n) = {}
            BY <1>t, <1>1, ListsApart
        <3>4. b \notin Nodes(l)
            BY <3>1, <1>1, NoneFacts
        <3> QED  BY <3>1, <3>2, <3>3, <3>4, <1>1, <1>2
    <2>2. head'[l] = head[l] /\ \A m \in Nodes(l) : next'[m] = next[m]
        BY <2>1, <1>9, <1>12, <1>14
    <2>3. Nodes(l)' = Nodes(l)
        BY <2>2, <1>1, WalkSame DEF Nodes
    <2> QED  BY <2>2, <2>3 DEF Ending, Ends
<1>15. \A m \in Nodes(c) : m # n /\ m # b => next'[m] = next[m]
    BY <1>1, <1>2, <1>4, <1>9
<1>16. Nodes(c)' = Nodes(c) \ {n}
    <2>1. CASE b = None
        <3>1. head'[c] = next[n] /\ head[c] = n /\ n \in Node
            BY <2>1, <1>1, <1>8
        <3>2. \A m \in Walk(next, n, {}) : next[m] # n
            BY <3>1, <1>1, <1>n DEF Nodes
        <3>3. \A m \in Walk(next, n, {}) \ {n} : next'[m] = next[m]
            BY <2>1, <3>1, <1>1, <1>15, NoneFacts DEF Nodes
        <3>4. Walk(next', next[n], {}) = Walk(next, n, {}) \ {n}
            BY <3>1, <3>2, <3>3, <1>1, WalkDropFirst
        <3> QED  BY <3>1, <3>4 DEF Nodes
    <2>2. CASE b # None
        <3>1. head'[c] = head[c] /\ head[c] \in Ptr /\ n \in Node /\ next[b] = n /\ b \in Nodes(c)
            BY <2>2, <1>1, <1>12, <1>6
        <3>2. head[c] # n /\ n # b /\ \A m \in Nodes(c) : next[m] = n => m = b
            BY <2>2, <3>1, <1>1, <1>7, <1>n
        <3>3. next'[b] = next[n] /\ \A m \in Nodes(c) \ {b, n} : next'[m] = next[m]
            BY <2>2, <1>11, <1>15
        <3>4. Walk(next', head[c], {}) = Walk(next, head[c], {}) \ {n}
            BY <3>1, <3>2, <3>3, <1>5, <1>1, WalkDrop DEF Nodes
        <3> QED  BY <3>1, <3>4 DEF Nodes
    <2> QED  BY <2>1, <2>2
<1>17. Ends(c)'
    <2>1. PICK e \in Nodes(c) : next[e] = None
        <3>1. head[c] # None
            BY <1>1, <1>t, NodesFacts
        <3> QED  BY <3>1 DEF Ending, Ends
    <2>2. e # b
        BY <2>1, <1>1, <1>6
    <2>3. CASE e # n
        BY <2>1, <2>2, <2>3, <1>15, <1>16 DEF Ends
    <2>4. CASE e = n /\ b = None
        BY <2>1, <2>4, <1>8 DEF Ends
    <2>5. CASE e = n /\ b # None
        BY <2>1, <2>5, <1>7, <1>11, <1>16 DEF Ends
    <2> QED  BY <2>3, <2>4, <2>5
<1>18. Ending'
    BY <1>8, <1>14, <1>17 DEF Ending
<1> QED  BY <1>8, <1>13, <1>14, <1>16, <1>18

----------------------------------------------------------------------------
\* Taking turns.

\* While the processes take turns, nobody but the process that moves is in the tree.
LEMMA Alone ==
    ASSUME TypeOK, CallInv, TurnInv, NEW p \in Proc, AnyKind(p), Orderly', NEW q \in Proc, q # p
    PROVE  pc[q] = "idle" /\ handle[q] = None /\ at[q] = None /\ prev[q] = None
<1>t. CallType /\ HistType
    BY TypeParts
<1>1. Orderly /\ ~Crashes(p) /\ ~overlap'
    BY OrderSteps DEF Orderly
<1>2. ~Busy(q)
    <2>1. CASE Begins(p)
        BY <1>1, <2>1, <1>t DEF Begins, Start, HistType
    <2>2. CASE ~Begins(p)
        <3>1. Busy(p)
            BY <1>1, <2>2 DEF Busy, AnyKind, BcmPsi_appClose, Misses, Leaves, Opens, Picks, Aims,
                          Makes, Reaches, Links, Sets, Empties, Removes
        <3> QED  BY <1>1, <3>1 DEF TurnInv
    <2> QED  BY <2>1, <2>2
<1> QED  BY <1>1, <1>2, <1>t DEF Busy, Orderly, CallInv, CallType, Places

\* As long as nothing overlaps, at most one process works with the tree.
LEMMA TurnInvStep ==
    ASSUME TypeOK, CallInv, TurnInv, NEW p \in Proc, AnyKind(p)
    PROVE  TurnInv'
<1> SUFFICES ASSUME Orderly', NEW q \in Proc, q # p PROVE ~Busy(q)'
    BY DEF TurnInv
<1>1. pc[q] = "idle" /\ handle[q] = None
    BY Alone
<1>2. pc'[q] = pc[q] /\ handle'[q] = handle[q]
    BY Frame
<1> QED  BY <1>1, <1>2 DEF Busy

\* The list a call works on is the list of applications or that of the handle.
LEMMA CallList ==
    ASSUME TypeOK, CallInv, NEW p \in Proc, Active(p)
    PROVE  /\ call[p].list \in {Top, handle[p]} /\ call[p].list \in List
           /\ call[p].list = Top <=> call[p].fn \in {"open", "drop"}
           /\ call[p].list # Top => handle[p] \in Node /\ call[p].key \in Id
           /\ pc[p] = "find" /\ Sought(p) # None => Sought(p) \in Nodes(call[p].list)
<1>t. TreeType /\ CallType
    BY TypeParts
<1>1. OpenCall(p) \/ ObjectCall(p) \/ DropCall(p)
    BY DEF CallInv
<1>2. call[p].list \in {Top, handle[p]} /\ call[p].list \in List
    BY <1>1, <1>t DEF OpenCall, ObjectCall, DropCall, CallType, Calls
<1>3. call[p].list = Top <=> call[p].fn \in {"open", "drop"}
    BY <1>1, NoneFacts DEF OpenCall, ObjectCall, DropCall
<1>4. call[p].list # Top => handle[p] \in Node /\ call[p].key \in Id
    BY <1>1 DEF OpenCall, ObjectCall, DropCall
<1> QED  BY <1>2, <1>3, <1>4, <1>t, SoughtFacts

\* A node that some list holds.
Seen(x) == x \in used /\ ~Fresh(x)

\* The steps that change no list.
Keeps(p) ==
    \/ Begins(p) \/ BcmPsi_appClose(p) \/ Crashes(p) \/ Misses(p) \/ Leaves(p)
    \/ Opens(p) \/ Picks(p) \/ Aims(p) \/ Reaches(p) \/ (\E v : Sets(p, v)) \/ Empties(p)

\* A step that changes no list takes its nodes from the lists, never one that is in none.
LEMMA KeepsLists ==
    ASSUME TypeOK, CallInv, Pointers, Ending, Referred, NEW p \in Proc, Keeps(p)
    PROVE  /\ used' = used /\ head' = head /\ next' = next
           /\ handle'[p] \in {handle[p], None} \/ Seen(handle'[p])
           /\ prev'[p] \in {prev[p], None} \/ Seen(prev'[p])
           /\ at'[p] \in {at[p], None} \/ Seen(at'[p])
           /\ Carries(p)' => (Carries(p) /\ at'[p] = at[p]) \/ Seen(at'[p])
           /\ Pending(p)' => Pending(p) /\ at'[p] = at[p]
<1>t. TreeType /\ CallType
    BY TypeParts
<1>l. Active(p) => call[p].list \in Live /\ call[p].list \in List
    BY CallList, NoneFacts DEF Referred, Live
<1>n. ASSUME NEW x \in Nodes(call[p].list), Active(p) PROVE Seen(x)
    BY <1>l, <1>n, <1>t, FreshApart, ListInUse DEF Seen
<1>s. Active(p) /\ pc[p] = "find" /\ Sought(p) # None =>
          Seen(Sought(p)) /\ Sought(p) \in Nodes(call[p].list)
    BY <1>n, CallList
<1>1. used' = used /\ head' = head /\ next' = next
    BY DEF Keeps, Begins, Start, BcmPsi_appClose, Crashes, Misses, Leaves, Opens, Picks, Aims,
           Reaches, Sets, Assigned, Empties, Still, treeVars
<1> USE DEF Carries, Pending, Active
<1>2. CASE Begins(p) \/ BcmPsi_appClose(p) \/ Crashes(p) \/ Misses(p)
    BY <1>1, <1>2, <1>t DEF Begins, Start, BcmPsi_appClose, Crashes, Misses, CallType
<1>3. CASE Leaves(p) \/ (\E v : Sets(p, v)) \/ Empties(p)
    BY <1>1, <1>3, <1>t DEF Leaves, Sets, Assigned, Empties, Return, CallType
<1>4. CASE Opens(p)
    BY <1>1, <1>4, <1>s, <1>t DEF Opens, Return, CallType
<1>5. CASE Picks(p)
    BY <1>1, <1>5, <1>s, <1>t DEF Picks, CallType
<1>6. CASE Aims(p)
    <2>1. pc[p] = "find" /\ Sought(p) # None
        BY <1>6 DEF Aims
    <2>2. Before(call[p].list, Sought(p)) \in Nodes(call[p].list) \cup {None}
        BY <2>1, <1>s, <1>l, <1>t, BeforeFacts
    <2>3. prev'[p] = None \/ Seen(prev'[p])
        BY <1>6, <2>1, <2>2, <1>n, <1>t DEF Aims, CallType
    <2> QED  BY <1>1, <1>6, <2>1, <2>3, <1>s, <1>t DEF Aims, CallType
<1>7. CASE Reaches(p)
    <2>1. Last(call[p].list) \in Nodes(call[p].list) \cup {None}
        BY <1>7, <1>l, <1>t, LastFacts DEF Reaches, Ending
    <2>2. prev'[p] = None \/ Seen(prev'[p])
        BY <1>7, <2>1, <1>n, <1>t DEF Reaches, CallType
    <2> QED  BY <1>1, <1>7, <2>2, <1>t DEF Reaches, CallType
<1> QED  BY <1>2, <1>3, <1>4, <1>5, <1>6, <1>7 DEF Keeps

\* Every step keeps the lists well formed, with a removal if the processes take turns.
LEMMA ListInvStep ==
    ASSUME TypeOK, CallInv, ListInv, TurnInv, PlaceInv, NEW p \in Proc, AnyKind(p)
    PROVE  ListInv'
<1> SUFFICES ASSUME Sound' PROVE Pointers' /\ Ending' /\ Referred' /\ Unseen'
    BY DEF ListInv
<1>t. TreeType /\ CallType
    BY TypeParts
<1>1. Sound /\ Pointers /\ Ending /\ Referred /\ Unseen
    BY OrderSteps DEF ListInv
<1>2. \A q \in Proc : q # p => /\ pc'[q] = pc[q] /\ handle'[q] = handle[q]
                               /\ at'[q] = at[q] /\ prev'[q] = prev[q]
    BY Frame
<1>3. \A q \in Proc : /\ handle[q] \in used \cup {None} /\ prev[q] \in used \cup {None}
                      /\ at[q] \in used \cup {None} /\ (Carries(q) => at[q] \in used)
    BY <1>1 DEF Referred
<1>4. \A q \in Proc : Pending(q) =>
          /\ at[q] \in used /\ at[q] # None /\ Fresh(at[q])
          /\ \A r \in Proc : handle[r] # at[q] /\ prev[r] # at[q] /\ (r # q => at[r] # at[q])
    <2>1. \A q \in Proc : Pending(q) => at[q] \in used
        BY <1>3 DEF Pending, Carries
    <2> QED  BY <1>1, <1>t, <2>1, NoneFacts DEF Unseen, TreeType
<1>5. CASE Keeps(p)
    <2>1. /\ used' = used /\ head' = head /\ next' = next
          /\ handle'[p] \in {handle[p], None} \/ Seen(handle'[p])
          /\ prev'[p] \in {prev[p], None} \/ Seen(prev'[p])
          /\ at'[p] \in {at[p], None} \/ Seen(at'[p])
          /\ Carries(p)' => (Carries(p) /\ at'[p] = at[p]) \/ Seen(at'[p])
          /\ Pending(p)' => Pending(p) /\ at'[p] = at[p]
        BY <1>1, <1>5, KeepsLists
    <2>2. Pointers' /\ Ending' /\ \A x : Fresh(x)' <=> Fresh(x)
        BY <1>1, <2>1, SameLists
    <2>3. Referred'
        BY <1>2, <1>3, <2>1 DEF Referred, Seen, Carries
    <2>4. Unseen'
        <3> SUFFICES ASSUME NEW q \in Proc, Pending(q)'
                     PROVE  /\ Fresh(at[q])'
                            /\ \A r \in Proc : /\ handle'[r] # at'[q] /\ prev'[r] # at'[q]
                                               /\ r # q => at'[r] # at'[q]
            BY DEF Unseen
        <3>1. Pending(q) /\ at'[q] = at[q]
            BY <1>2, <2>1 DEF Pending
        <3>2. \A x : Seen(x) => x # at[q]
            BY <1>4, <3>1 DEF Seen
        <3>3. Fresh(at[q])'
            <4>1. PICK x : x = at[q]
                OBVIOUS
            <4>2. Fresh(x)' /\ x = at'[q]
                BY <1>4, <2>2, <3>1, <4>1
            <4> QED  BY <4>2
        <3>4. ASSUME NEW r \in Proc
              PROVE  handle'[r] # at[q] /\ prev'[r] # at[q] /\ (r # q => at'[r] # at[q])
            <4>1. CASE r # p
                BY <4>1, <1>2, <1>4, <3>1
            <4>2. CASE r = p
                BY <4>2, <2>1, <1>4, <3>1, <3>2
            <4> QED  BY <4>1, <4>2
        <3> QED  BY <3>1, <3>3, <3>4
    <2> QED  BY <2>2, <2>3, <2>4
<1>6. ASSUME NEW v, Makes(p, v) PROVE Pointers' /\ Ending' /\ Referred' /\ Unseen'
    <2> PICK n : n = at'[p]
        OBVIOUS
    <2>1. /\ n \in Node \ used /\ used' = used \cup {n} /\ Pointers' /\ Ending' /\ Fresh(n)'
          /\ \A x \in used : Fresh(x) => Fresh(x)'
        BY <1>1, <1>6, MakesLists
    <2>2. handle'[p] = handle[p] /\ prev'[p] = prev[p] /\ n # None
        BY <1>6, <2>1, NoneFacts DEF Makes, Created
    <2>3. Referred'
        BY <1>2, <1>3, <2>1, <2>2 DEF Referred, Carries
    <2>4. Unseen'
        <3> SUFFICES ASSUME NEW q \in Proc, Pending(q)'
                     PROVE  /\ Fresh(at[q])'
                            /\ \A r \in Proc : /\ handle'[r] # at'[q] /\ prev'[r] # at'[q]
                                               /\ r # q => at'[r] # at'[q]
            BY DEF Unseen
        <3> PICK x : x = at'[q]
            OBVIOUS
        <3>1. CASE q = p
            BY <3>1, <1>2, <1>3, <2>1, <2>2
        <3>2. CASE q # p
            <4>1. Pending(q) /\ x = at[q] /\ x \in used /\ Fresh(x)
                BY <3>2, <1>2, <1>4 DEF Pending
            <4>2. Fresh(x)'
                BY <4>1, <2>1
            <4>3. ASSUME NEW r \in Proc
                  PROVE  handle'[r] # x /\ prev'[r] # x /\ (r # q => at'[r] # x)
                BY <4>1, <3>2, <1>2, <1>4, <2>1, <2>2
            <4> QED  BY <4>2, <4>3
        <3> QED  BY <3>1, <3>2
    <2> QED  BY <2>1, <2>3, <2>4
<1>7. CASE Links(p)
    <2> PICK n : n = at[p]
        OBVIOUS
    <2> PICK b : b = prev[p]
        OBVIOUS
    <2> PICK c : c = call[p].list
        OBVIOUS
    <2>1. Pending(p) /\ Active(p)
        BY <1>7 DEF Links, Pending, Active
    <2>2. c \in {Top, handle[p]}
        BY <2>1, CallList
    <2>3. n \in used /\ n # None /\ Fresh(n) /\ b # n /\ c # n
        BY <2>1, <2>2, <1>4, <1>t, LiveLists
    <2>4. /\ Pointers' /\ Ending'
          /\ \A x \in used : Fresh(x) /\ x # n /\ x # b /\ x # c => Fresh(x)'
        BY <1>1, <1>7, <2>3, LinksLists
    <2>5. /\ used' = used /\ handle'[p] \in {handle[p], n} /\ at'[p] = None /\ prev'[p] = None
          /\ pc'[p] = "idle"
        BY <1>7, <1>t DEF Links, Return, CallType
    <2>6. Referred'
        BY <1>2, <1>3, <2>3, <2>5 DEF Referred, Carries
    <2>7. Unseen'
        <3> SUFFICES ASSUME NEW q \in Proc, Pending(q)'
                     PROVE  /\ Fresh(at[q])'
                            /\ \A r \in Proc : /\ handle'[r] # at'[q] /\ prev'[r] # at'[q]
                                               /\ r # q => at'[r] # at'[q]
            BY DEF Unseen
        <3> PICK x : x = at'[q]
            OBVIOUS
        <3>1. q # p /\ Pending(q) /\ x = at[q] /\ x \in used /\ Fresh(x) /\ x # None
            BY <2>5, <1>2, <1>4 DEF Pending
        <3>2. x # n /\ x # b /\ x # c
            BY <3>1, <2>2, <1>4, <1>t, LiveLists
        <3>3. Fresh(x)'
            BY <3>1, <3>2, <2>4
        <3>4. ASSUME NEW r \in Proc
              PROVE  handle'[r] # x /\ prev'[r] # x /\ (r # q => at'[r] # x)
            BY <3>1, <3>2, <1>2, <1>4, <2>5
        <3> QED  BY <3>3, <3>4
    <2> QED  BY <2>4, <2>6, <2>7
<1>8. CASE Removes(p)
    <2> PICK n : n = at[p]
        OBVIOUS
    <2> PICK b : b = prev[p]
        OBVIOUS
    <2> PICK c : c = call[p].list
        OBVIOUS
    <2> PICK F : F = Freed(p)
        OBVIOUS
    <2>1. Orderly /\ Orderly'
        BY <1>8, OrderSteps DEF Removes, Sound
    <2>2. \A q \in Proc : q # p => handle[q] = None /\ at[q] = None /\ prev[q] = None
        BY <2>1, Alone
    <2>3. pc[p] = "unlink" /\ Active(p)
        BY <1>8 DEF Removes, Active
    <2>4. /\ c \in Live /\ n \in Nodes(c) /\ handle[p] \in Nodes(Top) \cup {None}
          /\ IF b = None THEN head[c] = n ELSE b \in Nodes(c) /\ next[b] = n
        BY <1>8, <2>1, <2>3 DEF PlaceInv, Placed, Removes, Walkable, Live
    <2>5. c = Top \/ (F = {} /\ c = handle[p])
        BY <2>3, CallList DEF Freed
    <2>6. n \in used /\ n # Top /\ n # None
        BY <1>8, <1>t, LiveLists, NoneFacts DEF Removes, TreeType
    <2>7. c # n
        <3>1. CASE c = Top
            BY <2>6, <3>1
        <3>2. CASE c # Top
            <4>1. c \in Nodes(Top) /\ Top \in Live
                BY <2>4, <2>5, <2>3, <3>2, <1>t, CallList, LiveLists, NoneFacts
            <4>2. Nodes(c) \cap Nodes(Top) = {}
                BY <4>1, <2>4, <3>2, <1>1, <1>t, ListsApart
            <4> QED  BY <4>1, <4>2, <2>4
        <3> QED  BY <3>1, <3>2
    <2>8. Pointers' /\ Ending' /\ used' = used \ F
        BY <1>1, <1>8, <2>4, <2>5, <2>7, RemovesLists
    <2>9. /\ at'[p] = None /\ prev'[p] = None /\ pc'[p] = "idle"
          /\ handle'[p] = None \/ (handle'[p] = handle[p] /\ F = {})
        BY <1>8, <1>t DEF Removes, Return, CallType, Freed
    <2>10. Referred'
        <3>1. ASSUME NEW q \in Proc, q # p
              PROVE  /\ handle'[q] = None /\ at'[q] = None /\ prev'[q] = None /\ ~Carries(q)'
            <4>1. pc[q] = "idle"
                BY <2>1, <3>1, Alone
            <4> QED  BY <4>1, <3>1, <1>2, <2>2 DEF Carries
        <3> QED  BY <3>1, <2>8, <2>9, <1>3 DEF Referred, Carries
    <2>11. Unseen'
        <3>1. \A q \in Proc : ~Pending(q)'
            BY <2>1, <2>9, <1>2, Alone DEF Pending
        <3> QED  BY <3>1 DEF Unseen
    <2> QED  BY <2>8, <2>10, <2>11
<1> QED  BY <1>5, <1>6, <1>7, <1>8 DEF AnyKind, Keeps

\* The part of the invariant about nodes and pointers.
Base == TypeOK /\ CallInv /\ ListInv /\ TurnInv /\ PlaceInv /\ KeyInv /\ UsedInv

\* What holds of the process that moves while the processes take turns.
LEMMA Turn ==
    ASSUME Base, NEW p \in Proc, Orderly
    PROVE  /\ TreeType /\ CallType /\ HistType /\ Pointers /\ Ending /\ Referred /\ Unseen
           /\ Active(p) => call[p].list \in Live /\ call[p].list \in {Top} \cup Nodes(Top)
           /\ Nodes(Top) \subseteq used /\ Top \in Live /\ Top \notin used
<1>1. TreeType /\ CallType /\ HistType /\ Pointers /\ Ending /\ Referred /\ Unseen
    BY TypeParts DEF Base, ListInv, Sound
<1>2. Nodes(Top) \subseteq used /\ Top \in Live /\ Top \notin used /\ used \subseteq Live
    BY <1>1, LiveLists, ListInUse
<1>3. ASSUME Active(p) PROVE call[p].list \in {Top} \cup Nodes(Top)
    <2>1. call[p].list \in {Top, handle[p]} /\ (call[p].list # Top => handle[p] \in Node)
        BY <1>3, CallList DEF Base
    <2>2. handle[p] \in Nodes(Top) \cup {None}
        BY DEF Base, PlaceInv, Placed
    <2> QED  BY <2>1, <2>2, NoneFacts
<1> QED  BY <1>1, <1>2, <1>3

\* While the processes take turns, append() adds the new node to its list.
LEMMA LinksHere ==
    ASSUME Base, NEW p \in Proc, Links(p), Orderly,
           NEW n, n = at[p], NEW c, c = call[p].list
    PROVE  /\ c \in {Top} \cup Nodes(Top) /\ c \in Live /\ (c = Top <=> call[p].fn = "open")
           /\ n \in used /\ n # Top /\ used' = used /\ key' = key /\ value' = value
           /\ \A l \in Live : n \notin Nodes(l)
           /\ Nodes(n)' = {} /\ n # c
           /\ Nodes(c)' = Nodes(c) \cup {n}
           /\ \A l \in Live : l # c => Nodes(l)' = Nodes(l)
           /\ key[n] = call[p].key /\ \A m \in Nodes(c) : key[m] # key[n]
<1>1. Pending(p) /\ Active(p) /\ pc[p] = "link"
    BY DEF Links, Pending, Active
<1>2. /\ TreeType /\ CallType /\ Pointers /\ Ending /\ Referred /\ Unseen
      /\ c \in Live /\ c \in {Top} \cup Nodes(Top)
      /\ Nodes(Top) \subseteq used /\ Top \notin used
    BY <1>1, Turn
<1> PICK b : b = prev[p]
    OBVIOUS
<1>3. /\ c \in {Top, handle[p]} /\ (c = Top <=> call[p].fn \in {"open", "drop"})
    BY <1>1, CallList DEF Base
<1>4. c = Top <=> call[p].fn = "open"
    BY <1>1, <1>3 DEF Base, CallInv, OpenCall, ObjectCall, DropCall
<1>5. n \in used /\ Fresh(n) /\ b # n /\ c # n /\ n # Top
    BY <1>1, <1>2, <1>3 DEF Referred, Unseen, Carries, Pending
<1>6. IF b = None THEN head[c] = None ELSE b \in Nodes(c) /\ next[b] = None
    BY <1>1 DEF Base, PlaceInv, Placed
<1>7. key[n] = call[p].key /\ \A m \in Nodes(c) : key[m] # call[p].key
    BY <1>1 DEF Base, PlaceInv, Placed
<1>8. TypeOK
    BY DEF Base
<1>9. /\ \A l \in Live : b \notin Nodes(l) /\ (l # c \/ b # None) => Nodes(l)' = Nodes(l)
      /\ b = None /\ head[c] = None => Nodes(c)' = {n}
      /\ \A l \in Live : b \in Nodes(l) /\ next[b] = None => Nodes(l)' = Nodes(l) \cup {n}
    BY <1>2, <1>5, <1>8, LinksLists
<1>10. \A l \in Live : n \notin Nodes(l)
    BY <1>2, <1>5, FreshApart
<1>11. b = None => Nodes(c) = {}
    BY <1>2, <1>6, LiveLists, NodesFacts
<1>12. Nodes(c)' = Nodes(c) \cup {n}
    BY <1>2, <1>6, <1>9, <1>11
<1>13. ASSUME NEW l \in Live, l # c PROVE Nodes(l)' = Nodes(l)
    <2>1. b \notin Nodes(l)
        <3>1. Nodes(l) \cap Nodes(c) = {}
            BY <1>2, <1>13, ListsApart
        <3>2. None \notin Nodes(l)
            BY <1>2, LiveLists, NodesFacts, NoneFacts
        <3> QED  BY <3>1, <3>2, <1>6
    <2> QED  BY <2>1, <1>9, <1>13
<1>14. Nodes(n)' = {}
    <2>1. Nodes(n) = {} /\ n \in Live
        BY <1>2, <1>5, LiveLists, NodesFacts DEF Fresh
    <2> QED  BY <2>1, <1>13, <1>5
<1>15. used' = used /\ key' = key /\ value' = value
    BY DEF Links
<1> QED  BY <1>2, <1>4, <1>5, <1>7, <1>10, <1>12, <1>13, <1>14, <1>15

\* While the processes take turns, remove() takes its node out and touches nothing else.
LEMMA RemovesHere ==
    ASSUME Base, NEW p \in Proc, Removes(p), Orderly,
           NEW n, n = at[p], NEW c, c = call[p].list, NEW F, F = Freed(p)
    PROVE  /\ c \in {Top} \cup Nodes(Top) /\ n \in Nodes(c) /\ n \in used
           /\ IF c = Top THEN call[p].fn = "drop" /\ F = {n} \cup Nodes(n)
              ELSE call[p].fn = "remove" /\ F = {} /\ key[n] = call[p].key /\ call[p].key \in Id
           /\ used' = used \ F /\ F \subseteq used
           /\ \A l \in Live : l # c => n \notin Nodes(l)
           /\ \A l \in {Top} \cup (Nodes(Top) \ {n}) :
                 /\ l \notin F /\ Nodes(l)' = Nodes(l) \ {n} /\ Nodes(l) \cap Nodes(n) = {}
                 /\ \A m \in Nodes(l) \ {n} : key'[m] = key[m] /\ value'[m] = value[m]
<1>1. Active(p) /\ pc[p] = "unlink"
    BY DEF Removes, Active
<1>2. /\ TreeType /\ CallType /\ Pointers /\ Ending /\ Referred
      /\ c \in Live /\ c \in {Top} \cup Nodes(Top)
      /\ Nodes(Top) \subseteq used /\ Top \in Live /\ Top \notin used /\ used \subseteq Live
    BY <1>1, Turn, LiveLists
<1> PICK b : b = prev[p]
    OBVIOUS
<1>3. n \in used /\ n \in Live /\ n \in Node /\ n # Top
    BY <1>2 DEF Removes, TreeType
<1>4. /\ n \in Nodes(c) /\ IF b = None THEN head[c] = n ELSE b \in Nodes(c) /\ next[b] = n
    BY <1>1 DEF Base, PlaceInv, Placed
<1>5. /\ call[p].fn \in {"remove", "drop"} /\ (c = Top <=> call[p].fn = "drop")
      /\ c # Top => call[p].key \in Id
    <2>1. call[p].fn \in {"remove", "drop"}
        BY <1>1 DEF Base, CallInv, OpenCall, ObjectCall, DropCall
    <2> QED  BY <1>1, <2>1, CallList DEF Base
<1>6. c # Top => key[n] = call[p].key
    BY <1>1, <1>5 DEF Base, PlaceInv, Placed
<1>7. IF c = Top THEN F = {n} \cup Nodes(n) ELSE F = {}
    BY <1>5 DEF Freed
<1>8. \A l \in Live : l # c => n \notin Nodes(l)
    BY <1>2, <1>4, ListsApart
<1>9. c # n
    <2>1. CASE c = Top
        BY <2>1, <1>3
    <2>2. CASE c # Top
        BY <2>2, <1>2, <1>4, <1>8
    <2> QED  BY <2>1, <2>2
<1>10. TypeOK
    BY DEF Base
<1>11. /\ used' = used \ F /\ Nodes(c)' = Nodes(c) \ {n}
       /\ \A l \in Live \ F : l # c => Nodes(l)' = Nodes(l)
    BY <1>2, <1>4, <1>7, <1>9, <1>10, RemovesLists
<1>12. Nodes(n) \subseteq used
    BY <1>2, <1>3, ListInUse
<1>13. F \subseteq used
    BY <1>3, <1>7, <1>12
<1>14. ASSUME NEW l \in {Top} \cup (Nodes(Top) \ {n})
       PROVE  /\ l \notin F /\ Nodes(l)' = Nodes(l) \ {n} /\ Nodes(l) \cap Nodes(n) = {}
              /\ \A m \in Nodes(l) \ {n} : key'[m] = key[m] /\ value'[m] = value[m]
    <2>1. l \in Live /\ l # n
        BY <1>2, <1>3
    <2>2. l \notin F
        <3>1. Nodes(Top) \cap Nodes(n) = {}
            BY <1>2, <1>3, ListsApart
        <3> QED  BY <3>1, <1>7, <1>13, <1>2
    <2>3. Nodes(l)' = Nodes(l) \ {n}
        BY <2>1, <2>2, <1>8, <1>11
    <2>4. Nodes(l) \cap Nodes(n) = {} /\ Nodes(l) \subseteq Node
        BY <2>1, <1>2, <1>3, ListsApart, LiveLists, NodesFacts
    <2>5. ASSUME NEW m \in Nodes(l) \ {n} PROVE key'[m] = key[m] /\ value'[m] = value[m]
        <3>1. m \in Node /\ m \notin F /\ m # n /\ m \notin Nodes(n)
            BY <2>4, <2>5, <1>7
        <3>2. m \notin Freed(p) /\ m \notin Doomed(p)
            BY <3>1 DEF Doomed
        <3> QED  BY <3>1, <3>2 DEF Removes
    <2> QED  BY <2>2, <2>3, <2>4, <2>5
<1> HIDE DEF Live
<1> QED  BY <1>2, <1>3, <1>4, <1>5, <1>6, <1>7, <1>8, <1>11, <1>13, <1>14

\* Steps that change no list change no key and lose no node either.
LEMMA KeepsHere ==
    ASSUME Base, NEW p \in Proc, Keeps(p), Orderly
    PROVE  /\ used' = used /\ head' = head /\ next' = next /\ key' = key /\ leaked' = leaked
           /\ \A l : Nodes(l)' = Nodes(l)
<1>1. used' = used /\ head' = head /\ next' = next
    BY Turn, KeepsLists DEF Base
<1>2. key' = key /\ leaked' = leaked
    BY DEF Keeps, Begins, Start, BcmPsi_appClose, Crashes, Misses, Leaves, Opens, Picks, Aims,
           Reaches, Sets, Assigned, Empties, Still, treeVars, histVars
<1> QED  BY <1>1, <1>2, SameLists

\* The nodes that a call carries stay where it found them while nobody else moves.
LEMMA PlaceInvStep ==
    ASSUME Base, NEW p \in Proc, AnyKind(p)
    PROVE  PlaceInv'
<1> SUFFICES ASSUME Orderly' PROVE \A q \in Proc : Placed(q)'
    BY DEF PlaceInv, Placed
<1>0. TypeOK /\ CallInv /\ TurnInv /\ Orderly /\ ~Crashes(p)
    BY OrderSteps DEF Base
<1>t. /\ TreeType /\ CallType /\ HistType /\ Pointers /\ Ending /\ Referred /\ Unseen
      /\ Active(p) => call[p].list \in Live /\ call[p].list \in {Top} \cup Nodes(Top)
      /\ Nodes(Top) \subseteq used /\ Top \in Live /\ Top \notin used
    BY <1>0, Turn
<1>o. ASSUME NEW q \in Proc, q # p PROVE Placed(q)'
    <2>1. pc'[q] = "idle" /\ handle'[q] = None
        BY <1>0, <1>o, Alone, Frame
    <2> QED  BY <2>1 DEF Placed, Pending
<1> SUFFICES Placed(p)'
    BY <1>o
<1>p. Placed(p)
    BY <1>0 DEF Base, PlaceInv, Placed
<1>c. Active(p) => call[p].list \in List
    BY <1>t, LiveLists
<1>s. pc[p] = "find" =>
          /\ Sought(p) # None => Sought(p) \in Nodes(call[p].list)
          /\ call[p].fn # "drop" /\ Sought(p) # None => key[Sought(p)] = call[p].key
          /\ call[p].fn # "drop" /\ Sought(p) = None =>
                \A m \in Nodes(call[p].list) : key[m] # call[p].key
    <2>1. pc[p] = "find" => Active(p)
        BY DEF Active
    <2> QED  BY <2>1, <1>0, <1>t, CallList, SoughtFacts
<1>1. CASE Keeps(p)
    <2>1. head' = head /\ next' = next /\ key' = key /\ \A l : Nodes(l)' = Nodes(l)
        BY <1>0, <1>1, KeepsHere
    <2>2. CASE Begins(p) \/ BcmPsi_appClose(p) \/ Leaves(p) \/ (\E v : Sets(p, v))
        <3>1. pc'[p] \in {"idle", "find"} /\ handle'[p] \in {handle[p], None}
            BY <2>2, <1>t DEF Begins, Start, BcmPsi_appClose, Leaves, Sets, Assigned, Return, CallType
        <3>2. handle'[p] \in Nodes(Top)' \cup {None}
            BY <3>1, <2>1, <1>p DEF Placed
        <3> QED  BY <3>1, <3>2 DEF Placed, Pending
    <2>3. CASE Opens(p)
        <3>1. pc'[p] = "idle" /\ handle'[p] = Sought(p) /\ Sought(p) # None /\ pc[p] = "find"
              /\ call[p].fn = "open"
            BY <2>3, <1>t DEF Opens, Return, CallType
        <3>2. call[p].list = Top
            BY <3>1, <1>0, CallList DEF Active
        <3> QED  BY <3>1, <3>2, <1>s, <2>1 DEF Placed, Pending
    <2>4. CASE Misses(p)
        <3>1. /\ pc'[p] = "create" /\ handle'[p] = handle[p] /\ call'[p] = call[p]
              /\ \A m \in Nodes(call[p].list) : key[m] # call[p].key
            BY <2>4, <1>s, <1>t DEF Misses, CallType
        <3>2. PICK c : c = call[p].list
            OBVIOUS
        <3>3. \A m \in Nodes(c)' : key'[m] # call'[p].key
            BY <3>1, <3>2, <2>1
        <3> QED  BY <3>1, <3>2, <3>3, <2>1, <1>p DEF Placed, Pending
    <2>5. CASE Picks(p)
        <3>1. /\ pc'[p] = "assign" /\ handle'[p] = handle[p] /\ call'[p] = call[p]
              /\ at'[p] = Sought(p) /\ Sought(p) \in Nodes(call[p].list)
              /\ key[Sought(p)] = call[p].key
            BY <2>5, <1>s, <1>t DEF Picks, CallType
        <3>2. PICK c : c = call[p].list
            OBVIOUS
        <3>3. at'[p] \in Nodes(c)' /\ key'[at'[p]] = call'[p].key
            BY <3>1, <3>2, <2>1
        <3> QED  BY <3>1, <3>2, <3>3, <2>1, <1>p DEF Placed, Pending
    <2>6. CASE Aims(p)
        <3>1. PICK c, b, n : c = call[p].list /\ n = Sought(p) /\ b = Before(c, n)
            OBVIOUS
        <3>2. /\ pc[p] = "find" /\ pc'[p] = "unlink" /\ handle'[p] = handle[p] /\ call'[p] = call[p]
              /\ at'[p] = n /\ prev'[p] = b /\ n \in Nodes(c)
              /\ call[p].fn # "drop" => key[n] = call[p].key
            BY <2>6, <3>1, <1>s, <1>t DEF Aims, CallType
        <3>3. IF b = None THEN head[c] = n ELSE b \in Nodes(c) /\ next[b] = n
            <4>1. c \in List /\ Nodes(c) \subseteq Node
                BY <3>1, <3>2, <1>c, <1>t, NodesFacts DEF Active
            <4>2. IF head[c] = n THEN b = None ELSE b \in Nodes(c) /\ next[b] = n
                BY <3>1, <3>2, <4>1, <1>t, BeforeFacts
            <4> QED  BY <4>1, <4>2, NoneFacts
        <3>4. /\ n \in Nodes(c)' /\ (call[p].fn # "drop" => key'[n] = call[p].key)
              /\ IF b = None THEN head'[c] = n ELSE b \in Nodes(c)' /\ next'[b] = n
            BY <3>2, <3>3, <2>1
        <3> QED  BY <3>1, <3>2, <3>4, <2>1, <1>p DEF Placed, Pending
    <2>7. CASE Reaches(p)
        <3>1. PICK c, b, n : c = call[p].list /\ n = at[p] /\ b = Last(c)
            OBVIOUS
        <3>2. /\ pc[p] = "tail" /\ pc'[p] = "link" /\ handle'[p] = handle[p] /\ call'[p] = call[p]
              /\ at'[p] = n /\ prev'[p] = b /\ Ends(c)
            BY <2>7, <3>1, <1>t DEF Reaches, CallType, Walkable
        <3>3. IF b = None THEN head[c] = None ELSE b \in Nodes(c) /\ next[b] = None
            <4>1. c \in List /\ Nodes(c) \subseteq Node
                BY <3>1, <3>2, <1>c, <1>t, NodesFacts DEF Active
            <4>2. IF head[c] = None THEN b = None ELSE b \in Nodes(c) /\ next[b] = None
                BY <3>1, <3>2, <4>1, <1>t, LastFacts
            <4> QED  BY <4>1, <4>2, NoneFacts
        <3>4. key[n] = call[p].key /\ \A m \in Nodes(c) : key[m] # call[p].key
            BY <3>1, <3>2, <1>p DEF Placed, Pending
        <3>5. /\ key'[n] = call'[p].key /\ \A m \in Nodes(c)' : key'[m] # call'[p].key
              /\ IF b = None THEN head'[c] = None ELSE b \in Nodes(c)' /\ next'[b] = None
            BY <3>2, <3>3, <3>4, <2>1
        <3> QED  BY <3>1, <3>2, <3>5, <2>1, <1>p DEF Placed, Pending
    <2>8. CASE Empties(p)
        <3>1. PICK c, n : c = call[p].list /\ n = at[p]
            OBVIOUS
        <3>2. /\ pc[p] = "assign" /\ pc'[p] = "realloc" /\ handle'[p] = handle[p]
              /\ call'[p] = call[p] /\ at'[p] = n
            BY <2>8, <3>1, <1>t DEF Empties, CallType
        <3>3. n \in Nodes(c)' /\ key'[n] = call'[p].key
            BY <3>1, <3>2, <2>1, <1>p DEF Placed
        <3> QED  BY <3>1, <3>2, <3>3, <2>1, <1>p DEF Placed, Pending
    <2> QED  BY <1>0, <1>1, <2>2, <2>3, <2>4, <2>5, <2>6, <2>7, <2>8 DEF Keeps
<1>2. ASSUME NEW v, Makes(p, v) PROVE Placed(p)'
    <2>1. PICK c, n : c = call[p].list /\ n = at'[p]
        OBVIOUS
    <2>2. /\ pc[p] = "create" /\ pc'[p] = "tail" /\ handle'[p] = handle[p] /\ call'[p] = call[p]
          /\ Active(p)
        BY <1>2, <1>t DEF Makes, Created, Goto, CallType, Active
    <2>3. /\ \A l \in Live : Nodes(l)' = Nodes(l)
          /\ \A m \in used : key'[m] = key[m]
          /\ key'[n] = call[p].key
        BY <2>1, <1>0, <1>2, <1>t, MakesLists
    <2>4. c \in Live /\ Nodes(c) \subseteq used /\ \A m \in Nodes(c) : key[m] # call[p].key
        BY <2>1, <2>2, <1>t, <1>p, ListInUse DEF Placed
    <2>5. \A m \in Nodes(c)' : key'[m] # call'[p].key
        BY <2>2, <2>3, <2>4
    <2>6. handle'[p] \in Nodes(Top)' \cup {None}
        BY <2>2, <2>3, <1>t, <1>p DEF Placed
    <2> QED  BY <2>1, <2>2, <2>3, <2>5, <2>6 DEF Placed
<1>3. CASE Links(p)
    <2>1. PICK c, n : c = call[p].list /\ n = at[p]
        OBVIOUS
    <2>2. /\ Nodes(c)' = Nodes(c) \cup {n} /\ (\A l \in Live : l # c => Nodes(l)' = Nodes(l))
        BY <1>0, <1>3, <2>1, LinksHere
    <2>3. pc'[p] = "idle" /\ handle'[p] = IF c = Top THEN n ELSE handle[p]
        BY <1>3, <2>1, <1>t DEF Links, Return, CallType
    <2>4. handle'[p] \in Nodes(Top)' \cup {None}
        BY <2>2, <2>3, <1>t, <1>p DEF Placed
    <2> QED  BY <2>3, <2>4 DEF Placed, Pending
<1>4. CASE Removes(p)
    <2>1. PICK c, n, F : c = call[p].list /\ n = at[p] /\ F = Freed(p)
        OBVIOUS
    <2>2. /\ IF c = Top THEN call[p].fn = "drop" ELSE call[p].fn = "remove"
          /\ Nodes(Top)' = Nodes(Top) \ {n}
          /\ c # Top => n \notin Nodes(Top)
        BY <1>0, <1>4, <2>1, <1>t, RemovesHere
    <2>3. pc'[p] = "idle" /\ handle'[p] = IF call[p].fn = "drop" THEN None ELSE handle[p]
        BY <1>4, <1>t DEF Removes, Return, CallType
    <2>4. handle'[p] \in Nodes(Top)' \cup {None}
        BY <2>2, <2>3, <1>p DEF Placed
    <2> QED  BY <2>3, <2>4 DEF Placed, Pending
<1> QED  BY <1>1, <1>2, <1>3, <1>4 DEF AnyKind, Keeps

\* The keys of a list are of one kind and different.
Keyed(l) ==
    /\ l = Top => \A m \in Nodes(l) : key[m] \in App
    /\ l # Top => \A m \in Nodes(l) : key[m] \in Id
    /\ \A m, n \in Nodes(l) : key[m] = key[n] => m = n

\* KeyInv, list by list.
LEMMA KeyedLists ==
    ASSUME TreeType
    PROVE  KeyInv <=> (Orderly => \A l \in {Top} \cup Nodes(Top) : Keyed(l))
<1>1. Top \notin Nodes(Top)
    BY NodesFacts, NoneFacts DEF List
<1> QED  BY <1>1 DEF KeyInv, Keyed

\* No application and no object is ever there twice while the processes take turns.
LEMMA KeyInvStep ==
    ASSUME Base, NEW p \in Proc, AnyKind(p)
    PROVE  KeyInv'
<1>0. TypeOK /\ CallInv /\ TurnInv /\ KeyInv /\ (Orderly' => Orderly /\ ~Crashes(p))
    BY OrderSteps DEF Base
<1>a. Top \notin Nodes(Top)'
    BY NoneFacts DEF Nodes, Walk
<1> SUFFICES ASSUME Orderly' PROVE \A l \in {Top} \cup Nodes(Top)' : Keyed(l)'
    BY <1>a DEF KeyInv, Keyed
<1>t. /\ TreeType /\ CallType /\ Pointers /\ Ending
      /\ Nodes(Top) \subseteq used /\ Top \in Live /\ Top \notin used /\ used \subseteq Live
    BY <1>0, Turn, LiveLists
<1>k. \A l \in {Top} \cup Nodes(Top) : Keyed(l)
    BY <1>0, <1>t, KeyedLists
<1>1. CASE Keeps(p)
    <2>1. key' = key /\ \A l : Nodes(l)' = Nodes(l)
        BY <1>0, <1>1, KeepsHere
    <2> QED  BY <2>1, <1>k DEF Keyed
<1>2. ASSUME NEW v, Makes(p, v), NEW l \in {Top} \cup Nodes(Top)' PROVE Keyed(l)'
    <2>1. PICK n : n = at'[p]
        OBVIOUS
    <2>2. /\ \A k \in Live : Nodes(k)' = Nodes(k)
          /\ \A m \in used : key'[m] = key[m]
        BY <2>1, <1>0, <1>2, <1>t, MakesLists
    <2>3. l \in {Top} \cup Nodes(Top) /\ l \in Live /\ Nodes(l) \subseteq used
        BY <2>2, <1>2, <1>t, ListInUse
    <2>4. Nodes(l)' = Nodes(l) /\ \A m \in Nodes(l) : key'[m] = key[m]
        BY <2>2, <2>3
    <2>5. Keyed(l)
        BY <2>3, <1>k
    <2> QED  BY <2>4, <2>5 DEF Keyed
<1>3. ASSUME Links(p), NEW l \in {Top} \cup Nodes(Top)' PROVE Keyed(l)'
    <2>1. PICK c, n : c = call[p].list /\ n = at[p]
        OBVIOUS
    <2>2. /\ c \in {Top} \cup Nodes(Top) /\ (c = Top <=> call[p].fn = "open")
          /\ n \in used /\ key' = key /\ Nodes(n)' = {} /\ n # c /\ n # Top
          /\ Nodes(c)' = Nodes(c) \cup {n} /\ (\A k \in Live : k # c => Nodes(k)' = Nodes(k))
          /\ key[n] = call[p].key /\ \A m \in Nodes(c) : key[m] # key[n]
        BY <1>0, <1>3, <2>1, LinksHere
    <2>3. IF c = Top THEN key[n] \in App ELSE key[n] \in Id
        <3>1. pc[p] = "link" /\ Active(p)
            BY <1>3 DEF Links, Active
        <3> QED  BY <3>1, <2>2, <1>0 DEF CallInv, OpenCall, ObjectCall, DropCall
    <2>4. CASE l = n
        BY <2>2, <2>4 DEF Keyed
    <2>5. CASE l # n
        <3>1. l \in {Top} \cup Nodes(Top)
            BY <2>2, <2>5, <1>3, <1>t
        <3>2. Keyed(l) /\ l \in Live
            BY <3>1, <1>k, <1>t
        <3>3. CASE l # c
            BY <3>2, <3>3, <2>2 DEF Keyed
        <3>4. CASE l = c
            BY <3>2, <3>4, <2>2, <2>3 DEF Keyed
        <3> QED  BY <3>3, <3>4
    <2> QED  BY <2>4, <2>5
<1>4. ASSUME Removes(p), NEW l \in {Top} \cup Nodes(Top)' PROVE Keyed(l)'
    <2>1. PICK c, n, F : c = call[p].list /\ n = at[p] /\ F = Freed(p)
        OBVIOUS
    <2>2. \A k \in {Top} \cup (Nodes(Top) \ {n}) :
             /\ Nodes(k)' = Nodes(k) \ {n}
             /\ \A m \in Nodes(k) \ {n} : key'[m] = key[m]
        BY <1>0, <1>4, <2>1, RemovesHere
    <2>3. l \in {Top} \cup (Nodes(Top) \ {n})
        BY <2>2, <1>4
    <2>4. Nodes(l)' = Nodes(l) \ {n} /\ (\A m \in Nodes(l) \ {n} : key'[m] = key[m]) /\ Keyed(l)
        BY <2>2, <2>3, <1>k
    <2> QED  BY <2>4 DEF Keyed
<1> QED  BY <1>1, <1>2, <1>3, <1>4 DEF AnyKind, Keeps

\* Only the process that moves may hold a node that is in no list.
LEMMA HeldStep ==
    ASSUME Base, NEW p \in Proc, AnyKind(p), Orderly'
    PROVE  /\ Held = IF Pending(p) THEN {at[p]} ELSE {}
           /\ Held' = IF Pending(p)' THEN {at'[p]} ELSE {}
<1>1. \A q \in Proc : q # p => ~Pending(q) /\ ~Pending(q)'
    BY Alone, Frame DEF Base, Pending
<1> QED  BY <1>1 DEF Held

\* A node in use is in the tree, held by the call under way, or one that objRemove lost.
LEMMA UsedInvStep ==
    ASSUME Base, NEW p \in Proc, AnyKind(p)
    PROVE  UsedInv'
<1>0. TypeOK /\ CallInv /\ TurnInv /\ UsedInv /\ (Orderly' => Orderly /\ ~Crashes(p))
    BY OrderSteps DEF Base
<1> SUFFICES ASSUME Orderly'
             PROVE  used' = leaked' \cup Reach' \cup Held' /\ leaked' \cap (Reach' \cup Held') = {}
    BY DEF UsedInv, Held
<1>t. /\ TreeType /\ CallType /\ Pointers /\ Ending /\ Referred
      /\ Nodes(Top) \subseteq used /\ Top \in Live /\ Top \notin used /\ used \subseteq Live
    BY <1>0, Turn, LiveLists
<1>h. /\ Held = IF Pending(p) THEN {at[p]} ELSE {}
      /\ Held' = IF Pending(p)' THEN {at'[p]} ELSE {}
    BY HeldStep
<1>u. used = leaked \cup Reach \cup Held /\ leaked \cap (Reach \cup Held) = {}
    BY <1>0 DEF UsedInv, Held
<1>1. CASE Keeps(p)
    <2>1. used' = used /\ leaked' = leaked /\ Reach' = Reach
        BY <1>0, <1>1, KeepsHere DEF Reach
    <2>2. Held' = Held
        <3>1. Pending(p)' => Pending(p) /\ at'[p] = at[p]
            BY <1>0, <1>1, <1>t, KeepsLists
        <3>2. Pending(p) => Pending(p)' /\ at'[p] = at[p]
            BY <1>0, <1>1, <1>t DEF Pending, Keeps, Begins, Start, BcmPsi_appClose, Misses, Leaves,
                  Opens, Picks, Aims, Reaches, Sets, Empties, CallType
        <3> QED  BY <3>1, <3>2, <1>h
    <2> QED  BY <2>1, <2>2, <1>u
<1>2. ASSUME NEW v, Makes(p, v)
      PROVE  used' = leaked' \cup Reach' \cup Held' /\ leaked' \cap (Reach' \cup Held') = {}
    <2>1. PICK n : n = at'[p]
        OBVIOUS
    <2>2. n \notin used /\ used' = used \cup {n} /\ \A k \in Live : Nodes(k)' = Nodes(k)
        BY <2>1, <1>0, <1>2, <1>t, MakesLists
    <2>3. Reach' = Reach
        BY <2>2, <1>t DEF Reach
    <2>4. Held = {} /\ Held' = {n} /\ leaked' = leaked
        BY <1>2, <2>1, <1>h, <1>t DEF Makes, Created, Goto, Pending, CallType
    <2> QED  BY <2>2, <2>3, <2>4, <1>u
<1>3. CASE Links(p)
    <2>1. PICK c, n : c = call[p].list /\ n = at[p]
        OBVIOUS
    <2>2. /\ c \in {Top} \cup Nodes(Top)
          /\ n \in used /\ used' = used /\ Nodes(n)' = {} /\ n # c /\ n # Top
          /\ Nodes(c)' = Nodes(c) \cup {n} /\ (\A k \in Live : k # c => Nodes(k)' = Nodes(k))
        BY <1>0, <1>3, <2>1, LinksHere
    <2>3. Reach' = Reach \cup {n}
        <3>1. CASE c = Top
            <4>1. Nodes(Top)' = Nodes(Top) \cup {n} /\ \A k \in Nodes(Top) : Nodes(k)' = Nodes(k)
                BY <3>1, <2>2, <1>t
            <4> QED  BY <4>1, <2>2 DEF Reach
        <3>2. CASE c # Top
            <4>1. /\ Nodes(Top)' = Nodes(Top) /\ c \in Nodes(Top)
                  /\ \A k \in Nodes(Top) : k # c => Nodes(k)' = Nodes(k)
                BY <3>2, <2>2, <1>t
            <4> QED  BY <4>1, <2>2 DEF Reach
        <3> QED  BY <3>1, <3>2
    <2>4. Held = {n} /\ Held' = {} /\ leaked' = leaked
        BY <1>3, <2>1, <1>h, <1>t DEF Links, Return, Pending, CallType
    <2> QED  BY <2>2, <2>3, <2>4, <1>u
<1>4. CASE Removes(p)
    <2>1. PICK c, n, F : c = call[p].list /\ n = at[p] /\ F = Freed(p)
        OBVIOUS
    <2>2. /\ c \in {Top} \cup Nodes(Top) /\ n \in Nodes(c) /\ n \in used
          /\ IF c = Top THEN call[p].fn = "drop" /\ F = {n} \cup Nodes(n)
             ELSE call[p].fn = "remove" /\ F = {}
          /\ used' = used \ F
          /\ \A l \in Live : l # c => n \notin Nodes(l)
          /\ \A l \in {Top} \cup (Nodes(Top) \ {n}) :
                Nodes(l)' = Nodes(l) \ {n} /\ Nodes(l) \cap Nodes(n) = {}
        BY <1>0, <1>4, <2>1, RemovesHere
    <2>3. Held = {} /\ Held' = {}
        BY <1>4, <1>h, <1>t DEF Removes, Return, Pending, CallType
    <2>4. n \in Reach
        BY <2>2 DEF Reach
    <2>5. CASE c = Top
        <3>1. Reach' = Reach \ F
            <4>1. /\ Nodes(Top)' = Nodes(Top) \ {n} /\ Nodes(Top) \cap Nodes(n) = {} /\ n \in Nodes(Top)
                  /\ \A k \in Nodes(Top) \ {n} :
                        Nodes(k)' = Nodes(k) /\ n \notin Nodes(k) /\ Nodes(k) \cap Nodes(n) = {}
                <5>1. Nodes(Top)' = Nodes(Top) \ {n} /\ Nodes(Top) \cap Nodes(n) = {}
                    BY <2>2
                <5>2. ASSUME NEW k \in Nodes(Top) \ {n}
                      PROVE  Nodes(k)' = Nodes(k) /\ n \notin Nodes(k) /\ Nodes(k) \cap Nodes(n) = {}
                    <6>1. Nodes(k)' = Nodes(k) \ {n} /\ Nodes(k) \cap Nodes(n) = {}
                        BY <2>2
                    <6>2. k \in Live /\ k # c
                        BY <2>5, <1>t
                    <6>3. n \notin Nodes(k)
                        BY <2>2, <6>2
                    <6> QED  BY <6>1, <6>3
                <5> QED  BY <2>2, <2>5, <5>1, <5>2
            <4>2. Reach' = (Nodes(Top) \ {n}) \cup UNION {Nodes(k) : k \in Nodes(Top) \ {n}}
                BY <4>1 DEF Reach
            <4>3. F = {n} \cup Nodes(n)
                BY <2>2, <2>5
            <4>4. ASSUME NEW x PROVE x \in Reach' <=> x \in Reach /\ x \notin F
                BY <4>1, <4>2, <4>3 DEF Reach
            <4> QED  BY <4>4
        <3>2. F \subseteq Reach
            BY <2>2, <2>5 DEF Reach
        <3>3. leaked' = leaked
            BY <1>4, <2>2, <2>5 DEF Removes
        <3> QED  BY <3>1, <3>2, <3>3, <2>2, <2>3, <1>u
    <2>6. CASE c # Top
        <3>1. Reach' = Reach \ {n}
            <4>1. n \notin Nodes(Top) /\ Nodes(Top)' = Nodes(Top)
                <5>1. n \notin Nodes(Top)
                    BY <2>2, <2>6, <1>t
                <5>2. Nodes(Top)' = Nodes(Top) \ {n}
                    BY <2>2
                <5> QED  BY <5>1, <5>2
            <4>2. \A k \in Nodes(Top) : Nodes(k)' = Nodes(k) \ {n}
                BY <2>2, <4>1
            <4>3. ASSUME NEW x PROVE x \in Reach' <=> x \in Reach /\ x # n
                BY <4>1, <4>2 DEF Reach
            <4> QED  BY <4>3
        <3>2. leaked' = leaked \cup {n} /\ used' = used
            BY <1>4, <2>1, <2>2, <2>6 DEF Removes
        <3> QED  BY <3>1, <3>2, <2>3, <2>4, <1>u
    <2> QED  BY <2>5, <2>6
<1> QED  BY <1>1, <1>2, <1>3, <1>4 DEF AnyKind, Keeps

----------------------------------------------------------------------------
\* Values.

\* A step that removes nothing and fails nowhere leaves every value in its place.
LEMMA ValuesKept ==
    ASSUME Base, ValInv, NEW p \in Proc, AnyKind(p), freed' = {}, ~failed'
    PROVE  /\ \A m \in used : value[m] # None => value'[m] # None
           /\ pc'[p] # "realloc" /\ ~Removes(p) /\ ~Empties(p)
<1>0. TypeOK /\ CallInv /\ freed = {} /\ ~failed
    BY OrderSteps DEF Base
<1>t. TreeType /\ CallType /\ HistType
    BY <1>0, TypeParts
<1>1. ~Removes(p) /\ ~Empties(p)
    BY DEF Removes, Empties
<1>2. pc'[p] # "realloc"
    BY <1>1, <1>t DEF AnyKind, Begins, Start, BcmPsi_appClose, Crashes, Misses, Leaves, Opens, Picks,
           Aims, Makes, Created, Reaches, Links, Sets, Assigned, Return, Goto, CallType
<1>3. CASE Begins(p) \/ BcmPsi_appClose(p) \/ Crashes(p) \/ Misses(p) \/ Leaves(p)
           \/ Opens(p) \/ Picks(p) \/ Aims(p) \/ Reaches(p) \/ Links(p)
    BY <1>1, <1>2, <1>3 DEF Begins, Start, BcmPsi_appClose, Crashes, Misses, Leaves, Opens, Picks, Aims,
           Reaches, Links, Still, treeVars
<1>4. ASSUME NEW v, Sets(p, v) PROVE \A m \in used : value[m] # None => value'[m] # None
    <2>1. pc[p] = "assign" /\ v = call[p].value
        BY <1>0, <1>4 DEF Sets, ValInv
    <2>2. v \in Value
        BY <1>0, <2>1 DEF CallInv, Active, OpenCall, ObjectCall, DropCall
    <2> QED  BY <1>4, <2>2, <1>t, NameAssumption DEF Sets, Assigned, TreeType
<1>5. ASSUME NEW v, Makes(p, v) PROVE \A m \in used : value[m] # None => value'[m] # None
    <2>1. Spare # {} /\ Spare \cap used = {}
        BY <1>5 DEF Makes, Spare
    <2> QED  BY <1>5, <2>1, <1>t DEF Makes, Created, TreeType
<1> QED  BY <1>1, <1>2, <1>3, <1>4, <1>5 DEF AnyKind

\* Without a removal, a failure or a reallocation, every object in use has its value.
LEMMA ValInvStep ==
    ASSUME Base, ValInv, NEW p \in Proc, AnyKind(p)
    PROVE  ValInv'
<1> SUFFICES ASSUME freed' = {}, ~failed'
             PROVE  /\ \A l \in used' : \A m \in Nodes(l)' : value'[m] # None
                    /\ \A q \in Proc : /\ Carries(q)' /\ call'[q].fn \in {"store", "remove"} =>
                                             value'[at'[q]] # None
                                       /\ pc'[q] # "realloc"
                                       /\ pc'[q] = "link" /\ call'[q].fn = "open" =>
                                             \A l \in used' : prev'[q] \notin Nodes(l)'
    BY DEF ValInv
<1>0. TypeOK /\ CallInv /\ ListInv /\ freed = {} /\ ~failed /\ Sound
    BY OrderSteps DEF Base, Sound
<1>t. /\ TreeType /\ CallType /\ Pointers /\ Ending /\ Referred /\ Unseen
      /\ Live \subseteq List /\ Top \in Live /\ used \subseteq Live /\ Top \notin used /\ used \subseteq Node
    BY <1>0, TypeParts, LiveLists DEF ListInv, TreeType
<1>v. /\ \A l \in used : \A m \in Nodes(l) : value[m] # None
      /\ \A q \in Proc : Carries(q) /\ call[q].fn \in {"store", "remove"} => value[at[q]] # None
      /\ \A q \in Proc : pc[q] # "realloc"
      /\ \A q \in Proc : pc[q] = "link" /\ call[q].fn = "open" =>
            \A l \in used : prev[q] \notin Nodes(l)
    BY <1>0 DEF ValInv
<1>k. /\ \A m \in used : value[m] # None => value'[m] # None
      /\ pc'[p] # "realloc" /\ ~Removes(p) /\ ~Empties(p)
    BY ValuesKept
<1>f. \A q \in Proc : q # p => /\ pc'[q] = pc[q] /\ call'[q] = call[q]
                               /\ at'[q] = at[q] /\ prev'[q] = prev[q]
    BY <1>0, Frame
<1>a. \A q \in Proc : Carries(q) => at[q] \in used
    BY <1>t DEF Referred
<1>b. \A q \in Proc : q # p =>
          /\ Carries(q)' /\ call'[q].fn \in {"store", "remove"} => value'[at'[q]] # None
          /\ pc'[q] # "realloc"
    BY <1>a, <1>f, <1>k, <1>v DEF Carries
<1>u. \A l \in Live : Nodes(l) \subseteq used
    BY <1>t, ListInUse
<1>1. CASE Keeps(p)
    <2>1. used' = used /\ \A l : Nodes(l)' = Nodes(l)
        BY <1>0, <1>1, <1>t, KeepsLists, SameLists
    <2>2. \A l \in used' : \A m \in Nodes(l)' : value'[m] # None
        BY <2>1, <1>k, <1>u, <1>v, <1>t
    <2>3. ASSUME Carries(p)', call'[p].fn \in {"store", "remove"} PROVE value'[at'[p]] # None
        <3>1. Picks(p) \/ Aims(p) \/ Reaches(p)
            BY <1>1, <1>k, <2>3, <1>t DEF Keeps, Carries, Begins, Start, BcmPsi_appClose, Crashes,
                Misses, Leaves, Opens, Sets, Assigned, Return, CallType
        <3>2. CASE Reaches(p)
            BY <3>2, <2>3, <1>a, <1>k, <1>v, <1>t DEF Reaches, Carries, CallType
        <3>3. CASE Picks(p) \/ Aims(p)
            <4>1. /\ pc[p] = "find" /\ Sought(p) # None /\ at'[p] = Sought(p)
                  /\ call[p].fn \in {"store", "remove"} /\ Active(p)
                BY <3>3, <2>3, <1>t DEF Picks, Aims, CallType, Active
            <4>2. Sought(p) \in Nodes(call[p].list) /\ call[p].list = handle[p] /\ handle[p] \in Node
                BY <4>1, <1>0, CallList
            <4>3. handle[p] \in used
                BY <4>2, <1>t, NoneFacts DEF Referred
            <4> QED  BY <4>1, <4>2, <4>3, <1>k, <1>u, <1>v, <1>t
        <3> QED  BY <3>1, <3>2, <3>3
    <2>4. ASSUME pc'[p] = "link", call'[p].fn = "open", NEW l \in used'
          PROVE  prev'[p] \notin Nodes(l)'
        <3>1. Reaches(p)
            BY <1>1, <1>k, <2>4, <1>t DEF Keeps, Begins, Start, BcmPsi_appClose, Crashes,
                Misses, Leaves, Opens, Picks, Aims, Sets, Assigned, Return, CallType, Reaches
        <3>2. /\ prev'[p] = Last(call[p].list) /\ call[p].fn = "open" /\ Active(p)
            BY <3>1, <2>4, <1>t DEF Reaches, CallType, Active
        <3>3. call[p].list = Top /\ Top \in List
            BY <3>2, <1>0, <1>t, CallList
        <3>4. prev'[p] \in Nodes(Top) \cup {None}
            BY <3>2, <3>3, <1>t, LastFacts DEF Ending
        <3>5. Nodes(l) \cap Nodes(Top) = {} /\ None \notin Nodes(l)
            <4>1. l \in Live /\ l # Top
                BY <2>1, <1>t
            <4> QED  BY <4>1, <1>t, <1>u, ListsApart, NoneFacts
        <3> QED  BY <3>4, <3>5, <2>1
    <2> QED  BY <1>b, <1>f, <1>k, <1>v, <2>1, <2>2, <2>3, <2>4
<1>2. ASSUME NEW v, Makes(p, v)
      PROVE  /\ \A l \in used' : \A m \in Nodes(l)' : value'[m] # None
             /\ Carries(p)' /\ call'[p].fn \in {"store", "remove"} => value'[at'[p]] # None
             /\ \A q \in Proc : pc'[q] = "link" /\ call'[q].fn = "open" =>
                    \A l \in used' : prev'[q] \notin Nodes(l)'
    <2>1. PICK n : n = at'[p]
        OBVIOUS
    <2>2. /\ used' = used \cup {n} /\ Nodes(n)' = {} /\ (\A l \in Live : Nodes(l)' = Nodes(l))
          /\ value'[n] = v
        BY <1>0, <1>2, <1>t, <2>1, MakesLists
    <2>3. \A l \in used' : \A m \in Nodes(l)' : value'[m] # None
        BY <2>2, <1>k, <1>u, <1>v, <1>t
    <2>4. v = call[p].value /\ call'[p] = call[p] /\ pc'[p] = "tail" /\ Active(p)
        BY <1>2, <1>t DEF Makes, Created, Goto, CallType, Active
    <2>5. call[p].fn \in {"store", "remove"} => v \in Value
        BY <2>4, <1>2, <1>0 DEF CallInv, OpenCall, ObjectCall, DropCall, Makes
    <2>6. call'[p].fn \in {"store", "remove"} => value'[at'[p]] # None
        BY <2>1, <2>2, <2>4, <2>5, NameAssumption
    <2>7. ASSUME NEW q \in Proc, pc'[q] = "link", call'[q].fn = "open", NEW l \in used'
          PROVE  prev'[q] \notin Nodes(l)'
        <3>1. q # p
            BY <2>4, <2>7
        <3> QED  BY <3>1, <2>2, <2>7, <1>f, <1>v, <1>t
    <2> QED  BY <2>3, <2>6, <2>7
<1>3. CASE Links(p)
    <2>1. PICK n, b, c : n = at[p] /\ b = prev[p] /\ c = call[p].list
        OBVIOUS
    <2>2. Pending(p) /\ Active(p) /\ Carries(p) /\ pc[p] = "link" /\ pc'[p] = "idle"
        BY <1>3, <1>t DEF Links, Pending, Active, Carries, Return, CallType
    <2>3. c \in {Top, handle[p]} /\ call[p].fn \in {"open", "store"} /\ (c = Top <=> call[p].fn = "open")
        <3>1. call[p].fn \in {"open", "store"}
            BY <2>2, <1>0 DEF CallInv, OpenCall, ObjectCall, DropCall
        <3> QED  BY <2>1, <2>2, <3>1, <1>0, CallList
    <2>4. n \in used /\ Fresh(n) /\ b # n /\ c # n
        BY <2>1, <2>2, <2>3, <1>t, <1>a DEF Unseen
    <2>5. /\ \A l \in Live : Nodes(l)' \subseteq Nodes(l) \cup {n}
          /\ \A l \in Live : n \in Nodes(l)' => IF b = None THEN l = c ELSE b \in Nodes(l)
        BY <1>0, <1>3, <1>t, <2>1, <2>4, LinksLists
    <2>6. used' = used
        BY <1>3 DEF Links
    <2>7. ASSUME NEW l \in used', NEW m \in Nodes(l)' PROVE value'[m] # None
        <3>1. CASE m # n
            BY <3>1, <2>5, <2>6, <2>7, <1>k, <1>u, <1>v, <1>t
        <3>2. CASE m = n
            <4>1. call[p].fn = "store"
                <5> SUFFICES ASSUME call[p].fn = "open" PROVE FALSE
                    BY <2>3
                <5>1. c = Top /\ l # Top /\ b \notin Nodes(l)
                    BY <2>1, <2>2, <2>3, <2>6, <1>v, <1>t
                <5> QED  BY <3>2, <2>5, <2>6, <5>1, <1>t, <2>7
            <4>2. value[n] # None
                BY <4>1, <2>1, <2>2, <1>v
            <4> QED  BY <3>2, <4>2, <2>4, <1>k
        <3> QED  BY <3>1, <3>2
    <2>8. ASSUME NEW q \in Proc, pc'[q] = "link", call'[q].fn = "open", NEW l \in used'
          PROVE  prev'[q] \notin Nodes(l)'
        <3>1. q # p /\ prev'[q] = prev[q] /\ prev[q] \notin Nodes(l)
            BY <2>2, <2>6, <2>8, <1>f, <1>v
        <3>2. prev[q] # n
            BY <2>1, <2>2, <1>t DEF Unseen
        <3> QED  BY <3>1, <3>2, <2>5, <2>6, <1>t
    <2>9. ~Carries(p)'
        BY <2>2 DEF Carries
    <2> QED  BY <1>b, <1>k, <2>7, <2>8, <2>9
<1> QED  BY <1>1, <1>2, <1>3, <1>b, <1>k DEF AnyKind, Keeps

\* Only the process that moves may have released a value it is about to replace.
LEMMA ChangingStep ==
    ASSUME Base, NEW p \in Proc, AnyKind(p), Orderly', NEW m
    PROVE  /\ Changing(m) <=> pc[p] = "realloc" /\ at[p] = m
           /\ Changing(m)' <=> pc'[p] = "realloc" /\ at'[p] = m
<1>1. \A q \in Proc : q # p => pc[q] = "idle" /\ pc'[q] = "idle"
    BY Alone, Frame DEF Base
<1> QED  BY <1>1 DEF Changing

\* Every step keeps the tree in line with what the completed calls stored.
LEMMA HoldsInvStep ==
    ASSUME Base, HoldsInv, NEW p \in Proc, AnyKind(p)
    PROVE  HoldsInv'
<1>0. /\ TypeOK /\ CallInv /\ TurnInv /\ KeyInv /\ PlaceInv
      /\ (Orderly' => Orderly /\ ~Crashes(p)) /\ (~failed' => ~failed)
    BY OrderSteps DEF Base
<1> SUFFICES ASSUME Orderly', ~failed'
             PROVE  /\ \A a \in App : want'[a].open <=> \E n \in Nodes(Top)' : key'[n] = a
                    /\ \A a \in App : ~want'[a].open => want'[a] = Closed
                    /\ \A n \in Nodes(Top)' : \A i \in Id : Holding(n, i)'
                    /\ Pending(p)' => value'[at'[p]] = call'[p].value
    <2>1. Orderly' => \A q \in Proc : q # p => ~Pending(q)'
        BY <1>0, Alone, Frame DEF Pending
    <2> QED  BY <2>1 DEF HoldsInv, Holding
<1>t. /\ TreeType /\ CallType /\ HistType /\ Pointers /\ Ending /\ Referred
      /\ Nodes(Top) \subseteq used /\ Top \in Live /\ Top \notin used /\ used \subseteq Live
    BY <1>0, Turn, LiveLists
<1>h. /\ \A a \in App : want[a].open <=> \E n \in Nodes(Top) : key[n] = a
      /\ \A a \in App : ~want[a].open => want[a] = Closed
      /\ \A n \in Nodes(Top) : \A i \in Id : Holding(n, i)
      /\ Pending(p) => value[at[p]] = call[p].value
    BY <1>0 DEF HoldsInv, Holding
<1>c. \A m : /\ Changing(m) <=> pc[p] = "realloc" /\ at[p] = m
             /\ Changing(m)' <=> pc'[p] = "realloc" /\ at'[p] = m
    BY ChangingStep
<1>k. /\ \A n \in Nodes(Top) : key[n] \in App
      /\ \A m, n \in Nodes(Top) : key[m] = key[n] => m = n
      /\ \A l \in Nodes(Top) : \A m, n \in Nodes(l) : key[m] = key[n] => m = n
    BY <1>0 DEF KeyInv
<1>u. \A l \in Live : Nodes(l) \subseteq used
    BY <1>t, ListInUse
<1>1. CASE Begins(p) \/ BcmPsi_appClose(p) \/ Misses(p) \/ Leaves(p) \/ Opens(p) \/ Picks(p)
           \/ Aims(p) \/ Reaches(p)
    <2>1. key' = key /\ \A l : Nodes(l)' = Nodes(l)
        BY <1>0, <1>1, KeepsHere DEF Keeps
    <2>2. /\ want' = want /\ value' = value
          /\ pc[p] # "realloc" /\ pc'[p] # "realloc"
          /\ Pending(p)' => Pending(p) /\ at'[p] = at[p] /\ call'[p] = call[p]
        BY <1>1, <1>t DEF Begins, Start, BcmPsi_appClose, Misses, Leaves, Opens, Picks, Aims, Reaches,
            Still, Return, Pending, treeVars, histVars, CallType
    <2>3. \A m : Changing(m) <=> Changing(m)'
        BY <2>2, <1>c
    <2>4. ASSUME NEW n \in Nodes(Top)', NEW i \in Id PROVE Holding(n, i)'
        <3>1. Holding(n, i)
            BY <2>1, <1>h
        <3> QED  BY <3>1, <2>1, <2>2, <2>3 DEF Holding
    <2>5. Pending(p)' => value'[at'[p]] = call'[p].value
        BY <2>2, <1>h
    <2> QED  BY <2>1, <2>2, <2>4, <2>5, <1>h
<1>2. ASSUME NEW v, Makes(p, v)
      PROVE  /\ \A a \in App : want'[a].open <=> \E n \in Nodes(Top)' : key'[n] = a
             /\ \A a \in App : ~want'[a].open => want'[a] = Closed
             /\ \A n \in Nodes(Top)' : \A i \in Id : Holding(n, i)'
             /\ Pending(p)' => value'[at'[p]] = call'[p].value
    <2>1. PICK x : x = at'[p]
        OBVIOUS
    <2>2. /\ \A l \in Live : Nodes(l)' = Nodes(l)
          /\ \A m \in used : key'[m] = key[m] /\ value'[m] = value[m]
          /\ value'[x] = v
        BY <1>0, <1>2, <1>t, <2>1, MakesLists
    <2>3. /\ want' = want /\ call'[p] = call[p] /\ pc[p] = "create" /\ pc'[p] = "tail"
          /\ v = call[p].value
        BY <1>2, <1>t DEF Makes, Created, Goto, CallType
    <2>4. ASSUME NEW n \in Nodes(Top)', NEW i \in Id PROVE Holding(n, i)'
        <3>1. n \in Nodes(Top) /\ n \in used /\ key'[n] = key[n] /\ Nodes(n)' = Nodes(n)
            BY <2>2, <1>t
        <3>2. \A m \in Nodes(n) : key'[m] = key[m] /\ value'[m] = value[m] /\ ~Changing(m)
            BY <3>1, <2>2, <2>3, <1>t, <1>u, <1>c
        <3>3. Holding(n, i)
            BY <3>1, <1>h
        <3> QED  BY <3>1, <3>2, <3>3, <2>3 DEF Holding
    <2>5. Nodes(Top)' = Nodes(Top) /\ \A n \in Nodes(Top) : key'[n] = key[n]
        BY <2>2, <1>t
    <2> QED  BY <2>1, <2>2, <2>3, <2>4, <2>5, <1>h
<1>3. CASE Links(p)
    <2>1. PICK c, x, k, v : c = call[p].list /\ x = at[p] /\ k = call[p].key /\ v = call[p].value
        OBVIOUS
    <2>2. /\ c \in {Top} \cup Nodes(Top) /\ (c = Top <=> call[p].fn = "open")
          /\ x \in used /\ key' = key /\ value' = value /\ Nodes(x)' = {} /\ x # c /\ x # Top
          /\ Nodes(c)' = Nodes(c) \cup {x} /\ (\A l \in Live : l # c => Nodes(l)' = Nodes(l))
          /\ key[x] = k /\ \A m \in Nodes(c) : key[m] # k
          /\ \A l \in Live : x \notin Nodes(l)
        BY <1>0, <1>3, <2>1, LinksHere
    <2>3. /\ pc[p] = "link" /\ pc'[p] = "idle" /\ value[x] = v /\ want' = Wanted(p)
        BY <1>3, <1>h, <1>t, <2>1 DEF Links, Return, CallType, Pending
    <2>4. ~Pending(p)' /\ \A m : ~Changing(m) /\ ~Changing(m)'
        BY <2>3, <1>c DEF Pending
    <2>5. IF c = Top THEN k \in App ELSE k \in Id /\ v \in Value
        BY <2>1, <2>2, <2>3, <1>0 DEF CallInv, Active, OpenCall, ObjectCall, DropCall
    <2>6. ~overlap
        BY <1>0 DEF Orderly
    <2>7. CASE c = Top
        <3>1. want' = [want EXCEPT ![k].open = TRUE] /\ k \in App
            BY <2>1, <2>2, <2>3, <2>5, <2>6, <2>7 DEF Wanted, Wild
        <3>2. \A y \in App : /\ want'[y].obj = want[y].obj /\ (y # k => want'[y] = want[y])
                             /\ (y = k => want'[y].open)
            BY <3>1, <1>t DEF HistType
        <3>3. Nodes(Top)' = Nodes(Top) \cup {x} /\ \A n \in Nodes(Top) : Nodes(n)' = Nodes(n)
            BY <2>2, <2>7, <1>t
        <3>4. ASSUME NEW a \in App PROVE want'[a].open <=> \E n \in Nodes(Top)' : key'[n] = a
            BY <3>2, <3>3, <2>2, <1>h
        <3>5. ASSUME NEW a \in App, ~want'[a].open PROVE want'[a] = Closed
            BY <3>2, <3>5, <1>h
        <3>6. ASSUME NEW n \in Nodes(Top)', NEW i \in Id PROVE Holding(n, i)'
            <4>1. CASE n = x
                <5>1. want[k] = Closed
                    BY <1>h, <2>2, <2>7, <3>1
                <5>2. want'[key'[n]].obj[i] = None
                    BY <4>1, <5>1, <3>1, <3>2, <2>2 DEF Closed, NoObj
                <5> QED  BY <4>1, <5>2, <2>2 DEF Holding
            <4>2. CASE n # x
                <5>1. n \in Nodes(Top) /\ Nodes(n)' = Nodes(n) /\ key[n] \in App
                    BY <4>2, <3>3, <1>k
                <5>2. Holding(n, i) /\ want'[key[n]].obj = want[key[n]].obj
                    BY <5>1, <3>2, <1>h
                <5> QED  BY <5>1, <5>2, <2>2, <2>4 DEF Holding
            <4> QED  BY <4>1, <4>2
        <3> QED  BY <3>4, <3>5, <3>6, <2>4
    <2>8. CASE c # Top
        <3>0. c \in Nodes(Top) /\ key[c] \in App
            BY <2>2, <2>8, <1>k
        <3>1. want' = [want EXCEPT ![key[c]].obj[k] = v]
            BY <2>1, <2>2, <2>3, <2>6, <2>8 DEF Wanted, Wild
        <3>2. \A y \in App : /\ want'[y].open = want[y].open /\ (y # key[c] => want'[y] = want[y])
                             /\ \A i \in Id : want'[y].obj[i] = IF y = key[c] /\ i = k THEN v
                                                                ELSE want[y].obj[i]
            BY <3>0, <3>1, <2>5, <2>8, <1>t DEF HistType
        <3>3. Nodes(Top)' = Nodes(Top)
            BY <2>2, <2>8, <1>t
        <3>4. ASSUME NEW a \in App PROVE want'[a].open <=> \E n \in Nodes(Top)' : key'[n] = a
            BY <3>2, <3>3, <2>2, <1>h
        <3>5. ASSUME NEW a \in App, ~want'[a].open PROVE want'[a] = Closed
            BY <3>0, <3>2, <3>5, <1>h
        <3>6. ASSUME NEW n \in Nodes(Top)', NEW i \in Id PROVE Holding(n, i)'
            <4>0. n \in Nodes(Top) /\ n \in Live /\ key[n] \in App /\ Holding(n, i)
                BY <3>3, <1>h, <1>k, <1>t
            <4>1. CASE n = c
                <5>1. /\ want'[key[n]].obj[i] = IF i = k THEN v ELSE want[key[n]].obj[i]
                      /\ Nodes(n)' = Nodes(n) \cup {x} /\ v # None
                    BY <4>1, <4>0, <3>2, <2>2, <2>5, <2>8, NameAssumption
                <5>2. ASSUME NEW m \in Nodes(n)', key'[m] = i
                      PROVE  value'[m] # None /\ value'[m] = want'[key'[n]].obj[i]
                    <6>1. CASE m = x
                        BY <6>1, <5>1, <5>2, <2>2, <2>3
                    <6>2. CASE m # x
                        BY <6>2, <5>1, <5>2, <4>0, <4>1, <2>2, <2>4 DEF Holding
                    <6> QED  BY <6>1, <6>2
                <5>3. want'[key'[n]].obj[i] # None => \E m \in Nodes(n)' : key'[m] = i
                    <6>1. CASE i = k
                        BY <6>1, <5>1, <2>2
                    <6>2. CASE i # k
                        BY <6>2, <5>1, <4>0, <2>2 DEF Holding
                    <6> QED  BY <6>1, <6>2
                <5> QED  BY <5>2, <5>3 DEF Holding
            <4>2. CASE n # c
                <5>1. Nodes(n)' = Nodes(n) /\ want'[key[n]] = want[key[n]]
                    BY <4>2, <4>0, <3>0, <3>2, <2>2, <1>k
                <5> QED  BY <4>0, <5>1, <2>2, <2>4 DEF Holding
            <4> QED  BY <4>1, <4>2
        <3> QED  BY <3>4, <3>5, <3>6, <2>4
    <2> QED  BY <2>7, <2>8
<1>4. ASSUME NEW v, Sets(p, v)
      PROVE  /\ \A a \in App : want'[a].open <=> \E n \in Nodes(Top)' : key'[n] = a
             /\ \A a \in App : ~want'[a].open => want'[a] = Closed
             /\ \A n \in Nodes(Top)' : \A i \in Id : Holding(n, i)'
             /\ Pending(p)' => value'[at'[p]] = call'[p].value
    <2>1. PICK c, x, k : c = call[p].list /\ x = at[p] /\ k = call[p].key
        OBVIOUS
    <2>2. key' = key /\ \A l : Nodes(l)' = Nodes(l)
        BY <1>0, <1>4, KeepsHere DEF Keeps
    <2>3. /\ pc[p] \in {"assign", "realloc"} /\ pc'[p] = "idle" /\ v = call[p].value
          /\ value' = [value EXCEPT ![x] = v] /\ want' = Wanted(p)
        BY <1>4, <1>t, <2>1 DEF Sets, Assigned, Return, CallType
    <2>4. ~Pending(p)' /\ (\A m : ~Changing(m)') /\ \A m : Changing(m) => m = x
        BY <2>1, <2>3, <1>c DEF Pending
    <2>5. k \in Id /\ v \in Value /\ v # None /\ c # Top /\ call[p].fn = "store"
        BY <2>1, <2>3, <1>0, NoneFacts, NameAssumption DEF CallInv, Active, OpenCall, ObjectCall, DropCall
    <2>6. ~overlap
        BY <1>0 DEF Orderly
    <2>7. x \in Nodes(c) /\ key[x] = k /\ c \in Nodes(Top) /\ key[c] \in App /\ x \in Node
        <3>1. x \in Nodes(c) /\ key[x] = k
            BY <2>1, <2>3, <1>0 DEF PlaceInv, Placed
        <3>2. c \in {Top} \cup Nodes(Top)
            BY <2>1, <2>3, <1>0, Turn DEF Active
        <3>3. x \in used
            BY <3>1, <3>2, <1>t, <1>u
        <3> QED  BY <3>1, <3>2, <3>3, <2>5, <1>k, <1>t DEF TreeType
    <2>8. want' = [want EXCEPT ![key[c]].obj[k] = v]
        BY <2>1, <2>3, <2>5, <2>6 DEF Wanted, Wild
    <2>9. \A y \in App : /\ want'[y].open = want[y].open /\ (y # key[c] => want'[y] = want[y])
                         /\ \A i \in Id : want'[y].obj[i] = IF y = key[c] /\ i = k THEN v
                                                            ELSE want[y].obj[i]
        BY <2>5, <2>7, <2>8, <1>t DEF HistType
    <2>10. value'[x] = v /\ \A m \in Node : m # x => value'[m] = value[m]
        BY <2>3, <2>7, <1>t DEF TreeType
    <2>11. ASSUME NEW n \in Nodes(Top)', NEW i \in Id PROVE Holding(n, i)'
        <3>0. n \in Nodes(Top) /\ n \in Live /\ key[n] \in App /\ Holding(n, i) /\ Nodes(n) \subseteq Node
            BY <2>2, <1>h, <1>k, <1>t, <1>u DEF TreeType
        <3>1. CASE n = c
            <4>1. want'[key[n]].obj[i] = IF i = k THEN v ELSE want[key[n]].obj[i]
                BY <3>0, <3>1, <2>9
            <4>2. ASSUME NEW m \in Nodes(n), key[m] = i
                  PROVE  value'[m] # None /\ value'[m] = want'[key[n]].obj[i]
                <5>1. CASE m = x
                    BY <5>1, <4>1, <4>2, <2>5, <2>7, <2>10
                <5>2. CASE m # x
                    <6>1. i # k
                        BY <5>2, <4>2, <3>0, <3>1, <2>7, <1>k
                    <6>2. ~Changing(m) /\ value'[m] = value[m]
                        BY <5>2, <3>0, <4>2, <2>4, <2>10
                    <6> QED  BY <6>1, <6>2, <4>1, <4>2, <3>0 DEF Holding
                <5> QED  BY <5>1, <5>2
            <4>3. want'[key[n]].obj[i] # None => \E m \in Nodes(n) : key[m] = i
                <5>1. CASE i = k
                    BY <5>1, <3>1, <2>7
                <5>2. CASE i # k
                    BY <5>2, <4>1, <3>0 DEF Holding
                <5> QED  BY <5>1, <5>2
            <4> QED  BY <4>2, <4>3, <2>2 DEF Holding
        <3>2. CASE n # c
            <4>1. want'[key[n]] = want[key[n]]
                BY <3>0, <3>2, <2>7, <2>9, <1>k
            <4>2. x \notin Nodes(n)
                <5>1. Nodes(n) \cap Nodes(c) = {}
                    BY <3>0, <3>2, <2>7, <1>t, ListsApart
                <5> QED  BY <5>1, <2>7
            <4>3. \A m \in Nodes(n) : value'[m] = value[m] /\ ~Changing(m)
                BY <4>2, <3>0, <2>4, <2>10
            <4> QED  BY <4>1, <4>3, <3>0, <2>2 DEF Holding
        <3> QED  BY <3>1, <3>2
    <2>12. \A a \in App : want'[a].open <=> \E n \in Nodes(Top)' : key'[n] = a
        BY <2>2, <2>9, <1>h
    <2>13. ASSUME NEW a \in App, ~want'[a].open PROVE want'[a] = Closed
        BY <2>7, <2>9, <2>13, <1>h
    <2> QED  BY <2>4, <2>11, <2>12, <2>13
<1>5. CASE Empties(p)
    <2>1. PICK x : x = at[p]
        OBVIOUS
    <2>2. key' = key /\ \A l : Nodes(l)' = Nodes(l)
        BY <1>0, <1>5, KeepsHere DEF Keeps
    <2>3. /\ pc[p] = "assign" /\ pc'[p] = "realloc" /\ at'[p] = x
          /\ value' = [value EXCEPT ![x] = None] /\ want' = want
        BY <1>5, <1>t, <2>1 DEF Empties, CallType
    <2>4. ~Pending(p)' /\ (\A m : ~Changing(m)) /\ \A m : Changing(m)' <=> m = x
        BY <2>3, <1>c DEF Pending
    <2>5. \A m \in Node : m # x => value'[m] = value[m]
        BY <2>3, <1>t DEF TreeType
    <2>6. ASSUME NEW n \in Nodes(Top)', NEW i \in Id PROVE Holding(n, i)'
        <3>1. n \in Nodes(Top) /\ Holding(n, i) /\ Nodes(n) \subseteq Node
            BY <2>2, <1>h, <1>t, <1>u DEF TreeType
        <3> QED  BY <3>1, <2>2, <2>3, <2>4, <2>5 DEF Holding
    <2> QED  BY <2>2, <2>3, <2>4, <2>6, <1>h
<1>6. CASE Removes(p)
    <2>1. PICK c, x, F, k : c = call[p].list /\ x = at[p] /\ F = Freed(p) /\ k = call[p].key
        OBVIOUS
    <2>2. /\ c \in {Top} \cup Nodes(Top) /\ x \in Nodes(c) /\ x \in used
          /\ IF c = Top THEN call[p].fn = "drop"
             ELSE call[p].fn = "remove" /\ key[x] = k /\ k \in Id
          /\ \A l \in Live : l # c => x \notin Nodes(l)
          /\ \A l \in {Top} \cup (Nodes(Top) \ {x}) :
                 /\ Nodes(l)' = Nodes(l) \ {x}
                 /\ \A m \in Nodes(l) \ {x} : key'[m] = key[m] /\ value'[m] = value[m]
        BY <1>0, <1>6, <2>1, RemovesHere
    <2>3. pc[p] = "unlink" /\ pc'[p] = "idle" /\ want' = Removal(p)
        BY <1>6, <1>t DEF Removes, Return, CallType
    <2>4. ~Pending(p)' /\ \A m : ~Changing(m) /\ ~Changing(m)'
        BY <2>3, <1>c DEF Pending
    <2>5. ~overlap
        BY <1>0 DEF Orderly
    <2>6. Nodes(Top)' = Nodes(Top) \ {x} /\ \A n \in Nodes(Top) \ {x} : key'[n] = key[n]
        BY <2>2
    <2>7. CASE c = Top
        <3>0. x \in Nodes(Top) /\ key[x] \in App
            BY <2>2, <2>7, <1>k
        <3>1. want' = [want EXCEPT ![key[x]] = Closed]
            BY <2>1, <2>2, <2>3, <2>5, <2>7 DEF Removal
        <3>2. want'[key[x]] = Closed /\ \A y \in App : y # key[x] => want'[y] = want[y]
            BY <3>0, <3>1, <1>t DEF HistType
        <3>3. ASSUME NEW a \in App PROVE want'[a].open <=> \E n \in Nodes(Top)' : key'[n] = a
            <4>1. CASE a = key[x]
                <5>1. ~want'[a].open
                    BY <4>1, <3>2 DEF Closed
                <5>2. \A n \in Nodes(Top)' : key'[n] # a
                    BY <4>1, <3>0, <2>6, <1>k
                <5> QED  BY <5>1, <5>2
            <4>2. CASE a # key[x]
                BY <4>2, <3>2, <2>6, <1>h
            <4> QED  BY <4>1, <4>2
        <3>4. ASSUME NEW a \in App, ~want'[a].open PROVE want'[a] = Closed
            BY <3>2, <3>4, <1>h
        <3>5. ASSUME NEW n \in Nodes(Top)', NEW i \in Id PROVE Holding(n, i)'
            <4>1. n \in Nodes(Top) /\ n # x /\ key'[n] = key[n] /\ key[n] \in App /\ n \in Live /\ n # Top
                BY <2>6, <1>k, <1>t
            <4>2. want'[key[n]] = want[key[n]]
                BY <4>1, <3>0, <3>2, <1>k
            <4>3. x \notin Nodes(n)
                BY <4>1, <2>2, <2>7
            <4>4. Nodes(n)' = Nodes(n) /\ \A m \in Nodes(n) : key'[m] = key[m] /\ value'[m] = value[m]
                BY <4>1, <4>3, <2>2
            <4>5. Holding(n, i)
                BY <4>1, <1>h
            <4> QED  BY <4>1, <4>2, <4>4, <4>5, <2>4 DEF Holding
        <3> QED  BY <3>3, <3>4, <3>5, <2>4
    <2>8. CASE c # Top
        <3>0. /\ c \in Nodes(Top) /\ key[c] \in App /\ x \in Nodes(c) /\ key[x] = k /\ k \in Id
              /\ x \notin Nodes(Top) /\ Nodes(Top)' = Nodes(Top)
            BY <2>2, <2>6, <2>8, <1>k, <1>t
        <3>1. want' = [want EXCEPT ![key[c]].obj[k] = None]
            BY <2>1, <2>2, <2>3, <2>5, <2>8 DEF Removal
        <3>2. \A y \in App : /\ want'[y].open = want[y].open /\ (y # key[c] => want'[y] = want[y])
                             /\ \A i \in Id : want'[y].obj[i] = IF y = key[c] /\ i = k THEN None
                                                                ELSE want[y].obj[i]
            BY <3>0, <3>1, <1>t DEF HistType
        <3>3. ASSUME NEW a \in App PROVE want'[a].open <=> \E n \in Nodes(Top)' : key'[n] = a
            BY <3>0, <3>2, <2>6, <1>h
        <3>4. ASSUME NEW a \in App, ~want'[a].open PROVE want'[a] = Closed
            BY <3>0, <3>2, <3>4, <1>h
        <3>5. ASSUME NEW n \in Nodes(Top)', NEW i \in Id PROVE Holding(n, i)'
            <4>1. /\ n \in Nodes(Top) /\ n # x /\ key'[n] = key[n] /\ key[n] \in App
                  /\ Nodes(n)' = Nodes(n) \ {x} /\ Holding(n, i) /\ n \in Live
                  /\ \A m \in Nodes(n) \ {x} : key'[m] = key[m] /\ value'[m] = value[m]
                BY <3>0, <2>2, <2>6, <1>h, <1>k, <1>t
            <4>2. CASE n = c
                <5>1. want'[key[n]].obj[i] = IF i = k THEN None ELSE want[key[n]].obj[i]
                    BY <4>1, <4>2, <3>2
                <5>2. ASSUME NEW m \in Nodes(n) \ {x}, key[m] = i
                      PROVE  value'[m] # None /\ value'[m] = want'[key'[n]].obj[i]
                    <6>1. i # k
                        BY <5>2, <4>1, <4>2, <3>0, <1>k
                    <6>2. value[m] # None /\ value[m] = want[key[n]].obj[i]
                        BY <5>2, <4>1, <2>4 DEF Holding
                    <6> QED  BY <6>1, <6>2, <5>1, <5>2, <4>1
                <5>3. ASSUME want'[key'[n]].obj[i] # None
                      PROVE  \E m \in Nodes(n) \ {x} : key'[m] = i
                    <6>1. i # k /\ want[key[n]].obj[i] # None
                        BY <5>1, <5>3, <4>1
                    <6>2. PICK m \in Nodes(n) : key[m] = i
                        BY <6>1, <4>1 DEF Holding
                    <6>3. m # x
                        BY <6>1, <6>2, <3>0
                    <6> QED  BY <6>2, <6>3, <4>1
                <5> QED  BY <5>2, <5>3, <4>1 DEF Holding
            <4>3. CASE n # c
                <5>1. want'[key[n]] = want[key[n]]
                    BY <4>1, <4>3, <3>0, <3>2, <1>k
                <5>2. Nodes(n)' = Nodes(n) /\ \A m \in Nodes(n) : key'[m] = key[m] /\ value'[m] = value[m]
                    BY <4>1, <4>3, <2>2
                <5> QED  BY <5>1, <5>2, <4>1, <2>4 DEF Holding
            <4> QED  BY <4>2, <4>3
        <3> QED  BY <3>3, <3>4, <3>5, <2>4
    <2> QED  BY <2>7, <2>8
<1> QED  BY <1>0, <1>1, <1>2, <1>3, <1>4, <1>5, <1>6 DEF AnyKind

\* No step runs into a missing value or released memory.
LEMMA NoCrashStep ==
    ASSUME Base, ValInv, HoldsInv, NoCrash, NEW p \in Proc, AnyKind(p)
    PROVE  NoCrash'
<1>0. TypeOK /\ CallInv /\ ListInv /\ TurnInv /\ PlaceInv /\ KeyInv
    BY DEF Base
<1>t. TreeType /\ CallType /\ HistType
    BY <1>0, TypeParts
<1> SUFFICES ASSUME ~failed', ~overlap' \/ freed' = {} PROVE \A q \in Proc : pc'[q] # "crashed"
    BY DEF NoCrash
<1>1. /\ ~failed /\ (~overlap \/ freed = {}) /\ \A q \in Proc : pc[q] # "crashed"
    <2>1. overlap => overlap'
        BY <1>t DEF AnyKind, Begins, Start, BcmPsi_appClose, Crashes, Misses, Leaves, Opens, Picks,
             Aims, Makes, Created, Reaches, Links, Sets, Assigned, Empties, Removes,
             Still, histVars, HistType
    <2> QED  BY <1>0, <2>1, OrderSteps DEF NoCrash
<1> SUFFICES pc'[p] # "crashed"
    BY <1>0, <1>1, Frame
<1> SUFFICES ASSUME Crashes(p) PROVE FALSE
    BY <1>1, <1>t DEF AnyKind, Begins, Start, BcmPsi_appClose, Misses, Leaves, Opens, Picks,
           Aims, Makes, Created, Reaches, Links, Sets, Assigned, Empties, Removes, Return, Goto, CallType
<1>2. Cause(p)
    BY DEF Crashes
<1>3. Active(p) /\ (OpenCall(p) \/ ObjectCall(p) \/ DropCall(p))
    BY <1>0, <1>2 DEF Cause, Active, CallInv
<1>4. Sound /\ Pointers /\ Ending /\ Referred
    BY <1>0, <1>1 DEF Sound, Orderly, ListInv
<1>5. \A l \in Live : Walkable(l)
    BY <1>4, <1>t, ListInUse, LiveLists DEF Walkable, Ending, Live
<1>6. call[p].list \in Live /\ at[p] \in used \cup {None} /\ prev[p] \in used \cup {None}
      /\ (Carries(p) => at[p] \in used /\ at[p] \in Live)
    BY <1>0, <1>3, <1>4, CallList, NoneFacts DEF Referred, Live
\* The values that a call is going to read are there.
<1>7. /\ pc[p] = "find" /\ call[p].fn = "retrieve" /\ Sought(p) # None => value[Sought(p)] # None
      /\ pc[p] = "assign" => value[at[p]] # None
      /\ pc[p] = "unlink" => \A m \in Doomed(p) : value[m] # None
    <2>0. /\ pc[p] = "find" /\ call[p].fn = "retrieve" /\ Sought(p) # None =>
                Sought(p) \in Nodes(handle[p]) /\ handle[p] \in Node
          /\ pc[p] = "assign" => call[p].fn = "store"
          /\ pc[p] = "unlink" => \/ call[p].fn = "remove" /\ Doomed(p) = {at[p]}
                                 \/ call[p].fn = "drop" /\ at[p] = handle[p] /\ Doomed(p) = Nodes(at[p])
        BY <1>0, <1>3, CallList DEF OpenCall, ObjectCall, DropCall, Doomed
    <2>1. CASE freed = {}
        <3>1. /\ \A l \in used : \A m \in Nodes(l) : value[m] # None
              /\ Carries(p) /\ call[p].fn \in {"store", "remove"} => value[at[p]] # None
            BY <1>1, <2>1 DEF ValInv
        <3>2. handle[p] \in Node => handle[p] \in used
            BY <1>4, NoneFacts DEF Referred
        <3> QED  BY <2>0, <3>1, <3>2, <1>6 DEF Carries
    <2>2. CASE ~overlap
        <3>0. Orderly
            BY <1>1, <2>2 DEF Orderly
        <3>1. \A n \in Nodes(Top) : \A m \in Nodes(n) : key[m] \in Id
            BY <3>0, <1>0 DEF KeyInv
        <3>2. \A n \in Nodes(Top) : \A m \in Nodes(n) : Changing(m) \/ value[m] # None
            BY <3>0, <3>1, <1>1 DEF HoldsInv, Holding
        <3>3. pc[p] # "realloc" => \A m : ~Changing(m)
            <4>1. \A q \in Proc : Busy(q) => q = p
                BY <3>0, <1>0, <1>3 DEF TurnInv, Busy, Active
            <4> QED  BY <4>1 DEF Changing, Busy
        <3>4. /\ handle[p] \in Nodes(Top) \cup {None}
              /\ pc[p] \in {"assign", "unlink"} => at[p] \in Nodes(call[p].list)
            BY <3>0, <1>0 DEF PlaceInv, Placed
        <3>5. call[p].fn \in {"store", "remove"} => call[p].list = handle[p] /\ handle[p] \in Node
            BY <1>3 DEF OpenCall, ObjectCall, DropCall
        <3>6. handle[p] \in Node => handle[p] \in Nodes(Top)
            BY <3>4, NoneFacts
        <3>7. DropCall(p) => handle[p] \in Node
            BY DEF DropCall
        <3>8. call[p].fn = "drop" => handle[p] \in Node
            BY <1>3 DEF OpenCall, ObjectCall, DropCall
        <3> QED  BY <2>0, <3>2, <3>3, <3>4, <3>5, <3>6, <3>8
    <2> QED  BY <1>1, <2>1, <2>2
<1> QED  BY <1>2, <1>5, <1>6, <1>7 DEF Cause, Carries, Live

----------------------------------------------------------------------------
\* The theorems.

\* The inductive invariant.
\* What is lost is in no list, and an allocation failed.
LostInv == lost \cap used = {} /\ (lost # {} => failed)

\* Only a call that got no ObjectNode loses an object.
LEMMA LostStep ==
    ASSUME TypeOK, LostInv, Next
    PROVE  LostInv' /\ lost' \subseteq Node
<1> USE DEF treeVars, histVars, LostInv, TypeOK
<1> PICK p \in Proc : \/ BcmPsi_appOpen(p) \/ BcmPsi_appClose(p) \/ BcmPsi_appRemove(p)
                      \/ BcmPsi_objStore(p) \/ BcmPsi_objRetrieve(p) \/ BcmPsi_objRemove(p)
                      \/ Step(p)
    BY DEF Next
<1>s. Spare # {} => (CHOOSE m \in Spare : TRUE) \in Node \ (used \cup lost)
    BY DEF Spare
<1>1. CASE \/ BcmPsi_appOpen(p) \/ BcmPsi_appClose(p) \/ BcmPsi_appRemove(p)
           \/ BcmPsi_objStore(p) \/ BcmPsi_objRetrieve(p) \/ BcmPsi_objRemove(p)
    BY <1>1 DEF BcmPsi_appOpen, BcmPsi_appClose, BcmPsi_appRemove, BcmPsi_objStore,
                BcmPsi_objRetrieve, BcmPsi_objRemove, OnObject, Start
<1>2. CASE FindStep(p) \/ Tail(p)
    <2>1. UNCHANGED <<used, lost, failed>>
        BY <1>2 DEF FindStep, Found, NotFound, Crash, Tail
    <2> QED  BY <2>1
<1>3. CASE Create(p)
    BY <1>3, <1>s DEF Create, Created
<1>4. CASE CreateFails(p)
    <2>0. failed' = TRUE
        BY <1>4 DEF CreateFails
    <2>1. \/ used' = used /\ lost' = lost
          \/ Spare # {} /\ used' = used \cup {CHOOSE m \in Spare : TRUE} /\ lost' = lost
          \/ Spare # {} /\ used' = used /\ lost' = lost \cup {CHOOSE m \in Spare : TRUE}
        BY <1>4 DEF CreateFails, Created
    <2> QED  BY <1>s, <2>0, <2>1
<1>5. CASE Link(p)
    BY <1>5 DEF Link, LinkAs, Crash
<1>6. CASE Assign(p)
    BY <1>6 DEF Assign, Assigned, Crash
<1>7. CASE Realloc(p)
    BY <1>7 DEF Realloc, Assigned
<1>8. CASE Unlink(p)
    BY <1>8 DEF Unlink, UnlinkTo, Crash
<1> QED  BY <1>1, <1>2, <1>3, <1>4, <1>5, <1>6, <1>7, <1>8 DEF Step

Inv == Base /\ ValInv /\ HoldsInv /\ NoCrash /\ LostInv

\* The empty tree satisfies the invariant.
LEMMA InitInv == Init => Inv
<1> SUFFICES ASSUME Init PROVE Inv
    OBVIOUS
<1>1. TypeOK
    BY DEF Init, TypeOK, NoCall, Closed, NoObj, List
<1>t. TreeType /\ CallType /\ HistType
    BY <1>1, TypeParts
<1>2. \A l \in List : Nodes(l) = {} /\ Ends(l) /\ head[l] = None
    BY <1>t, NodesFacts DEF Init, Ends
<1>3. Nodes(Top) = {} /\ Live = {Top} /\ head[Top] = None
    BY <1>2 DEF List, Live, Init
<1>4. \A p \in Proc : /\ pc[p] = "idle" /\ at[p] = None /\ prev[p] = None /\ handle[p] = None
                      /\ call[p] = NoCall
    BY DEF Init
<1>5. CallInv
    BY <1>4 DEF CallInv, Active
<1>6. ListInv
    <2>1. Pointers
        BY <1>3 DEF Pointers, Init
    <2>2. Ending
        BY <1>2, <1>3 DEF Ending, List
    <2>3. Referred /\ Unseen
        BY <1>4 DEF Referred, Unseen, Carries, Pending
    <2> QED  BY <2>1, <2>2, <2>3 DEF ListInv
<1>7. TurnInv
    BY <1>4 DEF TurnInv, Busy
<1>8. PlaceInv
    BY <1>4 DEF PlaceInv, Placed, Pending
<1>9. KeyInv
    BY <1>3 DEF KeyInv
<1>10. UsedInv
    <2>1. {q \in Proc : Pending(q)} = {}
        BY <1>4 DEF Pending
    <2>2. Reach = {} /\ used = {} /\ leaked = {}
        BY <1>3 DEF Reach, Init
    <2>3. Held = {}
        BY <2>1 DEF Held
    <2>4. \A p \in Proc : ~Pending(p)
        BY <2>1
    <2> QED  BY <2>2, <2>3, <2>4 DEF UsedInv, Held
<1>11. ValInv
    BY <1>4 DEF ValInv, Init, Carries
<1>12. HoldsInv
    <2>1. \A a \in App : want[a] = Closed /\ ~want[a].open
        BY DEF Init, Closed
    <2> QED  BY <2>1, <1>3, <1>4 DEF HoldsInv, Holding, Pending
<1>13. NoCrash
    BY <1>4 DEF NoCrash
<1>14. LostInv
    BY DEF LostInv, Init
<1> QED  BY <1>1, <1>5, <1>6, <1>7, <1>8, <1>9, <1>10, <1>11, <1>12, <1>13, <1>14 DEF Inv, Base

\* Every step keeps the invariant.
LEMMA StepInv == Inv /\ [Next]_vars => Inv'
<1> SUFFICES ASSUME Inv, [Next]_vars PROVE Inv'
    OBVIOUS
<1>1. CASE Next
    <2>0. Base /\ ValInv /\ HoldsInv /\ NoCrash /\ TypeOK /\ CallInv /\ ListInv /\ TurnInv /\ PlaceInv
        BY DEF Inv, Base
    <2>1. PICK p \in Proc : AnyKind(p)
        BY <2>0, <1>1, StepKinds
    <2>2. TreeType' /\ CallType' /\ HistType'
        BY <2>0, <2>1, TreeTypeStep, CallTypeStep, HistTypeStep
    <2>l. LostInv' /\ lost' \subseteq Node
        BY <2>0, <1>1, LostStep DEF Inv
    <2>3. TypeOK'
        BY <2>2, <2>l DEF TypeOK, TreeType, CallType, HistType, Calls, Places, Ptr, Chain
    <2>4. CallInv' /\ TurnInv' /\ ListInv'
        BY <2>0, <2>1, CallInvStep, TurnInvStep, ListInvStep
    <2>5. PlaceInv' /\ KeyInv' /\ UsedInv'
        BY <2>0, <2>1, PlaceInvStep, KeyInvStep, UsedInvStep
    <2>6. ValInv' /\ HoldsInv' /\ NoCrash'
        BY <2>0, <2>1, ValInvStep, HoldsInvStep, NoCrashStep
    <2> QED  BY <2>3, <2>4, <2>5, <2>6, <2>l DEF Inv, Base
<1>2. CASE UNCHANGED vars
    <2> USE DEF vars, treeVars, histVars
    <2>1. TypeOK' /\ CallInv' /\ TurnInv'
        BY <1>2 DEF Inv, Base, TypeOK, CallInv, TurnInv, Active, OpenCall, ObjectCall, DropCall, Orderly, Busy
    <2>2. ListInv'
        BY <1>2 DEF Inv, Base, ListInv, Sound, Orderly, Pointers, Ending, Ends, Nodes, Referred, Unseen,
                    Fresh, Live, Carries, Pending
    <2>3. PlaceInv' /\ KeyInv' /\ UsedInv'
        BY <1>2 DEF Inv, Base, PlaceInv, Placed, KeyInv, UsedInv, Held, Orderly, Nodes, Reach, Pending
    <2>4. ValInv' /\ HoldsInv' /\ NoCrash'
        BY <1>2 DEF Inv, ValInv, HoldsInv, Holding, NoCrash, Orderly, Nodes, Carries, Pending, Changing
    <2>5. LostInv'
        BY <1>2 DEF Inv, LostInv
    <2> QED  BY <2>1, <2>2, <2>3, <2>4, <2>5 DEF Inv, Base
<1> QED  BY <1>1, <1>2

\* The invariant holds throughout.
LEMMA InvHolds == Spec => []Inv
BY InitInv, StepInv, PTL DEF Spec

\* The invariant implies that the lists are well formed and apart.
LEMMA SoundTree == Inv => TreeSound
<1> SUFFICES ASSUME Inv PROVE TypeOK /\ ListsStayApart
    BY DEF TreeSound
<1>1. TypeOK /\ ListInv
    BY DEF Inv, Base
<1> SUFFICES ASSUME Sound
             PROVE  /\ \A l \in {Top} \cup Nodes(Top) : Walkable(l)
                    /\ \A l, m \in {Top} \cup Nodes(Top) : l # m => Nodes(l) \cap Nodes(m) = {}
    BY <1>1 DEF ListsStayApart, Sound, Orderly
<1>2. TreeType /\ Pointers /\ Ending
    BY <1>1, TypeParts DEF ListInv
<1>3. {Top} \cup Nodes(Top) \subseteq Live
    BY <1>2, LiveLists, ListInUse
<1>4. \A l \in Live : Walkable(l)
    BY <1>2, ListInUse DEF Walkable, Ending, Live
<1> QED  BY <1>2, <1>3, <1>4, ListsApart

\* The invariant implies that the tree holds what was stored.
LEMMA RightContents == Inv => HoldsWhatWasStored
<1> SUFFICES ASSUME Inv, Quiet, ~overlap, ~failed PROVE Contents = want
    BY DEF HoldsWhatWasStored
<1>t. TreeType /\ HistType
    BY TypeParts DEF Inv, Base
<1>1. Orderly /\ \A m : ~Changing(m)
    BY DEF Orderly, Quiet, Changing
<1>2. /\ \A a \in App : want[a].open <=> \E n \in Nodes(Top) : key[n] = a
      /\ \A a \in App : ~want[a].open => want[a] = Closed
      /\ \A n \in Nodes(Top) : \A i \in Id : Holding(n, i)
    BY <1>1 DEF Inv, HoldsInv, Holding
<1>3. want = [a \in App |-> want[a]]
    BY <1>t DEF HistType
<1>4. ASSUME NEW a \in App
      PROVE  want[a] = LET n == Find(Top, a)
                       IN  IF n = None THEN Closed
                           ELSE [open |-> TRUE, obj |-> [i \in Id |-> Object(n, i)]]
    <2>1. PICK n : n = Find(Top, a)
        OBVIOUS
    <2>2. /\ n \in Ptr
          /\ n # None => n \in Nodes(Top) /\ key[n] = a
          /\ n = None => \A m \in Nodes(Top) : key[m] # a
        BY <2>1, <1>t, FindFacts DEF List
    <2>3. CASE n = None
        BY <2>1, <2>2, <2>3, <1>2
    <2>4. CASE n # None
        <3>1. n \in Nodes(Top) /\ key[n] = a /\ want[a].open /\ n \in List
            BY <2>2, <2>4, <1>2 DEF Ptr, List
        <3>2. ASSUME NEW i \in Id PROVE Object(n, i) = want[a].obj[i]
            <4>1. PICK m : m = Find(n, i)
                OBVIOUS
            <4>2. /\ m # None => m \in Nodes(n) /\ key[m] = i
                  /\ m = None => \A k \in Nodes(n) : key[k] # i
                BY <4>1, <3>1, <1>t, FindFacts
            <4>3. Holding(n, i)
                BY <3>1, <1>2
            <4>4. CASE m = None
                BY <4>1, <4>2, <4>3, <4>4, <3>1 DEF Object, Holding
            <4>5. CASE m # None
                BY <4>1, <4>2, <4>3, <4>5, <3>1, <1>1 DEF Object, Holding
            <4> QED  BY <4>4, <4>5
        <3>3. [i \in Id |-> Object(n, i)] = want[a].obj
            BY <3>2, <1>t DEF HistType
        <3>4. want[a] = [open |-> TRUE, obj |-> want[a].obj]
            BY <3>1, <1>t DEF HistType
        <3> QED  BY <2>1, <2>4, <3>3, <3>4
    <2> QED  BY <2>3, <2>4
<1> QED  BY <1>3, <1>4 DEF Contents

\* The invariant implies that only objects leak.
LEMMA FewLeaks == Inv => OnlyObjectsLeak
<1> SUFFICES ASSUME Inv, Quiet, ~overlap PROVE used \ leaked = Reach
    BY DEF OnlyObjectsLeak, Reach, Inv, LostInv
<1>1. Orderly /\ \A p \in Proc : ~Pending(p)
    BY DEF Orderly, Quiet, Pending
<1>2. Held = {}
    BY <1>1 DEF Held
<1>3. /\ used = leaked \cup Reach \cup Held
      /\ leaked \cap (Reach \cup Held) = {}
    BY <1>1 DEF Inv, Base, UsedInv
<1> QED  BY <1>2, <1>3

\* Every list ends, stays in memory that is in use and shares no node with another: under
\* every interleaving of the calls, none of which has its semaphore, as long as they
\* release no memory, and after any removals and stores of other lengths when the
\* processes take turns and none crashed.
THEOREM TreeStaysSound == Spec => []TreeSound
BY InvHolds, SoundTree, PTL

\* As long as the processes take turns and memory lasts, what find() and m_value give for
\* every application and object is what the calls stored and did not remove.
THEOREM TreeHoldsWhatWasStored == Spec => []HoldsWhatWasStored
BY InvHolds, RightContents, PTL

\* As long as the processes take turns, every node in use can be reached from m_apps or
\* is one that objRemove unlinked and did not release, whatever allocations fail; what
\* else is lost was never linked, and an allocation failed.
THEOREM OnlyObjectsAreLost == Spec => []OnlyObjectsLeak
BY InvHolds, FewLeaks, PTL

\* The invariant contains NoCrash.
LEMMA InvNoCrash == Inv => NoCrash
BY DEF Inv

\* No call follows a pointer to released memory or reads a missing value while memory
\* lasts and the processes take turns, or nothing in the tree is released.
THEOREM NoProcessCrashes == Spec => []NoCrash
BY InvHolds, InvNoCrash, PTL
==============================================================================
