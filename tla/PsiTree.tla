------------------------------- MODULE PsiTree -------------------------------
(***************************************************************************)
(* The PSI tree in shared memory: the list of applications (PsiIfc), the   *)
(* list of objects of each application (PsiApp) and the value of each      *)
(* object (PsiObject), as the calls of psiapi.cpp change them.             *)
(*                                                                         *)
(* Every call of psiapi.cpp is bracketed by semop() on psi_semid, which is *)
(* -1 and never assigned (psisema.h): both semops fail, and the calls of   *)
(* the processes that inherited the tree interleave.  A call is cut where  *)
(* it carries a pointer from one place of the tree to another.  Memory     *)
(* comes from bget(), which may return NULL.  A read through a pointer to  *)
(* released memory, or to none, is the end of the process.  A node stands  *)
(* for all the memory of an application or of an object.                   *)
(*                                                                         *)
(* Memory that is released while other processes work with the tree may be *)
(* released twice, or written when it already belongs to somebody else.    *)
(* That is not followed (Wild): the properties speak of processes that     *)
(* take turns, or of any interleaving in which nothing is released.        *)
(***************************************************************************)
EXTENDS Integers, FiniteSets

CONSTANTS
    Proc,      \* processes that use the tree
    App,       \* names of applications
    Id,        \* object ids
    Value,     \* values of objects
    LengthOf,  \* LengthOf[v]: the length of a value
    Node,      \* memory for list nodes
    None,      \* no node, no value buffer, no key
    Top        \* the list m_apps; the other lists are named by their AppNode

ASSUME NameAssumption   == None \notin App \cup Id \cup Node \cup Value /\ Top \notin Node
ASSUME LengthAssumption == LengthOf \in [Value -> Nat \ {0}]
ASSUME NodeAssumption   == IsFiniteSet(Node)

List == {Top} \cup Node

VARIABLES
    used,     \* the nodes in use
    head,     \* head[l]: first node of list l
    next,     \* next[n]: the node behind n
    key,      \* key[n]: name of an application, id of an object
    value,    \* value[n]: the value buffer of an object
    handle,   \* handle[p]: the PSI_HANDLE process p works with
    pc, call, \* where each process is and what it was called with
    at, prev, \* the nodes a step hands to the next one
    lost,     \* the memory of new objects that no ObjectNode could be had for
    want,     \* history: what the completed calls put into the tree
    leaked,   \* history: nodes that objRemove unlinked and did not release
    overlap,  \* history: two processes worked with the tree at a time
    freed,    \* history: "value", a value buffer gave way to one of another length;
              \* "node", an object or an application was removed
    failed    \* history: a call of bget() returned NULL

treeVars == <<used, head, next, key, value>>
histVars == <<want, leaked, overlap, freed, failed>>
vars     == <<treeVars, handle, pc, call, at, prev, lost, histVars>>

NoCall  == [fn |-> "none", list |-> Top, key |-> None, value |-> None]
NoObj   == [i \in Id |-> None]
Closed  == [open |-> FALSE, obj |-> NoObj]

Init ==
    /\ used   = {}
    /\ head   = [l \in List |-> None]
    /\ next   = [n \in Node |-> None]
    /\ key    = [n \in Node |-> None]
    /\ value  = [n \in Node |-> None]
    /\ handle = [p \in Proc |-> None]
    /\ pc     = [p \in Proc |-> "idle"]
    /\ call   = [p \in Proc |-> NoCall]
    /\ at     = [p \in Proc |-> None]
    /\ prev   = [p \in Proc |-> None]
    /\ want   = [a \in App |-> Closed]
    /\ leaked = {} /\ lost = {}
    /\ overlap = FALSE
    /\ freed   = {}
    /\ failed  = FALSE

----------------------------------------------------------------------------
\* Walks of a list.

\* The nodes a loop comes to that starts at first and goes along nx until there is no
\* next node or it is at one of stop: the least set that is closed under its steps.
Along(nx, first, stop, S) ==
    first \in S \cup {None} /\ \A m \in S \ stop : nx[m] \in S \cup {None}
Walk(nx, first, stop) ==
    {n \in Node : \A S \in SUBSET Node : Along(nx, first, stop, S) => n \in S}

Nodes(l) == Walk(next, head[l], {})

\* The walk of list l ends and stays in memory that is in use.
Ends(l) == head[l] = None \/ \E n \in Nodes(l) : next[n] = None
Walkable(l) ==
    /\ l = Top \/ l \in used
    /\ Ends(l)
    /\ Nodes(l) \subseteq used

Last(l) == IF head[l] = None THEN None ELSE CHOOSE n \in Nodes(l) : next[n] = None

\* The node before n, or None when n is the head.
Before(l, n) ==
    IF head[l] = n THEN None ELSE CHOOSE m \in Nodes(l) : next[m] = n

\* The first node of list l with key k: where a walk ends that stops at such a node.
Find(l, k) ==
    LET hit == {n \in Node : key[n] = k}  found == Walk(next, head[l], hit) \cap hit
    IN  IF found = {} THEN None ELSE CHOOSE n \in found : TRUE

----------------------------------------------------------------------------
\* The calls.

Busy(q) == handle[q] # None \/ pc[q] \notin {"idle", "crashed"}

\* Memory was released and two processes came across each other: pointers may lead
\* anywhere, and what they lead to may be overwritten.  The calls under way come to
\* their end; no property speaks of such a state.
Wild == overlap /\ freed # {}

Start(p, c) ==
    /\ pc[p] = "idle"
    /\ ~Wild
    /\ pc'   = [pc EXCEPT ![p] = "find"]
    /\ call' = [call EXCEPT ![p] = c]
    /\ overlap' = (overlap \/ \E q \in Proc \ {p} : Busy(q))
    /\ UNCHANGED <<treeVars, handle, at, prev, lost, want, leaked, freed, failed>>

OnObject(p, f, i, v) ==
    /\ handle[p] # None
    /\ Start(p, [fn |-> f, list |-> handle[p], key |-> i, value |-> v])

BcmPsi_appOpen(p) ==
    /\ handle[p] = None
    /\ \E a \in App : Start(p, [fn |-> "open", list |-> Top, key |-> a, value |-> None])

BcmPsi_objStore(p)    == \E i \in Id, v \in Value : OnObject(p, "store", i, v)
BcmPsi_objRetrieve(p) == \E i \in Id : OnObject(p, "retrieve", i, None)
BcmPsi_objRemove(p)   == \E i \in Id : OnObject(p, "remove", i, None)

BcmPsi_appRemove(p) ==
    /\ handle[p] # None
    /\ Start(p, [fn |-> "drop", list |-> Top, key |-> None, value |-> None])

\* appClose does nothing; the caller forgets its handle.
BcmPsi_appClose(p) ==
    /\ pc[p] = "idle" /\ handle[p] # None
    /\ handle' = [handle EXCEPT ![p] = None]
    /\ UNCHANGED <<treeVars, pc, call, at, prev, lost, histVars>>

Goto(p, where) == pc' = [pc EXCEPT ![p] = where] /\ UNCHANGED call

Return(p) ==
    /\ pc'   = [pc EXCEPT ![p] = "idle"]
    /\ call' = [call EXCEPT ![p] = NoCall]
    /\ at'   = [at EXCEPT ![p] = None]
    /\ prev' = [prev EXCEPT ![p] = None]

Crash(p) ==
    /\ Goto(p, "crashed")
    /\ UNCHANGED <<treeVars, handle, at, prev, lost, histVars>>

----------------------------------------------------------------------------
\* find().

NotFound(p) ==
    /\ IF call[p].fn \in {"open", "store"}
       THEN Goto(p, "create") /\ UNCHANGED <<at, prev>>
       ELSE Return(p)       \* PSI_STS_ERR_OBJECT_NOT_FOUND, _APP_NOT_FOUND
    /\ UNCHANGED <<treeVars, handle, lost, histVars>>

Found(p, n) ==
    CASE call[p].fn = "open" ->
            /\ handle' = [handle EXCEPT ![p] = n]
            /\ Return(p)
            /\ UNCHANGED <<treeVars, lost, histVars>>
      [] call[p].fn = "store" ->
            /\ at' = [at EXCEPT ![p] = n]
            /\ Goto(p, "assign")
            /\ UNCHANGED <<treeVars, handle, prev, lost, histVars>>
      [] call[p].fn = "retrieve" ->
            IF value[n] = None THEN Crash(p)    \* memcpy from m_value
            ELSE Return(p) /\ UNCHANGED <<treeVars, handle, lost, histVars>>
      [] OTHER ->
            /\ at'   = [at EXCEPT ![p] = n]
            /\ prev' = [prev EXCEPT ![p] = Before(call[p].list, n)]
            /\ Goto(p, "unlink")
            /\ UNCHANGED <<treeVars, handle, lost, histVars>>

\* appRemove looks for the node itself, every other call for a key.
Sought(p) ==
    IF call[p].fn # "drop" THEN Find(call[p].list, call[p].key)
    ELSE IF handle[p] \in Nodes(Top) THEN handle[p] ELSE None

FindStep(p) ==
    /\ pc[p] = "find"
    /\ IF ~Walkable(call[p].list) THEN Crash(p)
       ELSE IF Sought(p) = None THEN NotFound(p)
       ELSE Found(p, Sought(p))

----------------------------------------------------------------------------
\* A new application or object, appended to its list.

Spare == Node \ (used \cup lost)

\* bget() for the parts of a new node succeeded; v is the value buffer.
Created(p, v) ==
    LET n == CHOOSE m \in Spare : TRUE
    IN  /\ used'  = used \cup {n}
        /\ head'  = [head EXCEPT ![n] = None]
        /\ next'  = [next EXCEPT ![n] = None]
        /\ key'   = [key EXCEPT ![n] = call[p].key]
        /\ value' = [value EXCEPT ![n] = v]
        /\ at'    = [at EXCEPT ![p] = n]
        /\ Goto(p, "tail")
        /\ UNCHANGED <<handle, prev, lost, want, leaked, overlap, freed>>

Create(p) ==
    /\ pc[p] = "create"
    /\ Spare # {}
    /\ Created(p, call[p].value)
    /\ UNCHANGED failed

\* Nothing tests the memory of the class objects, the name and the AppNode before
\* it is written.  Without a value buffer the object is added all the same.  Without
\* an ObjectNode the PsiObject and its buffer are lost, and PsiIfc::set drops the
\* status.
CreateFails(p) ==
    /\ pc[p] = "create"
    /\ failed' = TRUE
    /\ \/ /\ Goto(p, "crashed")
          /\ UNCHANGED <<treeVars, handle, at, prev, lost, want, leaked, overlap, freed>>
       \/ /\ call[p].fn = "store" /\ Spare # {}
          /\ Created(p, None)
       \/ /\ call[p].fn = "store" /\ Spare # {}
          /\ lost' = lost \cup {CHOOSE m \in Spare : TRUE}
          /\ Return(p)
          /\ UNCHANGED <<treeVars, handle, want, leaked, overlap, freed>>

\* append(): the walk to the last node ...
Tail(p) ==
    /\ pc[p] = "tail"
    /\ IF ~Walkable(call[p].list) THEN Crash(p)
       ELSE /\ prev' = [prev EXCEPT ![p] = Last(call[p].list)]
            /\ Goto(p, "link")
            /\ UNCHANGED <<treeVars, handle, at, lost, histVars>>

\* What the tree should hold when the call of process p has returned.
Wanted(p) ==
    IF Wild THEN want
    ELSE IF call[p].fn = "open"
    THEN [want EXCEPT ![call[p].key].open = TRUE]
    ELSE [want EXCEPT ![key[call[p].list]].obj[call[p].key] = call[p].value]

\* ... and the link from the node found there.
LinkAs(p, newHead, newNext) ==
    LET l == call[p].list
    IN  /\ pc[p] = "link"
        /\ IF l \notin used \cup {Top} \/ prev[p] \notin used \cup {None} THEN Crash(p)
           ELSE /\ head'   = newHead
                /\ next'   = newNext
                /\ want'   = Wanted(p)
                /\ handle' = IF l = Top THEN [handle EXCEPT ![p] = at[p]] ELSE handle
                /\ Return(p)
                /\ UNCHANGED <<used, key, value, lost, leaked, overlap, freed, failed>>

\* Mutant of Link: the new node becomes the head of its list.
LinkFirst(p) == LinkAs(p, [head EXCEPT ![call[p].list] = at[p]], next)

\* Mutant of Link: a list of one node is closed into a ring.
LinkRing(p) ==
    IF prev[p] = None
    THEN LinkAs(p, [head EXCEPT ![call[p].list] = at[p]], [next EXCEPT ![at[p]] = at[p]])
    ELSE LinkAs(p, head, [next EXCEPT ![prev[p]] = at[p]])

Link(p) ==
    IF prev[p] = None
    THEN LinkAs(p, [head EXCEPT ![call[p].list] = at[p]], next)
    ELSE LinkAs(p, head, [next EXCEPT ![prev[p]] = at[p]])

----------------------------------------------------------------------------
\* PsiObject::set: in place when the length stays, else the old buffer goes first.
\* Nothing locks it.  As long as lengths stay, the steps of two processes can only mix
\* their values; a process that comes across another one's brel() makes the state Wild.

Assigned(p, v) ==
    /\ value' = [value EXCEPT ![at[p]] = v]
    /\ want'  = Wanted(p)
    /\ Return(p)
    /\ UNCHANGED <<used, head, next, key, handle, lost, leaked, overlap, freed>>

Assign(p) ==
    LET n == at[p]
    IN  /\ pc[p] = "assign"
        /\ IF n \notin used \/ value[n] = None THEN Crash(p)
           ELSE IF LengthOf[value[n]] = LengthOf[call[p].value]
           THEN Assigned(p, call[p].value) /\ UNCHANGED failed
           ELSE /\ value' = [value EXCEPT ![n] = None]
                /\ freed' = freed \cup {"value"}
                /\ Goto(p, "realloc")
                /\ UNCHANGED <<used, head, next, key, handle, at, prev,
                               lost, want, leaked, overlap, failed>>

\* Mutant of Realloc: the new buffer is not put into m_value.
ReallocNoCopy(p) ==
    /\ pc[p] = "realloc"
    /\ \/ Assigned(p, None) /\ UNCHANGED failed
       \/ Assigned(p, None) /\ failed' = TRUE

Realloc(p) ==
    /\ pc[p] = "realloc"
    /\ \/ Assigned(p, call[p].value) /\ UNCHANGED failed
       \/ Assigned(p, None) /\ failed' = TRUE     \* PSI_STS_ERR_MEMORY, dropped

----------------------------------------------------------------------------
\* remove(): the node is unlinked.  An object's node is not released; the
\* destructor of an application releases the nodes of its objects.

\* Values that the unlinked node takes with it: brel() of none is a crash.
Doomed(p) == IF call[p].fn = "drop" THEN Nodes(at[p]) ELSE {at[p]}

\* Mutant of Freed: the destructor of an application forgets the nodes of its list.
FreedAlone(p) == IF call[p].fn = "drop" THEN {at[p]} ELSE {}

Freed(p) == IF call[p].fn = "drop" THEN {at[p]} \cup Nodes(at[p]) ELSE {}

Unlinked(p) ==
    LET l == call[p].list  n == at[p]
    IN  /\ next' = [m \in Node |-> IF m \in {n} \cup Freed(p) THEN None
                                   ELSE IF m = prev[p] THEN next[n] ELSE next[m]]
        /\ head' = [m \in List |-> IF m = l /\ prev[p] = None THEN next[n]
                                   ELSE IF m \in Freed(p) THEN None ELSE head[m]]

UnlinkTo(p, w) ==
    LET n == at[p]
    IN  /\ pc[p] = "unlink"
        /\ IF \/ ~Walkable(call[p].list) \/ n \notin used \/ ~Walkable(n)
              \/ prev[p] \notin used \cup {None}
              \/ \E m \in Doomed(p) : value[m] = None
           THEN Crash(p)
           ELSE /\ Unlinked(p)
                /\ value'  = [m \in Node |-> IF m \in Doomed(p) THEN None ELSE value[m]]
                /\ key'    = [m \in Node |-> IF m \in Freed(p) THEN None ELSE key[m]]
                /\ used'   = used \ Freed(p)
                /\ leaked' = IF call[p].fn = "remove" THEN leaked \cup {n} ELSE leaked
                /\ freed'  = freed \cup {"node"}
                /\ want'   = w
                /\ handle' = IF call[p].fn = "drop" THEN [handle EXCEPT ![p] = None]
                             ELSE handle
                /\ Return(p)
                /\ UNCHANGED <<lost, overlap, failed>>

Unlink(p) ==
    UnlinkTo(p, IF overlap THEN want
                ELSE IF call[p].fn = "drop"
                THEN [want EXCEPT ![key[at[p]]] = Closed]
                ELSE [want EXCEPT ![key[call[p].list]].obj[call[p].key] = None])

----------------------------------------------------------------------------

Step(p) ==
    \/ FindStep(p) \/ Create(p) \/ CreateFails(p) \/ Tail(p) \/ Link(p)
    \/ Assign(p) \/ Realloc(p) \/ Unlink(p)

Next ==
    \E p \in Proc :
        \/ BcmPsi_appOpen(p) \/ BcmPsi_appClose(p) \/ BcmPsi_appRemove(p)
        \/ BcmPsi_objStore(p) \/ BcmPsi_objRetrieve(p) \/ BcmPsi_objRemove(p)
        \/ Step(p)

Spec == Init /\ [][Next]_vars

----------------------------------------------------------------------------
\* Properties.

\* The pointers lead to nodes or nowhere, keys and values are of their kinds.
TypeOK ==
    /\ used   \subseteq Node
    /\ head   \in [List -> Node \cup {None}]
    /\ next   \in [Node -> Node \cup {None}]
    /\ key    \in [Node -> App \cup Id \cup {None}]
    /\ value  \in [Node -> Value \cup {None}]
    /\ handle \in [Proc -> Node \cup {None}]
    /\ pc     \in [Proc -> {"idle", "find", "create", "tail", "link", "assign",
                            "realloc", "unlink", "crashed"}]
    /\ call   \in [Proc -> [fn : {"none", "open", "store", "retrieve", "remove", "drop"},
                            list : List, key : App \cup Id \cup {None},
                            value : Value \cup {None}]]
    /\ at     \in [Proc -> Node \cup {None}]
    /\ prev   \in [Proc -> Node \cup {None}]
    /\ want   \in [App -> [open : BOOLEAN, obj : [Id -> Value \cup {None}]]]
    /\ leaked \subseteq Node /\ lost \subseteq Node
    /\ {overlap, failed} \subseteq BOOLEAN
    /\ freed  \subseteq {"node", "value"}

Quiet == \A p \in Proc : pc[p] = "idle"

\* What a sequence of appOpen and objRetrieve calls would return.
Object(n, i) == IF Find(n, i) = None THEN None ELSE value[Find(n, i)]
Contents ==
    [a \in App |->
        LET n == Find(Top, a)
        IN  IF n = None THEN Closed
            ELSE [open |-> TRUE, obj |-> [i \in Id |-> Object(n, i)]]]

\* As long as the processes take turns and memory lasts, the tree holds exactly what
\* the calls stored and did not remove.
HoldsWhatWasStored == Quiet /\ ~overlap /\ ~failed => Contents = want

\* As long as the processes take turns, the memory in use is that of the tree and that
\* of removed objects, whatever allocations fail; what else is lost are new objects
\* that no ObjectNode could be had for.
OnlyObjectsLeak ==
    Quiet /\ ~overlap =>
        /\ used \ leaked = Nodes(Top) \cup UNION {Nodes(n) : n \in Nodes(Top)}
        /\ lost \cap used = {} /\ (lost # {} => failed)

\* No process runs into a missing buffer or released memory while memory lasts and
\* the processes take turns, or nothing in the tree is released.
NoCrash ==
    ~failed /\ (~overlap \/ freed = {}) => \A p \in Proc : pc[p] # "crashed"

\* Calls that come across each other lose nodes but never tie a list into a ring or
\* onto another list, as long as they release no memory; nor do removals and stores of
\* other lengths when the processes take turns and none of them crashed.
ListsStayApart ==
    freed = {} \/ (~overlap /\ \A p \in Proc : pc[p] # "crashed") =>
        /\ Walkable(Top)
        /\ \A n \in Nodes(Top) : Walkable(n)
        /\ \A l, m \in {Top} \cup Nodes(Top) : l # m => Nodes(l) \cap Nodes(m) = {}

\* The pointers in shared memory are well formed.
TreeSound == TypeOK /\ ListsStayApart

\* What appOpen and objStore say they do, "create or open the application" and "store
\* the object to the application": once they have returned and nothing was released,
\* the application and the object are there.
StoreStores == Quiet /\ ~failed /\ freed = {} => Contents = want
=============================================================================
