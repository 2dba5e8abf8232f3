------------------------------ MODULE FieldCache ------------------------------
(* The cached flattening of a schema tree (model_schema.go).  ModelNode.fields *)
(* takes no lock: it loads the node's cache, builds the flattening when there  *)
(* is none, publishes it by compare-and-swap, and on losing that race adopts   *)
(* what it finds.  The mutators change their own node and then drop its cache. *)
(*                                                                             *)
(* A tree is built by one goroutine and then only read.  Reads that begin      *)
(* while it is still changing are allowed here, to say what they may return    *)
(* and that they leave nothing behind.  A node's content is abstracted to a    *)
(* revision; a flattening is the revision of every node the walk met.          *)
EXTENDS Naturals

CONSTANTS Node,
          Below,        \* node -> the nodes its flattening walks, itself included
          Reader,
          None,
          MaxRevision   \* bound: the changes of one node

ASSUME TreeAssumption ==
    /\ Below \in [Node -> SUBSET Node]
    /\ \A n \in Node : n \in Below[n]
ASSUME NoneIsNeither == None \notin Node \cup Reader

VARIABLES rev,          \* node -> its content
          changing,     \* the node whose mutator has not dropped the cache yet
          fixed,        \* the tree is built
          cache,        \* node -> fieldCache
          pc, root,     \* reader -> where it is in fields(), and of which node
          walked, seen, \* reader -> the nodes it walked, as it found them
          raced,        \* reader -> history: its node changed after it was walked
          late,         \* reader -> history: the read began on the built tree
          result        \* reader -> what fields() returned

tree == <<rev, changing, fixed>>
cacheVars == <<tree, cache, pc, root, walked, seen, raced, late, result>>

\* A cachedFields is its builder's: two of them are never the same object.
Cell == [by : Reader, seen : [Node -> Nat], raced : BOOLEAN]
NoCell == [by |-> None]

CellOf(r) == [by |-> r, seen |-> seen[r], raced |-> raced[r]]

CacheInit ==
    /\ rev = [n \in Node |-> 0]
    /\ changing = None
    /\ fixed = FALSE
    /\ cache = [n \in Node |-> NoCell]
    /\ pc = [r \in Reader |-> "idle"]
    /\ root \in [Reader -> Node]
    /\ walked = [r \in Reader |-> {}]
    /\ seen = [r \in Reader |-> [n \in Node |-> 0]]
    /\ raced = [r \in Reader |-> FALSE]
    /\ late = [r \in Reader |-> FALSE]
    /\ result = [r \in Reader |-> NoCell]

-----------------------------------------------------------------------------
(* The mutators: DeclareKind, AddScalarTypes, SetNullable, SetChild and        *)
(* SetElement.  One that finds nothing to record may still drop the cache.     *)

Change(n) ==
    /\ ~fixed /\ changing = None
    /\ rev[n] < MaxRevision
    /\ \E v \in {rev[n], rev[n] + 1} : rev' = [rev EXCEPT ![n] = v]
    /\ changing' = n
    /\ raced' = [r \in Reader |->
                   raced[r] \/ (pc[r] \in {"build", "reload"} /\ n = root[r] /\ n \in walked[r])]
    /\ UNCHANGED <<fixed, cache, pc, root, walked, seen, late, result>>

\* Mutant of DropCache: the node keeps its flattening.
KeepCache ==
    /\ changing # None
    /\ changing' = None
    /\ UNCHANGED <<rev, fixed, cache, pc, root, walked, seen, raced, late, result>>

DropCache ==
    /\ changing # None
    /\ cache' = [cache EXCEPT ![changing] = NoCell]
    /\ changing' = None
    /\ UNCHANGED <<rev, fixed, pc, root, walked, seen, raced, late, result>>

\* The tree is handed to its readers.
Publish ==
    /\ ~fixed /\ changing = None
    /\ fixed' = TRUE
    /\ UNCHANGED <<rev, changing, cache, pc, root, walked, seen, raced, late, result>>

-----------------------------------------------------------------------------
(* fields()                                                                    *)

Return(r, cell) == /\ pc' = [pc EXCEPT ![r] = "done"]
                   /\ result' = [result EXCEPT ![r] = cell]

Load(r) ==
    /\ pc[r] = "idle"
    /\ late' = [late EXCEPT ![r] = fixed]
    /\ IF cache[root[r]] # NoCell
       THEN Return(r, cache[root[r]])
       ELSE pc' = [pc EXCEPT ![r] = "build"] /\ UNCHANGED result
    /\ UNCHANGED <<tree, cache, root, walked, seen, raced>>

\* One node of the walk of buildFieldCache.
Visit(r, n) ==
    /\ pc[r] = "build"
    /\ n \in Below[root[r]] \ walked[r]
    /\ walked' = [walked EXCEPT ![r] = @ \cup {n}]
    /\ seen' = [seen EXCEPT ![r][n] = rev[n]]
    /\ UNCHANGED <<tree, cache, pc, root, raced, late, result>>

\* Mutant of CompareAndSwap: who loses the race returns what it built.
SwapOrKeepOwn(r) ==
    /\ pc[r] = "build"
    /\ walked[r] = Below[root[r]]
    /\ Return(r, CellOf(r))
    /\ cache' = [cache EXCEPT ![root[r]] = IF @ = NoCell THEN CellOf(r) ELSE @]
    /\ UNCHANGED <<tree, root, walked, seen, raced, late>>

CompareAndSwap(r) ==
    /\ pc[r] = "build"
    /\ walked[r] = Below[root[r]]
    /\ IF cache[root[r]] = NoCell
       THEN /\ cache' = [cache EXCEPT ![root[r]] = CellOf(r)]
            /\ Return(r, CellOf(r))
       ELSE pc' = [pc EXCEPT ![r] = "reload"] /\ UNCHANGED <<cache, result>>
    /\ UNCHANGED <<tree, root, walked, seen, raced, late>>

\* The winner's, or its own when a mutator has dropped that one again.
Reload(r) ==
    /\ pc[r] = "reload"
    /\ Return(r, IF cache[root[r]] # NoCell THEN cache[root[r]] ELSE CellOf(r))
    /\ UNCHANGED <<tree, cache, root, walked, seen, raced, late>>

Read(r) == \/ Load(r) \/ CompareAndSwap(r) \/ Reload(r)
           \/ \E n \in Node : Visit(r, n)

CacheNext == \/ \E n \in Node : Change(n)
             \/ DropCache \/ Publish
             \/ \E r \in Reader : Read(r)

CacheSpec == CacheInit /\ [][CacheNext]_cacheVars

-----------------------------------------------------------------------------

TypeOK ==
    /\ rev \in [Node -> Nat]
    /\ changing \in Node \cup {None}
    /\ fixed \in BOOLEAN
    /\ cache \in [Node -> Cell \cup {NoCell}]
    /\ pc \in [Reader -> {"idle", "build", "reload", "done"}]
    /\ root \in [Reader -> Node]
    /\ walked \in [Reader -> SUBSET Node]
    /\ seen \in [Reader -> [Node -> Nat]]
    /\ raced \in [Reader -> BOOLEAN] /\ late \in [Reader -> BOOLEAN]
    /\ result \in [Reader -> Cell \cup {NoCell}]

\* "The winner is adopted so callers converge on one shared value": reads of a
\* node that began once the tree was built return the same object, whoever won
\* the swap, and also when the winner had begun while the tree was changing.
OneFlattening ==
    \A r, s \in Reader :
        /\ late[r] /\ late[s] /\ root[r] = root[s]
        /\ pc[r] = "done" /\ pc[s] = "done"
        => result[r] = result[s]

\* A node's cache shows that node's own branches as they are, unless they were
\* changed between the walk and the swap of the read that filled it.  Of the
\* nodes below it promises nothing: changing a child leaves the caches of its
\* parents in place.
OwnBranchesAreCurrent ==
    \A n \in Node :
        cache[n] # NoCell /\ changing # n =>
            cache[n].raced \/ cache[n].seen[n] = rev[n]
=============================================================================
