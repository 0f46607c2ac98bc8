--------------------------- MODULE LoaderCompose ---------------------------
(***************************************************************************)
(* Compose (loader/loader.go): layers of configuration entries, applied in *)
(* order, build one tree of nodes.  An entry of a base layer creates nodes; *)
(* an entry of a patch layer changes the node its id addresses, wherever   *)
(* that is in the tree, or inserts new ones.                               *)
(*                                                                         *)
(* The recursion over nested entries is a list of jobs, in the order in    *)
(* which the code comes to them; a job is one node, one patch or one       *)
(* rebuild of the index.  A layer has one entry: one with several is a     *)
(* sequence of layers of the same kind.  Label, config and provenance are  *)
(* set and replaced like the fields kept here, and left out.               *)
(***************************************************************************)
EXTENDS Integers, FiniteSets, SequencesExt

CONSTANTS
    Entries,    \* the entries that layers are made of
    Entry,      \* id, fields it mentions, plugins and insert of each
    Ids, NoId,
    Names, NoName,
    Services,   \* what a node may inject
    MaxLayers   \* bound: how many layers are composed

Fields == [name : Names \cup {NoName}, disabled : BOOLEAN, group : BOOLEAN,
           inject : SUBSET Services]
Blank == [name |-> NoName, disabled |-> FALSE, group |-> FALSE, inject |-> {}]

ASSUME EntriesAssumption ==
    /\ NoId \notin Ids /\ NoName \notin Names /\ MaxLayers \in Nat
    /\ \A e \in Entries :
         /\ Entry[e].id \in Ids \cup {NoId}
         /\ Entry[e].sets @@ Blank \in Fields
         /\ Entry[e].plugins \in Seq(Entries) /\ Entry[e].insert \in Seq(Entries)

VARIABLES
    nodes,      \* the nodes, in the order of their creation
    index,      \* the node that a patch of an id will change
    warnings,
    todo,       \* jobs of the layer being applied
    strict, layers,
    phase       \* how far Compose and Load have come

tree == <<nodes, index, warnings>>

\* Nodes are numbered; 0 is the tree itself as a target.
Root == 0
None == 0
NodeIds == 1..Len(nodes)

Job(do, e, target) == [do |-> do, entry |-> e, target |-> target]
Jobs(do, es, target) == [i \in DOMAIN es |-> Job(do, es[i], target)]

TypeOK ==
    /\ nodes \in Seq([id : Ids \cup {NoId}, parent : Nat, fields : Fields])
    /\ \A n \in NodeIds : nodes[n].parent < n
    /\ index \in [Ids -> {None} \cup NodeIds]
    /\ \A i \in Ids : index[i] # None => nodes[index[i]].id = i
    /\ warnings \subseteq ({"duplicate", "unmatched"} \X Ids)
                          \cup ({"children"} \X NodeIds)
    /\ \A i \in DOMAIN todo : todo[i].target \in {Root} \cup NodeIds
    /\ strict \in BOOLEAN /\ layers \in 0..MaxLayers
    /\ phase \in {"composing", "rejected", "composed", "loading", "rollback",
                  "loaded", "failed"}

Init ==
    /\ nodes = <<>> /\ index = [i \in Ids |-> None] /\ warnings = {}
    /\ todo = <<>> /\ strict \in BOOLEAN /\ layers = 0
    /\ phase = "composing"

----------------------------------------------------------------------------
(* The tree. *)

\* Children are only ever appended, so they are in the order of creation.
Kids(n) == SelectSeq([i \in NodeIds |-> i], LAMBDA k : nodes[k].parent = n)

Preorder ==
    LET walk[n \in {Root} \cup NodeIds] ==
          <<n>> \o FlattenSeq([i \in DOMAIN Kids(n) |-> walk[Kids(n)[i]]])
    IN  Tail(walk[Root])

\* Find: the first node of that id in the order of the tree.
Find(id) ==
    LET found == SelectSeq(Preorder, LAMBDA n : nodes[n].id = id)
    IN  IF found = <<>> THEN None ELSE Head(found)

----------------------------------------------------------------------------
(* Layers. *)

Mixed(e) == Entry[e].insert # <<>> /\ (\/ Entry[e].id # NoId
                                       \/ Entry[e].sets # <<>>
                                       \/ Entry[e].plugins # <<>>)

\* validateEntry, at whatever depth.
Invalid[e \in Entries] ==
    Mixed(e) \/ \E c \in ToSet(Entry[e].plugins \o Entry[e].insert) : Invalid[c]

\* An entry that inserts stands for what it inserts.
Expand(e) == IF Entry[e].insert = <<>> THEN <<e>> ELSE Entry[e].insert

Reject == phase' = "rejected" /\ todo' = <<>> /\ UNCHANGED tree

\* Mutant: problems are passed over, as Cordis does.
ReportNothing(problem, next) == next /\ UNCHANGED <<warnings, phase>>

\* A problem is an error in strict mode and a warning otherwise.
Report(problem, next) ==
    IF strict THEN Reject
    ELSE /\ warnings' = warnings \cup {problem}
         /\ next /\ phase' = phase

Layer(e) ==
    /\ phase = "composing" /\ todo = <<>> /\ layers < MaxLayers
    /\ layers' = layers + 1
    /\ IF Invalid[e] THEN Reject
       ELSE /\ \/ todo' = Jobs("create", Expand(e), Root)
               \/ todo' = <<Job("patch", e, Root)>>
            /\ UNCHANGED <<tree, phase>>
    /\ strict' = strict

Doing(do) == todo # <<>> /\ Head(todo).do = do
Entered == Entry[Head(todo).entry]
Done(next) == todo' = next \o Tail(todo)

\* The first node of an id is the one that patches of it change.
Indexed(id, n) == IF id = NoId THEN index ELSE [index EXCEPT ![id] = n]

\* createNode and indexNode of one node; its children come next.
Create ==
    /\ Doing("create")
    /\ LET e == Entered
           fields == e.sets @@ Blank
           n == Len(nodes) + 1
           children == FlattenSeq([i \in DOMAIN e.plugins |-> Expand(e.plugins[i])])
           Place ==
             /\ nodes' = Append(nodes, [id |-> e.id, parent |-> Head(todo).target,
                                        fields |-> fields])
             /\ Done(Jobs("create", children, n))
       IN  IF e.id = NoId /\ fields.name = NoName THEN Reject
           ELSE IF e.id # NoId /\ index[e.id] # None
           THEN Report(<<"duplicate", e.id>>, Place /\ index' = index)
           ELSE /\ Place
                /\ index' = Indexed(e.id, n)
                /\ UNCHANGED <<warnings, phase>>
    /\ UNCHANGED <<strict, layers>>

\* mergePatch: what the entry mentions overrides what the node has.
Merged(n, e) == [nodes EXCEPT ![n].fields = e.sets @@ @]

\* applyPatch: insert, or merge into the node of that id and go on with the
\* patches for its children, which address the whole tree too.
Patch ==
    /\ Doing("patch")
    /\ LET e == Entered
           n == index[e.id]
           Skip == Done(<<>>) /\ UNCHANGED <<nodes, index>>
       IN  IF e.insert # <<>>
           THEN /\ Done(Jobs("insert", e.insert, Head(todo).target)
                        \o <<Job("rebuild", Head(todo).entry, Root)>>)
                /\ UNCHANGED <<tree, phase>>
           ELSE IF e.id = NoId THEN Reject
           ELSE IF n = None THEN Report(<<"unmatched", e.id>>, Skip)
           ELSE /\ nodes' = Merged(n, e)
                /\ Done(Jobs("patch", e.plugins, n))
                /\ UNCHANGED <<index, warnings, phase>>
    /\ UNCHANGED <<strict, layers>>

\* An inserted entry whose own id is taken is not created at all.
Insert ==
    /\ Doing("insert")
    /\ LET e == Entered
           Skip == Done(<<>>) /\ UNCHANGED <<nodes, index>>
       IN  IF e.id # NoId /\ index[e.id] # None
           THEN Report(<<"duplicate", e.id>>, Skip)
           ELSE /\ Done(<<[Head(todo) EXCEPT !.do = "create"]>>)
                /\ UNCHANGED <<tree, phase>>
    /\ UNCHANGED <<strict, layers>>

\* Mutant: patches go on with the index of creation order.
RebuildNothing ==
    /\ Doing("rebuild")
    /\ Done(<<>>)
    /\ UNCHANGED <<tree, strict, layers, phase>>

\* rebuildIndex, which changes nothing when nothing was inserted.
Rebuild ==
    /\ Doing("rebuild")
    /\ Done(<<>>)
    /\ index' = [i \in Ids |-> Find(i)]
    /\ UNCHANGED <<nodes, warnings, strict, layers, phase>>

\* checkNonGroupChildren, when the last layer has been applied.
Misplaced == {n \in NodeIds : Kids(n) # <<>> /\ ~nodes[n].fields.group}

Finish ==
    /\ phase = "composing" /\ todo = <<>>
    /\ IF strict /\ Misplaced # {} THEN Reject
       ELSE /\ warnings' = warnings \cup ({"children"} \X Misplaced)
            /\ phase' = "composed"
            /\ UNCHANGED <<nodes, index, todo>>
    /\ UNCHANGED <<strict, layers>>

Compose ==
    \/ \E e \in Entries : Layer(e)
    \/ Create \/ Patch \/ Insert \/ Rebuild \/ Finish

----------------------------------------------------------------------------
(* What Compose promises. *)

Composed == todo = <<>> /\ phase # "rejected"

\* "rebuildIndex makes patch lookup use the same first node in current DFS
\* order as Tree.Find", after every entry of every kind of layer.
IndexIsFind == Composed => \A i \in Ids : index[i] = Find(i)

\* A node that no patch can address, and one that will not be loaded, has been
\* reported; a strict composition has neither (indexNode, applyPatch,
\* checkNonGroupChildren).
NothingSilent ==
    Composed =>
        /\ \A n \in NodeIds : nodes[n].id # NoId /\ index[nodes[n].id] # n =>
             <<"duplicate", nodes[n].id>> \in warnings
        /\ phase # "composing" => {"children"} \X Misplaced \subseteq warnings
        /\ strict => warnings = {}
=============================================================================
