----------------------------- MODULE DataGraph -----------------------------
(***************************************************************************)
(* generate_data_graph of src/dev_utils/mod.rs: a random tree of spawns, a *)
(* random acyclic graph of writes over its VMs, and the pipes that carry   *)
(* the writes.  A pipe pair is created by the lowest common ancestor of    *)
(* its writer and its reader and handed down the tree to both.             *)
(*                                                                         *)
(* The random generator is a nondeterministic choice.  A node is its       *)
(* index; the spawn edge to a node is named by that node, the tree being   *)
(* the function parent.  An edge of the write graph is its index plus one, *)
(* the place it has in write_edges: an edge that would close a cycle is    *)
(* not added, and takes no index.                                          *)
(***************************************************************************)
EXTENDS Integers, Sequences, FiniteSets

CONSTANTS
    GraphSpawns,          \* the argument spawns
    GraphWrites,          \* the argument writes
    converging_threshold, \* how often a random edge is tried
    DataLength            \* bound: the lengths of a write (1 ..= 1024)

ASSUME GraphAssumption ==
    /\ {GraphSpawns, GraphWrites, converging_threshold} \subseteq Nat
    /\ DataLength \subseteq Nat \ {0}

VARIABLES
    gpc,         \* where generate_data_graph is
    parent,      \* spawn_dag: the node each node but the root is a child of
    write_edges, \* write_dag: its edges, in the order they were added
    tries,       \* attempts at the edge being added that closed a cycle
    processing,  \* the queue of the traversal of spawn_dag
    spawn_edges, \* the spawn edges, in the order of the traversal
    spawn_ops,   \* per spawn edge, the pipes it passes
    pipes_ops,   \* per node, the pairs (read, write) it creates
    edge,        \* the write edge being given its pipes
    a, b,        \* how far the search has climbed from writer and reader
    set_a, set_b,\* the nodes it has met on the way
    ancestor,
    data         \* the dag::Data returned, as its three lists are filled

tree == <<parent, write_edges, tries, processing, spawn_edges>>
search == <<a, b, set_a, set_b, ancestor>>
graph_vars == <<gpc, tree, spawn_ops, pipes_ops, edge, search, data>>

Root == 0
NodeIndex == 0 .. GraphSpawns
Nodes == {Root} \cup DOMAIN parent
NoData == [spawns |-> <<>>, pipes |-> <<>>, writes |-> <<>>]

GraphInit ==
    /\ gpc = "spawns"
    /\ parent = << >>
    /\ write_edges = << >>
    /\ tries = 0
    /\ processing = <<Root>>
    /\ spawn_edges = << >>
    /\ spawn_ops = << >>
    /\ pipes_ops = << >>
    /\ edge = 1
    /\ a = Root /\ b = Root /\ ancestor = Root
    /\ set_a = {} /\ set_b = {}
    /\ data = NoData

-----------------------------------------------------------------------------
(* The two graphs *)

(* for _ in 1..=spawns: a new node, child of any node there is. *)
add_node(previous_node) ==
    /\ gpc = "spawns"
    /\ Len(parent) < GraphSpawns
    /\ previous_node \in Nodes
    /\ parent' = Append(parent, previous_node)
    /\ UNCHANGED <<gpc, write_edges, tries, processing, spawn_edges, spawn_ops,
                   pipes_ops, edge, search, data>>

nodes_added ==
    /\ gpc = "spawns"
    /\ Len(parent) = GraphSpawns
    /\ gpc' = IF GraphSpawns > 0 THEN "writes" ELSE "traverse"
    /\ UNCHANGED <<tree, spawn_ops, pipes_ops, edge, search, data>>

Writes == {write_edges[i] : i \in DOMAIN write_edges}

(* The nodes that a walk along write edges reaches from those in S. *)
WriteStep(S) == S \cup {y \in Nodes : \E x \in S : <<x, y>> \in Writes}
reach[n \in Nat] ==
    [x \in NodeIndex |-> IF n = 0 THEN {x} ELSE WriteStep(reach[n - 1][x])]
WriteReach(x) == reach[GraphSpawns][x]

(* daggy's add_edge refuses an edge that would close a cycle. *)
WouldCycle(first, second) == first \in WriteReach(second)

(* Mutant of add_edge: the attempts are counted again from the start. *)
add_edge_Recounts(first, second) ==
    /\ gpc = "writes"
    /\ Len(write_edges) < GraphWrites
    /\ first \in Nodes /\ second \in Nodes \ {first}
    /\ \/ /\ ~WouldCycle(first, second)
          /\ write_edges' = Append(write_edges, <<first, second>>)
          /\ tries' = 0
       \/ /\ WouldCycle(first, second)
          /\ tries' = (tries + 1) % converging_threshold
          /\ UNCHANGED write_edges
    /\ UNCHANGED <<gpc, parent, processing, spawn_edges, spawn_ops, pipes_ops,
                   edge, search, data>>

add_edge(first, second) ==
    /\ gpc = "writes"
    /\ Len(write_edges) < GraphWrites
    /\ tries < converging_threshold
    /\ first \in Nodes /\ second \in Nodes \ {first}
    /\ \/ /\ ~WouldCycle(first, second)
          /\ write_edges' = Append(write_edges, <<first, second>>)
          /\ tries' = 0
       \/ /\ WouldCycle(first, second)
          /\ tries' = tries + 1
          /\ UNCHANGED write_edges
    /\ UNCHANGED <<gpc, parent, processing, spawn_edges, spawn_ops, pipes_ops,
                   edge, search, data>>

edges_added ==
    /\ gpc = "writes"
    /\ Len(write_edges) = GraphWrites \/ tries = converging_threshold
    /\ gpc' = "traverse"
    /\ UNCHANGED <<tree, spawn_ops, pipes_ops, edge, search, data>>

-----------------------------------------------------------------------------
(* The traversal of spawn_dag, breadth first, children by index *)

children_upto[k \in Nat] ==
    [n \in NodeIndex |->
        IF k = 0 THEN <<>>
        ELSE children_upto[k - 1][n] \o (IF parent[k] = n THEN <<k>> ELSE <<>>)]
Children(n) == children_upto[Len(parent)][n]

Extend(f, S, v) == [x \in DOMAIN f \cup S |-> IF x \in S THEN v ELSE f[x]]

(* Mutant of Queued: the newest edges are put first. *)
Queued_First(queue, more) == more \o queue

Queued(queue, more) == queue \o more

traverse ==
    /\ gpc = "traverse"
    /\ processing # <<>>
    /\ LET node == Head(processing)
       IN /\ processing' = Tail(processing) \o Children(node)
          /\ spawn_edges' = Queued(spawn_edges, Children(node))
          /\ spawn_ops' = Extend(spawn_ops, {i \in DOMAIN parent : parent[i] = node}, <<>>)
          /\ pipes_ops' = Extend(pipes_ops, {node}, <<>>)
    /\ UNCHANGED <<gpc, parent, write_edges, tries, edge, search, data>>

-----------------------------------------------------------------------------
(* The pipes of one write edge *)

writer == write_edges[edge][1]
reader == write_edges[edge][2]
writer_pipe_index(e) == (e - 1) * 2 + 1
reader_pipe_index(e) == (e - 1) * 2

EachEdge == (gpc = "traverse" /\ processing = <<>>) \/ gpc = "each_edge"

next_edge ==
    /\ EachEdge
    /\ edge <= Len(write_edges)
    /\ \E n \in DataLength :
        data' = [data EXCEPT !.writes = Append(@,
                    [from |-> writer, from_pipe |-> writer_pipe_index(edge),
                     to |-> reader, to_pipe |-> reader_pipe_index(edge),
                     length |-> n])]
    /\ a' = writer /\ b' = reader
    /\ set_a' = {writer} /\ set_b' = {reader}
    /\ gpc' = "climb"
    /\ UNCHANGED <<tree, spawn_ops, pipes_ops, edge, ancestor>>

(* The root has no parent, and stays. *)
Up(n) == IF n = Root THEN Root ELSE parent[n]

(* Mutant of Meets: stops where the writer's path meets the root. *)
Meets_Higher(x, y, path) == x = Root /\ x \in path

(* x, to which one side has climbed from y, is on the other side's path. *)
Meets(x, y, path) == y # Root /\ x \in path

(* One round of the loop: both sides climb, then the writer's side is      *)
(* looked at first.                                                        *)
climb ==
    /\ gpc = "climb"
    /\ LET pa == Up(a)
           pb == Up(b)
           A == set_a \cup {pa}
           B == set_b \cup {pb}
       IN /\ a' = pa /\ b' = pb /\ set_a' = A /\ set_b' = B
          /\ \/ /\ Meets(pa, a, B)
                /\ ancestor' = pa /\ gpc' = "pass"
             \/ /\ ~Meets(pa, a, B) /\ Meets(pb, b, A)
                /\ ancestor' = pb /\ gpc' = "pass"
             \/ /\ ~Meets(pa, a, B) /\ ~Meets(pb, b, A)
                /\ UNCHANGED <<ancestor, gpc>>
    /\ UNCHANGED <<tree, spawn_ops, pipes_ops, edge, data>>

(* The nodes from n up to, and without, top. *)
climbed[k \in Nat] == [n \in NodeIndex |-> IF k = 0 THEN n ELSE Up(climbed[k - 1][n])]
PathTo(n, top) ==
    LET above == {k \in NodeIndex : climbed[k][n] = top}
        steps == CHOOSE k \in above : \A j \in above : k <= j
    IN  {climbed[k][n] : k \in 0 .. steps - 1}

(* Mutant of PassDown: the last spawn edge, to the user itself, is left out. *)
PassDown_Short ==
    [n \in DOMAIN spawn_ops |->
        spawn_ops[n]
          \o (IF n \in PathTo(writer, ancestor) \ {writer}
              THEN <<writer_pipe_index(edge)>> ELSE <<>>)
          \o (IF n \in PathTo(reader, ancestor) THEN <<reader_pipe_index(edge)>> ELSE <<>>)]

(* The two walks back to the ancestor, each spawn edge given its pipe. *)
PassDown ==
    [n \in DOMAIN spawn_ops |->
        spawn_ops[n]
          \o (IF n \in PathTo(writer, ancestor) THEN <<writer_pipe_index(edge)>> ELSE <<>>)
          \o (IF n \in PathTo(reader, ancestor) THEN <<reader_pipe_index(edge)>> ELSE <<>>)]

pass ==
    /\ gpc = "pass"
    /\ spawn_ops' = PassDown
    /\ pipes_ops' = [pipes_ops EXCEPT ![ancestor] =
                        Append(@, <<reader_pipe_index(edge), writer_pipe_index(edge)>>)]
    /\ edge' = edge + 1
    /\ gpc' = "each_edge"
    /\ UNCHANGED <<tree, search, data>>

-----------------------------------------------------------------------------
(* The lists of dag::Data *)

SpawnOf(n) == [from |-> parent[n], child |-> n, pipes |-> spawn_ops[n]]
PipeOf(n, pair) == [vm |-> n, read_pipe |-> pair[1], write_pipe |-> pair[2]]

(* pipes_ops is a BTreeMap: its pairs are listed by node. *)
pipes_upto[n \in NodeIndex] ==
    (IF n = 0 THEN <<>> ELSE pipes_upto[n - 1])
      \o [i \in DOMAIN pipes_ops[n] |-> PipeOf(n, pipes_ops[n][i])]

build ==
    /\ EachEdge
    /\ edge > Len(write_edges)
    /\ data' = [data EXCEPT
                    !.spawns = [i \in DOMAIN spawn_edges |-> SpawnOf(spawn_edges[i])],
                    !.pipes = pipes_upto[GraphSpawns]]
    /\ gpc' = "generated"
    /\ UNCHANGED <<tree, spawn_ops, pipes_ops, edge, search>>

-----------------------------------------------------------------------------

generate_data_graph ==
    \/ \E n \in NodeIndex : add_node(n)
    \/ \E n, m \in NodeIndex : add_edge(n, m)
    \/ nodes_added \/ edges_added \/ traverse \/ next_edge \/ climb \/ pass
    \/ build

Generated == gpc = "generated"
GraphNext == generate_data_graph \/ (Generated /\ UNCHANGED graph_vars)
GraphSpec == GraphInit /\ [][GraphNext]_graph_vars
FairGraphSpec == GraphSpec /\ WF_graph_vars(GraphNext)

-----------------------------------------------------------------------------
(* Properties *)

Above(n) == {climbed[k][n] : k \in NodeIndex}

(* The search for the ancestor finds the lowest common one, whichever of   *)
(* the two climbs further and also when one is an ancestor of the other,   *)
(* and never meets the state its assertion excludes, both at the root with *)
(* nothing found.                                                          *)
LowestAncestor ==
    /\ gpc = "climb" => {a, b} # {Root}
    /\ gpc = "pass" =>
          /\ ancestor \in Above(writer) \cap Above(reader)
          /\ \A n \in Above(writer) \cap Above(reader) : n \in Above(ancestor)

Ends(w) == {<<w.from_pipe, w.from>>, <<w.to_pipe, w.to>>}
Listed(s) == {s[i] : i \in DOMAIN s}
PipeMakers(p) == {x \in Listed(data.pipes) : p \in {x.read_pipe, x.write_pipe}}
Carrying(p) == {s \in Listed(data.spawns) : p \in Listed(s.pipes)}

(* Every end of every pipe travels from the VM that creates the pair, one  *)
(* spawn at a time, to the VM that uses it, and stops there: each VM that  *)
(* passes it on has it, passes it to one child only, and is not the one    *)
(* that needs it.  (A spawn moves its pipes, so a VM that has passed an    *)
(* end on cannot use it, and passing one it does not have ends the run.)   *)
PipesReachTheirUsers ==
    Generated => \A w \in Listed(data.writes) : \A end \in Ends(w) :
        LET p == end[1]
            carrying == Carrying(p)
            given == {s.child : s \in carrying}
        IN  \E maker \in NodeIndex :
            /\ {x.vm : x \in PipeMakers(p)} = {maker}
            /\ \A s \in carrying : s.from \in {maker} \cup given
            /\ {maker} \cup given = {s.from : s \in carrying} \cup {end[2]}
            /\ \A s \in carrying :
                  /\ s.from # end[2]
                  /\ Cardinality({i \in DOMAIN s.pipes : s.pipes[i] = p}) = 1
                  /\ \A t \in carrying : t.from = s.from => t = s

(* Every VM but the root is spawned exactly once, by a VM that is the root *)
(* or was spawned earlier in the list.                                     *)
SpawnedOnce ==
    Generated =>
        /\ {data.spawns[i].child : i \in DOMAIN data.spawns} = 1 .. GraphSpawns
        /\ Len(data.spawns) = GraphSpawns
        /\ \A i \in DOMAIN data.spawns :
              data.spawns[i].from \in {Root} \cup {data.spawns[j].child : j \in 1 .. i - 1}

(* A graph is generated, however unlucky the choices: a write that finds   *)
(* no edge within converging_threshold attempts ends the search for edges. *)
GraphGenerated == <>Generated

=============================================================================
