----------------------------- MODULE FlowGraph ------------------------------
(* Workflow definitions read from a directory: parsed, their dependencies   *)
(* validated, ordered for display, and turned into the default flows every  *)
(* user starts from. Files are numbered in the order of their names, and a  *)
(* number also stands for the flow name in the file: they are distinct.     *)
EXTENDS Integers, Sequences, FiniteSets, SequencesExt, Relation

CONSTANTS
    Files,          \* the definition files, 1..n
    FileKinds,      \* among "agent", "commands" (no agent step), "badstep", "unparsable"
    MaxDeps         \* bound: dependencies of a file

ASSUME FlowGraphAssumption ==
    /\ Files = 1..Cardinality(Files)
    /\ FileKinds \subseteq {"agent", "commands", "badstep", "unparsable"}
    /\ MaxDeps \in Nat

VARIABLES
    fgDefs,     \* [Files -> kind, deps]
    fgRoots,    \* the order in which a HashMap yields its keys
    fgPc,       \* "read", "found", "seeded"
    fgValid,    \* files whose definition is valid
    fgSeeds     \* default_flows_from_dir

fgVars == <<fgDefs, fgRoots, fgPc, fgValid, fgSeeds>>

-----------------------------------------------------------------------------
DfsLosesPath(g, n, st) ==
    [st EXCEPT !.black = @ \cup {n},
               !.marked = IF Contains(g[n], n) THEN @ \cup {n} ELSE @]

(* detect_cycles: depth-first search; a dependency on a grey node marks the   *)
(* part of the path that starts there.                                       *)
RECURSIVE Dfs(_, _, _)
Dfs(g, n, st) ==
    LET visit(s, d) ==
          IF Contains(s.path, d)
          THEN LET from == CHOOSE i \in DOMAIN s.path : s.path[i] = d IN
                 [s EXCEPT !.marked = @ \cup {s.path[i] : i \in from..Len(s.path)}]
          ELSE IF d \in DOMAIN g \ s.black THEN Dfs(g, d, s) ELSE s
        inner == FoldLeft(visit, [st EXCEPT !.path = Append(@, n)], g[n]) IN
      [inner EXCEPT !.path = Front(@), !.black = @ \cup {n}]

DetectCycles(g, roots) ==
    LET from(s, n) == IF n \in DOMAIN g \ s.black THEN Dfs(g, n, s) ELSE s IN
      FoldLeft(from, [path |-> << >>, black |-> {}, marked |-> {}], roots).marked

(* validate_dependencies: files with a reference to no valid file, then the  *)
(* members of cycles, lose their validity.                                   *)
ValidateDependencies(ok, deps, roots) ==
    LET resolved == {f \in ok : ToSet(deps[f]) \subseteq ok} IN
      resolved \ DetectCycles([f \in resolved |-> deps[f]], roots)

OrderFromAny(valid, deps, order) == SetToSortSeq(valid, LAMBDA a, b : a < b)

(* Kahn's algorithm with a sorted queue: the least file whose dependencies   *)
(* among the valid ones are all placed comes next.                           *)
RECURSIVE OrderFrom(_, _, _)
OrderFrom(valid, deps, order) ==
    LET ready == {f \in valid \ ToSet(order) : ToSet(deps[f]) \cap valid \subseteq ToSet(order)} IN
      IF ready = {} THEN order
      ELSE OrderFrom(valid, deps, Append(order, CHOOSE f \in ready : \A g \in ready : f <= g))

TopologicalOrder(valid, deps) == OrderFrom(valid, deps, << >>)

DependenciesAsGiven(remaining, ordered) == remaining

(* order_flows_dependencies_first: stable; a cycle's flows keep their order. *)
RECURSIVE DependenciesFirst(_, _)
DependenciesFirst(remaining, ordered) ==
    LET placed == {ordered[i].name : i \in DOMAIN ordered}
        free == {i \in DOMAIN remaining : ToSet(remaining[i].deps) \subseteq placed} IN
      CASE remaining = << >> -> ordered
        [] remaining # << >> /\ free = {} -> ordered \o remaining
        [] OTHER ->
             LET i == CHOOSE i \in free : \A j \in free : i <= j IN
               DependenciesFirst(RemoveAt(remaining, i), Append(ordered, remaining[i]))

(* convert_single_step and parse_workflow_file, by kind of file *)
ParsesAs(kind) == kind \in {"agent", "commands"}

(* agent_steps_to_flow_steps keeps only agent steps: a flow with none is      *)
(* skipped. Dependencies become flow names; those on a skipped file go.      *)
DefaultFlows(defs, valid) ==
    LET kept == SetToSortSeq({f \in valid : defs[f].kind = "agent"}, LAMBDA a, b : a < b)
        names(deps) == SelectSeq(deps, LAMBDA d : Contains(kept, d)) IN
      DependenciesFirst([i \in DOMAIN kept |-> [name |-> kept[i], deps |-> names(defs[kept[i]].deps)]], << >>)

-----------------------------------------------------------------------------
FgInit ==
    /\ fgDefs \in [Files -> [kind : FileKinds,
                             deps : {s \in UNION {[1..n -> Files] : n \in 0..MaxDeps} : IsInjective(s)}]]
    /\ fgRoots \in SetToSeqs(Files)
    /\ fgPc = "read" /\ fgValid = {} /\ fgSeeds = << >>

DiscoverWorkflows ==
    /\ fgPc = "read" /\ fgPc' = "found"
    /\ fgValid' = ValidateDependencies({f \in Files : ParsesAs(fgDefs[f].kind)},
                                       [f \in Files |-> fgDefs[f].deps], fgRoots)
    /\ UNCHANGED <<fgDefs, fgRoots, fgSeeds>>

SeedDefaults ==
    /\ fgPc = "found" /\ fgPc' = "seeded"
    /\ fgSeeds' = DefaultFlows(fgDefs, fgValid)
    /\ UNCHANGED <<fgDefs, fgRoots, fgValid>>

FgNext == DiscoverWorkflows \/ SeedDefaults
FgSpec == FgInit /\ [][FgNext]_fgVars

-----------------------------------------------------------------------------
fgDeps == [f \in Files |-> fgDefs[f].deps]
DependsTransitively(S) ==
    TransitiveClosure([e \in S \X S |-> Contains(fgDeps[e[1]], e[2])], S)

(* Whatever the files say and in whatever order the map yields them, the     *)
(* definitions that stay valid have no cyclic dependency, so none of them    *)
(* waits for itself (detect_cycles).                                         *)
CyclesBroken ==
    fgPc # "read" => \A f \in fgValid : ~DependsTransitively(fgValid)[f, f]

(* The display order lists every valid definition once, after the valid      *)
(* definitions it depends on (topological_order).                            *)
OrderTotal ==
    fgPc = "found" =>
        LET order == TopologicalOrder(fgValid, fgDeps) IN
          /\ ToSet(order) = fgValid /\ Len(order) = Cardinality(fgValid)
          /\ \A i, j \in DOMAIN order : Contains(fgDeps[order[i]], order[j]) => j < i

(* Every default flow is listed after all flows it depends on: run from      *)
(* first to last, none is refused for a dependency                           *)
(* (default_flows_from_dir, order_flows_dependencies_first).                 *)
SeedsRunnable ==
    fgPc = "seeded" =>
        \A i \in DOMAIN fgSeeds : \A d \in ToSet(fgSeeds[i].deps) :
            \E j \in 1..(i - 1) : fgSeeds[j].name = d

(* "Returns the set of filenames that are part of at least one cycle": every *)
(* definition on a cycle is flagged.                                         *)
CycleMembersFlagged ==
    fgPc = "found" => \A f \in Files : DependsTransitively(Files)[f, f] => f \notin fgValid
=============================================================================
