---------------------------- MODULE UserSettings ----------------------------
(* What the validation accepts of the flows, worktree commands and polling   *)
(* settings of a user, which UserRows stores.                                *)
(*                                                                           *)
(* A flow list is modelled with its names, slugs and dependencies; of the    *)
(* other bodies only whether they are accepted matters.                      *)
EXTENDS FlowGraph, UserRows

CONSTANTS
    UsNames,        \* flow names, among "", "-", "A", "a", "B"
    MaxFlows,       \* MAX_FLOWS_PER_WORKSPACE
    MaxCommands     \* MAX_COMMANDS, and the keys of MAX_KEYS

ASSUME UserSettingsAssumption == MaxFlows \in Nat /\ MaxCommands \in Nat

DefaultFlowList == <<[name |-> "A", deps |-> << >>, steps |-> TRUE]>>
Flow == [name : UsNames, deps : {<< >>} \cup {<<n>> : n \in UsNames}, steps : {TRUE}]
FlowLists ==
    {<< >>} \cup {<<f>> : f \in Flow} \cup {<<f, g>> : f, g \in Flow}
            \cup {<<[f EXCEPT !.steps = FALSE]>> : f \in Flow}
Texts == {"x", "y", " x", " ", "nul", "long"}
InitLists == {<< >>} \cup {<<c>> : c \in Texts} \cup {<<"x", "y">>, <<"x", "x", "y">>}
RunLists == {<< >>} \cup {<<[name |-> n, command |-> c]>> : n \in {"x", " ", "nul"}, c \in {"x", "long"}}
            \cup {<<[name |-> "x", command |-> "x"], [name |-> n, command |-> "y"]>> : n \in Texts}
KeyLists == {<< >>, <<"K">>, <<"K-1">>, <<"">>, <<"K", "K", "K">>}

-----------------------------------------------------------------------------
(* slugify: lower case, anything else a dash, dashes at the ends cut off *)
Slug == [n \in UsNames |-> CASE n \in {"A", "a"} -> "a" [] n = "B" -> "b" [] OTHER -> ""]

NamesOf(flows) == {flows[i].name : i \in DOMAIN flows}
DepsByName(flows) == [n \in NamesOf(flows) |-> (CHOOSE f \in ToSet(flows) : f.name = n).deps]

(* detect_cycle: the same search over the names, refused at the first grey *)
HasCycle(flows) == DetectCycles(DepsByName(flows), SetToSeq(NamesOf(flows))) # {}

(* A mutant: names that differ are taken to have different slugs. *)
DistinctNamesOnly(flows) == \A i, j \in DOMAIN flows : flows[i].name = flows[j].name => i = j

DistinctSlugs(flows) == \A i, j \in DOMAIN flows : Slug[flows[i].name] = Slug[flows[j].name] => i = j

ValidateUserFlows(flows) ==
    /\ Len(flows) <= MaxFlows
    /\ \A i \in DOMAIN flows : flows[i].name # "" /\ Slug[flows[i].name] # ""
    /\ \A i, j \in DOMAIN flows : flows[i].name = flows[j].name => i = j
    /\ DistinctSlugs(flows)
    /\ \A i \in DOMAIN flows : flows[i].steps /\ ToSet(flows[i].deps) \subseteq NamesOf(flows)
    /\ ~HasCycle(flows)

(* The lists a put may carry; the others are answered with the reason. *)
AcceptedLists == {fl \in FlowLists : ValidateUserFlows(fl)}

(* user_flows_to_discovered: by slug, valid unless the dependencies are not *)
DiscoveredValid(flows) ==
    LET slugs == {Slug[n] : n \in NamesOf(flows)}
        last(s) == CHOOSE i \in DOMAIN flows :
                     Slug[flows[i].name] = s /\ \A j \in (i + 1)..Len(flows) : Slug[flows[j].name] # s
        deps == [s \in slugs |-> [k \in DOMAIN flows[last(s)].deps |-> Slug[flows[last(s)].deps[k]]]] IN
      ValidateDependencies(slugs, deps, SetToSeq(slugs))

-----------------------------------------------------------------------------
Trim(c) == IF c = " x" THEN "x" ELSE c
Blank(c) == Trim(c) = " "

ValidateInitCommands(cmds) ==
    Len(cmds) <= MaxCommands /\ \A i \in DOMAIN cmds : ~Blank(cmds[i]) /\ cmds[i] \notin {"nul", "long"}

ValidateRunCommands(cmds) ==
    /\ Len(cmds) <= MaxCommands
    /\ \A i \in DOMAIN cmds : \A c \in {cmds[i].name, cmds[i].command} : ~Blank(c) /\ c \notin {"nul", "long"}
    /\ \A i, j \in DOMAIN cmds : Trim(cmds[i].name) = Trim(cmds[j].name) => i = j

AcceptedCommands ==
    {b \in [init : InitLists, run : RunLists, report : BOOLEAN] :
        ValidateInitCommands(b.init) /\ ValidateRunCommands(b.run)}

(* validate_settings: alphanumeric keys *)
AcceptedPolling ==
    {b \in [auto : BOOLEAN, keys : KeyLists] :
        Len(b.keys) <= MaxCommands /\ \A i \in DOMAIN b.keys : b.keys[i] \in {"K"}}

(* What UserRows stores.                                                     *)
ASSUME AcceptedAssumption ==
    /\ Defaults = DefaultFlowList /\ ValidLists = AcceptedLists
    /\ CommandBodies = AcceptedCommands /\ PollingBodies = AcceptedPolling

-----------------------------------------------------------------------------
(* A list the editor accepted is one every flow of which can be started:     *)
(* validation works on names and the engine on slugs, and still no flow of   *)
(* a stored list is invalid, missing or in a cycle when it is resolved       *)
(* (validate_user_flows, user_flows_to_discovered).                          *)
StoredFlowsStartable ==
    usFlows # << >> =>
        LET flows == usFlows[1]
            slugs == {Slug[n] : n \in NamesOf(flows)} IN
          DiscoveredValid(flows) = slugs /\ Cardinality(slugs) = Len(flows)

(* Flows, as one invariant: those read from files are acyclic, ordered and  *)
(* runnable, those a user stored can be started, and no seed undoes a write.*)
FlowsSafe ==
    /\ CyclesBroken /\ OrderTotal /\ SeedsRunnable
    /\ StoredFlowsStartable /\ SeedNeverOverwrites /\ ReadsSeeDefaults

=============================================================================
