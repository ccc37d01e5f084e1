------------------------------ MODULE UserRows ------------------------------
(* The rows a user keeps per repository and the requests for them: flows     *)
(* (seeded from the defaults on first use, replaced or reseeded as a whole), *)
(* worktree commands and polling settings. Requests are handlers that await  *)
(* between their statements, so they interleave; a row is written by one     *)
(* statement. What the validation accepts is a parameter.                    *)
EXTENDS Sequences

CONSTANTS
    UsReqs,         \* requests of one user for one repository
    Defaults,       \* the flows a user starts from
    ValidLists,     \* the flow lists a put may carry
    CommandBodies,  \* the worktree commands a put may carry
    PollingBodies   \* the polling settings a put may carry

ASSUME UserRowsAssumption == Defaults # << >>

VARIABLES
    usFlows,     \* user_work_item_flows: << >>, or the row <<list>>
    usRows,      \* ["commands", "polling" -> << >>, or the row <<body>>]
    usPc,        \* [UsReqs -> where the handler is]
    usReq,       \* [UsReqs -> operation and body]
    usAnswer,    \* [UsReqs -> what was answered, <<kind>> or <<kind, value>>]
    usLast       \* observation: the row a put or a reseed last wrote

usVars == <<usFlows, usRows, usPc, usReq, usAnswer, usLast>>

-----------------------------------------------------------------------------
UsInit ==
    /\ usFlows = << >> /\ usRows = [t \in {"commands", "polling"} |-> << >>]
    /\ usPc = [r \in UsReqs |-> "idle"] /\ usReq = [r \in UsReqs |-> <<"none">>]
    /\ usAnswer = [r \in UsReqs |-> <<"none">>] /\ usLast = << >>

(* Steps of a handler: it moves on, or answers and is done. *)
UsGoto(r, pc) == usPc' = [usPc EXCEPT ![r] = pc] /\ UNCHANGED usAnswer
Answer(r, a) == usPc' = [usPc EXCEPT ![r] = "done"] /\ usAnswer' = [usAnswer EXCEPT ![r] = a]
Arrives(r, pc, req) == usPc[r] = "idle" /\ UsGoto(r, pc) /\ usReq' = [usReq EXCEPT ![r] = req]

(* get_my_flows, put_my_flows, reseed_my_flows, and the engine's             *)
(* resolve_user_flows when the board or a driver asks for the definitions.   *)
GetFlows(r) == Arrives(r, "read", <<"get">>) /\ UNCHANGED <<usFlows, usRows, usLast>>
ResolveFlows(r) == Arrives(r, "read", <<"resolve">>) /\ UNCHANGED <<usFlows, usRows, usLast>>
PutFlows(r) ==
    /\ usPc[r] = "idle" /\ UNCHANGED <<usFlows, usRows, usLast>>
    /\ \E fl \in ValidLists : Arrives(r, "set", <<"put", fl>>)
ReseedFlows(r) == Arrives(r, "set", <<"put", Defaults>>) /\ UNCHANGED <<usFlows, usRows, usLast>>

(* get, and for a row that is absent seed_if_absent and get again *)
ReadFlows(r) ==
    /\ usPc[r] = "read"
    /\ IF usFlows = << >> THEN UsGoto(r, "seed") ELSE Answer(r, <<"flows", usFlows[1]>>)
    /\ UNCHANGED <<usFlows, usRows, usReq, usLast>>

(* A mutant: the seed is a plain upsert. *)
SeedOverwrites == usFlows' = <<Defaults>>

(* A mutant: the seed is left to the eager seeders. *)
SeedSkipped == UNCHANGED usFlows

SeedIfAbsent == usFlows' = IF usFlows = << >> THEN <<Defaults>> ELSE usFlows

SeedFlows(r) ==
    /\ usPc[r] = "seed" /\ SeedIfAbsent /\ UsGoto(r, "back")
    /\ UNCHANGED <<usRows, usReq, usLast>>

SetFlows(r) ==
    /\ usPc[r] = "set" /\ usFlows' = <<usReq[r][2]>> /\ usLast' = usFlows' /\ UsGoto(r, "back")
    /\ UNCHANGED <<usRows, usReq>>

ReadBack(r) ==
    /\ usPc[r] = "back" /\ Answer(r, <<"flows", IF usFlows = << >> THEN << >> ELSE usFlows[1]>>)
    /\ UNCHANGED <<usFlows, usRows, usReq, usLast>>

(* Worktree commands and polling settings: upsert and read back, or delete. *)
PutCommands(r) ==
    /\ usPc[r] = "idle" /\ UNCHANGED <<usFlows, usRows, usLast>>
    /\ \E b \in CommandBodies : Arrives(r, "upsert", <<"commands", b>>)
PutPolling(r) ==
    /\ usPc[r] = "idle" /\ UNCHANGED <<usFlows, usRows, usLast>>
    /\ \E b \in PollingBodies : Arrives(r, "upsert", <<"polling", b>>)

UpsertRow(r, table) ==
    /\ usPc[r] = "upsert" /\ usReq[r][1] = table
    /\ usRows' = [usRows EXCEPT ![table] = <<usReq[r][2]>>] /\ UsGoto(r, "fetch")
    /\ UNCHANGED <<usFlows, usReq, usLast>>

UpsertCommands(r) == UpsertRow(r, "commands")
SetPolling(r) == UpsertRow(r, "polling")

FetchRow(r) ==
    /\ usPc[r] = "fetch"
    /\ LET row == usRows[usReq[r][1]] IN
         Answer(r, IF row = << >> THEN <<"disappeared">> ELSE <<"row", row[1]>>)
    /\ UNCHANGED <<usFlows, usRows, usReq, usLast>>

DeletePolling(r) ==
    /\ usPc[r] = "idle" /\ Answer(r, <<IF usRows["polling"] = << >> THEN "not found" ELSE "deleted">>)
    /\ usRows' = [usRows EXCEPT !["polling"] = << >>] /\ UNCHANGED <<usFlows, usReq, usLast>>

(* The row is read for the audit line before it is deleted. *)
DeleteCommands(r) == Arrives(r, "delete", <<"delete", usRows["commands"]>>) /\ UNCHANGED <<usFlows, usRows, usLast>>

DeleteCommandsRow(r) ==
    /\ usPc[r] = "delete" /\ Answer(r, <<IF usRows["commands"] = << >> THEN "not found" ELSE "deleted">>)
    /\ usRows' = [usRows EXCEPT !["commands"] = << >>] /\ UNCHANGED <<usFlows, usReq, usLast>>

(* A driver asks for the init commands before the worktree is set up, and    *)
(* for the report flag when a flow starts: two queries.                      *)
ResolveInitCommands(r) ==
    /\ LET row == usRows["commands"] IN
         Arrives(r, "report", <<"driver", IF row = << >> THEN << >> ELSE row[1].init>>)
    /\ UNCHANGED <<usFlows, usRows, usLast>>

ResolveGenerateReport(r) ==
    /\ usPc[r] = "report"
    /\ LET row == usRows["commands"] IN Answer(r, <<"report", row # << >> /\ row[1].report>>)
    /\ UNCHANGED <<usFlows, usRows, usReq, usLast>>

ResolvePolling(r) ==
    /\ usPc[r] = "idle"
    /\ LET row == usRows["polling"] IN Answer(r, <<"keys", IF row = << >> THEN << >> ELSE row[1].keys>>)
    /\ UNCHANGED <<usFlows, usRows, usReq, usLast>>

(* A query fails: a handler answers with the error, what is resolved for the *)
(* engine falls back, and a failed lazy seed is followed by the second read. *)
QueryFails(r) ==
    /\ usPc[r] \notin {"idle", "done"}
    /\ CASE usReq[r][1] = "resolve" /\ usPc[r] = "seed" -> UsGoto(r, "back")
         [] usReq[r][1] = "resolve" /\ usPc[r] # "seed" -> Answer(r, <<"flows", << >>>>)
         [] usReq[r][1] = "driver" -> Answer(r, <<"report", FALSE>>)
         [] OTHER -> Answer(r, <<"error">>)
    /\ UNCHANGED <<usFlows, usRows, usReq, usLast>>

UsNext ==
    \E r \in UsReqs :
        \/ GetFlows(r) \/ ResolveFlows(r) \/ PutFlows(r) \/ ReseedFlows(r)
        \/ ReadFlows(r) \/ SeedFlows(r) \/ SetFlows(r) \/ ReadBack(r)
        \/ PutCommands(r) \/ PutPolling(r) \/ UpsertCommands(r) \/ SetPolling(r) \/ FetchRow(r)
        \/ DeletePolling(r) \/ DeleteCommands(r) \/ DeleteCommandsRow(r)
        \/ ResolveInitCommands(r) \/ ResolveGenerateReport(r) \/ ResolvePolling(r) \/ QueryFails(r)

UsSpec == UsInit /\ [][UsNext]_usVars

-----------------------------------------------------------------------------
(* What is stored was accepted by the validation, or is the defaults         *)
(* (put_my_flows, reseed_my_flows).                                          *)
StoredWasAccepted == usFlows = << >> \/ usFlows[1] \in ValidLists \cup {Defaults}

(* The lazy seed of a read that found no row never undoes a list that was    *)
(* written meanwhile: what is stored is what was last put or reseeded        *)
(* (me_flows.rs get, seed_if_absent).                                        *)
SeedNeverOverwrites == usLast # << >> => usFlows = usLast

(* A read is answered with the defaults or with a list somebody put, never   *)
(* with nothing, also when it raced other requests to seed the row.          *)
ReadsSeeDefaults ==
    \A r \in UsReqs : usPc[r] = "done" /\ usReq[r][1] = "get"
                        => usAnswer[r] # <<"flows", << >>>> \/ usLast # << >>

=============================================================================
