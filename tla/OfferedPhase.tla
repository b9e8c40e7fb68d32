---------------------------- MODULE OfferedPhase -----------------------------
(***************************************************************************)
(* The tool phase over the tools a run was built with: executors that list *)
(* tools, a filter, and calls that name whatever the model thinks of.      *)
(***************************************************************************)
EXTENDS ToolPhase, ToolSet

CONSTANTS Toolings,   \* what a run may be built of: executors and a filter
          Turns       \* the uses of a turn

VARIABLES tooling,   \* what the run was built of
          set,       \* the tools that made
          uses,      \* the calls of the turn, as the model made them
          reached    \* the executor each call has reached, or 0

built == <<tooling, set, uses, reached>>

OfferedInit ==
  /\ tooling \in {t \in Toolings : Builds(t.executors, t.filter)}
  /\ set = Build(tooling.executors, tooling.filter)
  /\ uses \in Turns
  /\ reached = [i \in DOMAIN uses |-> 0]
  /\ Init
  /\ calls = [i \in DOMAIN uses |-> CallOf(set, uses[i])]

\* A call that starts reaches the executor its name is routed to.
OfferedTurn(i) ==
  /\ Turn(i)
  /\ reached' = IF place'[i] = "running"
                THEN [reached EXCEPT ![i] = set.routes[uses[i].name]]
                ELSE reached
  /\ UNCHANGED <<tooling, set, uses>>

OfferedStep ==
  \/ (NextGroup \/ Take) /\ UNCHANGED built
  \/ \E i \in DOMAIN calls : OfferedTurn(i) \/ (Drop(i) /\ UNCHANGED built)

OfferedNext ==
  \/ OfferedStep
  \/ ((\E i \in DOMAIN calls : End(i)) \/ Tick \/ Cancel \/ Done) /\ UNCHANGED built

OfferedSpec ==
  OfferedInit /\ [][OfferedNext]_<<vars, built>> /\ WF_<<vars, built>>(OfferedStep)

-----------------------------------------------------------------------------
\* A call that reaches an executor reaches the one executor of the run that
\* lists its tool, with arguments that parsed, and only when the filter offers
\* the name; whatever the filter says, no executor is handed the call that
\* completes an explicit run (toolset.rs build, execute; service.rs settle).
ReachesItsTool ==
  \A i \in DOMAIN uses : reached[i] # 0 =>
    LET name == uses[i].name
        lists(e) == \E k \in DOMAIN tooling.executors[e] : tooling.executors[e][k].name = name
    IN  /\ {e \in DOMAIN tooling.executors : lists(e)} = {reached[i]}
        /\ uses[i].parsed
        /\ name \notin tooling.filter.deny
        /\ tooling.filter.allow # {} => name \in tooling.filter.allow
        /\ ~(Mode = "explicit" /\ name = TaskComplete)

\* What an executor lists as exclusive is never run while another call of the
\* turn is, whatever its executor's other tools allow (toolset.rs concurrency,
\* run.rs Pending::answer).
AloneAsListed ==
  \A i, j \in DOMAIN uses : i # j /\ place[i] = "running" /\ place[j] = "running" =>
    \E k \in DOMAIN tooling.executors[reached[i]] :
      LET tool == tooling.executors[reached[i]][k]
      IN  tool.name = uses[i].name /\ tool.concurrency = "shared"

\* A call is run as what its tool was listed as: by its executor, and beside
\* others only if they may share (toolset.rs build, concurrency).
ToolsAsListed == ReachesItsTool /\ AloneAsListed
=============================================================================
