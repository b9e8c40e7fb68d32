------------------------------- MODULE ToolSet ------------------------------
(***************************************************************************)
(* The tools of a run: what its executors list, kept by the filter, with   *)
(* the completion tool when the run completes explicitly; and what a call  *)
(* of the model is to the loop, once its name has been looked up in them.  *)
(*                                                                         *)
(* An executor is the tools it lists in order, each with its name and its  *)
(* concurrency, or it can't list them; a filter is the names it allows and *)
(* the names it denies; and a use is the name a call has and whether its   *)
(* arguments parsed.                                                       *)
(***************************************************************************)
EXTENDS ToolCalls, Naturals, Sequences

Unlisted == <<[name |-> "", concurrency |-> "none"]>>

TaskComplete == "task_complete"

\* Mutant: what's allowed can't be denied.
OffersAllowed(filter, name) == filter.allow = {} \/ name \in filter.allow

Offers(filter, name) ==
  name \notin filter.deny /\ (filter.allow = {} \/ name \in filter.allow)

\* Where the tools called name are listed.
ListedAt(executors, name) ==
  UNION {{<<e, k>> : k \in {k \in DOMAIN executors[e] : executors[e][k].name = name}} :
           e \in DOMAIN executors}

NamesListed(executors) ==
  UNION {{executors[e][k].name : k \in DOMAIN executors[e]} : e \in DOMAIN executors}

\* A name is claimed once, the completion tool's before any executor's, and
\* before the filter is asked.
ClaimedOnce(executors) ==
  \A name \in NamesListed(executors) :
    /\ \A at, other \in ListedAt(executors, name) : at = other
    /\ ~(Mode = "explicit" /\ name = TaskComplete)

\* Whether the tools of a run can be settled.
Builds(executors, filter) ==
  /\ \A e \in DOMAIN executors : executors[e] # Unlisted
  /\ ClaimedOnce(executors)
  /\ filter.allow \union filter.deny \subseteq NamesListed(executors)

Listing(executors, name) == CHOOSE at \in ListedAt(executors, name) : TRUE

\* The executor that serves each name that's routed.
Routes(executors, filter) ==
  [name \in {n \in NamesListed(executors) : Offers(filter, n)} |-> Listing(executors, name)[1]]

\* The names the model is offered: the filter doesn't apply to the completion
\* tool.
Offered(executors, filter) ==
  DOMAIN Routes(executors, filter) \union (IF Mode = "explicit" THEN {TaskComplete} ELSE {})

\* The completion tool, and a name that isn't offered, may run beside others.
Concurrency(executors, filter, name) ==
  IF name \in DOMAIN Routes(executors, filter)
  THEN LET at == Listing(executors, name) IN executors[at[1]][at[2]].concurrency
  ELSE "shared"

\* The set a run is given, settled once and never asked again.
Build(executors, filter) ==
  LET offered == Offered(executors, filter)
  IN  [routes |-> Routes(executors, filter),
       concurrency |-> [name \in offered |-> Concurrency(executors, filter, name)]]

\* What the loop makes of a call.
CallOf(set, use) ==
  LET offered == use.name \in DOMAIN set.concurrency
  IN  [name |-> IF ~offered THEN "unoffered"
                ELSE IF use.name = TaskComplete THEN "task_complete" ELSE "served",
       parsed |-> use.parsed,
       concurrency |-> IF offered THEN set.concurrency[use.name] ELSE "shared"]
=============================================================================
