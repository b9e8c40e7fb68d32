--------------------------- MODULE MCOfferedPhase ---------------------------
(***************************************************************************)
(* Small instances of OfferedPhase: what a run is built of, and the calls  *)
(* a turn makes.                                                           *)
(***************************************************************************)
EXTENDS OfferedPhase

Use(name, parsed) == [name |-> name, parsed |-> parsed]
Tool(name, concurrency) == [name |-> name, concurrency |-> concurrency]
Filter(allow, deny) == [allow |-> allow, deny |-> deny]

Files == <<Tool("read", "shared"), Tool("write", "exclusive")>>
Server == <<Tool("search", "exclusive")>>

\* Runs that can be built, with nothing filtered and with each list of the
\* filter; and runs that can't: a name twice, one denied, the completion
\* tool's, a name nobody lists, and an executor that can't list its tools.
ManyToolings ==
  [executors : {<<Files>>, <<Server, Files>>}, filter : {Filter({}, {}), Filter({}, {"write"})}]
  \union [executors : {<<Files, Server>>},
          filter : {Filter({"read", "write"}, {"write"}), Filter({"write"}, {})}]
  \union [executors : {<<Files, <<Tool("write", "shared")>>>>}, filter : {Filter({}, {"write"})}]
  \union [executors : {<<Files, <<Tool(TaskComplete, "shared")>>>>, <<Files, Unlisted>>},
          filter : {Filter({}, {})}]
  \union [executors : {<<Files>>}, filter : {Filter({"gone"}, {}), Filter({}, {"gone"})}]

Read == Use("read", TRUE)
Write == Use("write", TRUE)
Unparsed == Use("write", FALSE)
Search == Use("search", TRUE)
Complete == Use(TaskComplete, TRUE)

\* Turns of up to three calls, and longer ones whose groups outgrow the pool
\* or follow one another.
ManyTurns ==
  UNION {[1..n -> {Read, Write, Complete}] : n \in 1..2} \union [1..3 -> {Read, Write}]
  \union {<<Read, Read, Read, Write>>, <<Write, Search, Read, Read>>,
          <<Read, Complete, Read>>, <<Complete, Read, Write>>,
          <<Unparsed, Read, Unparsed>>, <<Read, Unparsed, Write>>, <<Search, Search>>}

\* What the calls of a turn may be to the loop.
ManySets ==
  {Build(t.executors, t.filter) : t \in {t \in ManyToolings : Builds(t.executors, t.filter)}}

ManyPhases ==
  {[i \in DOMAIN turn |-> CallOf(tools, turn[i])] : turn \in ManyTurns, tools \in ManySets}
=============================================================================
