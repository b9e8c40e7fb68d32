----------------------------- MODULE RunCommand -----------------------------
(***************************************************************************)
(* `lablet run` from its start to its exit code (main.rs run_command,      *)
(* compose.rs, cli/signals.rs), with the telemetry behind it               *)
(* (export/telemetry.rs): two providers, of spans and of log records, each *)
(* with a batch processor for every destination, whose threads export what *)
(* the run queued while the run, its flush and the shutdown go on.  The    *)
(* run itself is one interval here; RunLoop and Runner are its inside.     *)
(*                                                                         *)
(* A collector may never answer.  The process may be sent stop signals and *)
(* may be killed at any time, and may find a file that a process before it *)
(* left part of a line in.                                                 *)
(***************************************************************************)
EXTENDS FileSink

CONSTANT MaxSpans  \* bound: the spans a run ends before its root span

Signals == {"spans", "records"}
Destinations == {"file", "network"}

ASSUME CommandAssumption == MaxSpans \in Nat /\ Exporters = Signals

VARIABLES pc,       \* where run_command is
          stopping, \* whether the run's CancelHandle was fired
          network,  \* whether a collector is named
          emitted,  \* history: what the run emitted
          queue,    \* what each destination's processor holds of each signal
          sending,  \* the signals with an export that a collector hasn't answered
          at        \* which processor each provider is flushing, by its place

telemetry == <<emitted, queue, sending>>
vars == <<sinkVars, pc, stopping, network, telemetry, at>>

Started == {"running", "flushing", "stopping"}

TypeOK ==
  /\ SinkTypeOK
  /\ pc \in {"starting", "building", "over", "killed"} \union Started
  /\ {stopping, network} \subseteq BOOLEAN
  /\ emitted \subseteq Signals \X (0..MaxSpans)
  /\ sending \subseteq Signals /\ at \in [Signals -> 1..3]
  /\ \A s \in Signals, d \in Destinations : queue[s][d] \subseteq emitted

NothingQueued == [s \in Signals |-> [d \in Destinations |-> {}]]

Init ==
  /\ SinkInit /\ network \in BOOLEAN
  /\ pc = "starting" /\ stopping = FALSE
  /\ emitted = {} /\ queue = NothingQueued /\ sending = {}
  /\ at = [s \in Signals |-> 1]

-----------------------------------------------------------------------------
(* The providers and their processors.                                     *)

\* Mutant: the network's processors are registered first.
NetworkFirst ==
  (IF network THEN <<"network">> ELSE <<>>) \o (IF target # "none" THEN <<"file">> ELSE <<>>)

\* Each provider's processors, in the order they were registered.
Processors ==
  (IF target # "none" THEN <<"file">> ELSE <<>>) \o (IF network THEN <<"network">> ELSE <<>>)

Registered(d) == \E i \in DOMAIN Processors : Processors[i] = d

\* Items are handed to every destination of their signal, and only queued.
Emit(items) ==
  /\ emitted' = emitted \union items
  /\ queue' = [s \in Signals |-> [d \in Destinations |->
       IF Registered(d) THEN queue[s][d] \union {i \in items : i[1] = s} ELSE {}]]

Exporting(s, d) == IF d = "file" THEN line.by = s ELSE s \in sending

\* A processor's thread exports what its queue holds, as its schedule or a
\* flush has it.
ExportBegins(s, d) ==
  /\ queue[s][d] # {} /\ ~Exporting(s, d)
  /\ queue' = [queue EXCEPT ![s][d] = {}]
  /\ IF d = "file" THEN BeginLine(s, queue[s][d]) /\ UNCHANGED sending
     ELSE sending' = sending \union {s} /\ UNCHANGED sinkVars
  /\ UNCHANGED <<pc, stopping, network, emitted, at>>

\* The collector has answered, or its timeout has passed.
Answered(s) ==
  /\ s \in sending
  /\ sending' = sending \ {s}
  /\ UNCHANGED <<sinkVars, pc, stopping, network, emitted, queue, at>>

SinkStep ==
  /\ WriteLine \/ Move
  /\ UNCHANGED <<pc, stopping, network, telemetry, at>>

Flushes == pc \in {"flushing", "stopping"}
Flushing(s, d) == Flushes /\ at[s] <= Len(Processors) /\ Processors[at[s]] = d
Onward(s) ==
  /\ at' = [at EXCEPT ![s] = @ + 1]
  /\ UNCHANGED <<sinkVars, pc, stopping, network, telemetry>>

\* The processor has exported all it held.
Flushed(s, d) == Flushing(s, d) /\ queue[s][d] = {} /\ ~Exporting(s, d) /\ Onward(s)

\* Mutant: a flush waits for as long as the collector takes.
NeverGivenUp(s) == FALSE /\ Onward(s)

\* The SDK gives a processor five seconds, and a collector may take them.
GivenUp(s) == Flushing(s, "network") /\ Exporting(s, "network") /\ Onward(s)

AllFlushed == \A s \in Signals : at[s] > Len(Processors)

-----------------------------------------------------------------------------
(* run_command.                                                            *)

\* The process is over: its threads end wherever they are, and what it kept
\* in its memory is gone.
Ends(as) ==
  /\ pc' = as /\ stopping' = FALSE
  /\ SinkEnds
  /\ emitted' = {} /\ queue' = NothingQueued /\ sending' = {}
  /\ at' = [s \in Signals |-> 1]
  /\ UNCHANGED network

\* The config, the prompt or the build is refused, or signals can't be caught.
Refuse == pc \in {"starting", "building"} /\ Ends("over")

CatchSignals ==
  /\ pc = "starting" /\ pc' = "building"
  /\ UNCHANGED <<sinkVars, stopping, network, telemetry, at>>

\* The run is composed and begins: Telemetry::begin_run.
Begin ==
  /\ pc = "building" /\ pc' = "running"
  /\ SinkStart
  /\ UNCHANGED <<stopping, network, telemetry, at>>

SpanEnds ==
  /\ pc = "running"
  /\ \E n \in 1..MaxSpans :
       /\ <<"spans", n>> \notin emitted
       /\ Emit({<<"spans", n>>})
  /\ UNCHANGED <<sinkVars, pc, stopping, network, sending, at>>

\* The run returns, having ended its root span and emitted its wide event,
\* and its telemetry is flushed.
RunReturns ==
  /\ pc = "running" /\ pc' = "flushing"
  /\ at' = [s \in Signals |-> 1]
  /\ Emit({<<"spans", 0>>, <<"records", 0>>})
  /\ UNCHANGED <<sinkVars, stopping, network, sending>>

\* The run has returned and its outcome is printed, then the telemetry is
\* shut down: it's flushed once more and its processors are stopped.
PrintOutcome ==
  /\ pc = "flushing" /\ AllFlushed /\ pc' = "stopping"
  /\ at' = [s \in Signals |-> 1]
  /\ UNCHANGED <<sinkVars, stopping, network, telemetry>>

\* The runtime is left to whatever it still runs, and the process ends.
Exit == pc = "stopping" /\ AllFlushed /\ Ends("over")

\* SIGINT or SIGTERM ends a process that hasn't caught it yet.
Signal ==
  /\ IF pc = "starting" THEN Ends("killed")
     ELSE /\ pc \in {"building"} \union Started /\ ~stopping
          /\ stopping' = TRUE
          /\ UNCHANGED <<sinkVars, pc, network, telemetry, at>>

Kill == pc \notin {"over", "killed"} /\ Ends("killed")

Done == pc \in {"over", "killed"} /\ UNCHANGED vars

-----------------------------------------------------------------------------
Main == CatchSignals \/ Begin \/ PrintOutcome \/ Exit

Next ==
  \/ Main \/ Refuse \/ SpanEnds \/ RunReturns \/ Signal \/ Kill \/ Done
  \/ SinkStep
  \/ \E s \in Signals : Answered(s) \/ GivenUp(s)
                        \/ \E d \in Destinations : ExportBegins(s, d) \/ Flushed(s, d)

Spec == Init /\ [][Next]_vars

\* The command's own steps are taken, as are a processor's; a write to the
\* file ends; a flush of the network has its five seconds; and a run that's
\* cancelled returns (RunLoop CancelStops).  No collector has to answer.
FairSpec ==
  /\ Spec
  /\ WF_vars(Main) /\ WF_vars(stopping /\ RunReturns)
  /\ WF_vars(LineGoesOn /\ SinkStep)
  /\ \A s \in Signals :
       /\ SF_vars(ExportBegins(s, "file")) /\ WF_vars(ExportBegins(s, "network"))
       /\ WF_vars(GivenUp(s))
       /\ \A d \in Destinations : WF_vars(Flushed(s, d))

-----------------------------------------------------------------------------
\* An export that was written whole is alone on its line, so it can be read,
\* whatever failed before it, whether the file was opened again, and wherever
\* it was moved; but for what a process before this one left (file.rs put).
Readable ==
  \A export \in written : \E f \in DOMAIN files : \E text \in files[f].lines :
    text \ {Earlier} = {export}

Exported(i) == \E export \in written \union lost : i \in export

\* While a provider waits for a collector the file has all that the provider
\* was handed, so a process that's killed there has lost nothing of it; and a
\* run that returns its outcome has its telemetry in the file (telemetry.rs
\* flush_providers, "the file holds what the providers held whole, whatever a
\* collector did").
FileFirst ==
  target # "none" =>
    /\ \A s \in Signals : Flushing(s, "network") =>
         \A i \in emitted : i[1] = s => Exported(i)
    /\ pc = "stopping" => \A i \in emitted : Exported(i)

\* A stop signal that comes once signals are caught ends the command, whatever
\* its collector does (telemetry.rs shutdown, main.rs run_command).
StopEnds == (stopping /\ pc \in Started) ~> pc \in {"over", "killed"}
=============================================================================
