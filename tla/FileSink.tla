------------------------------ MODULE FileSink ------------------------------
(***************************************************************************)
(* The OTLP/JSON file exporter of the command line (export/file.rs): two   *)
(* exporters, of spans and of log records, write their exports as lines to *)
(* one destination, one line at a time.  A line is written in as many      *)
(* writes as the system takes it in, any of which may fail, and a file     *)
(* that failed is let go of and opened again.                              *)
(*                                                                         *)
(* A file here is the set of its lines and what stands after the last line *)
(* break, each a set of the exports that have text in it: an export can be *)
(* read when it's alone on its line.                                       *)
(***************************************************************************)
EXTENDS Integers, Sequences, FiniteSets

CONSTANTS Exporters,  \* those that write to the sink
          MaxFiles    \* bound: the files there may be

ASSUME SinkAssumption == MaxFiles \in Nat \ {0, 1} /\ "nobody" \notin Exporters

VARIABLES target,   \* where the lines go, the code's Destination
          files,    \* what every file holds; the first stands for standard error
          atPath,   \* the file at the path, 0 when there's none
          held,     \* the code's Held::file, 0 for None
          torn,     \* the code's torn
          line,     \* the line that's being written, under the lock
          written,  \* history: the exports that were written whole
          lost      \* history: the exports that failed

sinkVars == <<target, files, atPath, held, torn, line, written, lost>>

Free == [by |-> "nobody", export |-> {}, at |-> "none"]
Empty == [lines |-> {}, end |-> {}]
Earlier == {}    \* stands for whatever an earlier process exported
Stderr == 1

SinkTypeOK ==
  /\ target \in {"file", "stderr", "none"}
  /\ {atPath, held} \subseteq 0..Len(files) /\ Len(files) <= MaxFiles
  /\ torn \in BOOLEAN
  /\ line.by \in Exporters \union {"nobody"}
  /\ line.at \in {"none", "open", "newline", "line"}

\* An earlier process left part of a line in the file at the path; the file
\* may be moved before anything is written.
SinkInit ==
  /\ target \in {"file", "stderr", "none"}
  /\ files = <<Empty, [Empty EXCEPT !.end = {Earlier}]>> /\ atPath = 2
  /\ held = (IF target = "stderr" THEN Stderr ELSE 0)
  /\ torn = FALSE /\ line = Free
  /\ written = {} /\ lost = {}

\* Held::let_go.
LetGo == held' = IF target = "file" THEN 0 ELSE held

\* Sink::start, as a run starts.
SinkStart ==
  /\ line = Free
  /\ LetGo
  /\ UNCHANGED <<target, files, atPath, torn, line, written, lost>>

\* An exporter has the lock and begins the line of one export.
BeginLine(by, export) ==
  /\ line = Free
  /\ line' = [by |-> by, export |-> export,
              at |-> IF held = 0 THEN "open" ELSE IF torn THEN "newline" ELSE "line"]
  /\ UNCHANGED <<target, files, atPath, held, torn, written, lost>>

\* to_append: the file at the path, which is made when it's missing.
OpenFile ==
  /\ line.at = "open"
  /\ IF atPath = 0
     THEN /\ Len(files) < MaxFiles
          /\ files' = Append(files, Empty)
          /\ atPath' = Len(files')
     ELSE UNCHANGED <<files, atPath>>
  /\ held' = atPath'
  /\ line' = [line EXCEPT !.at = IF torn THEN "newline" ELSE "line"]
  /\ UNCHANGED <<target, torn, written, lost>>

\* Text that ends a line, and what stands before it on that line.
LineBreak(text) ==
  files' = [files EXCEPT ![held] =
              [lines |-> @.lines \union {@.end \union text}, end |-> {}]]

\* Mutant: a line follows what a failed write left.
NoNewline ==
  /\ line.at = "newline"
  /\ torn' = FALSE
  /\ line' = [line EXCEPT !.at = "line"]
  /\ UNCHANGED <<target, files, atPath, held, written, lost>>

\* put, which sets the line apart from what a failed write left.
Newline ==
  /\ line.at = "newline"
  /\ LineBreak({})
  /\ torn' = FALSE
  /\ line' = [line EXCEPT !.at = "line"]
  /\ UNCHANGED <<target, atPath, held, written, lost>>

\* One write of whole, which took part of what was left of the line.
WritePart ==
  /\ line.at = "line"
  /\ files' = [files EXCEPT ![held].end = @ \union {line.export}]
  /\ torn' = TRUE
  /\ UNCHANGED <<target, atPath, held, line, written, lost>>

\* One that took the rest.  The flush that's then left may fail the export.
WriteRest ==
  /\ line.at = "line"
  /\ LineBreak({line.export})
  /\ torn' = FALSE /\ line' = Free
  /\ \/ written' = written \union {line.export} /\ UNCHANGED <<held, lost>>
     \/ lost' = lost \union {line.export} /\ LetGo /\ UNCHANGED written
  /\ UNCHANGED <<target, atPath>>

\* The open or a write failed, and the export with it.
LineFails ==
  /\ line # Free
  /\ LetGo
  /\ line' = Free /\ lost' = lost \union {line.export}
  /\ UNCHANGED <<target, files, atPath, torn, written>>

\* Somebody moves the file, and the path is free for another.
Move ==
  /\ atPath # 0 /\ Len(files) < MaxFiles
  /\ atPath' = 0
  /\ UNCHANGED <<target, files, held, torn, line, written, lost>>

\* The process ends, wherever the line is.
SinkEnds ==
  /\ held' = (IF target = "stderr" THEN Stderr ELSE 0)
  /\ torn' = FALSE /\ line' = Free
  /\ UNCHANGED <<target, files, atPath, written, lost>>

WriteLine == OpenFile \/ Newline \/ WritePart \/ WriteRest \/ LineFails

\* What's left of a line is written or fails: a write isn't held up for ever.
LineGoesOn == OpenFile \/ Newline \/ WriteRest \/ LineFails
=============================================================================
