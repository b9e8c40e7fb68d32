-------------------------- MODULE RunCommandProofs --------------------------
(***************************************************************************)
(* What the command's telemetry file holds can be read, proved for any     *)
(* number of spans and of files, and wherever writes fail, files are moved *)
(* and the process is stopped.                                             *)
(***************************************************************************)
EXTENDS RunCommand, SequenceTheorems, TLAPS

Items == Signals \X (0..MaxSpans)
Exports == SUBSET Items
Contents == [lines : SUBSET (SUBSET Exports), end : SUBSET Exports]
Lines == [by : Exporters \union {"nobody"}, export : Exports,
          at : {"none", "open", "newline", "line"}]
Queues == [Signals -> [Destinations -> Exports]]

Over == pc \in {"over", "killed"}

\* The types, with what they rest on: a line that's being written has an
\* export and a file, and there are always the two files of the start.
SinkTyped ==
  /\ target \in {"file", "stderr", "none"}
  /\ files \in Seq(Contents) /\ 2 <= Len(files) /\ Len(files) <= MaxFiles
  /\ atPath \in 0..Len(files) /\ held \in 0..Len(files)
  /\ torn \in BOOLEAN
  /\ line \in Lines
  /\ line.at = "none" \/ line.export # {}
  /\ line.at = "none" => line = Free
  /\ line.at \in {"newline", "line"} => held # 0

\* A process that has ended writes nothing more.
Typed ==
  /\ SinkTyped
  /\ pc \in {"starting", "building", "over", "killed"} \union Started
  /\ stopping \in BOOLEAN /\ network \in BOOLEAN
  /\ emitted \subseteq Items /\ sending \subseteq Signals
  /\ at \in [Signals -> 1..3]
  /\ queue \in Queues
  /\ \A s \in Signals, d \in Destinations : queue[s][d] \subseteq emitted
  /\ Over => line = Free /\ queue = NothingQueued

Clean(f) == files[f].end \subseteq {Earlier}

\* Nothing stands before the next line but what an earlier process left, or
\* the process knows it as torn, and then it has let go of every other file.
SetApart ==
  /\ ~torn => \A f \in {held, atPath} \ {0} : Clean(f)
  /\ torn /\ line.at = "line" => files[held].end \ {Earlier} \subseteq {line.export}
  /\ held # 0 /\ atPath \notin {0, held} => Clean(atPath)

SinkInv == SinkTyped /\ SetApart /\ Readable

-----------------------------------------------------------------------------
(* The sink.                                                               *)

\* A file's last line gets text: it's the one file that changes.
LEMMA LineBreakKeeps ==
  ASSUME SinkTyped, NEW text \in SUBSET Exports, held # 0, LineBreak(text)
  PROVE  /\ files' \in Seq(Contents) /\ Len(files') = Len(files)
         /\ \A f \in 1..Len(files) : f # held => files'[f] = files[f]
         /\ files'[held].lines = files[held].lines \union {files[held].end \union text}
         /\ files'[held].end = {}
<1>1. held \in 1..Len(files) /\ DOMAIN files = 1..Len(files) /\ files[held] \in Contents
  BY LenProperties DEF SinkTyped
<1> DEFINE broken == [lines |-> files[held].lines \union {files[held].end \union text},
                      end |-> {}]
<1>2. broken \in Contents
  BY <1>1 DEF Contents
<1>3. files' = [files EXCEPT ![held] = broken]
  BY <1>1 DEF LineBreak
<1> HIDE DEF broken
<1>4. /\ files' \in Seq(Contents) /\ Len(files') = Len(files)
      /\ \A f \in 1..Len(files) : f # held => files'[f] = files[f]
      /\ files'[held] = broken
  BY <1>1, <1>2, <1>3, ExceptSeq DEF SinkTyped
<1> QED
  BY <1>4 DEF broken

\* Lines stay where they are, so what could be read still can.
LEMMA ReadableStays ==
  ASSUME SinkTyped, Readable, SinkTyped', Len(files) <= Len(files'), written' = written,
         \A f \in 1..Len(files) : files[f].lines \subseteq files'[f].lines
  PROVE  Readable'
<1>1. DOMAIN files = 1..Len(files) /\ DOMAIN files' = 1..Len(files')
      /\ Len(files) \in Nat /\ Len(files') \in Nat
  BY LenProperties DEF SinkTyped
<1> SUFFICES ASSUME NEW export \in written
             PROVE  \E f \in DOMAIN files' : \E text \in files'[f].lines :
                      text \ {Earlier} = {export}
  BY DEF Readable
<1>2. PICK f \in DOMAIN files : \E text \in files[f].lines : text \ {Earlier} = {export}
  BY DEF Readable
<1> QED
  BY <1>1, <1>2

LEMMA OpenFileKeeps == SinkInv /\ OpenFile => SinkInv'
<1> SUFFICES ASSUME SinkInv, OpenFile PROVE SinkInv'
  OBVIOUS
<1> USE DEF SinkInv
<1>1. line \in Lines /\ line.at = "open" /\ line.export # {} /\ line # Free
      /\ line' = [line EXCEPT !.at = IF torn THEN "newline" ELSE "line"]
  BY DEF OpenFile, SinkTyped, Free
<1>2. line' \in Lines /\ line'.export = line.export /\ line'.at \in {"newline", "line"}
      /\ (torn => line'.at = "newline")
  BY <1>1 DEF Lines
<1>3. CASE atPath # 0
  <2>1. files' = files /\ atPath' = atPath /\ held' = atPath /\ torn' = torn
        /\ written' = written /\ target' = target
    BY <1>3 DEF OpenFile
  <2>2. SinkTyped'
    BY <1>1, <1>2, <1>3, <2>1 DEF SinkTyped
  <2>3. SetApart'
    BY <1>2, <1>3, <2>1 DEF SetApart, Clean, SinkTyped
  <2> QED
    BY <2>1, <2>2, <2>3, ReadableStays
<1>4. CASE atPath = 0
  <2>1. files' = Append(files, Empty) /\ atPath' = Len(files') /\ held' = atPath'
        /\ torn' = torn /\ written' = written /\ target' = target /\ Len(files) < MaxFiles
    BY <1>4 DEF OpenFile
  <2>2. Empty \in Contents /\ Empty.end = {}
    BY DEF Empty, Contents
  <2>3. /\ files' \in Seq(Contents) /\ Len(files') = Len(files) + 1 /\ Len(files) \in Nat
        /\ \A f \in 1..Len(files) : files'[f] = files[f]
        /\ files'[Len(files')] = Empty
    BY <2>1, <2>2, AppendProperties, LenProperties DEF SinkTyped
  <2>4. SinkTyped'
    BY <1>1, <1>2, <2>1, <2>3, SinkAssumption DEF SinkTyped
  <2>5. SetApart'
    BY <1>2, <2>1, <2>2, <2>3 DEF SetApart, Clean, SinkTyped
  <2> QED
    BY <2>1, <2>3, <2>4, <2>5, ReadableStays
<1> QED
  BY <1>3, <1>4

LEMMA NewlineKeeps == SinkInv /\ Newline => SinkInv'
<1> SUFFICES ASSUME SinkInv, Newline PROVE SinkInv'
  OBVIOUS
<1> USE DEF SinkInv
<1>1. line \in Lines /\ line.at = "newline" /\ line.export # {} /\ held # 0
      /\ line' = [line EXCEPT !.at = "line"]
      /\ torn' = FALSE /\ UNCHANGED <<target, atPath, held, written>> /\ LineBreak({})
  BY DEF Newline, SinkTyped
<1>2. line' \in Lines /\ line'.export = line.export /\ line'.at = "line"
  BY <1>1 DEF Lines
<1>3. /\ files' \in Seq(Contents) /\ Len(files') = Len(files)
      /\ \A f \in 1..Len(files) : f # held => files'[f] = files[f]
      /\ files[held].lines \subseteq files'[held].lines
      /\ files'[held].end = {}
  BY <1>1, LineBreakKeeps
<1>4. SinkTyped'
  BY <1>1, <1>2, <1>3 DEF SinkTyped
<1>5. SetApart'
  BY <1>1, <1>3 DEF SetApart, Clean, SinkTyped
<1> QED
  BY <1>1, <1>3, <1>4, <1>5, ReadableStays

LEMMA WritePartKeeps == SinkInv /\ WritePart => SinkInv'
<1> SUFFICES ASSUME SinkInv, WritePart PROVE SinkInv'
  OBVIOUS
<1> USE DEF SinkInv
<1>1. line \in Lines /\ line.at = "line" /\ held # 0 /\ torn' = TRUE
      /\ UNCHANGED <<target, atPath, held, line, written>>
      /\ files' = [files EXCEPT ![held].end = @ \union {line.export}]
  BY DEF WritePart, SinkTyped
<1>2. held \in 1..Len(files) /\ DOMAIN files = 1..Len(files) /\ files[held] \in Contents
  BY <1>1, LenProperties DEF SinkTyped
<1> DEFINE longer == [files[held] EXCEPT !.end = @ \union {line.export}]
<1>3. longer \in Contents /\ longer.lines = files[held].lines
      /\ longer.end = files[held].end \union {line.export}
  BY <1>1, <1>2 DEF Contents, Lines
<1>4. files' = [files EXCEPT ![held] = longer]
  BY <1>1, <1>2
<1> HIDE DEF longer
<1>5. /\ files' \in Seq(Contents) /\ Len(files') = Len(files)
      /\ \A f \in 1..Len(files) : f # held => files'[f] = files[f]
      /\ files'[held] = longer
  BY <1>2, <1>3, <1>4, ExceptSeq DEF SinkTyped
<1>6. SinkTyped'
  BY <1>1, <1>5 DEF SinkTyped
<1>7. files'[held].end \ {Earlier} \subseteq {line.export}
  BY <1>1, <1>2, <1>3, <1>5 DEF SetApart, Clean, SinkTyped
<1>8. SetApart'
  BY <1>1, <1>5, <1>7 DEF SetApart, Clean, SinkTyped
<1> QED
  BY <1>1, <1>3, <1>5, <1>6, <1>8, ReadableStays

LEMMA WriteRestKeeps == SinkInv /\ WriteRest => SinkInv'
<1> SUFFICES ASSUME SinkInv, WriteRest PROVE SinkInv'
  OBVIOUS
<1> USE DEF SinkInv
<1>1. line \in Lines /\ line.at = "line" /\ held # 0 /\ line.export # {}
      /\ torn' = FALSE /\ line' = Free /\ UNCHANGED <<target, atPath>>
      /\ LineBreak({line.export}) /\ held' \in {held, 0}
      /\ written' \subseteq written \union {line.export}
  BY DEF WriteRest, SinkTyped, LetGo
<1>2. {line.export} \in SUBSET Exports /\ Free \in Lines /\ Free.at = "none"
  BY <1>1 DEF Lines, Free, Exports
<1>3. /\ files' \in Seq(Contents) /\ Len(files') = Len(files)
      /\ \A f \in 1..Len(files) : f # held => files'[f] = files[f]
      /\ files'[held].lines =
           files[held].lines \union {files[held].end \union {line.export}}
      /\ files'[held].end = {}
  BY <1>1, <1>2, LineBreakKeeps
<1>4. SinkTyped'
  <2>1. Len(files) \in Nat /\ held' \in 0..Len(files) /\ line'.at = "none"
    BY <1>1, <1>2, LenProperties DEF SinkTyped
  <2> QED
    BY <1>1, <1>2, <1>3, <2>1 DEF SinkTyped
<1>5. SetApart'
  BY <1>1, <1>2, <1>3 DEF SetApart, Clean, SinkTyped
<1>6. held \in DOMAIN files /\ DOMAIN files = 1..Len(files) /\ DOMAIN files' = DOMAIN files
  BY <1>1, <1>3, LenProperties DEF SinkTyped
<1>7. files[held].end \ {Earlier} \subseteq {line.export} /\ line.export # Earlier
  BY <1>1, <1>6 DEF SetApart, Clean, SinkTyped, Earlier
<1>8. \E f \in DOMAIN files' : \E text \in files'[f].lines : text \ {Earlier} = {line.export}
  <2>1. files[held].end \union {line.export} \in files'[held].lines
    BY <1>3
  <2>2. (files[held].end \union {line.export}) \ {Earlier} = {line.export}
    BY <1>7
  <2> QED
    BY <1>6, <2>1, <2>2
<1>9. \A export \in written : \E f \in DOMAIN files' : \E text \in files'[f].lines :
        text \ {Earlier} = {export}
  BY <1>3, <1>6 DEF Readable
<1>10. Readable'
  BY <1>1, <1>8, <1>9 DEF Readable
<1> QED
  BY <1>4, <1>5, <1>10

LEMMA LineFailsKeeps == SinkInv /\ LineFails => SinkInv'
<1> SUFFICES ASSUME SinkInv, LineFails PROVE SinkInv'
  OBVIOUS
<1> USE DEF SinkInv
<1>1. line' = Free /\ held' \in {held, 0} /\ UNCHANGED <<target, files, atPath, torn, written>>
  BY DEF LineFails, LetGo
<1>2. Free \in Lines /\ Free.at = "none"
  BY DEF Free, Lines, Exports
<1>3. SinkTyped'
  BY <1>1, <1>2 DEF SinkTyped
<1>4. SetApart'
  BY <1>1, <1>2 DEF SetApart, Clean, SinkTyped
<1> QED
  BY <1>1, <1>3, <1>4 DEF Readable

LEMMA MoveKeeps == SinkInv /\ Move => SinkInv'
<1> SUFFICES ASSUME SinkInv, Move PROVE SinkInv'
  OBVIOUS
<1> USE DEF SinkInv
<1>1. atPath' = 0 /\ UNCHANGED <<target, files, held, torn, line, written>>
  BY DEF Move
<1>2. Len(files) \in Nat
  BY LenProperties DEF SinkTyped
<1>3. SinkTyped'
  BY <1>1, <1>2 DEF SinkTyped
<1>4. SetApart'
  BY <1>1, <1>2 DEF SinkTyped, SetApart, Clean
<1> QED
  BY <1>1, <1>3, <1>4 DEF Readable

LEMMA SinkStartKeeps == SinkInv /\ SinkStart => SinkInv'
<1> SUFFICES ASSUME SinkInv, SinkStart PROVE SinkInv'
  OBVIOUS
<1> USE DEF SinkInv
<1>1. held' \in {held, 0} /\ line.at = "none"
      /\ UNCHANGED <<target, files, atPath, torn, line, written>>
  BY DEF SinkStart, LetGo, Free
<1>2. Len(files) \in Nat
  BY LenProperties DEF SinkTyped
<1>3. SinkTyped'
  BY <1>1, <1>2 DEF SinkTyped
<1>4. SetApart'
  BY <1>1, <1>2 DEF SinkTyped, SetApart, Clean
<1> QED
  BY <1>1, <1>3, <1>4 DEF Readable

LEMMA BeginLineKeeps ==
  ASSUME SinkInv, NEW by \in Exporters, NEW export \in Exports, export # {},
         BeginLine(by, export)
  PROVE  SinkInv'
<1> USE DEF SinkInv
<1>1. /\ line' \in Lines /\ line'.at \in {"open", "newline", "line"} /\ line'.export # {}
      /\ line'.at # "open" => held # 0
      /\ line'.at = "line" => ~torn
      /\ UNCHANGED <<target, files, atPath, held, torn, written>>
  BY DEF BeginLine, Lines, SinkTyped
<1>2. Len(files) \in Nat
  BY LenProperties DEF SinkTyped
<1>3. SinkTyped'
  BY <1>1, <1>2 DEF SinkTyped
<1>4. SetApart'
  BY <1>1, <1>2 DEF SinkTyped, SetApart, Clean
<1> QED
  BY <1>1, <1>3, <1>4 DEF Readable

\* What's written stays where it is as a process ends.
LEMMA SinkEndsKeeps ==
  ASSUME SinkTyped, Readable, SinkEnds
  PROVE  SinkTyped' /\ Readable' /\ line' = Free
<1>1. line' = Free /\ torn' = FALSE /\ UNCHANGED <<target, files, atPath, written>>
      /\ held' \in {0, 1}
  BY DEF SinkEnds, Stderr
<1>2. Free \in Lines /\ Free.at = "none"
  BY DEF Free, Lines, Exports
<1>3. Len(files) \in Nat
  BY LenProperties DEF SinkTyped
<1>4. held' \in 0..Len(files) /\ line'.at = "none"
  BY <1>1, <1>2, <1>3 DEF SinkTyped
<1>5. SinkTyped'
  BY <1>1, <1>2, <1>3, <1>4 DEF SinkTyped
<1> QED
  BY <1>1, <1>5 DEF Readable

-----------------------------------------------------------------------------
(* The command.                                                            *)

CommandInv == Typed /\ (Over \/ SetApart) /\ Readable

LEMMA InitHolds == Init => CommandInv
<1> SUFFICES ASSUME Init PROVE CommandInv
  OBVIOUS
<1>1. files \in Seq(Contents) /\ Len(files) = 2 /\ files[1].end = {} /\ files[2].end = {Earlier}
  BY DEF Init, SinkInit, Empty, Contents, Earlier, Exports
<1>2. held \in {0, 1} /\ atPath = 2 /\ line = Free /\ line \in Lines /\ line.at = "none"
  BY DEF Init, SinkInit, Stderr, Free, Lines, Exports
<1>3. SinkTyped
  <2>1. MaxFiles \in Nat /\ 2 <= MaxFiles
    BY SinkAssumption
  <2>2. held \in 0..2 /\ atPath \in 0..2
    BY <1>2
  <2>3. torn \in BOOLEAN /\ target \in {"file", "stderr", "none"}
    BY DEF Init, SinkInit
  <2>4. 2 <= Len(files) /\ Len(files) <= MaxFiles
        /\ atPath \in 0..Len(files) /\ held \in 0..Len(files)
    BY <1>1, <2>1, <2>2
  <2>5. line.at \notin {"newline", "line"}
    BY <1>2
  <2> QED
    BY <1>1, <1>2, <2>3, <2>4, <2>5 DEF SinkTyped
<1>4. SetApart
  BY <1>1, <1>2 DEF Init, SinkInit, SetApart, Clean
<1>5. queue \in Queues /\ queue = NothingQueued
      /\ \A s \in Signals, d \in Destinations : queue[s][d] = {}
  BY DEF Init, NothingQueued, Queues, Exports
<1>6. at \in [Signals -> 1..3]
  BY DEF Init
<1>7. Typed
  BY <1>2, <1>3, <1>5, <1>6 DEF Init, Typed, Over, Started
<1> QED
  BY <1>4, <1>7 DEF Init, SinkInit, CommandInv, Readable

\* The sink goes on while the process does.
LEMMA SinkStepKeeps == CommandInv /\ SinkStep => CommandInv'
<1> SUFFICES ASSUME CommandInv, SinkStep PROVE CommandInv'
  OBVIOUS
<1>1. UNCHANGED <<pc, stopping, network, emitted, queue, sending, at>>
  BY DEF SinkStep, telemetry
<1>2. CASE ~Over
  <2>1. SinkInv
    BY <1>2 DEF CommandInv, SinkInv, Typed
  <2>2. SinkInv'
    BY <2>1, OpenFileKeeps, NewlineKeeps, WritePartKeeps, WriteRestKeeps, LineFailsKeeps,
       MoveKeeps DEF SinkStep, WriteLine
  <2> QED
    BY <1>1, <1>2, <2>2 DEF CommandInv, SinkInv, Typed, Over
<1>3. CASE Over
  <2>1. line = Free /\ line.at = "none"
    BY <1>3 DEF CommandInv, Typed, Free
  <2>2. Move
    BY <2>1 DEF SinkStep, WriteLine, OpenFile, Newline, WritePart, WriteRest, LineFails
  <2>3. atPath' = 0 /\ UNCHANGED <<target, files, held, torn, line, written>>
    BY <2>2 DEF Move
  <2>4. SinkTyped'
    BY <2>3, LenProperties DEF CommandInv, Typed, SinkTyped
  <2> QED
    BY <1>1, <1>3, <2>3, <2>4 DEF CommandInv, Typed, Over, Readable
<1> QED
  BY <1>2, <1>3

LEMMA EndsKeeps ==
  ASSUME CommandInv, NEW as \in {"over", "killed"}, Ends(as)
  PROVE  CommandInv'
<1>1. SinkTyped' /\ Readable' /\ line' = Free
  BY SinkEndsKeeps DEF CommandInv, Typed, Ends
<1>2. queue' = NothingQueued /\ queue' \in Queues
      /\ \A s \in Signals, d \in Destinations : queue'[s][d] = {}
  BY DEF Ends, NothingQueued, Queues, Exports
<1>3. at' \in [Signals -> 1..3]
  BY DEF Ends
<1>4. Typed'
  BY <1>1, <1>2, <1>3 DEF Ends, Typed, CommandInv
<1> QED
  BY <1>1, <1>4 DEF CommandInv, Over, Ends

\* What's emitted is queued, and only that.
LEMMA EmitKeeps ==
  ASSUME Typed, NEW items \in SUBSET Items, Emit(items)
  PROVE  /\ emitted' \subseteq Items /\ queue' \in Queues
         /\ \A s \in Signals, d \in Destinations : queue'[s][d] \subseteq emitted'
<1>1. emitted' = emitted \union items /\ emitted \subseteq Items
  BY DEF Emit, Typed
<1>2. ASSUME NEW s \in Signals, NEW d \in Destinations
      PROVE  queue'[s][d] \subseteq queue[s][d] \union items
  BY DEF Emit
<1>3. ASSUME NEW s \in Signals, NEW d \in Destinations
      PROVE  queue'[s][d] \subseteq emitted' /\ queue'[s][d] \in Exports
  BY <1>1, <1>2 DEF Typed, Exports
<1>4. queue' = [s \in Signals |-> [d \in Destinations |-> queue'[s][d]]]
  BY DEF Emit
<1> QED
  BY <1>1, <1>3, <1>4 DEF Queues

LEMMA ExportBeginsKeeps ==
  ASSUME CommandInv, NEW s \in Signals, NEW d \in Destinations, ExportBegins(s, d)
  PROVE  CommandInv'
<1>1. queue[s][d] # {} /\ queue[s][d] \in Exports
  BY DEF ExportBegins, CommandInv, Typed, Queues
<1>2. ~Over
  BY <1>1 DEF CommandInv, Typed, NothingQueued
<1>3. SinkInv
  BY <1>2 DEF CommandInv, SinkInv, Typed
<1>4. /\ queue' = [queue EXCEPT ![s][d] = {}] /\ UNCHANGED <<pc, stopping, network, emitted, at>>
      /\ sending' \subseteq Signals
      /\ BeginLine(s, queue[s][d]) \/ UNCHANGED sinkVars
  BY DEF ExportBegins, CommandInv, Typed
<1>5. queue' \in Queues
      /\ \A t \in Signals, e \in Destinations : queue'[t][e] \subseteq queue[t][e]
  BY <1>4 DEF CommandInv, Typed, Queues, Exports
<1>6. SinkInv'
  <2>1. CASE BeginLine(s, queue[s][d])
    BY <1>1, <1>3, <2>1, BeginLineKeeps, CommandAssumption
  <2>2. CASE UNCHANGED sinkVars
    BY <1>3, <2>2 DEF SinkInv, sinkVars, SinkTyped, SetApart, Clean, Readable
  <2> QED
    BY <1>4, <2>1, <2>2
<1>7. Typed'
  BY <1>2, <1>4, <1>5, <1>6 DEF CommandInv, Typed, SinkInv, Over
<1> QED
  BY <1>6, <1>7 DEF CommandInv, SinkInv

LEMMA RunKeeps ==
  CommandInv /\ (SpanEnds \/ RunReturns) => CommandInv'
<1> SUFFICES ASSUME CommandInv, SpanEnds \/ RunReturns PROVE CommandInv'
  OBVIOUS
<1>1. PICK items \in SUBSET Items : Emit(items)
  <2>1. CASE SpanEnds
    <3>1. PICK n \in 1..MaxSpans : Emit({<<"spans", n>>})
      BY <2>1 DEF SpanEnds
    <3>2. {<<"spans", n>>} \in SUBSET Items
      BY CommandAssumption DEF Items, Signals
    <3> QED
      BY <3>1, <3>2
  <2>2. CASE RunReturns
    <3>1. {<<"spans", 0>>, <<"records", 0>>} \in SUBSET Items
      BY CommandAssumption DEF Items, Signals
    <3> QED
      BY <2>2, <3>1 DEF RunReturns
  <2> QED
    BY <2>1, <2>2
<1>2. /\ emitted' \subseteq Items /\ queue' \in Queues
      /\ \A s \in Signals, d \in Destinations : queue'[s][d] \subseteq emitted'
  BY <1>1, EmitKeeps DEF CommandInv
<1>3. ~Over /\ ~Over' /\ pc' \in Started /\ UNCHANGED <<sinkVars, stopping, network, sending>>
  BY DEF SpanEnds, RunReturns, Over, Started
<1>4. at' \in [Signals -> 1..3]
  BY DEF SpanEnds, RunReturns, CommandInv, Typed
<1>5. SinkTyped' /\ SetApart' /\ Readable'
  BY <1>3 DEF CommandInv, Typed, sinkVars, SinkTyped, SetApart, Clean, Readable
<1>6. Typed'
  BY <1>2, <1>3, <1>4, <1>5 DEF CommandInv, Typed
<1> QED
  BY <1>5, <1>6 DEF CommandInv

\* A step of run_command's or of a provider's that leaves the sink and the
\* queues as they are.
Aside ==
  /\ (Over' <=> Over)
  /\ pc' \in {"starting", "building", "over", "killed"} \union Started
  /\ stopping' \in BOOLEAN /\ sending' \subseteq Signals
  /\ at' \in [Signals -> 1..3]
  /\ UNCHANGED <<sinkVars, network, emitted, queue>>

LEMMA AsideKeeps == ASSUME CommandInv, Aside PROVE CommandInv'
<1>1. SinkTyped' /\ (SetApart => SetApart') /\ Readable'
  BY DEF Aside, CommandInv, Typed, sinkVars, SinkTyped, SetApart, Clean, Readable
<1>2. line' = line
  BY DEF Aside, sinkVars
<1>3. Over' <=> (pc' \in {"over", "killed"})
  BY DEF Over
<1>4. Typed'
  BY <1>1, <1>2 DEF Aside, CommandInv, Typed
<1> QED
  BY <1>1, <1>4 DEF Aside, CommandInv, Over

LEMMA BeginKeeps == CommandInv /\ Begin => CommandInv'
<1> SUFFICES ASSUME CommandInv, Begin PROVE CommandInv'
  OBVIOUS
<1>1. ~Over /\ ~Over' /\ pc' = "running"
      /\ UNCHANGED <<stopping, network, emitted, queue, sending, at>>
  BY DEF Begin, Over, telemetry
<1>2. SinkInv'
  BY <1>1, SinkStartKeeps DEF CommandInv, SinkInv, Typed, Begin
<1>3. Typed'
  BY <1>1, <1>2 DEF CommandInv, SinkInv, Typed, Started, Over
<1> QED
  BY <1>2, <1>3 DEF CommandInv, SinkInv

LEMMA NextHolds == CommandInv /\ [Next]_vars => CommandInv'
<1> SUFFICES ASSUME CommandInv, [Next]_vars PROVE CommandInv'
  OBVIOUS
<1>a. /\ pc \in {"starting", "building", "over", "killed"} \union Started
      /\ stopping \in BOOLEAN /\ sending \subseteq Signals /\ at \in [Signals -> 1..3]
  BY DEF CommandInv, Typed
<1>1. CASE CatchSignals \/ PrintOutcome
  <2>1. Aside
    BY <1>1, <1>a DEF CatchSignals, PrintOutcome, Aside, Over, Started, telemetry
  <2> QED
    BY <2>1, AsideKeeps
<1>2. CASE Begin
  BY <1>2, BeginKeeps
<1>3. CASE Exit \/ Refuse \/ Kill \/ (Signal /\ pc = "starting")
  BY <1>3, EndsKeeps DEF Exit, Refuse, Kill, Signal
<1>4. CASE SpanEnds \/ RunReturns
  BY <1>4, RunKeeps
<1>5. CASE Signal /\ pc # "starting"
  <2>1. Aside
    BY <1>5, <1>a DEF Signal, Aside, Over, telemetry
  <2> QED
    BY <2>1, AsideKeeps
<1>6. CASE SinkStep
  BY <1>6, SinkStepKeeps
<1>7. CASE \E s \in Signals : Answered(s)
  <2>1. Aside
    BY <1>7, <1>a DEF Answered, Aside, Over
  <2> QED
    BY <2>1, AsideKeeps
<1>8. ASSUME NEW s \in Signals, GivenUp(s) \/ \E d \in Destinations : Flushed(s, d)
      PROVE  CommandInv'
  <2>1. Onward(s) /\ at[s] <= Len(Processors)
    BY <1>8 DEF GivenUp, Flushed, Flushing
  <2>2. Len(Processors) <= 2 /\ Len(Processors) \in Nat
    <3> DEFINE file == IF target # "none" THEN <<"file">> ELSE <<>>
               collector == IF network THEN <<"network">> ELSE <<>>
    <3>1. file \in Seq(Destinations) /\ Len(file) \in {0, 1}
          /\ collector \in Seq(Destinations) /\ Len(collector) \in {0, 1}
      <4>0. /\ <<"file">> \in Seq(Destinations) /\ <<"network">> \in Seq(Destinations)
            /\ <<>> \in Seq(Destinations)
            /\ Len(<<"file">>) = 1 /\ Len(<<"network">>) = 1 /\ Len(<<>>) = 0
        BY DEF Destinations
      <4>1. file \in Seq(Destinations) /\ Len(file) \in {0, 1}
        BY <4>0
      <4>2. collector \in Seq(Destinations) /\ Len(collector) \in {0, 1}
        BY <4>0
      <4> QED
        BY <4>1, <4>2
    <3>2. Len(file \o collector) = Len(file) + Len(collector)
      BY <3>1, ConcatProperties
    <3> QED
      BY <3>1, <3>2 DEF Processors
  <2>3. at' \in [Signals -> 1..3]
    BY <1>a, <2>1, <2>2 DEF Onward
  <2>4. Aside
    BY <1>a, <2>1, <2>3 DEF Onward, Aside, Over, telemetry
  <2> QED
    BY <2>4, AsideKeeps
<1>9. ASSUME NEW s \in Signals, NEW d \in Destinations, ExportBegins(s, d)
      PROVE  CommandInv'
  BY <1>9, ExportBeginsKeeps
<1>10. CASE Done \/ UNCHANGED vars
  <2>1. Aside
    BY <1>10, <1>a DEF Done, vars, Aside, Over, telemetry
  <2> QED
    BY <2>1, AsideKeeps
<1> QED
  BY <1>1, <1>2, <1>3, <1>4, <1>5, <1>6, <1>7, <1>8, <1>9, <1>10 DEF Next, Main

LEMMA CommandInvHolds == Spec => []CommandInv
<1> QED
  BY InitHolds, NextHolds, PTL DEF Spec

-----------------------------------------------------------------------------

\* However many spans there are, every variable of the command has its type,
\* and a processor queues only what the run emitted.
THEOREM CommandTypeCorrect == Spec => []TypeOK
<1>1. CommandInv => TypeOK
  <2> SUFFICES ASSUME CommandInv PROVE TypeOK
    OBVIOUS
  <2>1. SinkTypeOK
    BY DEF CommandInv, Typed, SinkTyped, SinkTypeOK, Lines
  <2> QED
    BY <2>1 DEF CommandInv, Typed, TypeOK, Items
<1> QED
  BY <1>1, CommandInvHolds, PTL

\* However many exports there are, wherever a write of one fails, the file is
\* moved or the process ends, one that was written whole is alone on a line
\* (file.rs put).
THEOREM AlwaysReadable == Spec => []Readable
<1>1. CommandInv => Readable
  BY DEF CommandInv
<1> QED
  BY <1>1, CommandInvHolds, PTL
-----------------------------------------------------------------------------
(* The file before the collector.                                          *)

Going(i) == line.by = i[1] /\ i \in line.export

\* What the file's processor was handed is queued, on its way or exported, and
\* a provider that has come past that processor has none of it left.
Handed ==
  target # "none" =>
    /\ \A i \in emitted : i \in queue[i[1]]["file"] \/ Going(i) \/ Exported(i)
    /\ Flushes => \A s \in Signals : at[s] # 1 => \A i \in emitted : i[1] = s => Exported(i)
    /\ pc = "stopping" => \A i \in emitted : Exported(i)

\* The file's processor is the first there is.
LEMMA FileIsFirst ==
  target # "none" => Processors[1] = "file" /\ Len(Processors) \in Nat \ {0}
                     /\ Registered("file")
<1> SUFFICES ASSUME target # "none"
             PROVE  Processors[1] = "file" /\ Len(Processors) \in Nat \ {0} /\ Registered("file")
  OBVIOUS
<1>1. CASE network
  <2>1. Processors = <<"file">> \o <<"network">>
    BY <1>1 DEF Processors
  <2>2. <<"file">> \in Seq(Destinations) /\ <<"network">> \in Seq(Destinations)
        /\ Len(<<"file">>) = 1 /\ Len(<<"network">>) = 1 /\ <<"file">>[1] = "file"
    BY DEF Destinations
  <2>3. Processors \in Seq(Destinations) /\ Len(Processors) = 2 /\ Processors[1] = "file"
    BY <2>1, <2>2, ConcatProperties
  <2> QED
    BY <2>3, LenProperties DEF Registered
<1>2. CASE ~network
  <2>1. Processors = <<"file">>
    BY <1>2 DEF Processors
  <2> QED
    BY <2>1 DEF Registered
<1> QED
  BY <1>1, <1>2

LEMMA ExportedStays ==
  ASSUME written \subseteq written', lost \subseteq lost', NEW i, Exported(i)
  PROVE  Exported(i)'
  BY DEF Exported

LEMMA EmittedItems == Typed => \A i \in emitted : i[1] \in Signals
  BY DEF Typed, Items

\* A step that emits nothing, queues and exports nothing anew, and moves no
\* provider on.
LEMMA HandedAside ==
  ASSUME Handed, UNCHANGED <<target, emitted, queue, line, written, lost, at>>,
         pc' \in {"flushing", "stopping"} => pc' = pc
  PROVE  Handed'
  BY DEF Handed, Going, Exported, Flushes

LEMMA HandedSink == CommandInv /\ Handed /\ SinkStep => Handed'
<1> SUFFICES ASSUME CommandInv, Handed, SinkStep PROVE Handed'
  OBVIOUS
<1>1. UNCHANGED <<target, pc, emitted, queue, at>>
  BY DEF SinkStep, WriteLine, OpenFile, Newline, WritePart, WriteRest, LineFails, Move, telemetry
<1>2. written \subseteq written' /\ lost \subseteq lost'
  BY DEF SinkStep, WriteLine, OpenFile, Newline, WritePart, WriteRest, LineFails, Move
<1>3. ASSUME NEW i, Going(i) PROVE Going(i)' \/ Exported(i)'
  <2>1. CASE WriteRest \/ LineFails
    <3>1. line.export \in written' \union lost'
      BY <2>1 DEF WriteRest, LineFails
    <3> QED
      BY <1>3, <3>1 DEF Going, Exported
  <2>2. CASE OpenFile \/ Newline \/ WritePart \/ Move
    <3>1. line'.by = line.by /\ line'.export = line.export
      BY <2>2 DEF OpenFile, Newline, WritePart, Move, CommandInv, Typed, SinkTyped, Lines
    <3> QED
      BY <1>3, <3>1 DEF Going
  <2> QED
    BY <2>1, <2>2 DEF SinkStep, WriteLine
<1>4. \A i : Exported(i) => Exported(i)'
  BY <1>2, ExportedStays
<1> QED
  BY <1>1, <1>3, <1>4 DEF Handed, Flushes

LEMMA HandedEmit == CommandInv /\ Handed /\ (SpanEnds \/ RunReturns) => Handed'
<1> SUFFICES ASSUME CommandInv, Handed, SpanEnds \/ RunReturns, target # "none" PROVE Handed'
  BY DEF SpanEnds, RunReturns, Handed, sinkVars
<1>1. PICK items : Emit(items)
  BY DEF SpanEnds, RunReturns
<1>2. UNCHANGED sinkVars /\ pc' # "stopping"
      /\ (Flushes' => \A s \in Signals : at'[s] = 1)
  BY DEF SpanEnds, RunReturns, Flushes
<1>3. ASSUME NEW i \in emitted' PROVE i \in queue'[i[1]]["file"] \/ Going(i)' \/ Exported(i)'
  <2>1. i[1] \in Signals
    BY RunKeeps, EmittedItems, <1>3 DEF CommandInv, Typed, Items
  <2>2. queue'[i[1]]["file"] = queue[i[1]]["file"] \union {j \in items : j[1] = i[1]}
    BY <1>1, <2>1, FileIsFirst DEF Emit, Destinations
  <2>3. CASE i \in emitted
    BY <1>2, <2>2, <2>3 DEF Handed, Going, Exported, sinkVars
  <2>4. CASE i \in items
    BY <2>2, <2>4
  <2> QED
    BY <1>1, <2>3, <2>4 DEF Emit
<1> QED
  BY <1>2, <1>3 DEF Handed

LEMMA HandedExport ==
  ASSUME CommandInv, Handed, NEW s \in Signals, NEW d \in Destinations, ExportBegins(s, d)
  PROVE  Handed'
<1>1. /\ queue' = [queue EXCEPT ![s][d] = {}]
      /\ UNCHANGED <<target, pc, emitted, at, written, lost>>
  BY DEF ExportBegins, BeginLine, sinkVars
<1>2. queue \in Queues
  BY DEF CommandInv, Typed
<1>3. \A i : Exported(i) => Exported(i)'
  BY <1>1, ExportedStays
<1>4. ASSUME NEW i \in emitted, i \in queue[i[1]]["file"] \/ Going(i) \/ Exported(i)
      PROVE  i \in queue'[i[1]]["file"] \/ Going(i)' \/ Exported(i)'
  <2>0. i[1] \in Signals
    BY EmittedItems DEF CommandInv
  <2>1. CASE d = "file"
    <3>1. line = Free /\ line'.by = s /\ line'.export = queue[s]["file"]
      BY <2>1 DEF ExportBegins, BeginLine
    <3>2. ~Going(i)
      BY <3>1 DEF Going, Free
    <3>3. CASE i[1] = s
      BY <1>3, <1>4, <3>1, <3>2, <3>3 DEF Going
    <3>4. CASE i[1] # s
      <4>1. queue'[i[1]]["file"] = queue[i[1]]["file"]
        BY <1>1, <1>2, <2>0, <3>4 DEF Queues
      <4> QED
        BY <1>3, <1>4, <3>2, <4>1
    <3> QED
      BY <3>3, <3>4
  <2>2. CASE d # "file"
    <3>1. queue'[i[1]]["file"] = queue[i[1]]["file"]
      BY <1>1, <1>2, <2>0, <2>2 DEF Queues, Destinations
    <3>2. UNCHANGED line
      BY <2>2 DEF ExportBegins, sinkVars
    <3> QED
      BY <1>3, <1>4, <3>1, <3>2 DEF Going
  <2> QED
    BY <2>1, <2>2
<1> QED
  BY <1>1, <1>3, <1>4 DEF Handed, Flushes

\* A provider goes past the file's processor only when that holds nothing.
LEMMA HandedOnward ==
  ASSUME CommandInv, Handed, NEW s \in Signals, GivenUp(s) \/ \E d \in Destinations : Flushed(s, d)
  PROVE  Handed'
<1>1. /\ at' = [at EXCEPT ![s] = @ + 1]
      /\ UNCHANGED <<target, pc, emitted, queue, line, written, lost>>
  BY DEF GivenUp, Flushed, Onward, sinkVars, telemetry
<1>2. at \in [Signals -> 1..3]
  BY DEF CommandInv, Typed
<1>3. ASSUME target # "none", at[s] = 1, NEW i \in emitted, i[1] = s PROVE Exported(i)
  <2>1. Processors[at[s]] = "file"
    BY <1>3, FileIsFirst
  <2>2. Flushed(s, "file")
    BY <2>1 DEF GivenUp, Flushed, Flushing
  <2>3. queue[s]["file"] = {} /\ line.by # s
    BY <2>2 DEF Flushed, Exporting
  <2> QED
    BY <1>3, <2>3 DEF Handed, Going
<1>4. ASSUME target # "none", Flushes, NEW t \in Signals, at'[t] # 1, NEW i \in emitted, i[1] = t
      PROVE  Exported(i)
  <2>1. CASE t = s
    BY <1>3, <1>4, <2>1 DEF Handed
  <2>2. CASE t # s
    <3>1. at[t] # 1
      BY <1>1, <1>2, <1>4, <2>2
    <3> QED
      BY <1>4, <3>1 DEF Handed
  <2> QED
    BY <2>1, <2>2
<1> QED
  BY <1>1, <1>4 DEF Handed, Going, Exported, Flushes

LEMMA HandedPrinted == CommandInv /\ Handed /\ PrintOutcome => Handed'
<1> SUFFICES ASSUME CommandInv, Handed, PrintOutcome, target # "none" PROVE Handed'
  BY DEF PrintOutcome, Handed, sinkVars
<1>1. UNCHANGED <<target, emitted, queue, line, written, lost>>
      /\ Flushes /\ at' = [s \in Signals |-> 1]
  BY DEF PrintOutcome, sinkVars, telemetry, Flushes
<1>2. \A s \in Signals : at[s] # 1
  BY FileIsFirst DEF PrintOutcome, AllFlushed
<1>3. \A i \in emitted : Exported(i)
  BY <1>1, <1>2, EmittedItems DEF Handed, CommandInv
<1> QED
  BY <1>1, <1>3 DEF Handed, Exported

LEMMA HandedStep == CommandInv /\ Handed /\ [Next]_vars => Handed'
<1> SUFFICES ASSUME CommandInv, Handed, [Next]_vars PROVE Handed'
  OBVIOUS
<1>1. CASE Exit \/ Refuse \/ Kill \/ (Signal /\ pc = "starting")
  <2>1. emitted' = {} /\ pc' \in {"over", "killed"}
    BY <1>1 DEF Exit, Refuse, Kill, Signal, Ends
  <2> QED
    BY <2>1 DEF Handed, Flushes
<1>2. CASE \/ CatchSignals \/ Begin \/ (Signal /\ pc # "starting") \/ Done \/ UNCHANGED vars
           \/ \E s \in Signals : Answered(s)
  <2>1. UNCHANGED <<target, emitted, queue, line, written, lost, at>>
    BY <1>2 DEF CatchSignals, Begin, SinkStart, Signal, Done, vars, Answered, sinkVars, telemetry
  <2>2. pc' \in {"flushing", "stopping"} => pc' = pc
    BY <1>2 DEF CatchSignals, Begin, Signal, Done, vars, Answered
  <2> QED
    BY <2>1, <2>2, HandedAside
<1>3. CASE SinkStep
  BY <1>3, HandedSink
<1>4. CASE SpanEnds \/ RunReturns
  BY <1>4, HandedEmit
<1>5. CASE PrintOutcome
  BY <1>5, HandedPrinted
<1>6. ASSUME NEW s \in Signals, GivenUp(s) \/ \E d \in Destinations : Flushed(s, d)
      PROVE  Handed'
  BY <1>6, HandedOnward
<1>7. ASSUME NEW s \in Signals, NEW d \in Destinations, ExportBegins(s, d) PROVE Handed'
  BY <1>7, HandedExport
<1> QED
  BY <1>1, <1>2, <1>3, <1>4, <1>5, <1>6, <1>7 DEF Next, Main

\* However many spans a run ends, and whatever a collector does, a provider
\* that waits for it has had its file written, and a run that returned has all
\* of its telemetry in the file (telemetry.rs flush_providers).
THEOREM FileAlwaysFirst == Spec => []FileFirst
<1>1. Init => Handed
  BY DEF Init, Handed, Flushes
<1>2. CommandInv /\ Handed => FileFirst
  <2> SUFFICES ASSUME CommandInv, Handed, target # "none",
                      NEW s \in Signals, Flushing(s, "network")
               PROVE  \A i \in emitted : i[1] = s => Exported(i)
    BY DEF FileFirst, Handed
  <2>1. at[s] # 1
    BY FileIsFirst DEF Flushing
  <2> QED
    BY <2>1 DEF Handed, Flushing
<1> QED
  BY <1>1, <1>2, HandedStep, CommandInvHolds, PTL DEF Spec
=============================================================================
