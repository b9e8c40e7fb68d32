------------------------ MODULE TranscriptFileProofs -------------------------
(***************************************************************************)
(* Writing a transcript keeps its promises for any number of writes,       *)
(* processes and process ids, and for any umask.                           *)
(***************************************************************************)
EXTENDS TranscriptFile, TLAPS

Making == {"permitting", "filling", "syncing", "renaming", "removing"}
Places == {"idle", "naming"} \union Making \union Over
Directories == [Names -> Files \union {None}]

Types ==
  /\ directory \in mayBe /\ mayBe \subseteq Directories
  /\ whole \subseteq Files /\ synced \subseteq whole /\ Before \in synced
  /\ mode \in [Files -> SUBSET Everyone]
  /\ number \in [Processes -> Nat]
  /\ held \in [Writes -> (SUBSET Everyone) \union {None}]
  /\ unread \subseteq Writes
  /\ temporary \in [Writes -> Names]
  /\ pc \in [Writes -> Places]

\* A write's file is on no disk and under no name before it's made, is synced
\* once all of it is there, and only a synced file is ever at the path.
FileInv ==
  /\ Types
  /\ OwnTemporary
  /\ \A d \in mayBe : d[Path] # None => d[Path] \in synced
  /\ \A w \in Writes :
       /\ pc[w] \in {"idle", "naming"} => \A d \in mayBe, name \in Names : d[name] # w
       /\ pc[w] \in {"idle", "naming", "permitting", "filling", "syncing"} => w \notin synced
       /\ pc[w] = "syncing" => w \in whole
       /\ pc[w] = "renaming" => w \in synced

\* The names a write tries are none that the config gives.
LEMMA NextNameIsName ==
  ASSUME Types, NEW w \in Writes, number[Process[w]] <= LastNumber
  PROVE  NextName(w) \in Names /\ NextName(w) # Path
<1>1. Process[w] \in Processes /\ number[Process[w]] \in 0..LastNumber
  BY TranscriptAssumption DEF Types
<1> QED
  BY <1>1, TranscriptAssumption DEF NextName, Names, Pids

LEMMA FileInvInit == Init => FileInv
<1> SUFFICES ASSUME Init PROVE FileInv
  OBVIOUS
<1> PICK there \in {None, Before}, some \in Modes :
       /\ directory = [name \in Names |-> IF name = Path THEN there ELSE None]
       /\ mode = [f \in Files |-> IF there = None THEN NewMode ELSE some]
  BY DEF Init
<1>1. Types
  BY TranscriptAssumption DEF Init, Types, Directories, Names, Files, NewMode, Places
<1>2. \A d \in mayBe : d[Path] # None => d[Path] \in synced
  BY DEF Init, Names
<1>3. \A w \in Writes : pc[w] = "idle" /\ w \notin synced
  BY TranscriptAssumption DEF Init
<1>4. \A w \in Writes, d \in mayBe, name \in Names : d[name] # w
  BY TranscriptAssumption DEF Init, Files
<1> QED
  BY <1>1, <1>2, <1>3, <1>4 DEF FileInv, OwnTemporary

\* A write's step is its own: where the others are doesn't change.
LEMMA GoesType ==
  ASSUME Types, NEW w \in Writes, NEW from, NEW to \in Places, Goes(w, from, to)
  PROVE  /\ pc' \in [Writes -> Places]
         /\ pc[w] = from /\ pc'[w] = to
         /\ \A v \in Writes \ {w} : pc'[v] = pc[v]
  BY DEF Types, Goes

\* Steps that leave every file under the names it had.
LEMMA QuietStepKeeps ==
  ASSUME FileInv, NEW w \in Writes,
         \/ Refused(w) \/ Begin(w) \/ PassOver(w) \/ NotCreated(w) \/ SetPermissions(w)
         \/ Fill(w) \/ Sync(w) \/ StepFails(w) \/ NotRemoved(w)
  PROVE  FileInv'
<1>1. UNCHANGED <<directory, mayBe, temporary>>
  BY DEF Refused, Begin, PassOver, NotCreated, SetPermissions, Fill, Sync, StepFails,
         NotRemoved, Filling
<1>2. \A v \in Writes \ {w} : pc'[v] = pc[v]
  BY DEF FileInv, Types, Goes, Refused, Begin, PassOver, NotCreated, SetPermissions, Fill, Sync,
         StepFails, NotRemoved
<1>3. /\ pc' \in [Writes -> Places]
      /\ pc'[w] \in Making => pc[w] \in Making
      /\ pc'[w] \in {"idle", "naming"} => pc[w] \in {"idle", "naming"}
  BY DEF FileInv, Types, Goes, Refused, Begin, PassOver, NotCreated, SetPermissions, Fill, Sync,
         StepFails, NotRemoved, Places, Making, Over
<1>4. /\ mode' \in [Files -> SUBSET Everyone]
      /\ held' \in [Writes -> (SUBSET Everyone) \union {None}]
      /\ unread' \subseteq Writes
  <2>1. CASE Begin(w)
    <3>1. ModeThere \in (SUBSET Everyone) \union {None}
      BY DEF FileInv, Types, Directories, Names, ModeThere
    <3>2. PICK found \in {ModeThere, None} :
            /\ held' = [held EXCEPT ![w] = found]
            /\ unread' = IF found = ModeThere THEN unread ELSE unread \union {w}
      BY <2>1 DEF Begin
    <3>3. UNCHANGED mode
      BY <2>1 DEF Begin
    <3> QED
      BY <3>1, <3>2, <3>3 DEF FileInv, Types
  <2>2. CASE SetPermissions(w)
    BY <2>2 DEF FileInv, Types, SetPermissions, Filling, Files
  <2> QED
    BY <2>1, <2>2 DEF FileInv, Types, Refused, PassOver, NotCreated, Tried, Fill, Sync, StepFails,
                      NotRemoved, Filling
<1>5. number' \in [Processes -> Nat]
  BY TranscriptAssumption
  DEF FileInv, Types, Refused, Begin, PassOver, NotCreated, Tried, SetPermissions, Fill, Sync,
      StepFails, NotRemoved, Filling
<1>6. /\ whole' \subseteq Files /\ synced' \subseteq whole' /\ Before \in synced'
      /\ synced \subseteq synced' /\ whole \subseteq whole' /\ synced' \subseteq synced \union {w}
      /\ pc'[w] \in {"idle", "naming", "permitting", "filling", "syncing"} => w \notin synced'
      /\ pc'[w] = "syncing" => w \in whole'
      /\ pc'[w] = "renaming" => w \in synced'
  <2>1. CASE Fill(w)
    BY <2>1 DEF FileInv, Types, Fill, Filling, Goes, Files
  <2>2. CASE Sync(w)
    BY <2>2 DEF FileInv, Types, Sync, Filling, Goes, Files
  <2>3. CASE ~Fill(w) /\ ~Sync(w)
    <3>1. UNCHANGED <<whole, synced>>
      BY <2>3 DEF Refused, Begin, PassOver, NotCreated, Tried, SetPermissions, StepFails,
                  NotRemoved, Filling
    <3>2. /\ pc'[w] \in {"idle", "naming", "permitting", "filling", "syncing"} =>
               pc[w] \in {"idle", "naming", "permitting", "filling", "syncing"}
          /\ pc'[w] \notin {"syncing", "renaming"}
      BY <2>3 DEF FileInv, Types, Goes, Refused, Begin, PassOver, NotCreated, SetPermissions,
                  StepFails, NotRemoved
    <3> QED
      BY <3>1, <3>2 DEF FileInv, Types
  <2> QED
    BY <2>1, <2>2, <2>3
<1>7. Types'
  BY <1>1, <1>3, <1>4, <1>5, <1>6 DEF FileInv, Types
<1>8. OwnTemporary'
  BY <1>1, <1>2, <1>3 DEF FileInv, OwnTemporary, Making
<1>9. \A d \in mayBe' : d[Path] # None => d[Path] \in synced'
  BY <1>1, <1>6 DEF FileInv
<1>10. \A v \in Writes :
         /\ pc'[v] \in {"idle", "naming"} => \A d \in mayBe', name \in Names : d[name] # v
         /\ pc'[v] \in {"idle", "naming", "permitting", "filling", "syncing"} => v \notin synced'
         /\ pc'[v] = "syncing" => v \in whole'
         /\ pc'[v] = "renaming" => v \in synced'
  BY <1>1, <1>2, <1>3, <1>6 DEF FileInv
<1> QED
  BY <1>7, <1>8, <1>9, <1>10 DEF FileInv

LEMMA CreateKeeps ==
  ASSUME FileInv, NEW w \in Writes, Create(w)
  PROVE  FileInv'
<1> DEFINE name == NextName(w)
<1> DEFINE new == [directory EXCEPT ![name] = w]
<1>1. name \in Names /\ name # Path
  BY NextNameIsName DEF FileInv, Create, Tried
<1> HIDE DEF name
<1>2. /\ directory' = new /\ mayBe' = mayBe \union {new} /\ directory[name] = None
      /\ temporary' = [temporary EXCEPT ![w] = name]
      /\ UNCHANGED <<whole, synced, held, unread>>
      /\ pc[w] = "naming" /\ pc' = [pc EXCEPT ![w] = "permitting"]
  BY DEF name, Create, Rearranged, Tried, Free, Goes
<1>3. new \in Directories /\ new[Path] = directory[Path] /\ new[name] = w
  BY <1>1 DEF FileInv, Types, Directories, Names, Files
<1>4. Types'
  <2>1. number' \in [Processes -> Nat]
    <3>1. number' = [number EXCEPT ![Process[w]] = @ + 1]
      BY DEF Create, Tried
    <3> QED
      BY <3>1, TranscriptAssumption DEF FileInv, Types
  <2>2. mode' \in [Files -> SUBSET Everyone]
    BY DEF FileInv, Types, Create, ModeFor
  <2> QED
    BY <1>1, <1>2, <1>3, <2>1, <2>2 DEF FileInv, Types, Places, Making
<1>5. OwnTemporary'
  <2> SUFFICES ASSUME NEW v \in Writes,
                      pc'[v] \in {"permitting", "filling", "syncing", "renaming", "removing"}
               PROVE  temporary'[v] # Path /\ directory'[temporary'[v]] = v
    BY DEF OwnTemporary
  <2>1. CASE v = w
    BY <2>1, <1>1, <1>2, <1>3 DEF FileInv, Types
  <2>2. CASE v # w
    <3>1. temporary'[v] = temporary[v] /\ temporary[v] # Path /\ directory[temporary[v]] = v
      BY <2>2, <1>2 DEF FileInv, Types, OwnTemporary
    <3>2. temporary[v] \in Names /\ temporary[v] # name
      BY <3>1, <1>2, TranscriptAssumption DEF FileInv, Types, Files
    <3> QED
      BY <3>1, <3>2, <1>1, <1>2 DEF FileInv, Types, Directories
  <2> QED
    BY <2>1, <2>2
<1>6. \A d \in mayBe' : d[Path] # None => d[Path] \in synced'
  BY <1>2, <1>3 DEF FileInv, Types
<1>7. \A v \in Writes \ {w} :
        pc'[v] \in {"idle", "naming"} => \A d \in mayBe', n \in Names : d[n] # v
  <2> SUFFICES ASSUME NEW v \in Writes \ {w}, pc[v] \in {"idle", "naming"}, NEW n \in Names
               PROVE  new[n] # v
    BY <1>2 DEF FileInv, Types
  <2> QED
    BY <1>1 DEF FileInv, Types, Directories
<1>8. \A v \in Writes :
        /\ pc'[v] \in {"idle", "naming", "permitting", "filling", "syncing"} => v \notin synced'
        /\ pc'[v] = "syncing" => v \in whole'
        /\ pc'[v] = "renaming" => v \in synced'
  BY <1>2 DEF FileInv, Types
<1> QED
  BY <1>2, <1>4, <1>5, <1>6, <1>7, <1>8 DEF FileInv, Types

LEMMA RenameKeeps ==
  ASSUME FileInv, NEW w \in Writes, Rename(w)
  PROVE  FileInv'
<1> DEFINE new == [directory EXCEPT ![Path] = directory[temporary[w]], ![temporary[w]] = None]
<1>1. /\ directory' = new /\ mayBe' = mayBe \union {new}
      /\ UNCHANGED <<whole, synced, mode, number, held, unread, temporary>>
      /\ pc[w] = "renaming" /\ pc' = [pc EXCEPT ![w] = "written"]
  BY DEF Rename, Rearranged, Filling, Goes
<1>2. /\ temporary[w] \in Names /\ temporary[w] # Path /\ directory[temporary[w]] = w
      /\ w \in synced
  BY <1>1 DEF FileInv, Types, OwnTemporary
<1>3. /\ new \in Directories /\ new[Path] = w
      /\ \A n \in Names : new[n] \in {directory[n], w, None}
      /\ \A n \in Names \ {Path, temporary[w]} : new[n] = directory[n]
  BY <1>2 DEF FileInv, Types, Directories, Names, Files
<1> HIDE DEF new
<1>4. Types'
  BY <1>1, <1>3 DEF FileInv, Types, Places, Over
<1>5. OwnTemporary'
  <2> SUFFICES ASSUME NEW v \in Writes,
                      pc'[v] \in {"permitting", "filling", "syncing", "renaming", "removing"}
               PROVE  temporary[v] # Path /\ new[temporary[v]] = v
    BY <1>1 DEF OwnTemporary
  <2>1. v # w /\ pc[v] = pc'[v]
    BY <1>1 DEF FileInv, Types
  <2>2. temporary[v] \in Names /\ temporary[v] # Path /\ directory[temporary[v]] = v
    BY <2>1 DEF FileInv, Types, OwnTemporary
  <2> QED
    BY <2>1, <2>2, <1>2, <1>3
<1>6. \A d \in mayBe' : d[Path] # None => d[Path] \in synced'
  BY <1>1, <1>2, <1>3 DEF FileInv
<1>7. \A v \in Writes : pc'[v] \in {"idle", "naming"} => \A d \in mayBe', n \in Names : d[n] # v
  <2> SUFFICES ASSUME NEW v \in Writes, pc'[v] \in {"idle", "naming"}, NEW n \in Names
               PROVE  new[n] # v /\ \A d \in mayBe : d[n] # v
    BY <1>1
  <2>1. v # w /\ pc[v] = pc'[v]
    BY <1>1 DEF FileInv, Types
  <2> QED
    BY <2>1, <1>3, TranscriptAssumption DEF FileInv, Types, Files
<1>8. \A v \in Writes :
        /\ pc'[v] \in {"idle", "naming", "permitting", "filling", "syncing"} => v \notin synced'
        /\ pc'[v] = "syncing" => v \in whole'
        /\ pc'[v] = "renaming" => v \in synced'
  BY <1>1 DEF FileInv, Types
<1> QED
  BY <1>4, <1>5, <1>6, <1>7, <1>8 DEF FileInv

LEMMA RemoveKeeps ==
  ASSUME FileInv, NEW w \in Writes, Remove(w)
  PROVE  FileInv'
<1> DEFINE new == [directory EXCEPT ![temporary[w]] = None]
<1>1. /\ directory' = new /\ mayBe' = mayBe \union {new}
      /\ UNCHANGED <<whole, synced, mode, number, held, unread, temporary>>
      /\ pc[w] = "removing" /\ pc' = [pc EXCEPT ![w] = "failed"]
  BY DEF Remove, Rearranged, Filling, Goes
<1>2. temporary[w] \in Names /\ temporary[w] # Path /\ directory[temporary[w]] = w
  BY <1>1 DEF FileInv, Types, OwnTemporary
<1>3. /\ new \in Directories /\ new[Path] = directory[Path]
      /\ \A n \in Names : new[n] \in {directory[n], None}
      /\ \A n \in Names \ {temporary[w]} : new[n] = directory[n]
  BY <1>2 DEF FileInv, Types, Directories, Names
<1> HIDE DEF new
<1>4. Types'
  BY <1>1, <1>3 DEF FileInv, Types, Places, Over
<1>5. OwnTemporary'
  <2> SUFFICES ASSUME NEW v \in Writes,
                      pc'[v] \in {"permitting", "filling", "syncing", "renaming", "removing"}
               PROVE  temporary[v] # Path /\ new[temporary[v]] = v
    BY <1>1 DEF OwnTemporary
  <2>1. v # w /\ pc[v] = pc'[v]
    BY <1>1 DEF FileInv, Types
  <2>2. temporary[v] \in Names /\ temporary[v] # Path /\ directory[temporary[v]] = v
    BY <2>1 DEF FileInv, Types, OwnTemporary
  <2> QED
    BY <2>1, <2>2, <1>2, <1>3
<1>6. \A d \in mayBe' : d[Path] # None => d[Path] \in synced'
  BY <1>1, <1>3 DEF FileInv, Types
<1>7. \A v \in Writes : pc'[v] \in {"idle", "naming"} => \A d \in mayBe', n \in Names : d[n] # v
  <2> SUFFICES ASSUME NEW v \in Writes, pc'[v] \in {"idle", "naming"}, NEW n \in Names
               PROVE  new[n] # v /\ \A d \in mayBe : d[n] # v
    BY <1>1
  <2>1. v # w /\ pc[v] = pc'[v]
    BY <1>1 DEF FileInv, Types
  <2> QED
    BY <2>1, <1>3, TranscriptAssumption DEF FileInv, Types, Files
<1>8. \A v \in Writes :
        /\ pc'[v] \in {"idle", "naming", "permitting", "filling", "syncing"} => v \notin synced'
        /\ pc'[v] = "syncing" => v \in whole'
        /\ pc'[v] = "renaming" => v \in synced'
  BY <1>1 DEF FileInv, Types
<1> QED
  BY <1>4, <1>5, <1>6, <1>7, <1>8 DEF FileInv

\* Where the writes of some processes are killed, the others stay.
LEMMA KilledKeeps ==
  ASSUME FileInv, NEW some, Killed(some)
  PROVE  /\ pc' \in [Writes -> Places]
         /\ \A v \in Writes : pc'[v] = pc[v] \/ pc'[v] = "killed"
  BY DEF FileInv, Types, Killed, Places, Over

LEMMA KillKeeps ==
  ASSUME FileInv, NEW p \in Processes, Kill(p)
  PROVE  FileInv'
<1>1. UNCHANGED <<directory, mayBe, whole, synced, mode, number, held, unread, temporary>>
  BY DEF Kill
<1>2. /\ pc' \in [Writes -> Places]
      /\ \A v \in Writes : pc'[v] = pc[v] \/ pc'[v] = "killed"
  BY KilledKeeps DEF Kill
<1> QED
  BY <1>1, <1>2 DEF FileInv, Types, OwnTemporary

LEMMA CrashKeeps ==
  ASSUME FileInv, Crash
  PROVE  FileInv'
<1>1. /\ directory' \in mayBe /\ mayBe' = {directory'}
      /\ UNCHANGED <<synced, mode, number, held, unread, temporary>>
      /\ synced \subseteq whole' /\ whole' \subseteq whole
  BY DEF Crash, FileInv, Types
<1>2. /\ pc' \in [Writes -> Places]
      /\ \A v \in Writes : pc'[v] = pc[v] \/ pc'[v] = "killed"
      /\ \A v \in Writes : pc'[v] \in Over \union {"idle"}
  BY TranscriptAssumption, KilledKeeps DEF Crash, Killed, Over
<1> QED
  BY <1>1, <1>2 DEF FileInv, Types, OwnTemporary, Over

LEMMA FileInvNext == FileInv /\ [Next]_vars => FileInv'
<1> SUFFICES ASSUME FileInv, [Next]_vars PROVE FileInv'
  OBVIOUS
<1>1. CASE \E w \in Writes : WriteStep(w)
  BY <1>1, QuietStepKeeps, CreateKeeps, RenameKeeps, RemoveKeeps DEF WriteStep
<1>2. CASE \E p \in Processes : Kill(p)
  BY <1>2, KillKeeps
<1>3. CASE Crash
  BY <1>3, CrashKeeps
<1>4. CASE UNCHANGED vars
  BY <1>4 DEF vars, FileInv, Types, OwnTemporary
<1> QED
  BY <1>1, <1>2, <1>3, <1>4 DEF Next

LEMMA FileInvHolds == Spec => []FileInv
  BY FileInvInit, FileInvNext, PTL DEF Spec

\* No write renames or removes a file that another one made, whatever process
\* ids the processes have and however many names are taken (lib.rs,
\* temporary_beside).
THEOREM OwnTemporaryHolds == Spec => []OwnTemporary
<1>1. FileInv => OwnTemporary
  BY DEF FileInv
<1> QED
  BY <1>1, FileInvHolds, PTL

-----------------------------------------------------------------------------
\* Whatever a crash leaves, the file at the path is one that's whole.
LEMMA HeldIsWhole == FileInv => \A d \in mayBe : HeldIn(d) = d[Path]
  BY DEF FileInv, Types, HeldIn

LEMMA HeldIsWholeNext == FileInv' => \A d \in mayBe' : HeldIn(d)' = d[Path]
  BY DEF FileInv, Types, HeldIn

\* The promise's variables, as the files and the writes make them.
AtPath == {d[Path] : d \in mayBe}
Standings == [w \in Writes |-> Standing(w)]

LEMMA Mapping ==
  ASSUME FileInv
  PROVE  HeldIn(directory) = directory[Path] /\ {HeldIn(d) : d \in mayBe} = AtPath
  BY HeldIsWhole DEF FileInv, Types, AtPath

LEMMA MappingNext ==
  ASSUME FileInv'
  PROVE  HeldIn(directory)' = directory'[Path] /\ {HeldIn(d) : d \in mayBe}' = AtPath'
<1>1. directory' \in mayBe'
  BY DEF FileInv, Types
<1>2. HeldIn(directory)' = directory'[Path]
  BY <1>1, HeldIsWholeNext DEF HeldIn
<1>3. {HeldIn(d) : d \in mayBe}' = AtPath'
  BY HeldIsWholeNext DEF AtPath
<1> QED
  BY <1>2, <1>3

LEMMA RefinesInit == Init => File!FileInit
<1> SUFFICES ASSUME Init PROVE File!FileInit
  OBVIOUS
<1>1. FileInv
  BY FileInvInit
<1>2. directory[Path] \in {None, Before} /\ AtPath = {directory[Path]}
  BY DEF Init, AtPath, Names
<1>3. Standings = [w \in Writes |-> "idle"]
  BY DEF Init, Standings, Standing
<1> QED
  BY <1>1, <1>2, <1>3, Mapping DEF File!FileInit, Standings

LEMMA RefinesStep ==
  ASSUME FileInv, FileInv', [Next]_vars
  PROVE  [File!FileNext]_File!fileVars
<1>1. CASE \E w \in Writes : WriteStep(w)
  <2> PICK w \in Writes : WriteStep(w)
    BY <1>1
  <2>1. CASE Refused(w)
    <3>1. UNCHANGED <<directory, mayBe, whole>>
      BY <2>1 DEF Refused
    <3>2. Standings' = [v \in Writes |-> IF v \in {w} THEN "failed" ELSE Standings[v]]
      BY <2>1 DEF Refused, Goes, Standings, Standing, FileInv, Types
    <3>3. Standings[w] = "idle"
      BY <2>1 DEF Refused, Goes, Standings, Standing
    <3>4. File!Fail({w})
      BY <3>1, <3>2, <3>3 DEF File!Fail, Standings, HeldIn
    <3> QED
      BY <3>4 DEF File!FileNext
  <2>2. CASE Begin(w)
    <3>1. UNCHANGED <<directory, mayBe, whole>>
      BY <2>2 DEF Begin
    <3>2. Standings' = [Standings EXCEPT ![w] = "open"] /\ Standings[w] = "idle"
      BY <2>2 DEF Begin, Goes, Standings, Standing, FileInv, Types
    <3>3. File!Opens(w)
      BY <3>1, <3>2 DEF File!Opens, Standings, HeldIn
    <3> QED
      BY <3>3 DEF File!FileNext
  <2>3. CASE Rename(w)
    <3>1. /\ temporary[w] # Path /\ directory[temporary[w]] = w
          /\ directory' = [directory EXCEPT ![Path] = directory[temporary[w]], ![temporary[w]] = None]
          /\ mayBe' = mayBe \union {directory'}
          /\ pc[w] = "renaming" /\ pc' = [pc EXCEPT ![w] = "written"]
      BY <2>3 DEF Rename, Rearranged, Goes, FileInv, OwnTemporary
    <3>2. directory'[Path] = w
      BY <3>1 DEF FileInv, Types, Directories, Names
    <3>3. AtPath' = AtPath \union {w}
      BY <3>1, <3>2 DEF AtPath
    <3>4. Standings' = [Standings EXCEPT ![w] = "written"] /\ Standings[w] = "open"
      BY <3>1 DEF Standings, Standing, FileInv, Types
    <3>5. File!Lands(w)
      BY <3>2, <3>3, <3>4, Mapping, MappingNext DEF File!Lands, Standings
    <3> QED
      BY <3>5 DEF File!FileNext
  <2>4. CASE ~Refused(w) /\ ~Begin(w) /\ ~Rename(w)
    <3>1. directory'[Path] = directory[Path] /\ AtPath' = AtPath
      <4>1. CASE Create(w)
        <5>1. NextName(w) \in Names /\ NextName(w) # Path
          BY <4>1, NextNameIsName DEF FileInv, Create, Tried
        <5>2. directory'[Path] = directory[Path]
          BY <4>1, <5>1 DEF Create, Rearranged, FileInv, Types, Directories, Names
        <5>3. mayBe' = mayBe \union {directory'} /\ directory \in mayBe
          BY <4>1 DEF Create, Rearranged, FileInv, Types
        <5> QED
          BY <5>2, <5>3 DEF AtPath
      <4>2. CASE Remove(w)
        <5>1. directory'[Path] = directory[Path]
          BY <4>2 DEF Remove, Rearranged, Goes, FileInv, Types, OwnTemporary, Directories, Names
        <5>2. mayBe' = mayBe \union {directory'} /\ directory \in mayBe
          BY <4>2 DEF Remove, Rearranged, FileInv, Types
        <5> QED
          BY <5>1, <5>2 DEF AtPath
      <4>3. CASE ~Create(w) /\ ~Remove(w)
        BY <2>4, <4>3 DEF WriteStep, PassOver, NotCreated, SetPermissions, Fill, Sync, StepFails,
                          NotRemoved, AtPath
      <4> QED
        BY <4>1, <4>2, <4>3
    <3>2. /\ pc[w] \in {"naming"} \union Making
          /\ pc' = [pc EXCEPT ![w] = pc'[w]]
          /\ pc'[w] \in {"naming", "failed"} \union Making
      BY <2>4 DEF WriteStep, PassOver, Create, NotCreated, SetPermissions, Fill, Sync, StepFails,
                  Remove, NotRemoved, Goes, Making, FileInv, Types
    <3>3. CASE pc'[w] = "failed"
      <4>1. Standings' = [v \in Writes |-> IF v \in {w} THEN "failed" ELSE Standings[v]]
        BY <3>2, <3>3 DEF Standings, Standing, FileInv, Types
      <4>2. Standings[w] = "open"
        BY <3>2 DEF Standings, Standing, Making
      <4>3. File!Fail({w})
        BY <3>1, <4>1, <4>2, Mapping, MappingNext DEF File!Fail, Standings
      <4> QED
        BY <4>3 DEF File!FileNext
    <3>4. CASE pc'[w] # "failed"
      <4>1. Standings' = Standings
        BY <3>2, <3>4 DEF Standings, Standing, Making, FileInv, Types
      <4> QED
        BY <3>1, <4>1, Mapping, MappingNext DEF File!fileVars, Standings
    <3> QED
      BY <3>3, <3>4
  <2> QED
    BY <2>1, <2>2, <2>3, <2>4
<1>2. CASE \E p \in Processes : Kill(p)
  <2> PICK p \in Processes : Kill(p)
    BY <1>2
  <2> DEFINE some == {w \in Writes : Process[w] = p /\ pc[w] \notin Over \union {"idle"}}
  <2>1. UNCHANGED <<directory, mayBe, whole>>
    BY DEF Kill
  <2>2. Standings' = [v \in Writes |-> IF v \in some THEN "failed" ELSE Standings[v]]
    BY DEF Kill, Killed, Standings, Standing, FileInv, Types
  <2>3. \A v \in some : Standings[v] = "open"
    BY DEF Standings, Standing, Over
  <2>4. File!Fail(some)
    BY <2>1, <2>2, <2>3 DEF File!Fail, Standings, HeldIn
  <2> QED
    BY <2>4 DEF File!FileNext
<1>3. CASE Crash
  <2>1. directory' \in mayBe /\ mayBe' = {directory'}
    BY <1>3 DEF Crash
  <2>2. directory'[Path] \in AtPath /\ AtPath' = {directory'[Path]}
    BY <2>1 DEF AtPath
  <2>3. Standings' = [v \in Writes |-> IF Standings[v] = "open" THEN "failed" ELSE Standings[v]]
    BY <1>3, TranscriptAssumption DEF Crash, Killed, Standings, Standing, Over, FileInv, Types
  <2>4. File!FileCrashes
    BY <2>2, <2>3, Mapping, MappingNext DEF File!FileCrashes, Standings
  <2> QED
    BY <2>4 DEF File!FileNext
<1>4. CASE UNCHANGED vars
  BY <1>4 DEF vars, File!fileVars, HeldIn, Standing
<1> QED
  BY <1>1, <1>2, <1>3, <1>4 DEF Next

\* Writing a transcript is atomic, for any number of writes, processes, kills
\* and crashes: the file at the path is the one before or one that was written
\* whole (lib.rs, TranscriptFile::write).
THEOREM WritesAtomically == Spec => ImplementsFile
<1>1. FileInv /\ FileInv' /\ [Next]_vars => [File!FileNext]_File!fileVars
  BY RefinesStep
<1> QED
  BY <1>1, RefinesInit, FileInvHolds, PTL DEF Spec, ImplementsFile, File!FileSpec

-----------------------------------------------------------------------------
\* Whether a write that couldn't read the mode has put its file at the path.
Misled == \E w \in unread : pc[w] = "written"

\* A write that could read it knows the mode of the file before from the start,
\* or that there's none, and its own file has exactly that mode before it's
\* filled.
Private ==
  /\ \A d \in mayBe :
       /\ d[Path] \notin unread
       /\ d[Path] = None => mode[Before] = NewMode
       /\ d[Path] # None => mode[d[Path]] = mode[Before]
  /\ \A d \in mayBe, name \in Names :
       d[name] \notin unread \union {None} => mode[d[name]] \subseteq mode[Before]
  /\ \A w \in Writes \ unread :
       /\ pc[w] \in {"naming", "permitting"} =>
            held[w] = mode[Before] \/ (held[w] = None /\ mode[Before] = NewMode)
       /\ pc[w] = "permitting" /\ held[w] = None => mode[w] = mode[Before]
       /\ pc[w] \in {"filling", "syncing", "renaming"} => mode[w] = mode[Before]

ModeInv == Misled \/ Private

LEMMA ModeInvInit == Init => ModeInv
<1> SUFFICES ASSUME Init PROVE Private
  BY DEF ModeInv
<1>1. \A w \in Writes : pc[w] = "idle"
  BY DEF Init
<1>2. Path \in Names /\ Before \in Files
  BY DEF Names, Files
<1> QED
  BY <1>1, <1>2 DEF Init, Private

\* What's written stays written, and whoever couldn't read the mode never could.
LEMMA MisledStays == FileInv /\ Misled /\ [Next]_vars => Misled'
<1> SUFFICES ASSUME FileInv, NEW w \in unread, pc[w] = "written", [Next]_vars
             PROVE  w \in unread' /\ pc'[w] = "written"
  BY DEF Misled
<1>0. w \in Writes
  BY DEF FileInv, Types
<1>1. ASSUME NEW v \in Writes, WriteStep(v) PROVE w \in unread' /\ pc'[w] = "written"
  <2>1. pc[v] # "written" /\ pc' = [pc EXCEPT ![v] = pc'[v]] /\ unread \subseteq unread'
    BY <1>1 DEF WriteStep, Refused, Begin, PassOver, Create, NotCreated, SetPermissions, Fill,
                Sync, Rename, StepFails, Remove, NotRemoved, Tried, Filling, Goes, FileInv, Types
  <2> QED
    BY <1>0, <2>1 DEF FileInv, Types
<1>2. CASE (\E p \in Processes : Kill(p)) \/ Crash
  BY <1>0, <1>2 DEF Kill, Crash, Killed, Over
<1>3. CASE UNCHANGED vars
  BY <1>3 DEF vars
<1> QED
  BY <1>1, <1>2, <1>3 DEF Next

LEMMA CreatedPrivate ==
  ASSUME FileInv, Private, NEW w \in Writes, Create(w)
  PROVE  Private'
<1> DEFINE new == [directory EXCEPT ![NextName(w)] = w]
<1>1. NextName(w) \in Names /\ NextName(w) # Path
  BY NextNameIsName DEF FileInv, Create, Tried
<1>2. /\ mayBe' = mayBe \union {new} /\ UNCHANGED <<held, unread>>
      /\ pc[w] = "naming" /\ pc' = [pc EXCEPT ![w] = "permitting"]
      /\ mode' = [mode EXCEPT ![w] = ModeFor(w) \ Umask]
  BY DEF Create, Rearranged, Goes, Tried
<1>3. /\ w \in Files /\ Before \in Files /\ w # Before
      /\ \A f \in Files \ {w} : mode'[f] = mode[f]
  BY <1>2, TranscriptAssumption DEF Files, FileInv, Types
<1>4. w \notin unread =>
        /\ mode'[w] \subseteq mode[Before]
        /\ held[w] = None => mode'[w] = mode[Before]
  <2>1. mode'[w] = ModeFor(w) \ Umask
    BY <1>2, <1>3 DEF FileInv, Types
  <2>2. w \notin unread => held[w] = mode[Before] \/ (held[w] = None /\ mode[Before] = NewMode)
    BY <1>2 DEF Private
  <2>3. mode[Before] # None
    BY <1>3, TranscriptAssumption DEF FileInv, Types
  <2> QED
    BY <2>1, <2>2, <2>3 DEF ModeFor, NewMode
<1>5. ASSUME NEW d \in mayBe, NEW name \in Names, d[name] # None
      PROVE  mode'[d[name]] = mode[d[name]]
  BY <1>2, <1>3, <1>5 DEF FileInv, Types, Directories
<1>6. /\ new[Path] = directory[Path] /\ new[NextName(w)] = w /\ directory \in mayBe
      /\ \A name \in Names \ {NextName(w)} : new[name] = directory[name]
  BY <1>1 DEF FileInv, Types, Directories, Names
<1> HIDE DEF new
<1>7. \A d \in mayBe', name \in Names :
        d[name] \notin unread \union {None} => mode'[d[name]] \subseteq mode'[Before]
  <2>1. ASSUME NEW d \in mayBe, NEW name \in Names, d[name] \notin unread \union {None}
        PROVE  mode'[d[name]] \subseteq mode'[Before]
    BY <1>3, <1>5, <2>1 DEF Private
  <2>2. ASSUME NEW name \in Names, new[name] \notin unread \union {None}
        PROVE  mode'[new[name]] \subseteq mode'[Before]
    <3>1. CASE name = NextName(w)
      BY <3>1, <1>3, <1>4, <1>6, <2>2
    <3>2. CASE name # NextName(w)
      BY <3>2, <2>1, <2>2, <1>6
    <3> QED
      BY <3>1, <3>2
  <2> QED
    BY <1>2, <2>1, <2>2
<1>8. ASSUME NEW d \in mayBe'
      PROVE  /\ d[Path] \notin unread'
             /\ d[Path] = None => mode'[Before] = NewMode
             /\ d[Path] # None => mode'[d[Path]] = mode'[Before]
  <2>1. PICK e \in mayBe : d[Path] = e[Path]
    BY <1>2, <1>6
  <2>2. e[Path] # None => mode'[e[Path]] = mode[e[Path]]
    BY <1>5 DEF Names
  <2> QED
    BY <1>2, <1>3, <2>1, <2>2 DEF Private
<1>9. ASSUME NEW v \in Writes \ unread
      PROVE  /\ pc'[v] \in {"naming", "permitting"} =>
                  held[v] = mode'[Before] \/ (held[v] = None /\ mode'[Before] = NewMode)
             /\ pc'[v] = "permitting" /\ held[v] = None => mode'[v] = mode'[Before]
             /\ pc'[v] \in {"filling", "syncing", "renaming"} => mode'[v] = mode'[Before]
  <2>1. CASE v = w
    BY <2>1, <1>2, <1>3, <1>4 DEF FileInv, Types, Private
  <2>2. CASE v # w
    BY <2>2, <1>2, <1>3 DEF FileInv, Types, Private, Files
  <2> QED
    BY <2>1, <2>2
<1> QED
  BY <1>2, <1>7, <1>8, <1>9 DEF Private

LEMMA PermittedPrivate ==
  ASSUME FileInv, Private, NEW w \in Writes, SetPermissions(w)
  PROVE  Private'
<1>1. /\ UNCHANGED <<directory, mayBe, held, unread>>
      /\ pc[w] = "permitting" /\ pc' = [pc EXCEPT ![w] = "filling"]
      /\ mode' = [mode EXCEPT ![w] = IF held[w] = None THEN @ ELSE held[w]]
  BY DEF SetPermissions, Filling, Goes
<1>2. w \in Files /\ Before \in Files /\ w # Before
  BY TranscriptAssumption DEF Files
<1>3. /\ w \notin unread => mode'[w] = mode[Before]
      /\ \A f \in Files \ {w} : mode'[f] = mode[f]
  BY <1>1, <1>2 DEF FileInv, Types, Private
<1>4. ASSUME NEW d \in mayBe, NEW name \in Names, d[name] \notin unread \union {None}
      PROVE  /\ mode'[d[name]] \subseteq mode'[Before]
             /\ mode[d[name]] = mode[Before] => mode'[d[name]] = mode'[Before]
  <2>1. d[name] \in Files
    BY <1>4 DEF FileInv, Types, Directories
  <2> QED
    BY <1>2, <1>3, <1>4, <2>1 DEF Private
<1>5. ASSUME NEW d \in mayBe
      PROVE  /\ d[Path] \notin unread
             /\ d[Path] = None => mode'[Before] = NewMode
             /\ d[Path] # None => mode'[d[Path]] = mode'[Before]
  BY <1>2, <1>3, <1>4 DEF Private, Names
<1>6. \A v \in Writes :
        /\ pc'[v] \in {"naming", "permitting"} => v # w /\ pc[v] = pc'[v]
        /\ pc'[v] \in {"filling", "syncing", "renaming"} => v = w \/ pc[v] = pc'[v]
  BY <1>1 DEF FileInv, Types
<1> QED
  BY <1>1, <1>2, <1>3, <1>4, <1>5, <1>6 DEF Private, Files

LEMMA RenamedPrivate ==
  ASSUME FileInv, Private, NEW w \in Writes, Rename(w), ~Misled'
  PROVE  Private'
<1> DEFINE new == [directory EXCEPT ![Path] = directory[temporary[w]], ![temporary[w]] = None]
<1>1. /\ mayBe' = mayBe \union {new} /\ UNCHANGED <<mode, held, unread>>
      /\ pc[w] = "renaming" /\ pc' = [pc EXCEPT ![w] = "written"]
  BY DEF Rename, Rearranged, Filling, Goes
<1>2. temporary[w] \in Names /\ temporary[w] # Path /\ directory[temporary[w]] = w
  BY <1>1 DEF FileInv, Types, OwnTemporary
<1>3. /\ directory \in mayBe /\ w # None /\ new[Path] = w
      /\ \A name \in Names \ {Path} : new[name] \in {directory[name], None}
  BY <1>2, TranscriptAssumption DEF FileInv, Types, Directories, Names, Files
<1>4. w \notin unread /\ mode[w] = mode[Before]
  BY <1>1 DEF Private, Misled, FileInv, Types
<1> HIDE DEF new
<1>5. \A v \in Writes : pc'[v] # "written" => pc'[v] = pc[v]
  BY <1>1 DEF FileInv, Types
<1> QED
  BY <1>1, <1>3, <1>4, <1>5 DEF Private

LEMMA RemovedPrivate ==
  ASSUME FileInv, Private, NEW w \in Writes, Remove(w)
  PROVE  Private'
<1> DEFINE new == [directory EXCEPT ![temporary[w]] = None]
<1>1. /\ mayBe' = mayBe \union {new} /\ UNCHANGED <<mode, held, unread>>
      /\ pc[w] = "removing" /\ pc' = [pc EXCEPT ![w] = "failed"]
  BY DEF Remove, Rearranged, Filling, Goes
<1>2. temporary[w] \in Names /\ temporary[w] # Path
  BY <1>1 DEF FileInv, Types, OwnTemporary
<1>3. /\ directory \in mayBe /\ new[Path] = directory[Path]
      /\ \A name \in Names : new[name] \in {directory[name], None}
  BY <1>2 DEF FileInv, Types, Directories, Names
<1> HIDE DEF new
<1>4. \A v \in Writes : pc'[v] # "failed" => pc'[v] = pc[v]
  BY <1>1 DEF FileInv, Types
<1> QED
  BY <1>1, <1>3, <1>4 DEF Private

\* Steps that make no file, name none and change no mode.
LEMMA OtherStepPrivate ==
  ASSUME FileInv, Private, NEW w \in Writes,
         \/ Refused(w) \/ Begin(w) \/ PassOver(w) \/ NotCreated(w)
         \/ Fill(w) \/ Sync(w) \/ StepFails(w) \/ NotRemoved(w)
  PROVE  Private'
<1>1. UNCHANGED <<directory, mayBe, mode>>
  BY DEF Refused, Begin, PassOver, NotCreated, Fill, Sync, StepFails, NotRemoved, Filling
<1>2. /\ \A v \in Writes \ {w} : pc'[v] = pc[v] /\ held'[v] = held[v]
      /\ unread \subseteq unread'
  BY DEF FileInv, Types, Goes, Refused, Begin, PassOver, NotCreated, Tried, Fill, Sync, StepFails,
         NotRemoved, Filling
<1>3. /\ w \notin unread' =>
           /\ pc'[w] \in {"naming", "permitting"} =>
                held'[w] = mode[Before] \/ (held'[w] = None /\ mode[Before] = NewMode)
           /\ pc'[w] = "permitting" /\ held'[w] = None => mode[w] = mode[Before]
           /\ pc'[w] \in {"filling", "syncing", "renaming"} => mode[w] = mode[Before]
      /\ \A d \in mayBe : d[Path] \notin unread'
  <2>1. CASE Begin(w)
    <3>1. PICK found \in {ModeThere, None} :
            /\ held' = [held EXCEPT ![w] = found]
            /\ unread' = IF found = ModeThere THEN unread ELSE unread \union {w}
      BY <2>1 DEF Begin
    <3>2. pc[w] = "idle" /\ pc'[w] = "naming" /\ held'[w] = found
      BY <2>1, <3>1 DEF Begin, Goes, FileInv, Types
    <3>3. \A d \in mayBe : d[Path] \notin unread'
      BY <3>1, <3>2 DEF Private, FileInv, Names
    <3>4. directory \in mayBe /\ Path \in Names
      BY DEF FileInv, Types, Names
    <3>5. ModeThere = mode[Before] \/ (ModeThere = None /\ mode[Before] = NewMode)
      BY <3>4 DEF Private, ModeThere
    <3> QED
      BY <3>1, <3>2, <3>3, <3>5
  <2>2. CASE ~Begin(w)
    <3>1. UNCHANGED <<held, unread>>
      BY <2>2 DEF Refused, PassOver, NotCreated, Tried, Fill, Sync, StepFails, NotRemoved, Filling
    <3>2. /\ pc'[w] = "naming" => pc[w] = "naming"
          /\ pc'[w] # "permitting"
          /\ pc'[w] \in {"filling", "syncing", "renaming"} =>
               pc[w] \in {"filling", "syncing", "renaming"}
      BY <2>2 DEF FileInv, Types, Goes, Refused, PassOver, NotCreated, Fill, Sync, StepFails,
                  NotRemoved
    <3> QED
      BY <3>1, <3>2 DEF Private
  <2> QED
    BY <2>1, <2>2
<1> QED
  BY <1>1, <1>2, <1>3 DEF Private

LEMMA ModeInvNext == FileInv /\ ModeInv /\ [Next]_vars => ModeInv'
<1> SUFFICES ASSUME FileInv, Private, [Next]_vars, ~Misled' PROVE Private'
  BY MisledStays DEF ModeInv
<1>1. CASE \E w \in Writes : WriteStep(w)
  BY <1>1, CreatedPrivate, PermittedPrivate, RenamedPrivate, RemovedPrivate, OtherStepPrivate
  DEF WriteStep
<1>2. CASE \E p \in Processes : Kill(p)
  <2> PICK p \in Processes : Kill(p)
    BY <1>2
  <2>1. UNCHANGED <<directory, mayBe, mode, held, unread>>
    BY DEF Kill
  <2>2. \A v \in Writes : pc'[v] = pc[v] \/ pc'[v] = "killed"
    BY KilledKeeps DEF Kill
  <2> QED
    BY <2>1, <2>2 DEF Private
<1>3. CASE Crash
  <2>1. directory' \in mayBe /\ mayBe' = {directory'} /\ UNCHANGED <<mode, held, unread>>
    BY <1>3 DEF Crash
  <2>2. \A v \in Writes : pc'[v] = pc[v] \/ pc'[v] = "killed"
    BY <1>3, KilledKeeps DEF Crash
  <2> QED
    BY <2>1, <2>2 DEF Private
<1>4. CASE UNCHANGED vars
  BY <1>4 DEF vars, Private
<1> QED
  BY <1>1, <1>2, <1>3, <1>4 DEF Next

\* A transcript made private stays private under every interleaving of writes,
\* kills and crashes, and its temporary files are never more open than it,
\* unless a write fails to read its mode, whose own file is made as any new one
\* is (lib.rs, TranscriptFile::replace).
THEOREM StaysPrivateHolds == Spec => []StaysPrivate
<1>1. FileInv /\ ModeInv => StaysPrivate
  BY DEF FileInv, Types, ModeInv, Misled, Private, StaysPrivate
<1> QED
  BY <1>1, ModeInvInit, ModeInvNext, FileInvHolds, PTL DEF Spec
=============================================================================
