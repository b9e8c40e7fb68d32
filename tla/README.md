# lablet, specified

TLA+ models of lablet, a headless agent runtime: it sends a task to a model,
runs the tools the model calls, and goes on until the model finishes or a limit
is met. The modules are translated from the Rust source under `src/lablet/`;
TLC checks them on small instances and TLAPS proves the theorems about them for
every value of their constants.

    tlc -workers 2 -config MCConversation_natural.cfg MCConversation
    tlapm RunLoopProofs.tla

`PROJECT.json` maps every definition to the lines it stands for, and lists the
runs, the theorems and the hazards.

## The system

Paths are under `src/lablet/`; `crates/` is the core, `apps/` the programs.

| component | where | state it keeps | operations |
|---|---|---|---|
| run loop, `RunService` | `crates/application/run/src/service.rs` | the reading that admitted an attempt, the attempt's number, the place in the turn | `run`, `drive`, `admit`, `call`, `after_failure`, `run_tools`, `answer`, `settle` |
| run record, `Run`, `Final`, `Pending` | `crates/domain/model/src/run.rs`, `transcript.rs`, `outcome.rs`, `totals.rs` | transcript, the turn held apart, failed attempts and their usage | `start`, `failed_attempt`, `responded`, `answer`, `finish` |
| stop policy | `crates/domain/policy/src/stop.rs` | none | `before_call`, `after_final`, `after_response`, `after_tools`, `allows_wait`, `time_left` |
| retry policy | `crates/domain/policy/src/retry.rs` | none | `new`, `next` |
| tool phase | `run.rs` `Pending::answer`, `service.rs` `answer` | the rest of the calls, a pool of futures, the answers | cut a group, take a call, its turn, its end, its drop |
| tool set | `crates/application/run/src/toolset.rs` | routes, offered tools | `build`, `source`, `concurrency`, `execute` |
| captured conversation | `crates/application/run/src/telemetry/conversation.rs` | messages so far, unanswered calls, results | `opening`, `answered`, `responded`, `unanswered` |
| runner | `crates/application/run/src/runner.rs`, `cancellation.rs` | the cancellation of the run in progress | `run`, `set` |
| secrets and kept output | `crates/domain/model/src/secret.rs`, `output.rs`, `crates/adapters/secondary/tools-builtin/src/text.rs` | bytes of a begun character, text held back, start, end, closing line | `feed`, `push`, `close`, `kept`, `cut` |
| transcript file | `crates/adapters/secondary/transcript-json/src/lib.rs` | a temporary file and the path | `write` |
| built-in tools | `crates/adapters/secondary/tools-builtin/src/` | bash: the shell, its process group, the pipe | `execute`, `run`, drop |
| scripted provider | `crates/adapters/secondary/provider-fake/src/` | entries played | `complete`, `rewind` |
| Anthropic provider | `crates/adapters/secondary/provider-anthropic/src/` | none between attempts | `complete`, `classify` |
| command line | `apps/lablet-cli/src/` | signals, exporters, the file sink | run, shut down, append a line |
| library | `apps/lablet/src/` | a builder's options, the runner | `build`, `run` |
| configuration, secrets lookup | `apps/shared/` | none that outlives a call | parse, validate, look up |
| xtask | `src/xtask` | development tooling | |

The loop asks the policies, drives the record, and calls the provider and the
tools through ports. One task polls everything: the loop awaits one provider
attempt or one wait at a time, or one pool of tool futures, each raced with the
cancellation. What it shares with the rest of the program is a clock, which
moves between any two readings, and a cancellation, which a signal or a caller
sets at any time and nothing unsets. The runner sets that cancellation for each
run, opens the root span, and writes the transcript and then the wide event. The
program around it reads a config, fills it from the environment, settles what's
secret in it and what its commands inherit, builds the providers, the tools and
the exporters, and stops all of them at the end, whatever ends the run.

What is hard in it:

- *Readings that go stale.* A decision is made on a reading of the clock, and
  the work it admits is timed and given its deadline from it.
- *The order of questions.* Cancelled, then time, then tokens, then caps; point
  A before the retry policy; the finish of a response before its calls. One
  state must give one stop reason.
- *Two counts of one thing.* The loop numbers attempts and the record counts
  failed ones; turns carry the attempts of answered calls and the record those
  of the last unanswered one. The captured conversation and the measured sizes
  grow beside the messages they describe.
- *Cancellation.* It may come at every await, wins only over work that hasn't
  ended, and leaves a record that is still whole.
- *Tool phases.* Calls end in any order, start when there is room, and may be
  dropped or too late one by one.
- *A server's answer.* Its kind, its wait and its usage are read out of a status,
  headers and a body that may each contradict the others, be cut or never end,
  and decide several steps later whether and when it's asked again.
- *Failure half way*: a rename that didn't happen, a line half written, a process
  group that hasn't gone, a flush that waits for a collector that never answers.
- *Secrets that travel.* One value may fill a key, a header and a URL, be in the
  environment under another name and come back in a tool's output in pieces.

What makes each component correct: the loop, that every run ends with a stop
reason that is true of it, inside its timeout and its budget; the record, that
the transcript is one a provider accepts and the totals are those of what
happened; the tool phase, that calls overlap only as their tools allow and all
of them are answered; the tool set, that a call reaches the one tool of its name;
the captured conversation, that it is what was sent; the providers, that a server
isn't asked again sooner than it said or against its word, and that a script's
attempts play its entries in turn; the runner, that no cancellation crosses runs;
secrets, that no value is shown however the text is cut, or inherited under
another name; the transcript file, that the path always names a whole transcript;
bash, that a timeout means the work has stopped and nobody else's is killed; the
command, that its telemetry can be read and that it ends when it's told to.

## Modules

    Options               None, the value of an option that isn't set
    StopPolicy            stop.rs: decisions at the stop points
    RetryPolicy           retry.rs: the waits a failed attempt may be given
    ToolCalls             what a call resolves to, and what may become of it
      RunRecord           run.rs: the record, and RecordSpec, what its types allow
        RunLoop           service.rs: the loop; implements RecordSpec
          MCRunLoop
          Conversation    telemetry: what a run says of its calls
            MCConversation
          ProviderCalls   the loop with the Messages adapter and the script
            MCProviderCalls
      ToolAnswers         what a tool phase promises the loop
        ToolPhase         run.rs and service.rs: a phase call by call; implements it
          OfferedPhase    the phase over the tools that executors list
            MCOfferedPhase
      ToolSet             toolset.rs: claimed, filtered and routed names
    MessagesRequest       request.rs: messages and the cache's breakpoint
    MessagesAnswer        error.rs, response.rs: an answer becomes a response or a failure
    Secrets               secret.rs: the cut of the values out of a text
    KeptOutput            output.rs: what is kept of a text, and sent of that
      ToolText            text.rs: bytes in pieces, through both
        MCToolText
    ConfigText            substitute.rs, url.rs: how a ${VAR} is filled and a URL read
      ConfigSecrets       secrets, prepare: what's a secret, what's refused
        CommandEnvironment   from a config to a command's environment
          MCCommandEnvironment
    BashGroup             bash.rs: a shell, its group, the kill and the wait
    FileSink              export/file.rs: one line at a time
      RunCommand          main.rs, telemetry.rs: a command from its start to its exit
    AtomicFile            what writing a transcript promises
      TranscriptFile      transcript-json: a temporary file and a rename; implements it
        MCTranscriptFile
      Runner              runner.rs: run after run, over the promise
    RunLoopProofs, ToolPhaseProofs, BashGroupProofs, RunCommandProofs,
    CommandEnvironmentProofs, ToolTextProofs, TranscriptFileProofs, RunnerProofs

**RunRecord** keeps the fields of `Run` as variables: `turns` is the
transcript, `held` the turn that `Final` or `Pending` holds apart (an empty
sequence in a `Run`), `input` whether the task prompt still waits for the first
turn, `failedAttempts` and `failedUsage` the fields of those names. The types of
run.rs let a caller do four things, and `RecordSpec` is those four in any
order. That the loop implements `RecordSpec` is the refinement
`ImplementsRecord`.

**RunLoop** adds the loop's own state. `pc` says where `drive` or `call` is:
about to read the clock at point A (`clock`), deciding on that reading
(`admit`), with an attempt in flight (`calling`), asleep before a retry
(`waiting`), after a response and before its tools (`pointR`), in a tool phase
(`tools`), after it (`pointB`), returned (`stopping`), closed (`done`). Point A
is asked from three places and `asker` remembers which: before a call, after a
failure, after a wait. `at` is the reading it decides on. A reading that is used
on the spot is not a variable. Each branch of the code that polls an await is an
action: an attempt answers (`ProviderResponds`), fails (`ProviderFails`) or is
dropped (`AttemptDropped`); a wait ends or is dropped. `attemptsStarted` and
`callsStarted` are history, read by one property and by no action.

**ToolPhase** has each call `waiting`, `pooled` (its future is in the pool and
hasn't been polled), `running` (it has reached its executor) or `ended`. The
code polls a pool's futures in no order it promises, so a pooled call's turn
comes at any time. `ToolAnswers` is the phase as one step, written with the same
operator (`Outcomes`) as RunLoop's `ToolsAnswer`, and the phase implements it.

**OfferedPhase** composes the phase with `ToolSet`: what a run may be built of
(`tooling`) is executors and a filter, `set` what `ToolSet::build` made of them,
and a call's turn hands it to the executor its name is routed to (`reached`).
What may not be built never gets that far, so `OfferedInit` asks `Builds`.

**Conversation** adds to each of the loop's actions what its telemetry does in
it: `conversation` is the code's struct of that name, with the messages so far,
the turn's calls and the results that are keyed by call; `measure` is what has been
measured for good of the request's size; `chat` and `opened` are the chat spans.
`Messages` renders the request from the transcript at each attempt, as
`Transcript::messages` does, and `RequestMessages` what the adapter makes of it,
so both can be held to what was captured. Nothing here is read by the loop.

**ProviderCalls** gives the loop the two providers it's built with. The loop
alone lets a provider say anything at any time; here an attempt by the Messages
adapter is a request (`SendRequest`), headers (`HeadersCome`) and a body
(`BodyEnds`), with the deadline and a lost connection over each, and what it
reports is what `MessagesAnswer` reads out of the answer (`Heard`). An attempt of
the script plays the entry of its place. `notBefore` and `settled` are history:
what the server said of the next attempt, to be held against when it comes.

**CommandEnvironment** follows one config: written, filled from variables
(`Fills`), checked (`Prepares`), checked again with the file of the client key
(`Finishes`), its environment settled (`BuildsTools`), a command started in some
span's context (`StartsCommand`). A text is a sequence of words, of which the
model knows how long each is, what it percent-decodes to, and which are
delimiters. `Carried` is what a request carries, read the way its receiver reads
it, and stands apart from what the code derives (`Derived`), so the two can be
compared.

**BashGroup** has every process of a command in the process table or out of it,
and in its group or out of it. The kill is by the group's id, which is free once
nothing of the group is in the table; another group may then have it
(`reused`), and a kill that reaches that group is `strayed`. The future may be
dropped at every await, and its drop kills. A process may leave the group and
come back to it (`Leave`, `Join`), the shell too: it leads a group and no session,
so a program it has become may put itself in another group. What's outside is
beyond the kill.

**FileSink** is a line on its way to the file, one write at a time, under the
lock: `torn` is the code's own memory of what a failed write left. A file is its
lines and what stands after the last line break, each as the exports with text in
it. **RunCommand** is the command around it: `pc` is where `run_command` is,
`queue` what each processor holds, `at` which processor each provider's flush has
come to. A write to the collector may hang for ever; the SDK gives up on it
(`GivenUp`).

**ToolText** is one call's output on its way to the model. `Feed` is the next
read from the tool, `Kept` and `Close` the two ways its text ends; each takes the
bytes through `Text`, `RedactedOutput` and `KeptOutput` and ends with what the
loop sends (`Sent`, the code's `cut`). Three layers hold something back: `begun`
the bytes of a character, `output.held` the start of what may be a secret,
`output.kept.tail` the end of the text. `fed` and `closing` are history, and
`Clean` and `SentOf` say what the whole text would become, with none of the three.

**TranscriptFile** is `replace`, one action for each call that reaches the
operating system, and a write stands at the call it makes next. A name is given
to a number only by `temporary_beside`, where taking the number and opening the
file are one step: no two writes of a process are given one number, and
`create_new` is atomic. Writes of one path may overlap: those of two processes,
even two with the same process id, which live in two PID namespaces or one after
the other, and those of one process whose runs were dropped. A kill stops a
process where it is and leaves its temporary file. A crash leaves the directory
as it is or as it was at some time since the crash before (`mayBe`), because
nobody syncs the directory, and leaves of a file that wasn't synced perhaps only
a part (`whole`, `synced`). So a crash after a write that returned may bring back
the file before it, whole: `AtomicFile` says so, in `FileCrashes`, as the code
promises no more.

**Runner** composes one run after another with `AtomicFile`, whose writes are the
runs' transcripts. The loop is one step, which may end cancelled if the handle
`RunCancellation` answers for was fired. A run's write starts when its loop has
returned and goes on by itself (`WriteStep`), as `spawn_blocking` has it, while
the run awaits it and while it doesn't: the caller may drop the run's future at
any await.

### What is abstracted

- A response is its finish, its calls and its usage; a call is the name the tools
  resolve, whether its arguments parsed and its tool's concurrency. Text and
  digests are left out. Ids are in the modules about messages: in `Conversation`
  a call's id is its place in its response, so ids come again from turn to turn.
- Usage is its total of input and output tokens, which is all the budget reads.
- Durations are whole units. "No time left" is 0 where the code has `None`.
- The jitter of a wait is any share the salt may give. The backoff factor is a
  whole number.
- A tool's bytes are five: two letters, a newline, and the lead and the
  continuation of one character of three bytes, which is enough for each kind of
  mistake a UTF-8 reader marks. The marker is two characters. Secrets are given
  as registered, and none holds a newline or the long character. A text is one
  item, and what the cut hands on in parts is kept in one push.
- The texts of a config are words. Its fields are the model's key and URL, the
  OTLP headers, as a map or as one text, and endpoint, bash's `credentials` and
  `env`, and one plain setting. MCP servers (refused at this commit), the parts of
  a value with several lines, the Basic form of a URL's user and password, the
  reading of prompts and scripts, and trimmed whitespace are left out. What else a
  step may refuse a config for is the choice to refuse that each step has.
- An answer of a server is its status, how its length stands to the bound that's
  read, what its body holds, and the two headers that are read.
- A transcript is the write that made it, and a file's permissions are the set of
  those it lets in. Symbolic links, and the path that a run id makes, are left
  out; a run whose id can't be in a path has no place, and is handed back so.
- Spans' attributes, wide events' fields and the wording of all messages are left
  out: they read the state and change none of it.
- Executors, servers, collectors, the clock, the operating system and the source
  of cancellation are the environment. They do what their ports allow, and hang
  unless a run says otherwise.

## Runs

| run | asks | instance |
|---|---|---|
| `loop_natural` | the transcript's rules, nothing sent that never ran, stop reasons, budget, the loop's attempt numbers and the record's count of retries (`AttemptsCounted`), the record's refinement; captured and measured is what was sent (`ToldIsSent`), retries follow their announcement, requests answer every call and repeat what was cached (`RequestsTaken`) | every limit set, two turns with tools, failures with usage, hints and jitter |
| `loop_provided` | a server's wait and its word are kept (`ServerHeeded`), each attempt plays its own entry, cut responses complete nothing, a cancelled run stops | explicit mode; a server that answers in every class, a script of five entries |
| `loop_ends` | every run ends, and by its timeout when provider and tools keep their deadlines | no caps and no budget; fair, punctual; each attempt takes some time |
| `phase_groups` | groups, the pool, no later group, calls reach their tool and exclusive tools run alone (`ToolsAsListed`); the phase of a cancelled run ends; the phase implements `ToolAnswers` | seven ways to build the tools, turns of up to four calls; pool of two; executors may hang |
| `bash_kills` | a timeout means gone, kills reach their own group, a call ends whose shell stays in its group or exits, and one that's over without its command having ended leaves nothing of the group running (`CallsStop`, of `CallEnds` and `LeavesNoneRunning`) | a shell that may start two processes, each of the three may fork, leave the group, come back and hold the pipe |
| `commands_get` | what's carried is cut, own credentials stay out of commands, what's dropped stays dropped, `check` says what commands get and no process inherits what was dropped (`SaidOfCommands`), URLs are read as written, what's shown owes nothing to a credential's variable | every combination of a few texts over variables that set, copy, encode or drop a credential, and URLs whose scheme and `@` are defaults |
| `text_cut` | pieces against the whole text and how little is held (`CutAsWhole`), and that no secret is sent | all texts of five bytes, in pieces of one and two, and of nine letters, in pieces of one and three; four secrets that overlap, nest and begin alike; four caps |
| `file_writes` | writes touch only their own files, private ones stay private while their mode can be read, and the writes implement `AtomicFile` | three writes, of two processes with one id, one of which may fail to read the mode; kills and crashes |
| `command_stops` | what's written whole can be read, the file is whole before a collector is waited for, a stopped command ends | two exporters, three files, one span beside the root's; torn writes, a moved file, signals and kills |
| `runner_runs` | no cancellation crosses runs, events name whole transcripts, the last run's is kept | three runs, two handles, drops |
| `usage_dropped` | finds that a success with usage may fail without it | as `loop_provided` |
| `runner_dropped` | finds that a dropped run's write may land over a later run's | as `runner_runs` |

Two runs are expected to fail, each on what the repository says of itself.

`runner_dropped`: `transcript-json/src/lib.rs:82` says that of a path every run
shares, "a second run writes over the first". Its write is on a thread of its own,
and `lablet/src/lablet.rs:88` tells a caller that a run dropped during its write
still leaves its transcript. When the next run ends before that thread gets to its
rename, the first run's transcript replaces the second's, whose wide event has
already named the path. While no run is dropped the second does write over the
first, which is `LastRunKept`.

`usage_dropped`: the port says that an error "carries the usage the provider
reported for the attempt" (`application/run/src/provider.rs:140`). The Messages
adapter reads a message whole and then refuses it for a missing stop reason, a
block it can't take or two calls of one id, with an error that has no usage, so
neither the totals nor the budget count an attempt that was billed.

Met on the way, and no finding, since nothing says otherwise: a process starts
with `torn` unset, so its first line may join what an earlier process left; the
check for defaults asks only for a text's first one (`HasDefault`); the
`retry-after` of a 200 that can't be read isn't taken for a wait, nor is one whose
body broke off; and the group's id may be another's in the moment between the
shell's end and a kill that a timeout has begun (`KillsOwn` allows it there).

A shell that left its group. A process that left the group is "neither stopped nor
waited for" (`tools-builtin/src/lib.rs:73`), but the shell is waited for always.
Once the call's time is up, `Group::kill` ignores that it found no group, and the
wait for the shell that follows (`bash.rs:290`) has no bound. A command that becomes
a program in another group, as `exec` of one that calls `setpgid` makes it, and
that never exits keeps its call until the loop drops it. So `CallEnds` says that a
call ends if its shell is in the group as long as it runs (`ShellStays`) or exits
by itself (`ShellExits`); without one of the two it's not true of the code.

A mode that can't be read. `TranscriptFile::write` says that "a transcript that was
made private stays private" (`transcript-json/src/lib.rs:127`). The mode is read
with `metadata(..).ok()`, so a read that fails, for whatever reason, is taken for
there being no file, and the new transcript is made as any new one is, with what
the umask leaves of `NEW_FILE_MODE`. `StaysPrivate` says so: `unread` are the
writes that were misled, and it promises nothing of their own files, nor of the
path once one of them has put its file there.

What a URL's text keeps. Where a URL's parts are is judged by its text with each
`${VAR:-default}` as its default (`substitute.rs:348`), and what's sent has the
variable's own value there when it's set. In `${USER}${COPY:-@}host` the default's
`@` makes `USER` part of the user information; when `COPY` holds a text with no `@`
the config is accepted and the URL that's sent has none, so the rule that
`prepare/src/lib.rs:1493` states for a credential's variable is kept by the text and
not by what it came to. `ReadAsWritten` and `ShownHoldsNone` are therefore about a
URL that keeps what its text wrote (`KeepsDelimiters`): no value was given in place
of a default that writes the `@`, and one given in place of a default that writes
the scheme's `://` ends with one. What `ReadAsWritten` says first, that no `@` stands
past the authority and none makes a user information that the text has none of,
holds of every URL. `commands_get` has configs on either side (`DefaultConfigs`,
`MovedConfigs`).

**Bounds.** In `loop_natural` and `loop_provided` the clock stops at the timeout,
`TimeBound`; a reading past it is to the loop what one at it is, with no time
left, and `loop_ends` has readings on either side. `TurnBound` is the number of
turns after which the provider calls no more tools; with two turns the caps on
turns and on invalid turns are met, and a second turn follows a first with every
outcome. Retries are bounded by the policy's own `MaxRetries`. Two retries give a
first attempt, one whose wait is the backoff or a hint, and a last one. The
jitter is the largest there may be, and the largest hint passes the cap on hints.
In `loop_ends` an attempt takes at least one unit (`Latency`), so at most as many
turns fit as the timeout has units and `TurnBound`, which is more, never ends a
run. The server's answers are one of each class `classified` tells apart, the
ones that contradict themselves among them (a 529 not to be retried, a body too
long with a wait, a message with usage that isn't a response), and the script has
entries that are slower than the deadline, fail, and run out.

In `phase_groups` the pool of two is smaller than the largest group of three, so
calls wait for room; the turns have every kind of neighbour a group can end at.
The tools that can't be built are there to be refused.

Two processes beside the shell are enough for one to stay in the group while
another leaves it, and for the pipe to outlive both the shell and the group. In
`command_stops` one file holds part of a line at the start, one is standard error
and one is what's made when the file is moved.

A text of five bytes holds a secret and the start of another, or a character with
a mistake on either side; five mistakes are fifteen bytes of text, three times the
largest cap, so the start fills, the end drops characters, and a gap opens between
them. Nine letters hold a secret of five with another that begins inside it and a
third that ends outside.

The words of `commands_get` have lengths on either side of `MinBytes`, 16 in the
code: a key is two words that are each too short, so half of it is no secret, and
a password is one word, whose encoded form decodes to it. Values hold every
delimiter a URL's reader stops at, and variables are unset, empty, short, the
credential, its copy and more than it.

In `file_writes` a write tries two names (`TemporaryNames`, 100 in the code), so it
may pass over one and still succeed, or over two and fail; `LastNumber` is past what
three writes can count to. One mode of the file before lets in someone the umask
leaves out and keeps out someone a new file lets in, so a mode may be wrong either
way. Which writes may fail to read the mode is bounded by `Unreadable`, here the one
of the second process, so that it may come before, between and after the others; the
proofs bound none. The two writes of one process differ in nothing, so the run may
take them for one another (`SYMMETRY`): no property tells them apart. Three runs
allow a handle, a drop and a run that is neither.

**Deadlock** is checked in every run but `commands_get`, whose last step is a
command's start; `Done` is the one state that stutters on purpose. Of
`TranscriptFile` it says nothing, since a crash may always come.

**Fairness.** `PolledSpec` has the loop's own steps fair, and nothing else: the
runtime polls a task that was woken, and a cancellation wakes it, because
`unless_cancelled` polls `cancelled()` beside the work. `ToolsAnswer` is fair
once the run is cancelled, which `CancelEndsPhase` justifies one level down,
again with only the polled steps fair. `ProviderSpec` adds that a run that can
begin does; of a server, a tool, a timer and the passing of time it assumes nothing. `FairSpec`, which `RunEnds` needs, adds that the provider
and the tools answer, since each is given a deadline it keeps, and that time
passes. `Punctual` is a stronger assumption and a constant: work in flight ends by
its deadline and the loop's own steps take no time. `WithinTimeout` says what
follows from it, and nothing else assumes it but `AnswersAsPromised`.

`BashGroup`'s `FairSpec` has the future polled, its time run out, its grace after
the kill pass, and a process that was killed die, which the kernel sees to; a
command that isn't killed may run for ever, and a process that left its group may
hold the pipe for ever. That a kill reaches every process of the group is assumed:
none has become another user's. `RunCommand`'s has the command's own steps and the
processors' threads go on, the SDK's five seconds pass, a write to a local file end
one way or the other, and a run return once it's cancelled (`CancelStops`). An
export to the file needs strong fairness, since the other exporter may hold the
lock whenever it's tried. No collector has to answer.

## Theorems

The type invariants of the loop, the phase, a bash call and a command are proved
rather than run. Each theorem holds for every policy, every set of responses, failures and answers, every
pool and every bound, under the named assumptions of the modules: what
`RetryPolicy::new` and the configuration refuse to build without, and the types
of the constants. `PowersAssumption`, that a power of a whole factor is whole, is
arithmetic the provers have no rules for; TLC evaluates it in every run.

`RunLoopProofs` holds what is proved of the loop, of its providers and of what it
says of its calls; the theorems of the loop cite the loop's own assumptions and none
of the providers'.

- `RunLoopProofs`, of the record: **TranscriptHolds**,
  `RecordSpec => []TranscriptRules`. By itself the property isn't inductive: that
  a turn's input is empty only after the first needs that the task is still
  waiting exactly while no turn has been made, and the held turn must satisfy the
  same rule before it joins. `Rules` adds both.
- `RunLoopProofs`, of the loop: **TypeCorrect** needs `Shape`, that a turn with calls is held
  exactly at `pointR` and `tools` and possibly when stopping; with it
  **ImplementsRecord** maps each action to one of the record's operations, or to
  a stutter, and **LoopTranscriptHolds** follows from the record's theorem.
  **AttemptsAlwaysCounted**, **OnlyStartedSentHolds** and **WithinTimeoutHolds**
  each have an invariant that says what holds at the places in between
  (`Counts`, `Sent`, `Deadlines`): the attempt's number against the failures
  counted while point A is being asked, what point B has still to find, and that
  every deadline in flight is within the timeout. The first also needs `Tallied`:
  the attempts started beyond the first of each call are those of the turns, of
  the turn that's held and of the call in flight, a sum that grows by a turn. **BudgetAlwaysHolds** needs
  only types and `Shape`. **CutShortAlwaysEndsRun** has `Uncut`.
  **ReasonAlwaysHolds** rests on three invariants: `Caps`, that a cap is met only
  where point B is about to be asked of it; `Asked`, that point A is asked on a
  reading the clock has reached and after a failure that may be retried; and
  `Warranted`, that a reason that was reached stays borne out while the run
  closes, since the record only grows and time only passes.
- `RunLoopProofs`, of the providers: **ProvidersImplementLoop**, that each step
  with the two is a step of `Spec` or a stutter, so that what is proved of the loop
  holds with them; **ProvidedCutShortEndsRun** is one such. **EntryPerAttemptHolds**
  needs `Entries`, that before the run is begun its loop has done nothing.
  **ServerHeededHolds** has two halves: **NotAskedAgainHolds** needs
  `SettledEnds`: what settles the run is heard as a failure no retry follows, so
  the run is over by the same step. **ServerWaitKeptHolds** needs `WaitsLeft`: from
  the failure through point A, the policy and the wait, what's left to wait is no
  shorter than what's left of the server's; it rests on what `RetryPolicy::next`
  promises of a hint, for every backoff, cap and jitter. **WaitsKeepCaps** is the
  other side of it: a wait is held to its caps before the share is added, and
  `LongestWait`, the model's own bound, leaves out no wait a salt may give.
- `RunLoopProofs`, of what a run says of its calls: **ConversationIsRun**, that
  the telemetry leaves the loop as it is, so the loop's invariants are at hand.
  **RetryAlwaysAnnounced** needs `Announced`, what the last span says at each
  place. **RequestsAlwaysTaken** and **ToldIsAlwaysSent** hold a request that's
  rendered anew each time against what was sent or said before it, for runs of any
  length. What `Messages` comes to is characterised place by place (`Exchanged`,
  `Asks`), given that every turn has something to send (`Fed`) and every result a
  call (`Resulted`), which is what keeps two user messages from standing side by
  side. One more turn then only adds to it (`OneMore`, `AsksGrows`), so a request
  repeats the one before. What was captured and what was measured are folds over
  the same messages; that each grows by what a turn adds (`CapturedGrows`,
  `SizeAdds`) makes `TellingInv` and `Measures` inductive.
- `ToolPhaseProofs`: **ImplementsAnswers**. `PhaseInv` says, call by call, that
  an outcome is explained by what has become of the run by now (a cancellation
  stays and time only passes), and that a running call's deadline is within the
  timeout. **GroupsAlwaysHold** and **NoLaterGroupHolds** need that what's taken is
  a prefix of the group and the group a run of calls; that a group ends somewhere
  is the least-number principle (`LeastNumber`, from the library's well-founded
  order). **PhaseTypeCorrect** is its type invariant. **OfferedIsToolPhase** takes
  all of it to the phase over what executors list, and **ToolsAlwaysAsListed** needs
  from `OfferedInv` that a call's concurrency is that of the route its name has: a
  name is listed once, or the tools aren't built (`RoutedOnce`).
- `BashGroupProofs`: **CallTypeCorrect**; **TimeoutAlwaysMeansGone** and
  **KillsOwnHolds** from `CallInv`: until the call has had its time nothing was
  killed, and until the shell was waited for it's in the table, so the id is the
  command's own. Once it was waited for and nothing of the group is in the table,
  nobody can come back. **LeavesNoneRunningHolds** needs that the group counts as
  running from its start to the call's end, so that every end but the command's own
  kills what's there or has found nothing.
- `RunCommandProofs`: **AlwaysReadable**, **FileAlwaysFirst** and
  **CommandTypeCorrect**. The first is strengthened by `SetApart`: with `torn`
  unset, nothing stands before the next line in the file that's held or the one
  at the path; with it set and a line being written, only parts of that line; and
  a path that isn't the file that's held is clean, because a failed file is let
  go of. The second is by `Handed`: what was emitted is queued by the file's
  processor, on its way, or exported.
- `CommandEnvironmentProofs`, for every config and every environment:
  **DroppedStaysDropped** from `Apart`. The others rest on `Derivation`, which
  says what each step has settled, and on `WhereFrom`: a variable of a command is
  a context's, a credential's, one of `env` or inherited.
  **SaidOfCommandsHolds** and **OwnAlwaysStaysOut** go through the four: what's
  inherited was dropped if it held a credential, `env` was refused if it did, once
  more with the client key's file, and a context holds none
  (`ContextAssumption`). **CarriedIsAlwaysCut** needs every text a request carries to
  be among those some credential was made of (`Covered`), setting by setting, and
  that each is a text, however its pieces and the URL's delimiters fall.
  **AlwaysReadAsWritten** and **NoneIsEverShown** compare a URL's text, with a
  stand-in for each variable, with what it was filled to. A filled text is its
  pieces one after another, each from `Past` of those before it (`FlattenedBy`,
  `PiecesAre`), so a word of it is a word of one piece (`WhichPiece`) and a piece
  that both texts share stands in both. The delimiters a URL's reader stops at are
  then found piece by piece: the first `://` and the first end of the authority are
  in the same pieces in both, since no value in the user information holds one
  (`Unreadable`) and none elsewhere an `@` that makes another. Of the variables of
  credentials, none is outside the user information (`CredentialVariableElsewhere`),
  so emptying them changes nothing past it (`OutsideIsSame`).
- `ToolTextProofs`: **TextAlwaysCutAsWhole**. The invariant (`CutInv`) says that
  what's there between two pieces is a function of all that arrived: `begun` is
  `Begun(fed)`, and what's held and kept is what `Text`, all that's been read, would
  leave in one piece (`OutputOf`). Each layer has a lemma that it goes on as it would
  have with the whole: **SettledOn** for the bytes, since where a character begins is
  told by the two bytes before it; **CutOn** for the values, since none that begins
  before the place that waits can end after it without being a cut already counted;
  **PushOn** for the start and the end, since what was dropped of the end stays
  dropped. **RedactedIs** then takes the cut that knows how far it has come to
  `Clean`, which quantifies over copies, and **SentIs** what's sent of what was kept
  to `SentOf`: a gap between the start and the end is one that the cap leaves too.
- `TranscriptFileProofs`: **OwnTemporaryHolds** from `FileInv`: a name a
  write has made its file under is taken until that write renames or removes it,
  and one it tries is never the path's own, while no file of a write is under any
  name before the write has made it. **StaysPrivateHolds**
  needs `ModeInv`: a write that couldn't read the mode has put its file at the path
  (`Misled`, which stays so), or every directory has a file there with the mode of
  the one before and every other write has found that mode (`Private`).
  **WritesAtomically** needs from `FileInv` that every directory a crash may leave
  has a synced file at the path, and takes each step to a step of `AtomicFile` or a
  stutter; a kill and a crash take several writes at once.
- `RunnerProofs`: **OwnCancellationHolds** needs `Own`, that the cancellation in
  place while a loop is polled is its run's, and that a run to come has come to
  nothing; **LastRunAlwaysKept** needs `Awaited`, that while no run was dropped the
  only write that's not over is the one that's awaited; **EventAlwaysNamesWhole**
  needs that a write that's over stays so.

Recursion over data. The library's induction theorems can't be used here, so
where a definition folds over a sequence (`SizeOfAll`, `Messages`, the sums of the
record, `FlattenSeq`, `Beginnings`, `Size`), that it's defined, what it comes to and how it grows are
proved from the least-number principle (`LeastNumber`, `RecursionDefined`,
`AlikeThroughout`): a set of numbers that aren't as they should be has a least
member, and there is none.

`ContextAssumption` is the one assumption about what isn't in a config: the
context of a span is ids that are drawn for it, so it's no text of the process's
environment under another name, and holds no credential of a config that's
accepted. `ConfigsAssumption` holds of every config that's read: a variable has a
name, no default is no text, and the stand-in of a variable in a written text is
nothing a URL's reader stops at (`url.rs` has a NUL for it).

Only model-checked: the liveness properties, which are out of the provers' reach
(`RunEnds`, `CancelStops`, `CancelEndsPhase`, `CallEnds`, `StopEnds`), and
`NothingShown`, which isn't true of every
value: the marker may share letters with a secret, and a secret may hold the end of
a line that a closing line is said after, so a copy can come about that no tool
wrote. It holds of secrets like those of the run, which do neither.

## Not modelled

- The rounding and the saturation of a wait's floats: a model of whole units
  reaches neither.
- Pricing, ids' spelling, the wide event's fields, OTLP's wire form, documents
  and reports: data conversions with no state.
- The OpenTelemetry SDK's batching and the HTTP client, which are external; what
  they do to the code here is in `RunCommand` and `ProviderCalls`.
- The file tools, which are single system calls after a check of the path; the
  schema's own reading; the other commands of the command line, which print.
- The embedding library's builder, whose product is the runner that's modelled.
- The OpenAI provider and the MCP tools, which are stubs at this commit.
- xtask and the rest of the build's tooling, which is some 14 000
  lines and no part of the program.
