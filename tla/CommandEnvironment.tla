------------------------- MODULE CommandEnvironment -------------------------
(***************************************************************************)
(* What a command of bash gets in its environment, from a config and the   *)
(* environment a root hands in: the config is filled and checked, the      *)
(* client key's file is read, the tools are built, and a command starts    *)
(* in a span's context (lablet-prepare, lablet-tools-wiring, and the       *)
(* settings and bash of lablet-tools-builtin).                             *)
(***************************************************************************)
EXTENDS ConfigSecrets

CONSTANTS Configs,           \* what a config states, and what fills it
          Contents,          \* what the client key's file holds, or nothing
          ContextVariables,  \* the variables any propagator's context is in
          Fields,            \* those of the propagator that's used
          TraceContext       \* what a context variable is given

\* The texts that are read: what fills a config holds whole words, no default
\* is no text, a setting's key is its field and its name, a decoded word is a
\* word, and a variable's stand-in in a written text is nothing a URL's reader
\* stops at.
Texts == Seq(DOMAIN Size)

ASSUME ConfigsAssumption ==
  /\ \A word \in DOMAIN Decodes : Decodes[word] \in DOMAIN Size
  /\ Contents \subseteq Texts /\ NoDefault \notin Texts
  /\ \A c \in Configs :
       /\ \A name \in DOMAIN c.base : c.base[name] \in Texts
       /\ \A name \in DOMAIN c.variables : name # NoName /\ c.variables[name] \in Texts
       /\ \A key \in DOMAIN c.code : c.code[key] \in Texts
       /\ \A key \in DOMAIN c.written :
            /\ c.written[key] \in Seq(Range(c.written[key]))
            /\ \A piece \in Range(c.written[key]) : piece.default \in Texts \union {NoDefault}
            /\ NamesOf(c.written[key]) \intersect Delimiters = {}
       /\ \A key \in Keys(c) : key = [field |-> key.field, name |-> key.name]

VARIABLES config, contents, stage, secrets, dropped, command

vars == <<config, contents, stage, secrets, dropped, command>>

Nothing == <<>>

Init ==
  /\ config \in Configs /\ contents \in Contents
  /\ stage = "written"
  /\ secrets = Nothing /\ dropped = Nothing /\ command = Nothing

\* A step may refuse the config for what's left out here too: a value of a
\* setting, a file that can't be read, a root or a tool's name.
Goes(refuses, to) ==
  \/ stage' = "refused"
  \/ ~refuses /\ stage' = to

Fills ==
  /\ stage = "written"
  /\ Goes(CantFill(config), "filled")
  /\ UNCHANGED <<config, contents, secrets, dropped, command>>

\* What prepare refuses, the client key's file not being read yet.
PrepareRefuses(c) ==
  \/ CredentialWrittenOut(c)
  \/ HeaderWrittenOut(c)
  \/ HeadersTextWrittenOut(c)
  \/ UrlHidesACredential(c)
  \/ KeyIsMissing(c)
  \/ EnvIsACredential(c)
  \/ EnvHoldsACredential(c, <<>>)
  \/ CredentialVariableElsewhere(c)
  \/ BashHasNoBase(c)

\* The variables a command inherits none of: another span's context is there.
Contextual == ContextVariables \union Fields

\* A span's context is ids made for it: no credential of a config that's
\* accepted, and not what the process was given under another's name.
ASSUME ContextAssumption ==
  \A c \in Configs :
    ~CantFill(c) /\ ~PrepareRefuses(c) =>
      /\ \A file \in Contents : ~Holds(Derived(c, file).values, TraceContext)
      /\ \A name \in DOMAIN c.base \ Contextual : c.base[name] # TraceContext

Prepares ==
  /\ stage = "filled"
  /\ Goes(PrepareRefuses(config), "prepared")
  /\ UNCHANGED <<config, contents, secrets, dropped, command>>

\* Mutant: what the client key's file holds is cut, and env isn't held to it.
FinishNever(c, file) == FALSE

FinishRefuses(c, file) == file # <<>> /\ EnvHoldsACredential(c, file)

\* The root read the client key's file, where the config names one.
Finishes ==
  /\ stage = "prepared"
  /\ Goes(FinishRefuses(config, contents), "settled")
  /\ secrets' = IF stage' = "refused" THEN secrets ELSE Derived(config, contents)
  /\ UNCHANGED <<config, contents, dropped, command>>

-----------------------------------------------------------------------------
EntryValues(c, field) ==
  LET names == {key.name : key \in Entries(c, field)}
  IN  [name \in names |-> Value(c, [field |-> field, name |-> name])]

\* Variables that are set over others.
Over(set, others) ==
  [name \in DOMAIN set \union DOMAIN others |->
    IF name \in DOMAIN set THEN set[name] ELSE others[name]]

\* What the config itself gives a command.
Entered(c) == Over(EntryValues(c, "credentials"), EntryValues(c, "env"))

\* Mutant: a variable is dropped by its name alone.
DroppedByName(c, credentials) ==
  [environment |-> Over(Entered(c), Restrict(c.base, DOMAIN c.base \ credentials.dropped)),
   byName |-> credentials.dropped \intersect DOMAIN c.base, byValue |-> {}]

\* The environment commands start from: the base less what's dropped by name
\* and by value, then env, then credentials.
Environment(c, credentials) ==
  LET byName == credentials.dropped \intersect DOMAIN c.base
      byValue == {name \in DOMAIN c.base \ byName : Holds(credentials.values, c.base[name])}
  IN  [environment |-> Over(Entered(c), Restrict(c.base, DOMAIN c.base \ (byName \union byValue))),
       byName |-> byName, byValue |-> byValue]

BuildsTools ==
  /\ stage = "settled"
  /\ Goes(FALSE, "built")
  /\ dropped' = IF stage' = "refused" THEN dropped ELSE Environment(config, secrets)
  /\ UNCHANGED <<config, contents, secrets, command>>

Stated(c) == {key.name : key \in Entries(c, "env") \union Entries(c, "credentials")}

\* Mutant: a context variable that was dropped is injected all the same.
KeptStated(c, drops) == Stated(c)

\* The names no context is injected into: the config's own, and the dropped.
Kept(c, drops) == Stated(c) \union drops.byName \union drops.byValue

\* A command starts in a context that gives some of the propagator's fields.
StartsCommand ==
  /\ stage = "built"
  /\ \E given \in SUBSET Fields :
       LET kept == Kept(config, dropped)
           inherits == DOMAIN dropped.environment \ (Contextual \ kept)
       IN  command' = Over([name \in given \ kept |-> TraceContext],
                           Restrict(dropped.environment, inherits))
  /\ stage' = "started"
  /\ UNCHANGED <<config, contents, secrets, dropped>>

Next == Fills \/ Prepares \/ Finishes \/ BuildsTools \/ StartsCommand

Spec == Init /\ [][Next]_vars

-----------------------------------------------------------------------------
\* What check says of it.

\* The variables bash is said to inherit.
Inherited(c, drops) == DOMAIN drops.environment \ (Contextual \union Stated(c))

\* The variables dropped by value, each with the fields whose value it holds.
CopiesOf(c, credentials, name) ==
  {credential.field : credential \in
    {k \in credentials.own \union credentials.given : Holds(k.matcher, c.base[name])}}

-----------------------------------------------------------------------------
\* What the properties are about: the values that a request carries or a
\* command is given, each whole, with a header's token and a URL's user and
\* password as its reader finds them.
Carried ==
  LET values == {Value(config, key) : key \in {k \in Keys(config) : IsCredential(k) /\ IsStated(config, k)}}
      pairs == UNION {PairValues(Value(config, key)) : key \in Entries(config, "headers_text")}
      informed == {key \in Entries(config, "url") : HasInformation(Value(config, key))}
      halves == UNION {LET information == Information(Value(config, key))
                           colon == First(information, {":"}, 1)
                       IN  {SubSeq(information, 1, colon - 1),
                            SubSeq(information, colon + 1, Len(information))} : key \in informed}
      whole == values \union halves \union {Decoded(part) : part \in pairs \union halves}
      tokens == {Tail(text) : text \in {t \in whole : t # <<>> /\ t[1] = "Bearer "}}
  IN  {text \in whole \union tokens \union ({contents} \ {<<>>}) : Bytes(text) >= MinBytes}

Accepted == stage \in {"prepared", "settled", "built", "started"}

\* Every value a request carries or a command is given is cut out of what
\* tools show, if it's long enough to be cut.
CarriedIsCut ==
  stage \in {"settled", "built", "started"} =>
    \A text \in Carried : Cuts(secrets.values, text)

\* No variable of a command holds a value a request carries, under whatever
\* name, but what credentials gives it: neither what it inherits nor what
\* env sets.
OwnStaysOut ==
  stage = "started" =>
    \A name \in DOMAIN command : \A text \in Carried :
      Cuts({text}, command[name]) => IsStated(config, Credential(name))

\* A variable that was dropped stays dropped, unless the config states it: a
\* context variable that held a credential isn't given another value either.
DroppedStayDropped ==
  stage = "started" =>
    (dropped.byName \union dropped.byValue) \intersect DOMAIN command \subseteq Stated(config)

\* What check prints of bash is what a command gets: the variables it
\* inherits, as set, and for each that a value dropped, whose value it holds.
InheritedAsSaid ==
  stage = "started" =>
    /\ Inherited(config, dropped) =
         {name \in DOMAIN command \ Stated(config) : command[name] # TraceContext}
    /\ \A name \in Inherited(config, dropped) : command[name] = config.base[name]
    /\ \A name \in dropped.byValue : CopiesOf(config, secrets, name) # {}

\* An own credential that's said to reach no process is in no variable of a
\* command, one that credentials gives among them.
NoProcessInherits ==
  stage = "started" =>
    \A credential \in secrets.own :
      GivenBy(config, credential) = {} =>
        \A name \in DOMAIN command : ~Holds(credential.matcher, command[name])

\* What check says of commands is true of them (prepare's inherited and own
\* credentials).
SaidOfCommands == InheritedAsSaid /\ NoProcessInherits

\* The URLs and plain settings whose text is the config's own.
Filled(field) == (Entries(config, field) \intersect DOMAIN config.written) \ DOMAIN config.code

\* Where a piece stands in the text once it's filled: from start to before end.
FilledPlace(written, i) ==
  LET start == 1 + Len(Text(config.variables, SubSeq(written, 1, i - 1)))
  IN  [start |-> start, end |-> start + Len(CameTo(config.variables, written[i]))]

IsWithin(url, place) ==
  HasInformation(url) /\ AuthorityStart(url) <= place.start /\ place.end <= Max(Ats(url))

IsApart(url, place) ==
  HasInformation(url) => place.end <= AuthorityStart(url) \/ place.start > Max(Ats(url))

\* No value was given in place of a default that writes the @, or in place of
\* one that writes the scheme's :// without ending with one.
KeepsDelimiters(written) ==
  \A i \in DOMAIN written :
    LET default == written[i].default
        gave == config.variables[written[i].name]
    IN  GivesValue(config.variables, written[i]) /\ default # NoDefault =>
          /\ "@" \notin Range(default)
          /\ "://" \in Range(default) /\ PlaceOf(written, i).start < AuthorityStart(Masked(written)) =>
               gave # <<>> /\ gave[Len(gave)] = "://"

\* A URL is read where it's written, whatever the variables hold.  No @ stands
\* past its authority, it has no user information its text has none of, and
\* where the text's own @ and scheme are kept, a variable's value is part of
\* its user information whole where it's written there, and no part elsewhere.
ReadAsWritten ==
  Accepted =>
    \A key \in Filled("url") :
      LET written == config.written[key]
          url == Value(config, key)
      IN  /\ ~HoldsUnreadAt(url)
          /\ HasInformation(url) => HasInformation(Masked(written))
          /\ KeepsDelimiters(written) =>
               /\ HasInformation(Masked(written)) => HasInformation(url)
               /\ \A i \in DOMAIN written : GivesValue(config.variables, written[i]) =>
                    IF InInformation(written, i) THEN IsWithin(url, FilledPlace(written, i))
                    ELSE IsApart(url, FilledPlace(written, i))

\* What's shown of a plain setting, and of a URL but for its user information,
\* is what it'd be if the variables of the credentials held nothing.
ShownHoldsNone ==
  stage \in {"settled", "built", "started"} =>
    \A key \in Filled("url") \union Filled("plain") :
      LET written == config.written[key]
          others == FlattenSeq([i \in DOMAIN written |->
                      IF written[i].name \in secrets.dropped THEN <<>>
                      ELSE CameTo(config.variables, written[i])])
      IN  IF key.field = "plain" THEN Value(config, key) = others
          ELSE KeepsDelimiters(written) =>
                 OutsideInformation(Value(config, key)) = OutsideInformation(others)
=============================================================================
