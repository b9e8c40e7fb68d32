--------------------------- MODULE ConfigSecrets ----------------------------
(***************************************************************************)
(* Lablet's own credentials and the ones it gives a command, derived from  *)
(* a filled config (lablet-secrets), and the checks that hold a config to  *)
(* its rules about them (lablet-prepare).                                  *)
(*                                                                         *)
(* A setting's key is its field and the name of its entry there.  A config *)
(* is what the text writes, by key, what the code that made it set, by     *)
(* key, and the process's variables that fill it.  The fields are the      *)
(* model's key and URL, the OTLP headers, as a map or as one text, and     *)
(* endpoint, bash's credentials and env, and one plain setting.  Left out  *)
(* are MCP servers, which are refused, the parts of a value with several   *)
(* lines, and the Basic form of a URL's user and password.                 *)
(***************************************************************************)
EXTENDS ConfigText

CONSTANTS Size,       \* how many bytes each word is
          MinBytes,   \* the shortest value that's cut
          Decodes     \* the word each percent-encoded word decodes to

ASSUME SizeAssumption == \A word \in DOMAIN Size : Size[word] \in Nat

ApiKey == [field |-> "api_key", name |-> ""]
Url(name) == [field |-> "url", name |-> name]
Plain == [field |-> "plain", name |-> ""]
HeadersText == [field |-> "headers_text", name |-> ""]
Header(name) == [field |-> "headers", name |-> name]
Credential(name) == [field |-> "credentials", name |-> name]
Env(name) == [field |-> "env", name |-> name]

IsCredential(key) == key.field \in {"api_key", "headers", "headers_text", "credentials"}

-----------------------------------------------------------------------------
\* The fill.  Every key's unset variable without a default refuses the
\* config but model.api_key's, which it leaves unset.
CantFill(config) ==
  \E key \in DOMAIN config.written :
    key # ApiKey /\ Lacks(config.variables, config.written[key])

CameOutUnstated(config, key) ==
  /\ key \in DOMAIN config.written
  /\ \/ key = ApiKey /\ Lacks(config.variables, config.written[key])
     \/ CameOutEmpty(config.variables, config.written[key])

\* What a setting holds: what code set over the text, or what the text came to.
IsStated(config, key) ==
  \/ key \in DOMAIN config.code
  \/ key \in DOMAIN config.written /\ ~CameOutUnstated(config, key)

Value(config, key) ==
  IF key \in DOMAIN config.code THEN config.code[key]
  ELSE Text(config.variables, config.written[key])

Keys(config) == DOMAIN config.written \union DOMAIN config.code

IsWritten(config, key) == key \in DOMAIN config.written

At(config, field) == {key \in Keys(config) : key.field = field}

Entries(config, field) == {key \in At(config, field) : IsStated(config, key)}

Names(config, key) == IF IsWritten(config, key) THEN NamesOf(config.written[key]) ELSE {}

-----------------------------------------------------------------------------
\* The cut: a value and what follows its scheme word, none shorter than the
\* least that's cut.
Bytes(text) == FoldSeq(LAMBDA word, sum : sum + Size[word], 0, text)

Registered(values) ==
  LET parts == values \union {Tail(value) : value \in {v \in values : IsPrefix(<<"Bearer ">>, v)}}
  IN  {part \in parts : Bytes(part) >= MinBytes}

Cuts(values, text) ==
  \E value \in values : \E i \in 1..Len(text) - Len(value) + 1 :
    SubSeq(text, i, i + Len(value) - 1) = value

Decoded(text) ==
  [i \in DOMAIN text |-> IF text[i] \in DOMAIN Decodes THEN Decodes[text[i]] ELSE text[i]]

\* Whether a text holds one of the values, as it is or percent-decoded.
Holds(values, text) == Cuts(values, text) \/ Cuts(values, Decoded(text))

-----------------------------------------------------------------------------
FromVariable(name) == [kind |-> "variable", name |-> name]
FromKey == [kind |-> "key", name |-> ""]
FromCode == [kind |-> "code", name |-> ""]
FromContents == [kind |-> "contents", name |-> ""]

Made(key, sources, values) ==
  {[field |-> key, source |-> source, matcher |-> Registered(values)] : source \in sources}

\* Where a secret that's stated came from.
Sources(config, key) ==
  IF CameOutUnstated(config, key) THEN {FromCode}
  ELSE IF Names(config, key) # {} THEN {FromVariable(name) : name \in Names(config, key)}
  ELSE IF ~IsWritten(config, key) THEN {FromCode}
  ELSE {FromKey}

\* The credentials of one setting that's a secret whole.
SecretAt(config, key) ==
  IF IsStated(config, key) THEN Made(key, Sources(config, key), {Value(config, key)})
  ELSE Made(key, {FromVariable(name) : name \in Names(config, key)}, {})

\* The text form of the headers is cut whole and by each value its pairs
\* decode to.
HeadersTextSecret(config, key) ==
  LET text == Value(config, key)
      sources == IF Names(config, key) # {} THEN {FromVariable(name) : name \in Names(config, key)}
                 ELSE IF IsWritten(config, key) THEN {FromKey} ELSE {FromCode}
  IN  IF IsStated(config, key)
        THEN Made(key, sources, {text} \union {Decoded(value) : value \in PairValues(text)})
        ELSE Made(key, sources, {})

\* Mutant: only the whole user information is a secret, and neither half.
InformationWhole(information) == {information}

\* The user information whole and each half, raw and decoded: the halves are
\* parted by the first colon.
InformationForms(information) ==
  LET colon == First(information, {":"}, 1)
      parts == {information, SubSeq(information, 1, colon - 1),
                SubSeq(information, colon + 1, Len(information))}
  IN  parts \union {Decoded(part) : part \in parts}

\* A URL's user information: from the variables written there, from the text
\* or from code.
UrlSecret(config, key) ==
  IF ~(IsStated(config, key) /\ HasInformation(Value(config, key))) THEN {}
  ELSE LET names == IF IsWritten(config, key) THEN InformationNames(config.written[key]) ELSE {}
           sources == IF names # {} THEN {FromVariable(name) : name \in names}
                      ELSE IF IsWritten(config, key) THEN {FromKey} ELSE {FromCode}
       IN  Made(key, sources, InformationForms(Information(Value(config, key))))

\* The credentials of a config: its own, with what the file of the client
\* key holds where it was read, and the ones given to bash.
Own(config, contents) ==
  (UNION {SecretAt(config, key) : key \in At(config, "api_key") \union At(config, "headers")})
    \union (UNION {HeadersTextSecret(config, key) : key \in At(config, "headers_text")})
    \union (UNION {UrlSecret(config, key) : key \in At(config, "url")})
    \union (IF contents = <<>> THEN {}
            ELSE Made([field |-> "client_key", name |-> ""], {FromContents}, {contents}))

Given(config) ==
  UNION {SecretAt(config, key) : key \in At(config, "credentials")}

VariablesOf(credentials) ==
  {credential.source.name : credential \in {c \in credentials : c.source.kind = "variable"}}

Derived(config, contents) ==
  LET credentials == Own(config, contents) \union Given(config)
  IN  [own |-> Own(config, contents), given |-> Given(config),
       dropped |-> VariablesOf(credentials),
       values |-> UNION {credential.matcher : credential \in credentials}]

\* The entries under credentials that give bash an own credential: by its
\* variable, or else by a value that holds it.
GivenBy(config, credential) ==
  LET byName == {given.field : given \in
                   {g \in Given(config) : g.source = credential.source /\ g.source.kind = "variable"}}
  IN  IF byName # {} THEN byName
      ELSE {key \in Entries(config, "credentials") : Holds(credential.matcher, Value(config, key))}

-----------------------------------------------------------------------------
\* The checks of prepare, each as what it refuses.

\* A credential written otherwise than as one ${VAR}, with no default but an
\* empty one.
CredentialWrittenOut(config) ==
  \E key \in DOMAIN config.written :
    /\ key.field \in {"api_key", "credentials"}
    /\ IsStated(config, key) \/ key = ApiKey
    /\ ~IsOneVariable(config.written[key]) \/ HasDefault(config.written[key])

\* A header that holds no ${VAR}, or a default that isn't empty.
HeaderWrittenOut(config) ==
  \E key \in Entries(config, "headers") \intersect DOMAIN config.written :
    NamesOf(config.written[key]) = {} \/ HasDefault(config.written[key])

\* The text form that holds no ${VAR}, a default that isn't empty, or a pair
\* that writes its value out.
HeadersTextWrittenOut(config) ==
  \E key \in Entries(config, "headers_text") \intersect DOMAIN config.written :
    LET written == config.written[key] IN
    \/ NamesOf(written) = {}
    \/ HasDefault(written)
    \/ \E value \in PairValues(Raw(written)) : Range(value) \intersect NamesOf(written) = {}

\* A URL whose user or password isn't a ${VAR} of its own, or isn't read
\* where it's written.  A text that names no variable has no record of its
\* fill, so what the URL holds is judged as its text, code's too.
UrlHidesACredential(config) ==
  \E key \in At(config, "url") :
    LET url == IF IsStated(config, key) THEN Value(config, key) ELSE <<>>
    IN  IF ~IsWritten(config, key) THEN HoldsUnreadAt(url)
        ELSE LET written == IF Names(config, key) = {} THEN <<WrittenOut(url)>>
                            ELSE config.written[key] IN
             \/ HoldsUnreadAt(Masked(written))
             \/ InformationWrittenOut(written)
             \/ ~HasInformation(Masked(written)) /\ HasInformation(url) /\ NamesOf(written) # {}
             \/ Unreadable(config.variables, written)
             \/ NamesOf(written) # {} /\ HoldsUnreadAt(url)

KeyIsMissing(config) ==
  config.needsKey /\ (IsStated(config, ApiKey) => Value(config, ApiKey) = <<>>)

\* An env entry that credentials sets too, that a credential's variable
\* fills, or that's its own variable, which bash inherits already.
EnvIsACredential(config) ==
  \/ \E key \in Entries(config, "credentials") : IsStated(config, Env(key.name))
  \/ \E key \in Entries(config, "env") : \E name \in Names(config, key) :
       \/ name \in VariablesOf(Own(config, <<>>) \union Given(config))
       \/ name = key.name /\ IsOneVariable(config.written[key]) /\ name \in DOMAIN config.base

\* An env entry whose value holds a credential's.
EnvHoldsACredential(config, contents) ==
  \E key \in Entries(config, "env") :
    Holds(Derived(config, contents).values, Value(config, key))

\* Mutant: a URL is asked for its variables by no rule, its user information
\* being a credential.
CredentialVariableInPlain(config) ==
  \E key \in DOMAIN config.written \ At(config, "url") :
    /\ ~IsCredential(key) /\ key.field # "env"
    /\ VariablesOf(Own(config, <<>>) \union Given(config)) \intersect Names(config, key) # {}

\* A credential's variable that fills another setting, or a URL outside its
\* user information.
CredentialVariableElsewhere(config) ==
  \E key \in DOMAIN config.written :
    /\ ~IsCredential(key) /\ key.field # "env"
    /\ VariablesOf(Own(config, <<>>) \union Given(config)) \intersect
         (IF key.field = "url" THEN OutsideNames(config.written[key]) ELSE Names(config, key)) # {}

BashHasNoBase(config) == ~config.handsBase
=============================================================================
