----------------------------- MODULE ConfigText -----------------------------
(***************************************************************************)
(* The texts of a config (lablet-config's substitute and url): how a       *)
(* ${VAR} is filled, and which part of a URL is its user and password.     *)
(*                                                                         *)
(* A text is a sequence of words, of which "://", "/", "@" and ":" are the *)
(* ones a URL's reader stops at; "/" stands for a backslash, "?" and "#"   *)
(* too, which end an authority as it does, and "," and "=" are the ones    *)
(* that part the pairs of a text of headers.  A written text is a sequence of pieces:   *)
(* text written out, which is its own default, or a reference to a         *)
(* variable, with a default or without.                                    *)
(***************************************************************************)
EXTENDS Integers, SequencesExt

CONSTANTS NoName,      \* the name of a piece that's written out
          NoDefault    \* the default of a ${VAR} that has none

WrittenOut(text) == [name |-> NoName, default |-> text]
Reference(name) == [name |-> name, default |-> NoDefault]
ReferenceOr(name, default) == [name |-> name, default |-> default]

NamesOf(written) == {piece.name : piece \in Range(written)} \ {NoName}

IsOneVariable(written) == Len(written) = 1 /\ NamesOf(written) # {}

\* The text's first default, which is the one that's asked for, isn't empty.
HasDefault(written) ==
  LET defaults == SelectSeq(written, LAMBDA piece : piece.name # NoName /\ piece.default # NoDefault)
  IN  defaults # <<>> /\ defaults[1].default # <<>>

-----------------------------------------------------------------------------
\* What a piece comes to with these variables: a set variable's value, but
\* for an empty one where there's a default.
GivesValue(variables, piece) ==
  /\ piece.name \in DOMAIN variables
  /\ piece.default = NoDefault \/ variables[piece.name] # <<>>

CameTo(variables, piece) ==
  IF GivesValue(variables, piece) THEN variables[piece.name] ELSE piece.default

\* A ${VAR} whose variable isn't set and that has no default.
Lacks(variables, written) ==
  \E piece \in Range(written) :
    piece.default = NoDefault /\ piece.name \notin DOMAIN variables

Text(variables, written) ==
  FlattenSeq([i \in DOMAIN written |-> CameTo(variables, written[i])])

\* One reference whole that comes out empty states nothing.
CameOutEmpty(variables, written) == IsOneVariable(written) /\ Text(variables, written) = <<>>

-----------------------------------------------------------------------------
Ends == {"/", "://"}

First(text, words, from) ==
  Min({Len(text) + 1} \union {i \in from..Len(text) : text[i] \in words})

\* The authority: from after the scheme's ://, or the text's start, to the
\* first word that ends one.
AuthorityStart(text) ==
  LET scheme == First(text, {"://"}, 1)
  IN  IF scheme <= Len(text) /\ First(text, {"/", "@"}, 1) > scheme THEN scheme + 1 ELSE 1

AuthorityEnd(text) == First(text, Ends, AuthorityStart(text))

Ats(text) == {i \in AuthorityStart(text)..AuthorityEnd(text) - 1 : text[i] = "@"}

HasInformation(text) == Ats(text) # {}

\* The user information: what's before the last @ of the authority.
Information(text) == SubSeq(text, AuthorityStart(text), Max(Ats(text)) - 1)

\* Everything else, which is no secret.
OutsideInformation(text) ==
  IF HasInformation(text)
    THEN SubSeq(text, 1, AuthorityStart(text) - 1) \o SubSeq(text, Max(Ats(text)) + 1, Len(text))
    ELSE text

HoldsUnreadAt(text) == \E i \in AuthorityEnd(text)..Len(text) : text[i] = "@"

-----------------------------------------------------------------------------
\* The written text with each ${VAR} a stand-in and each default the text it
\* writes, and where in it each piece stands: from start to before end.
StandsAs(piece) == IF piece.default = NoDefault THEN <<piece.name>> ELSE piece.default

Masked(written) == FlattenSeq([i \in DOMAIN written |-> StandsAs(written[i])])

PlaceOf(written, i) ==
  LET start == 1 + Len(Masked(SubSeq(written, 1, i - 1)))
  IN  [start |-> start, end |-> start + Len(StandsAs(written[i]))]

InInformation(written, i) ==
  LET masked == Masked(written)
  IN  /\ HasInformation(masked)
      /\ AuthorityStart(masked) <= PlaceOf(written, i).start
      /\ PlaceOf(written, i).end <= Max(Ats(masked))

\* A user or password that isn't a ${VAR}, or ${VAR}s, and nothing else.
InformationWrittenOut(written) ==
  HasInformation(Masked(written)) /\
  LET information == Information(Masked(written))
      others == {i \in DOMAIN information : information[i] \notin NamesOf(written)}
  IN  \E i \in others : information[i] # ":" \/ others # {i}

\* The variables written outside the user information.
OutsideNames(written) ==
  {written[i].name : i \in {i \in DOMAIN written : ~InInformation(written, i)}} \ {NoName}

Delimiters == {"@", "/", "://"}

\* Mutant: only a variable of the user information can move where it ends.
UnreadableInside(variables, written) ==
  \E i \in DOMAIN written :
    /\ GivesValue(variables, written[i]) /\ InInformation(written, i)
    /\ Range(variables[written[i].name]) \intersect Delimiters # {}

\* A variable in the user information that gave it a delimiter, or one
\* elsewhere that gave an @: the URL isn't read as it's written.
Unreadable(variables, written) ==
  \E i \in DOMAIN written :
    /\ GivesValue(variables, written[i])
    /\ LET gave == Range(variables[written[i].name])
       IN  \/ InInformation(written, i) /\ gave \intersect Delimiters # {}
           \/ "@" \in gave

\* The text as the file has it, each reference standing as its variable's
\* name and its default.
Raw(written) ==
  FlattenSeq([i \in DOMAIN written |->
    (IF written[i].name = NoName THEN <<>> ELSE <<written[i].name>>) \o
    (IF written[i].default = NoDefault THEN <<>> ELSE written[i].default)])

\* The variables whose references stand in the user information of the text
\* as the file has it, every one when it has none there.
InformationNames(written) ==
  IF HasInformation(Raw(written))
    THEN NamesOf(written) \intersect Range(Information(Raw(written)))
    ELSE NamesOf(written)

-----------------------------------------------------------------------------
\* The values of a k=v text: each is what follows the first = of a pair with
\* a name, up to the next comma.
Parts(text, i) ==
  /\ i > 1 /\ text[i] = "=" /\ text[i - 1] # ","
  /\ \A j \in 1..i - 1 : text[j] = "=" => \E k \in j..i : text[k] = ","

PairValues(text) ==
  {SubSeq(text, i + 1, First(text, {","}, i) - 1) : i \in {i \in DOMAIN text : Parts(text, i)}}
    \ {<<>>}
=============================================================================
