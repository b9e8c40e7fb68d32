------------------------------ MODULE Secrets -------------------------------
(***************************************************************************)
(* The cut of lablet's own secrets out of a text (lablet-model's Secrets). *)
(* A text is a sequence of characters.  The values are those registered:   *)
(* each secret with its bounded parts, none shorter than the minimum.      *)
(***************************************************************************)
EXTENDS Integers, SequencesExt

CONSTANTS Values,   \* the values that are cut
          Marker    \* the text that stands where one was

ASSUME SecretsAssumption == <<>> \notin Values

StartsAt(text, at, value) ==
  /\ at + Len(value) <= Len(text) + 1
  /\ SubSeq(text, at, at + Len(value) - 1) = value

\* How long the values are that text holds at this place.
BegunAt(text, at) == {Len(value) : value \in {v \in Values : StartsAt(text, at, v)}}

\* Mutant: a value the text could still become isn't waited for.
MayBeginNever(text, at) == FALSE

\* Whether the text from here on is the start of a value that goes on past it.
MayBegin(text, at) ==
  LET rest == SubSeq(text, at, Len(text))
  IN  \E value \in Values : IsStrictPrefix(rest, value)

\* Where the cuts begun before this place end, the first covered characters
\* being cut already: copies that overlap are one cut.
CutTo(text, covered, at) ==
  Max({covered + 1} \union UNION {{q + n : n \in BegunAt(text, q)} : q \in 1..at - 1})

\* The first place that has to wait for what follows: none in a text that
\* has ended.
HeldFrom(text, ended) ==
  Min({Len(text) + 1} \union {at \in DOMAIN text : ~ended /\ MayBegin(text, at)})

\* What is handed on of the text before that place.
HandedOn(text, covered, ended) ==
  FlattenSeq([at \in 1..HeldFrom(text, ended) - 1 |->
    IF at < CutTo(text, covered, at) THEN <<>>
    ELSE IF BegunAt(text, at) = {} THEN <<text[at]>>
    ELSE Marker])

\* Mutant: how far a cut already reached is forgotten between two pieces.
CoveredNever(text, covered, ended) == 0

\* How much of the text from that place on is cut already.
StillCovered(text, covered, ended) ==
  LET from == HeldFrom(text, ended)
  IN  Max({0, CutTo(text, covered, from) - from})

Redacted(text) == HandedOn(text, 0, TRUE)

-----------------------------------------------------------------------------
\* For reference: a text without any character of any copy of any value, a
\* marker where each run of copies that overlap begins.
Clean(text) ==
  LET copyAt(p) == \E v \in Values : StartsAt(text, p, v)
      inCopy(p, starts) == \E q \in starts, v \in Values : StartsAt(text, q, v) /\ p < q + Len(v)
  IN  FlattenSeq([p \in DOMAIN text |->
        IF ~inCopy(p, 1..p) THEN <<text[p]>>
        ELSE IF copyAt(p) /\ ~inCopy(p, 1..p - 1) THEN Marker
        ELSE <<>>])

\* Whether a copy of some value stands in the text.
Holds(text) == \E p \in DOMAIN text : BegunAt(text, p) # {}
=============================================================================
