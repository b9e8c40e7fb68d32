------------------------------ MODULE ToolText ------------------------------
(***************************************************************************)
(* What a built-in tool wrote, on its way to the model (tools-builtin's    *)
(* Text over lablet-model's RedactedOutput and KeptOutput).  The bytes     *)
(* arrive in pieces that end anywhere: inside a character, inside a copy   *)
(* of a secret, or both.  They're read as text, the secrets are cut out,   *)
(* the output cap's worth is kept, and at the end the cap is applied.      *)
(*                                                                         *)
(* A byte is a character of its own, or the lead or a continuation of the  *)
(* one character of three bytes.                                           *)
(***************************************************************************)
EXTENDS Secrets, KeptOutput

CONSTANTS Characters,   \* the characters of one byte
          Newline,      \* the one that ends a line
          Sources,      \* bound: the pieces that may arrive, and how many bytes
                        \* they may be in all
          Lines,        \* what the closing line may be
          Caps          \* the caps the run may have

Lead == "lead"
Continuation == "continuation"
Long == "long"           \* the character of three bytes
NoCharacter == "none"    \* what's read for bytes that are no character

\* The bytes are told apart by what they are; what stands in a text is a
\* character; no closing line is empty; and a preview is no longer than its cap,
\* which OutputCap::new refuses otherwise.
ASSUME TextAssumption ==
  /\ {Long, NoCharacter} \subseteq Wide
  /\ Newline \in Characters
  /\ Characters \intersect {Lead, Continuation, Long, NoCharacter} = {}
  /\ \A from \in Sources : from.pieces \subseteq Seq(Characters \union {Lead, Continuation})
  /\ \A text \in {Marker} \union Values \union Lines : text \in Seq(Range(text))
  /\ <<>> \notin Lines
  /\ \A limit \in Caps : /\ limit.max \in Nat /\ limit.preview \in Nat
                         /\ limit.cut \in {"head", "head_tail", "preview"}
                         /\ limit.cut = "preview" => limit.preview <= limit.max

VARIABLES cap,       \* the run's cap
          source,    \* where the bytes come from
          fed,       \* history: every byte that arrived
          begun,     \* the bytes of a character begun and not ended
          atALine,   \* whether the text ends where a line would begin
          output,    \* the RedactedOutput the text goes to
          closing,   \* history: the closing line said, empty when none was
          sent       \* what the model is sent, once the text is all there

vars == <<cap, source, fed, begun, atALine, output, closing, sent>>

\* held is the end of the text from where a value may begin, and its first
\* covered characters are cut already.
NoOutput == [held |-> <<>>, covered |-> 0, kept |-> Nothing]

Init ==
  /\ cap \in Caps /\ source \in Sources
  /\ fed = <<>> /\ begun = <<>>
  /\ atALine = TRUE
  /\ output = NoOutput
  /\ closing = <<>> /\ sent = <<>>

-----------------------------------------------------------------------------
(* Reading.                                                                *)

\* How many bytes from this place make one character, or one mistake: as
\* many as begin a character, when they don't end it.
Width(bytes, at) ==
  LET goesOn(n) == at + n <= Len(bytes) /\ bytes[at + n] = Continuation
  IN  IF bytes[at] # Lead \/ ~goesOn(1) THEN 1 ELSE IF ~goesOn(2) THEN 2 ELSE 3

CharacterAt(bytes, at) ==
  IF bytes[at] \in Characters THEN bytes[at]
  ELSE IF Width(bytes, at) = 3 THEN Long
  ELSE NoCharacter

\* Where each character of the bytes begins.
Beginnings(bytes) ==
  LET begins[at \in 1..Len(bytes) + 1] ==
        IF at > Len(bytes) THEN {} ELSE {at} \union begins[at + Width(bytes, at)]
  IN  IF bytes = <<>> THEN {} ELSE begins[1]

\* The bytes at the end that begin a character which could still end.
Begun(bytes) ==
  LET from == {at \in Beginnings(bytes) : bytes[at] = Lead /\ Width(bytes, at) < 3
                                          /\ at + Width(bytes, at) > Len(bytes)}
  IN  IF from = {} THEN <<>> ELSE SubSeq(bytes, Min(from), Len(bytes))

\* The bytes read as a lossy conversion of all of them would read them.
Lossy(bytes) ==
  LET begins == Beginnings(bytes)
  IN  FlattenSeq([at \in DOMAIN bytes |->
        IF at \in begins THEN <<CharacterAt(bytes, at)>> ELSE <<>>])

-----------------------------------------------------------------------------
(* RedactedOutput: a text is cut as far as what follows can't change it.   *)
(* What the cut hands on in several parts is kept in one push here: Push   *)
(* counts from all that was fed, and SentAsWhole says that no division of  *)
(* a text makes a difference.                                              *)

Pushed(out, text) ==
  LET all == out.held \o text
  IN  [kept |-> Push(out.kept, Keeps(cap), HandedOn(all, out.covered, FALSE)),
       held |-> SubSeq(all, HeldFrom(all, FALSE), Len(all)),
       covered |-> StillCovered(all, out.covered, FALSE)]

\* What was held back is cut as the end of the text.
Ended(out) ==
  [NoOutput EXCEPT !.kept = Push(out.kept, Keeps(cap), HandedOn(out.held, out.covered, TRUE))]

-----------------------------------------------------------------------------
(* Text.                                                                   *)

\* The next bytes arrive, after those of a character that was begun.
Feed(piece) ==
  /\ sent = <<>>
  /\ Len(fed) + Len(piece) <= source.max
  /\ fed' = fed \o piece
  /\ LET bytes == begun \o piece
         text == Lossy(SubSeq(bytes, 1, Len(bytes) - Len(Begun(bytes))))
     IN  /\ begun' = Begun(bytes)
         /\ output' = Pushed(output, text)
         /\ atALine' = IF text = <<>> THEN atALine ELSE Last(text) = Newline
  /\ UNCHANGED <<cap, source, closing, sent>>

\* Mutant: a character that was begun and never ended is left out.
CharacterDropped == output

\* A character that was begun and never ended is no character.
CharacterEnded == IF begun = <<>> THEN output ELSE Pushed(output, <<NoCharacter>>)

\* The text is all there, and is kept without another word.
Kept ==
  /\ sent = <<>>
  /\ sent' = <<Sent(Ended(CharacterEnded).kept, cap)>>
  /\ UNCHANGED <<cap, source, fed, begun, atALine, output, closing>>

\* The text is all there: it ends its last line, and a closing line is said
\* of it, cut as a text of its own.
Close(line) ==
  /\ sent = <<>>
  /\ LET lineEnded == IF atALine /\ begun = <<>> THEN CharacterEnded
                      ELSE Pushed(CharacterEnded, <<Newline>>)
     IN  sent' = <<Sent(CloseWith(Ended(lineEnded).kept, Redacted(line)), cap)>>
  /\ closing' = line
  /\ UNCHANGED <<cap, source, fed, begun, atALine, output>>

Done == sent # <<>> /\ UNCHANGED vars

Next == (\E piece \in source.pieces : Feed(piece)) \/ Kept \/ (\E line \in Lines : Close(line)) \/ Done

Spec == Init /\ [][Next]_vars

-----------------------------------------------------------------------------
\* However the bytes were divided into pieces, the model is sent what it would
\* be sent of all of them at once: read in one go, every copy of a secret cut,
\* the start and the end that the cap allows (text.rs, secret.rs and output.rs
\* each promise their part of it).
SentAsWhole ==
  sent # <<>> =>
    LET text == Lossy(fed)
        ended == IF closing = <<>> \/ text = <<>> \/ Last(text) = Newline
                 THEN text ELSE Append(text, Newline)
    IN  sent[1] = SentOf(Clean(ended), Clean(closing), cap)

\* Nothing the model is sent holds a copy of a secret, whichever pieces the
\* copy came in, one that the cap left half of included.
NothingShown ==
  sent # <<>> =>
    \A part \in {sent[1].start, sent[1].end, sent[1].closing} : ~Holds(part)

\* However much a tool writes, no more is held than the cap's worth of the
\* start, its worth of the end, and less than one secret and one character.
HoldsLittle ==
  /\ Size(output.kept.head) <= Keeps(cap).head /\ Size(output.kept.tail) <= Keeps(cap).tail
  /\ output.held # <<>> => \E value \in Values : Len(output.held) < Len(value)
  /\ Len(begun) < 3

\* Reading in pieces shows neither in what's sent nor in what's held: a text
\* is cut as the whole would be, though little of it is ever there (text.rs).
CutAsWhole == SentAsWhole /\ HoldsLittle
=============================================================================
