----------------------------- MODULE KeptOutput -----------------------------
(***************************************************************************)
(* The output cap of lablet-model: what an executor keeps of a tool's      *)
(* text, and what the model is sent of it.  A text is a sequence of        *)
(* characters, some of which are three bytes long, and every size is in    *)
(* bytes.  The text is one item here; the items an executor may divide it  *)
(* into are left out.                                                      *)
(***************************************************************************)
EXTENDS Integers, SequencesExt

CONSTANTS Wide,         \* the characters that are three bytes long
          ClosingMax    \* the most that's kept of a closing line

ASSUME ClosingAssumption == ClosingMax \in Nat

Size(text) ==
  LET upTo[i \in 0..Len(text)] ==
        IF i = 0 THEN 0 ELSE upTo[i - 1] + (IF text[i] \in Wide THEN 3 ELSE 1)
  IN  upTo[Len(text)]

\* The longest start of text that's no longer than bytes, which is where
\* floor_char_boundary splits it, and the characters after it.
FirstBytes(text, bytes) ==
  SubSeq(text, 1, Max({n \in 0..Len(text) : Size(SubSeq(text, 1, n)) <= bytes}))

After(text, start) == SubSeq(text, Len(start) + 1, Len(text))

\* text without its first bytes and the rest of the character they end in,
\* which is what ceil_char_boundary drains.
WithoutFirst(text, bytes) ==
  SubSeq(text, 1 + Min({Len(text)} \union {n \in 0..Len(text) : Size(SubSeq(text, 1, n)) >= bytes}),
         Len(text))

\* For reference: the longest end of text that's no longer than bytes.
LastBytes(text, bytes) ==
  LET from == Min({n \in 1..Len(text) + 1 : Size(SubSeq(text, n, Len(text))) <= bytes})
  IN  SubSeq(text, from, Len(text))

-----------------------------------------------------------------------------
\* A cap of max bytes, and how a longer output is cut.
Half(cap) == cap.max \div 2

Keeps(cap) == [head |-> cap.max, tail |-> IF cap.cut = "head_tail" THEN Half(cap) ELSE 0]

Sends(cap) ==
  CASE cap.cut = "head" -> [head |-> cap.max, tail |-> 0]
    [] cap.cut = "head_tail" -> [head |-> Half(cap), tail |-> Half(cap)]
    [] cap.cut = "preview" -> [head |-> cap.preview, tail |-> 0]

Nothing == [head |-> <<>>, tail |-> <<>>, closing |-> <<>>, fed |-> 0]

Beyond(bytes, max) == IF bytes > max THEN bytes - max ELSE 0

\* The last max bytes of what was held and the text that follows it.
Hold(tail, text, max) ==
  LET over == Beyond(Size(tail) + Size(text), max)
  IN  WithoutFirst(tail, over) \o WithoutFirst(text, Beyond(over, Size(tail)))

\* The text is kept while the start has room, counted from all that was fed.
Push(kept, keep, text) ==
  LET start == FirstBytes(text, Beyond(keep.head, kept.fed))
  IN  [kept EXCEPT !.head = @ \o start,
                   !.tail = Hold(@, After(text, start), keep.tail),
                   !.fed = @ + Size(text)]

CloseWith(kept, line) == [kept EXCEPT !.closing = FirstBytes(line, ClosingMax)]

-----------------------------------------------------------------------------
\* What the model is sent: the start, what was left out between the start
\* and the end, how large it all was, and the closing line.
Whole(text) == [start |-> text, cut |-> FALSE, leftOut |-> 0, total |-> 0,
                end |-> <<>>, closing |-> <<>>]

Parts(start, end, closing, total) ==
  [start |-> start, cut |-> TRUE, end |-> end, closing |-> closing, total |-> total,
   leftOut |-> total - Size(start) - Size(end) - Size(closing)]

\* An output that lost nothing and is no longer than the cap is sent whole.
\* Of any other the cap says what's sent; when something was lost the end
\* can't reach back over it into the start.
Sent(kept, cap) ==
  LET total == kept.fed + Size(kept.closing)
      gap == Size(kept.head) + Size(kept.tail) + Size(kept.closing) < total
      start == IF gap THEN kept.head ELSE kept.head \o kept.tail
      sent == Push(Nothing, Sends(cap), start)
      end == IF gap THEN Hold(<<>>, kept.tail, Sends(cap).tail) ELSE sent.tail
  IN  IF ~gap /\ kept.fed <= cap.max
      THEN Whole(start \o kept.closing)
      ELSE Parts(sent.head, end, kept.closing, total)

\* For reference: what's sent of a text that's all there.
SentOf(text, closing, cap) ==
  LET line == FirstBytes(closing, ClosingMax)
      start == FirstBytes(text, Sends(cap).head)
  IN  IF Size(text) <= cap.max
      THEN Whole(text \o line)
      ELSE Parts(start, LastBytes(After(text, start), Sends(cap).tail), line,
                 Size(text) + Size(line))
=============================================================================
