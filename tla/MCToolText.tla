----------------------------- MODULE MCToolText -----------------------------
(***************************************************************************)
(* Small instances of ToolText: secrets whose copies overlap each other    *)
(* and themselves, some the start of others, and every text of some bytes. *)
(***************************************************************************)
EXTENDS ToolText

MCValues ==
  {<<"a", "b", "a">>, <<"b", "b">>, <<"a", "b", "a", "a", "b">>, <<"b", "a", "b", "b">>}
MCMarker == <<"[", "]">>
MCWide == {Long, NoCharacter}
MCCharacters == {"a", "b", "newline"}

Bytes == MCCharacters \union {Lead, Continuation}

\* Every text of five bytes, and longer ones that are nothing but letters.
MCSources ==
  {[pieces |-> [1..1 -> Bytes] \union [1..2 -> Bytes], max |-> 5],
   [pieces |-> [1..1 -> {"a", "b"}] \union [1..3 -> {"a", "b"}], max |-> 9]}

\* A closing line with nothing to cut, and one that holds a secret.
MCLines == {<<"e", "x">>, <<"b", "b", "e">>}

MCCaps ==
  {[max |-> 4, cut |-> "head", preview |-> 0], [max |-> 5, cut |-> "head_tail", preview |-> 0],
   [max |-> 4, cut |-> "preview", preview |-> 2], [max |-> 99, cut |-> "head", preview |-> 0]}
=============================================================================
