------------------------------ MODULE MCDialogue ------------------------------
(***************************************************************************)
(* Instances of Dialogue for TLC.                                          *)
(***************************************************************************)
EXTENDS Dialogue

\* Everything configured, nothing, all but the mail, and all but the calendar
\* and the embedder.
MCSetups == {Adapters, {}, Adapters \ {"email"}, Adapters \ {"calendar", "embedder"}}

\* For messages of at most four characters: every text of up to two, and texts
\* of seven with a blank and a newline anywhere, narrow, wide or mixed.
Words(n, runes) == {text \in [1 .. n -> runes] : SolidAt(text) # {}}
ShortTexts == Words(1, Runes) \cup Words(2, Runes)
LongTexts ==
  {[i \in 1 .. 7 |-> IF i = j THEN "space" ELSE IF i = k THEN "newline"
                     ELSE IF i \in wide THEN "wide" ELSE "narrow"] :
     j \in 2 .. 5, k \in 2 .. 5, wide \in {{}, {1}, {1, 4}, 1 .. 7}}
MCTexts == ShortTexts \cup LongTexts
==============================================================================
