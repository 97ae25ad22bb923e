------------------------------- MODULE Replies -------------------------------
(***************************************************************************)
(* How an answer leaves the bot: reply, splitTelegramMessage and           *)
(* cutTelegramChunk of src/internal/adapters/telegram/bot.go.  Telegram    *)
(* takes messages up to a length only, so that a long answer is cut at a   *)
(* newline or a blank where there is one late enough, and sent as several. *)
(*                                                                         *)
(* A text is a sequence of characters, of which only the class matters.    *)
(* The code counts characters in one place and bytes in another: a `wide'  *)
(* character is one of more than one byte.                                 *)
(***************************************************************************)
EXTENDS Naturals, Sequences, SequencesExt, FiniteSets, FiniteSetsExt

CONSTANTS
  Texts,    \* what a handler may answer
  MaxRunes  \* telegramMaxMessageRunes (3900)

Solids == {"narrow", "wide"}
Blanks == {"space", "newline"}
Runes == Solids \cup Blanks

\* Every answer and every error message has something to say: the client of
\* the model refuses an empty content, and the other texts are constants or
\* begin with one.
ASSUME RepliesAssumption ==
  /\ MaxRunes \in Nat \ {0}
  /\ Texts \subseteq Seq(Runes)
  /\ \A text \in Texts : \E i \in DOMAIN text : text[i] \in Solids

VARIABLES
  answer,  \* the text being sent
  rest,    \* what of it is left to send; `remaining' in the code
  told     \* the chunks handed to Telegram so far

replyVars == <<answer, rest, told>>

NoReply == answer = << >> /\ rest = << >> /\ told = << >>

------------------------------------------------------------------------------
(* Cutting a text.                                                         *)

SolidAt(text) == {i \in DOMAIN text : text[i] \in Solids}

\* strings.TrimSpace.
TrimSpace(text) ==
  IF SolidAt(text) = {} THEN << >>
  ELSE SubSeq(text, Min(SolidAt(text)), Max(SolidAt(text)))

\* The index of the first byte of the i-th character.
ByteIndex(text, i) ==
  (i - 1) + Cardinality({j \in 1 .. i - 1 : text[j] = "wide"})

\* Where strings.LastIndex may find a place to cut: before the last character
\* that fits, at a byte beyond half of the characters.
Breaks(text, rune) ==
  {i \in 1 .. MaxRunes - 1 :
     text[i] = rune /\ ByteIndex(text, i) > MaxRunes \div 2}

\* Seeded fault: the loop stops a character late, and the end is cut off.
CutTooLate(text) ==
  LET newlines == Breaks(text, "newline")
      spaces == Breaks(text, "space") IN
  CASE newlines # {} -> Max(newlines) - 1
    [] newlines = {} /\ spaces # {} -> Max(spaces) - 1
    [] OTHER -> MaxRunes + 1

\* cutTelegramChunk: how many characters go first.  The loop stops at the
\* beginning of the last character that fits, so that a chunk that is cut is
\* one character shorter than it might be; a limit of one would never be met.
Cut(text) ==
  LET newlines == Breaks(text, "newline")
      spaces == Breaks(text, "space") IN
  CASE newlines # {} -> Max(newlines) - 1
    [] newlines = {} /\ spaces # {} -> Max(spaces) - 1
    [] OTHER -> IF MaxRunes = 1 THEN Len(text) ELSE MaxRunes - 1

Fits(text) == Len(text) <= MaxRunes

NextChunk(text) ==
  IF Fits(text) THEN text ELSE TrimSpace(SubSeq(text, 1, Cut(text)))

\* Seeded fault: the character at which the text is cut is taken for a blank.
RestSkipsOne(text) ==
  IF Fits(text) THEN << >>
  ELSE TrimSpace(SubSeq(text, Cut(text) + 2, Len(text)))

RestAfter(text) ==
  IF Fits(text) THEN << >>
  ELSE TrimSpace(SubSeq(text, Cut(text) + 1, Len(text)))
------------------------------------------------------------------------------
(* Sending it.                                                             *)

\* reply: the text is split before the first chunk is sent, with the same
\* outcome as splitting it on the way.
StartReply(text) ==
  /\ answer' = text
  /\ rest' = TrimSpace(text)
  /\ told' = << >>

\* One call of Send.  Its failure is logged and no more: the next chunk goes
\* out all the same.
SendChunk ==
  /\ rest # << >>
  /\ told' = Append(told, NextChunk(rest))
  /\ rest' = RestAfter(rest)
  /\ UNCHANGED answer

EndReply ==
  /\ rest = << >>
  /\ answer' = << >>
  /\ told' = << >>
  /\ UNCHANGED rest
------------------------------------------------------------------------------
(* Properties.                                                             *)

\* The characters of a text that are not blank, in their order.
Pieces(text) ==
  [i \in DOMAIN text |-> IF text[i] \in Solids THEN <<text[i]>> ELSE << >>]

Solid(text) == FlattenSeq(Pieces(text))

\* However an answer is cut, and whatever its characters take in bytes, the
\* chunks and what is left say all of it, once and in order; only blanks at the
\* seams are dropped.
NothingLost == Solid(FlattenSeq(told)) \o Solid(rest) = Solid(answer)

\* Telegram takes every chunk: none is empty or too long, and none spends its
\* length on blanks at the ends.
ChunksFit ==
  \A i \in DOMAIN told :
    /\ Len(told[i]) \in 1 .. MaxRunes
    /\ TrimSpace(told[i]) = told[i]
==============================================================================
