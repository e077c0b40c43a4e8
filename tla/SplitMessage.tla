---------------------------- MODULE SplitMessage ----------------------------
(***************************************************************************)
(* splitMessage of the bridges: how a long reply is cut into pieces that   *)
(* the platform accepts.  Four characters stand for the kinds the code     *)
(* tells apart: a line break, a space, the end of a sentence and others.   *)
(* Positions count from 0, as in the code.                                 *)
(***************************************************************************)
EXTENDS Integers, SequencesExt, FiniteSetsExt

Char == {"\n", " ", ".", "x"}

Blank(ch) == ch \in {"\n", " "}
Printed(ch) == ~ Blank(ch)

(* reply.slice(from, upto) and reply.trim()                                  *)
slice(reply, from, upto) == SubSeq(reply, from + 1, IF upto < Len(reply) THEN upto ELSE Len(reply))

trim(reply) ==
  LET printed == {i \in DOMAIN reply : Printed(reply[i])}
  IN  IF printed = {} THEN <<>> ELSE SubSeq(reply, Min(printed), Max(printed))

(* reply.lastIndexOf(part, from), -1 if there is none                       *)
lastIndexOf(reply, part, from) ==
  Max({-1} \union {i \in 0..(Len(reply) - Len(part)) :
                     i <= from /\ SubSeq(reply, i + 1, i + Len(part)) = part})

(* The last match of [.!?]\s* in reply, <<>> if there is none.              *)
LastSentenceEnd(reply) ==
  LET ends   == {i \in DOMAIN reply : reply[i] = "."}
      last   == Max(ends)
      blanks == {j \in last..Len(reply) : \A i \in (last + 1)..j : Blank(reply[i])}
  IN  IF ends = {} THEN <<>> ELSE SubSeq(reply, last, Max(blanks))

(* Whether a place is too near the start: splitAt < maxLength * 0.3        *)
TooEarly(splitAt, maxLength) == 10 * splitAt < 3 * maxLength

(* Where the code cuts: after a paragraph, a line, a sentence or a word,   *)
(* and else at maxLength.  The end of a sentence is looked up by its reply, *)
(* which may also stand at maxLength itself.                               *)
SplitAt(reply, maxLength) ==
  LET paragraph == lastIndexOf(reply, <<"\n", "\n">>, maxLength)
      line      == IF TooEarly(paragraph, maxLength)
                   THEN lastIndexOf(reply, <<"\n">>, maxLength) ELSE paragraph
      end       == LastSentenceEnd(slice(reply, 0, maxLength))
      sentence  == IF TooEarly(line, maxLength) /\ end # <<>>
                   THEN lastIndexOf(reply, end, maxLength) + Len(end) ELSE line
      word      == IF TooEarly(sentence, maxLength)
                   THEN lastIndexOf(reply, <<" ">>, maxLength) ELSE sentence
  IN  IF TooEarly(word, maxLength) THEN maxLength ELSE word

(* Mutant of splitMessage: the blank that is cut at is stepped over, which *)
(* a cut at maxLength does not have.                                       *)
splitAfterBlank(reply, maxLength) ==
  LET chunks[rest \in Seq(Char)] ==
        CASE rest = <<>>                 -> <<>>
          [] Len(rest) \in 1..maxLength -> <<rest>>
          [] OTHER ->
               LET cut == SplitAt(rest, maxLength)
               IN  <<trim(slice(rest, 0, cut))>> \o chunks[trim(slice(rest, cut + 1, Len(rest)))]
  IN  IF Len(reply) <= maxLength THEN <<reply>> ELSE chunks[reply]

splitMessage(reply, maxLength) ==
  LET chunks[rest \in Seq(Char)] ==
        CASE rest = <<>>                 -> <<>>
          [] Len(rest) \in 1..maxLength -> <<rest>>
          [] OTHER ->
               LET cut == SplitAt(rest, maxLength)
               IN  <<trim(slice(rest, 0, cut))>> \o chunks[trim(slice(rest, cut, Len(rest)))]
  IN  IF Len(reply) <= maxLength THEN <<reply>> ELSE chunks[reply]

-----------------------------------------------------------------------------
(* The printed characters of a reply, in their order.                      *)
PrintedOf(reply) ==
  LET printed[n \in 0..Len(reply)] ==
        IF n = 0 THEN <<>>
        ELSE printed[n - 1] \o IF Printed(reply[n]) THEN <<reply[n]>> ELSE <<>>
  IN  printed[Len(reply)]

(* However a reply is cut, the pieces hold its printed characters in their *)
(* order, and none is empty unless the reply itself begins with blanks.    *)
SplitsWell(reply, maxLength) ==
  LET chunks == splitMessage(reply, maxLength)
  IN  /\ PrintedOf(FlattenSeq(chunks)) = PrintedOf(reply)
      /\ \A i \in DOMAIN chunks :
           chunks[i] = <<>> => reply = <<>> \/ (i = 1 /\ Blank(reply[1]))

(* The chunks are "for platforms with message length limits": none is      *)
(* longer than maxLength.  The code does not keep to it.                   *)
SplitsFit(reply, maxLength) ==
  LET chunks == splitMessage(reply, maxLength)
  IN  \A i \in DOMAIN chunks : Len(chunks[i]) <= maxLength

(* What it does keep to: the end of a sentence may stand just behind.      *)
SplitsNearlyFit(reply, maxLength) ==
  LET chunks == splitMessage(reply, maxLength)
  IN  \A i \in DOMAIN chunks :
        \/ Len(chunks[i]) <= maxLength
        \/ Len(chunks[i]) = maxLength + 1 /\ Last(chunks[i]) = "."
=============================================================================
