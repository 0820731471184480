------------------------------ MODULE Console ------------------------------
(***************************************************************************)
(* Console output: println and print of sflang/src/builtins.rs through     *)
(* ConsoleWriter (sflang/src/console_writer.rs, not on a Windows console)  *)
(* and the standard library's line-buffered stdout, which is external.     *)
(*                                                                         *)
(* A text is its lines, up to and with the last line break, and the length *)
(* of what follows.  The descriptor takes whatever it is given.            *)
(***************************************************************************)
EXTENDS Naturals, Sequences, FiniteSets

CONSTANTS
  Threads,   \* threads and tasks that print to the shared writer
  Capacity,  \* of stdout's line buffer
  MaxTail,   \* bound: length of what follows the last line break
  MaxTexts,  \* bound: texts printed
  None

VARIABLES
  writer,  \* the thread that holds the writer's mutex, or None
  texts,   \* number of texts so far
  left,    \* what the holder has still to write
  said,    \* parts of texts that write reported as written
  shown    \* parts the descriptor was given

vars == <<writer, texts, left, said, shown>>

Texts == [lines : BOOLEAN, tail : 0..MaxTail]

Init == writer = None /\ texts = 0 /\ left = <<>> /\ said = <<>> /\ shown = <<>>

LineBreak == [lines |-> TRUE, tail |-> 0]

\* println and print: writeln! locks the writer and gives it the text, then the line break.
PrintText(t) ==
  /\ writer = None /\ texts < MaxTexts
  /\ writer' = t /\ texts' = texts + 1
  /\ \E text \in Texts, end \in {<<>>, <<LineBreak>>} : left' = <<text>> \o end
  /\ UNCHANGED <<said, shown>>

\* What a piece is shown as: the lines, and what follows them.
Lines(piece) == IF piece.lines THEN <<[text |-> texts, by |-> writer, part |-> "lines"]>> ELSE <<>>
LongTail(piece) == piece.lines /\ piece.tail >= Capacity
Rest(piece) ==
  IF piece.tail = 0 THEN <<>>
  ELSE <<[text |-> texts, by |-> writer, part |-> IF LongTail(piece) THEN "long tail" ELSE "tail"]>>

\* stdout's write: the lines go out; what follows them is left to the next call if it
\* would fill the buffer.  A text without lines is taken whole.
Taken(piece) == IF LongTail(piece) THEN Lines(piece) ELSE Lines(piece) \o Rest(piece)

\* ConsoleWriter's write: it flushes what was taken and reports that all was.
Write(t) ==
  /\ writer = t /\ left # <<>>
  /\ shown' = shown \o Taken(Head(left))
  /\ said' = said \o Lines(Head(left)) \o Rest(Head(left))
  /\ left' = Tail(left)
  /\ UNCHANGED <<writer, texts>>

Unlock(t) ==
  /\ writer = t /\ left = <<>>
  /\ writer' = None
  /\ UNCHANGED <<texts, left, said, shown>>

Next == \E t \in Threads : PrintText(t) \/ Write(t) \/ Unlock(t)

Spec == Init /\ [][Next]_vars

-----------------------------------------------------------------------------
\* Every variable keeps to its type.
TypeOK ==
  /\ writer \in Threads \cup {None} /\ texts \in 0..MaxTexts
  /\ left \in Seq(Texts)
  /\ \A i \in DOMAIN said : said[i].text \in 1..texts /\ said[i].by \in Threads

\* What is left of the reported parts without the long tails, part by part.
Kept(s) == {i \in DOMAIN s : s[i].part # "long tail"}
ShownOf(s, v) ==
  /\ Len(v) = Cardinality(Kept(s))
  /\ \A i \in Kept(s) : v[Cardinality({k \in Kept(s) : k <= i})] = s[i]

\* The texts of several threads are shown one after the other, a line's end with its
\* line, and nothing of them is left out or shown twice but a tail as long as the
\* buffer after lines of the same piece: that is lost, and reported as written.
TextsAreShown ==
  /\ \A i, j \in DOMAIN shown :
       /\ i < j => shown[i].text <= shown[j].text
       /\ shown[i].text = shown[j].text => shown[i].by = shown[j].by
  /\ ShownOf(said, shown)
=============================================================================
