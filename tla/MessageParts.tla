------------------------------ MODULE MessageParts -------------------------------
(***************************************************************************)
(* How a long report is cut into messages: split_message of                *)
(* bale_transport.py.  A text is a sequence of characters, of which only   *)
(* the end of a line and the mark that begins a section are told apart.    *)
(* A definition named Slip... is a mistake that a change of the code could *)
(* make in the definition after it; each breaks a property stated below.   *)
(***************************************************************************)
EXTENDS EngineCases

CONSTANTS
  Texts,       \* the reports
  PartLimit    \* the characters a message may have, 3500 in the code

Characters == {"x", "end", "mark"}

ASSUME PartsAssumption == PartLimit \in Nat \ {0} /\ Texts \subseteq Seq(Characters)

\* While a section is too long a message is cut off: after the last end of a line that fits, or
\* in the middle of a line that is too long.
CutOf(section) ==
  LET ends == {n \in 1..PartLimit : section[n] = "end"}
  IN IF ends = {} THEN PartLimit ELSE Max(ends)

CutOff(parts) ==
  IF Len(parts.section) <= PartLimit THEN parts
  ELSE LET cut == CutOf(parts.section)
       IN [parts EXCEPT !.chunks = Append(@, SubSeq(parts.section, 1, cut)),
                        !.section = SubSeq(@, cut + 1, Len(@))]

\* Every message that is cut off has a character.
CutToFit(chunks, section) ==
  LET cut[k \in 0..Len(section)] ==
        IF k = 0 THEN [chunks |-> chunks, section |-> section] ELSE CutOff(cut[k - 1])
  IN cut[Len(section)]

SlipForgetsWaiting(parts, section) ==
  LET full == parts.current # <<>> /\ Len(parts.current) + Len(section) > PartLimit
      fits == CutToFit(parts.chunks, section)
  IN [chunks |-> fits.chunks, current |-> IF full THEN fits.section ELSE parts.current \o fits.section]

\* What waits goes out first if the section does not fit behind it.
WithSection(parts, section) ==
  LET full == parts.current # <<>> /\ Len(parts.current) + Len(section) > PartLimit
      fits == CutToFit(IF full THEN Append(parts.chunks, parts.current) ELSE parts.chunks, section)
  IN [chunks |-> fits.chunks, current |-> IF full THEN fits.section ELSE parts.current \o fits.section]

\* The report is split before every mark, which stays with its section: where the section of a
\* character begins.
Beginning(text, n) == Max({1} \cup {m \in 1..n : text[m] = "mark"})

NoParts == [chunks |-> <<>>, current |-> <<>>]

\* The parts of the sections that end with that character.
PartsUpTo(text) ==
  LET parts[n \in 0..Len(text)] ==
        IF n = 0 THEN NoParts
        ELSE WithSection(parts[Beginning(text, n) - 1], SubSeq(text, Beginning(text, n), n))
  IN parts

\* A text of no character is no message.
MessagesOf(text) ==
  LET parts == PartsUpTo(text)[Len(text)]
  IN IF parts.current = <<>> THEN parts.chunks ELSE Append(parts.chunks, parts.current)

TextCalled == NotCalled /\ \E text \in Texts : Given("parts", text)

PartsSpec == CasesInit /\ [][TextCalled]_case

-------------------------------------------------------------------------------
\* The messages are the report, to the character and in order, and every one of them is
\* within what Bale takes.
PartsAreTheText ==
  case.engine = "parts" =>
    LET parts == MessagesOf(case.in) IN
      /\ FlattenSeq(parts) = case.in
      /\ \A n \in DOMAIN parts : Len(parts[n]) \in 1..PartLimit

\* A message ends at the end of a line or of a section, whatever the lengths, unless it is
\* full of one line.
CutsAtLines ==
  case.engine = "parts" =>
    LET parts == MessagesOf(case.in) IN
      \A n \in 1..(Len(parts) - 1) :
        \/ Last(parts[n]) = "end" \/ Head(parts[n + 1]) = "mark"
        \/ Len(parts[n]) = PartLimit /\ "end" \notin ToSet(parts[n])

\* The messages of a report are its text, cut where a reader expects it.
MessageIsKept == PartsAreTheText /\ CutsAtLines
===============================================================================
