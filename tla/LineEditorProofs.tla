-------------------------- MODULE LineEditorProofs --------------------------
(***************************************************************************)
(* The line buffer of the terminal REPL, for every size of the buffer and  *)
(* whatever is typed: it is always a C string, and every step on it is a   *)
(* step of the abstract editor.  The terminal, given back on every way out *)
(* of a line.  The keys, which mean to the line what they mean to the user *)
(* as long as the program reads each of them whole.  At the end, the same  *)
(* REPL on a pipe (PipedRepl), for every buffer and whatever is piped.     *)
(***************************************************************************)
EXTENDS LineEditor, SequenceTheorems, TLAPS

-----------------------------------------------------------------------------
(* The text between two places of an array, and what a move does to it. *)

TextIn(b, from, to) == [i \in 1..(to - from) |-> b[from + i - 1]]

IsText(b, from, to) ==
    /\ from \in Nat /\ to \in Nat /\ from <= to
    /\ \A i \in from..(to - 1) : b[i] \in Bytes

LEMMA TextOf ==
    ASSUME NEW b, NEW from, NEW to, IsText(b, from, to)
    PROVE  /\ TextIn(b, from, to) \in Seq(Bytes)
           /\ Len(TextIn(b, from, to)) = to - from
           /\ \A i \in 1..(to - from) : TextIn(b, from, to)[i] = b[from + i - 1]
<1>0. from \in Nat /\ to \in Nat /\ from <= to
      /\ \A i \in from..(to - 1) : b[i] \in Bytes
  BY DEF IsText
<1>1. TextIn(b, from, to) \in [1..(to - from) -> Bytes] /\ to - from \in Nat
  BY <1>0 DEF TextIn
<1>2. TextIn(b, from, to) \in Seq(Bytes)
  BY <1>1
<1> QED  BY <1>0, <1>1, <1>2, LenProperties DEF TextIn

\* Two arrays that agree on two stretches of one length hold the same text there.
LEMMA SameText ==
    ASSUME NEW b, NEW c, NEW from \in Int, NEW to \in Int, NEW at \in Int,
           \A i \in from..(to - 1) : b[i] = c[i + at]
    PROVE  TextIn(b, from, to) = TextIn(c, from + at, to + at)
<1>1. (to + at) - (from + at) = to - from
  OBVIOUS
<1>2. \A i \in 1..(to - from) : b[from + i - 1] = c[from + at + i - 1]
  OBVIOUS
<1> QED  BY <1>1, <1>2, Zenon DEF TextIn

LEMMA SameStart ==
    ASSUME NEW b, NEW c, NEW to \in Int, \A i \in 0..(to - 1) : b[i] = c[i]
    PROVE  TextIn(b, 0, to) = TextIn(c, 0, to)
<1>1. \A i \in 1..(to - 0) : b[0 + i - 1] = c[0 + i - 1]
  OBVIOUS
<1> QED  BY <1>1, Zenon DEF TextIn

\* A text that grows at its right end, and at its left end.
LEMMA TextGrows ==
    ASSUME NEW b, NEW from \in Nat, NEW to \in Nat, from <= to,
           \A i \in from..to : b[i] \in Bytes
    PROVE  TextIn(b, from, to + 1) = Append(TextIn(b, from, to), b[to])
<1> DEFINE short == TextIn(b, from, to)
           long == TextIn(b, from, to + 1)
           ext == Append(short, b[to])
<1>1. short \in Seq(Bytes) /\ Len(short) = to - from
      /\ \A i \in 1..(to - from) : short[i] = b[from + i - 1]
  <2>1. IsText(b, from, to)
    BY DEF IsText
  <2> QED  BY <2>1, TextOf
<1>2. long \in Seq(Bytes) /\ Len(long) = to + 1 - from
      /\ \A i \in 1..(to + 1 - from) : long[i] = b[from + i - 1]
  <2> DEFINE end == to + 1
  <2>1. IsText(b, from, end)
    BY DEF IsText
  <2> HIDE DEF end, long
  <2>3. TextIn(b, from, end) \in Seq(Bytes) /\ Len(TextIn(b, from, end)) = end - from
        /\ \A i \in 1..(end - from) : TextIn(b, from, end)[i] = b[from + i - 1]
    BY <2>1, TextOf
  <2>4. end = to + 1 /\ long = TextIn(b, from, end)
    BY DEF long, end
  <2> QED  BY <2>3, <2>4
<1>3. ext \in Seq(Bytes) /\ Len(ext) = Len(short) + 1
      /\ (\A i \in 1..Len(short) : ext[i] = short[i]) /\ ext[Len(short) + 1] = b[to]
  BY <1>1, AppendProperties
<1> HIDE DEF short, long, ext
<1>4. \A i \in 1..Len(long) : long[i] = ext[i]
  BY <1>1, <1>2, <1>3
<1>5. Len(long) = Len(ext)
  BY <1>1, <1>2, <1>3
<1>6. long = ext
  BY <1>2, <1>3, <1>4, <1>5, SeqEqual, Zenon
<1> QED  BY <1>6 DEF long, ext, short

LEMMA TextGrowsLeft ==
    ASSUME NEW b, NEW from \in Nat, NEW to \in Nat, from < to,
           \A i \in from..(to - 1) : b[i] \in Bytes
    PROVE  TextIn(b, from, to) = <<b[from]>> \o TextIn(b, from + 1, to)
<1> DEFINE short == TextIn(b, from + 1, to)
           long == TextIn(b, from, to)
           ext == <<b[from]>> \o short
<1>1. short \in Seq(Bytes) /\ Len(short) = to - from - 1
      /\ \A i \in 1..(to - from - 1) : short[i] = b[from + i]
  <2> DEFINE start == from + 1
  <2>1. start \in Nat /\ start <= to /\ start = from + 1
    OBVIOUS
  <2>2. IsText(b, start, to)
    BY DEF IsText
  <2> HIDE DEF start, short
  <2>3. TextIn(b, start, to) \in Seq(Bytes) /\ Len(TextIn(b, start, to)) = to - start
        /\ \A i \in 1..(to - start) : TextIn(b, start, to)[i] = b[start + i - 1]
    BY <2>2, TextOf
  <2>4. \A i \in 1..(to - start) : start + i - 1 = from + i
    BY <2>1
  <2>5. to - start = to - from - 1
    BY <2>1
  <2>6. short = TextIn(b, start, to)
    BY DEF short, start
  <2> QED  BY <2>3, <2>4, <2>5, <2>6
<1>2. IsText(b, from, to)
  BY DEF IsText
<1>3. long \in Seq(Bytes) /\ Len(long) = to - from
      /\ \A i \in 1..(to - from) : long[i] = b[from + i - 1]
  BY <1>2, TextOf
<1> DEFINE first == <<b[from]>>
<1>4. first \in Seq(Bytes) /\ Len(first) = 1 /\ first[1] = b[from]
  OBVIOUS
<1> HIDE DEF short, long, first
<1>5. /\ ext \in Seq(Bytes) /\ Len(ext) = 1 + Len(short)
      /\ \A i \in 1..(1 + Len(short)) : ext[i] = IF i <= 1 THEN first[i] ELSE short[i - 1]
  BY <1>1, <1>4, ConcatProperties DEF first
<1> HIDE DEF ext
<1>6. ext[1] = b[from] /\ \A i \in 2..(to - from) : ext[i] = short[i - 1]
  BY <1>1, <1>4, <1>5
<1>7. \A i \in 2..(to - from) : short[i - 1] = b[from + i - 1]
  BY <1>1
<1>8. \A i \in 1..Len(long) : long[i] = ext[i]
  BY <1>3, <1>6, <1>7
<1>9. Len(long) = Len(ext)
  BY <1>1, <1>3, <1>5
<1>10. long = ext
  BY <1>3, <1>5, <1>8, <1>9, SeqEqual, Zenon
<1> QED  BY <1>10 DEF long, ext, short, first

\* Taking the two growths back.
LEMMA FrontLastAppend ==
    ASSUME NEW s \in Seq(Bytes), NEW e \in Bytes
    PROVE  /\ Append(s, e) # <<>>
           /\ Front(Append(s, e)) = s
           /\ Last(Append(s, e)) = e
<1> DEFINE t == Append(s, e)
<1>1. /\ t \in Seq(Bytes) /\ t # <<>> /\ Len(t) = Len(s) + 1 /\ Len(s) \in Nat
      /\ (\A i \in 1..Len(s) : t[i] = s[i]) /\ t[Len(s) + 1] = e
  BY AppendProperties, LenProperties
<1> HIDE DEF t
<1>2. Last(t) = e
  BY <1>1 DEF Last
<1>3. \A i \in 1..Len(s) : t[i] \in Bytes
  BY <1>1, ElementOfSeq
<1>4. /\ Front(t) \in Seq(Bytes) /\ Len(Front(t)) = Len(s)
      /\ \A i \in 1..Len(s) : Front(t)[i] = t[i]
  <2>1. Front(t) = SubSeq(t, 1, Len(s))
    BY <1>1 DEF Front
  <2>2. /\ SubSeq(t, 1, Len(s)) \in Seq(Bytes)
        /\ Len(SubSeq(t, 1, Len(s))) = IF 1 <= Len(s) THEN Len(s) - 1 + 1 ELSE 0
        /\ \A i \in 1..(Len(s) - 1 + 1) : SubSeq(t, 1, Len(s))[i] = t[1 + i - 1]
    BY <1>1, <1>3, SubSeqProperties
  <2> QED  BY <1>1, <2>1, <2>2
<1>5. Front(t) = s
  BY <1>1, <1>4, SeqEqual
<1> QED  BY <1>1, <1>2, <1>5 DEF t

LEMMA HeadTailConcat ==
    ASSUME NEW s \in Seq(Bytes), NEW e \in Bytes
    PROVE  /\ <<e>> \o s # <<>>
           /\ Head(<<e>> \o s) = e
           /\ Tail(<<e>> \o s) = s
<1> DEFINE first == <<e>>
           t == first \o s
<1>1. first \in Seq(Bytes) /\ Len(first) = 1 /\ first[1] = e
  OBVIOUS
<1> HIDE DEF first
<1>2. /\ t \in Seq(Bytes) /\ Len(t) = 1 + Len(s) /\ Len(s) \in Nat
      /\ \A i \in 1..(1 + Len(s)) : t[i] = IF i <= 1 THEN first[i] ELSE s[i - 1]
  <2>1. Len(s) \in Nat
    BY LenProperties
  <2>2. /\ first \o s \in Seq(Bytes) /\ Len(first \o s) = Len(first) + Len(s)
        /\ \A i \in 1..(Len(first) + Len(s)) :
              (first \o s)[i] = IF i <= Len(first) THEN first[i] ELSE s[i - Len(first)]
    BY <1>1, ConcatProperties, Zenon
  <2> QED  BY <1>1, <2>1, <2>2
<1> HIDE DEF t
<1>3. t # <<>> /\ t[1] = e
  BY <1>1, <1>2, EmptySeq
<1>4. Head(t) = e
  BY <1>2, <1>3
<1>5. /\ Tail(t) \in Seq(Bytes) /\ Len(Tail(t)) = Len(s)
      /\ \A i \in 1..Len(s) : Tail(t)[i] = s[i]
  BY <1>2, <1>3, HeadTailProperties
<1>6. Tail(t) = s
  BY <1>5, SeqEqual
<1> QED  BY <1>3, <1>4, <1>6 DEF t, first

-----------------------------------------------------------------------------
(* The buffer is a string. *)

Inv ==
    /\ buffer \in [0..BUFFER_SIZE - 1 -> Bytes]
    /\ length \in 0..BUFFER_SIZE - 1
    /\ cursor \in 0..length
    /\ pc \in {"prompt", "run"} \cup Editing \cup Over
    /\ BufferIsString

LEMMA PrintableIsAByte == Printable \subseteq Bytes /\ NUL \in Bytes /\ NUL \notin Printable
BY DEF Printable, Bytes, Control

LEMMA InitInv == Init => Inv
BY LineEditorConstants DEF Init, Inv, BufferIsString, Editing, Over

\* What the two memmove calls leave in the array.
LEMMA InsertedCharacter ==
    ASSUME Inv, length + 1 < BUFFER_SIZE, NEW ch \in Printable, InsertCharacter(ch)
    PROVE  /\ length' = length + 1 /\ cursor' = cursor + 1
           /\ buffer' \in [0..BUFFER_SIZE - 1 -> Bytes]
           /\ \A i \in 0..(cursor - 1) : buffer'[i] = buffer[i]
           /\ buffer'[cursor] = ch
           /\ \A i \in cursor..length : buffer'[i + 1] = buffer[i]
<1>1. /\ length' = length + 1 /\ cursor' = cursor + 1
      /\ buffer' = [Moved(cursor + 1, cursor, length - cursor + 1) EXCEPT ![cursor] = ch]
  BY LineEditorConstants DEF Inv, InsertCharacter
<1> DEFINE moved == Moved(cursor + 1, cursor, length - cursor + 1)
<1>2. DOMAIN buffer = 0..BUFFER_SIZE - 1 /\ \A i \in 0..BUFFER_SIZE - 1 : buffer[i] \in Bytes
  BY DEF Inv
<1>3. /\ length \in Nat /\ cursor \in Nat /\ cursor <= length /\ BUFFER_SIZE \in Nat
      /\ length <= BUFFER_SIZE - 1
  BY LineEditorConstants DEF Inv
<1>4. moved = [i \in 0..BUFFER_SIZE - 1 |->
                  IF i \in (cursor + 1)..(length + 1) THEN buffer[i - 1] ELSE buffer[i]]
  <2>1. cursor + 1 + (length - cursor + 1) - 1 = length + 1
    BY <1>3
  <2>2. \A i \in 0..BUFFER_SIZE - 1 : i - (cursor + 1) + cursor = i - 1
    BY <1>3
  <2> QED  BY <1>2, <2>1, <2>2 DEF Moved
<1> HIDE DEF moved
<1>5. moved \in [0..BUFFER_SIZE - 1 -> Bytes]
  BY <1>2, <1>3, <1>4
<1>6. buffer' = [moved EXCEPT ![cursor] = ch]
  BY <1>1 DEF moved
<1>7. buffer' \in [0..BUFFER_SIZE - 1 -> Bytes] /\ buffer'[cursor] = ch
      /\ \A i \in 0..BUFFER_SIZE - 1 : i # cursor => buffer'[i] = moved[i]
  BY <1>3, <1>5, <1>6, PrintableIsAByte
<1>8. \A i \in 0..(cursor - 1) : buffer'[i] = buffer[i]
  BY <1>3, <1>4, <1>7
<1>9. \A i \in cursor..length : buffer'[i + 1] = buffer[i]
  BY <1>3, <1>4, <1>7
<1> QED  BY <1>1, <1>7, <1>8, <1>9

LEMMA DeletedCharacter ==
    ASSUME Inv, cursor # 0, length # 0, DeleteCharacterLeft
    PROVE  /\ length' = length - 1 /\ cursor' = cursor - 1
           /\ buffer' \in [0..BUFFER_SIZE - 1 -> Bytes]
           /\ \A i \in 0..(cursor - 2) : buffer'[i] = buffer[i]
           /\ \A i \in cursor..length : buffer'[i - 1] = buffer[i]
<1>1. /\ length' = length - 1 /\ cursor' = cursor - 1
      /\ buffer' = Moved(cursor - 1, cursor, length - cursor + 1)
  BY DEF DeleteCharacterLeft
<1>2. DOMAIN buffer = 0..BUFFER_SIZE - 1 /\ \A i \in 0..BUFFER_SIZE - 1 : buffer[i] \in Bytes
  BY DEF Inv
<1>3. /\ length \in Nat /\ cursor \in Nat \ {0} /\ cursor <= length /\ BUFFER_SIZE \in Nat
      /\ length <= BUFFER_SIZE - 1
  BY LineEditorConstants DEF Inv
<1>4. buffer' = [i \in 0..BUFFER_SIZE - 1 |->
                    IF i \in (cursor - 1)..(length - 1) THEN buffer[i + 1] ELSE buffer[i]]
  <2>1. cursor - 1 + (length - cursor + 1) - 1 = length - 1
    BY <1>3
  <2>2. \A i \in 0..BUFFER_SIZE - 1 : i - (cursor - 1) + cursor = i + 1
    BY <1>3
  <2> QED  BY <1>1, <1>2, <2>1, <2>2 DEF Moved
<1> QED  BY <1>1, <1>2, <1>3, <1>4

\* Actions that leave the buffer alone: all but four handlers and the prompt.
Elsewhere ==
    \/ ReadOther \/ ReadEscape \/ ReadBracket \/ ReadEot \/ RunLine
    \/ ReadEof \/ Failing \/ PressKey \/ Finished

LEMMA ElsewhereFacts ==
    ASSUME Elsewhere
    PROVE  /\ UNCHANGED line
           /\ pc' \in {pc} \cup Editing \cup {"prompt", "run"} \cup Over
           /\ pc' \in Editing \cup {"run"} => pc \in Editing \cup {"run"}
BY DEF Elsewhere, ReadOther, ReadEscape, ReadBracket, ReadEot, RunLine, Failing,
       PressKey, Finished, ReadEof, EscapeFails, StartFails, ReadFails, HangUp,
       Interrupt, Consumes, line, vars, Editing, Over

LEMMA NextCases ==
    ASSUME Next
    PROVE  \/ Elsewhere \/ StartLine \/ PromptEof \/ ReadPrintable \/ ReadBackspace
           \/ ReadDirection \/ ReadEnter
BY DEF Next, Program, Reading, Ending, Failing, Elsewhere

LEMMA StepInv == Inv /\ [Next]_vars => Inv'
<1> SUFFICES ASSUME Inv, [Next]_vars PROVE Inv'
  OBVIOUS
<1> USE LineEditorConstants, PrintableIsAByte
<1>0. CASE UNCHANGED vars
  BY <1>0 DEF vars, line, Inv, BufferIsString
<1>1. CASE Elsewhere
  BY <1>1, ElsewhereFacts DEF line, Inv, BufferIsString
<1>2. CASE StartLine \/ PromptEof
  BY <1>2 DEF StartLine, PromptEof, EmptyLine, Inv, BufferIsString, Editing, Over
<1>3. CASE ReadPrintable
  <2>1. PICK ch \in Printable : InsertCharacter(ch)
    BY <1>3 DEF ReadPrintable
  <2>2. pc = "edit" /\ pc' = "edit"
    BY <1>3 DEF ReadPrintable
  <2>3. CASE length + 1 >= BUFFER_SIZE
    BY <2>1, <2>2, <2>3 DEF InsertCharacter, line, Inv, BufferIsString, Editing
  <2>4. CASE length + 1 < BUFFER_SIZE
    <3>1. /\ length' = length + 1 /\ cursor' = cursor + 1
          /\ buffer' \in [0..BUFFER_SIZE - 1 -> Bytes]
          /\ \A i \in 0..(cursor - 1) : buffer'[i] = buffer[i]
          /\ buffer'[cursor] = ch
          /\ \A i \in cursor..length : buffer'[i + 1] = buffer[i]
      BY <2>1, <2>4, InsertedCharacter
    <3>2. /\ length \in Nat /\ cursor \in Nat /\ cursor <= length /\ BUFFER_SIZE \in Nat
          /\ buffer[length] = NUL /\ \A i \in 0..(length - 1) : buffer[i] \in Printable
      BY <2>2 DEF Inv, BufferIsString, Editing
    <3>3. buffer'[length'] = NUL
      BY <3>1, <3>2
    <3>4. ASSUME NEW i \in 0..(length' - 1) PROVE buffer'[i] \in Printable
      <4>1. CASE i < cursor
        BY <3>1, <3>2, <4>1
      <4>2. CASE i > cursor
        <5>1. i - 1 \in cursor..length /\ i - 1 \in 0..(length - 1) /\ (i - 1) + 1 = i
          BY <3>1, <3>2, <4>2
        <5> QED  BY <3>1, <3>2, <5>1
      <4> QED  BY <3>1, <3>2, <4>1, <4>2
    <3> QED  BY <2>2, <2>4, <3>1, <3>2, <3>3, <3>4 DEF Inv, BufferIsString, Editing
  <2> QED  BY <2>3, <2>4 DEF Inv
<1>4. CASE ReadBackspace
  <2>1. DeleteCharacterLeft /\ pc = "edit" /\ pc' = "edit"
    BY <1>4 DEF ReadBackspace
  <2>2. CASE cursor = 0 \/ length = 0
    BY <2>1, <2>2 DEF DeleteCharacterLeft, line, Inv, BufferIsString, Editing
  <2>3. CASE cursor # 0 /\ length # 0
    <3>1. /\ length' = length - 1 /\ cursor' = cursor - 1
          /\ buffer' \in [0..BUFFER_SIZE - 1 -> Bytes]
          /\ \A i \in 0..(cursor - 2) : buffer'[i] = buffer[i]
          /\ \A i \in cursor..length : buffer'[i - 1] = buffer[i]
      BY <2>1, <2>3, DeletedCharacter
    <3>2. /\ length \in Nat \ {0} /\ cursor \in Nat \ {0} /\ cursor <= length
          /\ BUFFER_SIZE \in Nat /\ length <= BUFFER_SIZE - 1
          /\ buffer[length] = NUL /\ \A i \in 0..(length - 1) : buffer[i] \in Printable
      BY <2>1, <2>3 DEF Inv, BufferIsString, Editing
    <3>3. buffer'[length'] = NUL
      BY <3>1, <3>2
    <3>4. ASSUME NEW i \in 0..(length' - 1) PROVE buffer'[i] \in Printable
      <4>1. CASE i <= cursor - 2
        BY <3>1, <3>2, <4>1
      <4>2. CASE i > cursor - 2
        <5>1. i + 1 \in cursor..length /\ i + 1 \in 0..(length - 1) /\ (i + 1) - 1 = i
          BY <3>1, <3>2, <4>2
        <5> QED  BY <3>1, <3>2, <5>1
      <4> QED  BY <3>1, <3>2, <4>1, <4>2
    <3> QED  BY <2>1, <3>1, <3>2, <3>3, <3>4 DEF Inv, BufferIsString, Editing
  <2> QED  BY <2>2, <2>3
<1>5. CASE ReadDirection
  <2>1. /\ pc \in Editing /\ pc' = "edit" /\ UNCHANGED <<buffer, length>>
        /\ cursor' \in {cursor, IF cursor > 0 THEN cursor - 1 ELSE cursor,
                        IF cursor < length THEN cursor + 1 ELSE cursor}
    BY <1>5 DEF ReadDirection, MoveCursorLeft, MoveCursorRight, line, Editing
  <2> QED  BY <2>1 DEF Inv, BufferIsString, Editing
<1>6. CASE ReadEnter
  BY <1>6 DEF ReadEnter, Inv, BufferIsString, Editing
<1> QED  BY <1>0, <1>1, <1>2, <1>3, <1>4, <1>5, <1>6, NextCases

\* Whatever is typed and whatever fails, while a line is edited or run line_buffer
\* holds a C string of length characters below its size, the cursor inside it.
THEOREM BufferStaysAString == Spec => []BufferIsString
<1>1. Inv => BufferIsString
  BY DEF Inv
<1> QED  BY InitInv, StepInv, <1>1, PTL DEF Spec

-----------------------------------------------------------------------------
(* The buffer is an edited line. *)

LEMMA NoText == ASSUME NEW b, NEW n \in Int PROVE TextIn(b, n, n) = <<>>
<1>1. 1..(n - n) = {}
  OBVIOUS
<1>2. TextIn(b, n, n) \in Seq(Bytes) /\ Len(TextIn(b, n, n)) = 0
  BY <1>1 DEF TextIn
<1> QED  BY <1>2, EmptySeq

LEMMA TextsAre ==
    /\ LeftText = TextIn(buffer, 0, cursor) /\ RightText = TextIn(buffer, cursor, length)
    /\ LeftText' = TextIn(buffer', 0, cursor')
    /\ RightText' = TextIn(buffer', cursor', length')
BY DEF LeftText, RightText, Text, TextIn

\* The bytes of the line, in the form the lemmas on texts want them.
LEMMA LineBytes ==
    ASSUME Inv
    PROVE  /\ length \in Nat /\ cursor \in Nat /\ cursor <= length
           /\ BUFFER_SIZE \in Nat /\ length <= BUFFER_SIZE - 1
           /\ \A i \in 0..length : buffer[i] \in Bytes
BY LineEditorConstants DEF Inv

LEMMA LineLengths ==
    ASSUME Inv
    PROVE  /\ LeftText \in Seq(Bytes) /\ Len(LeftText) = cursor
           /\ RightText \in Seq(Bytes) /\ Len(RightText) = length - cursor
<1>1. /\ length \in Nat /\ cursor \in Nat /\ 0 <= cursor /\ cursor <= length /\ 0 \in Nat
      /\ \A i \in 0..(cursor - 1) : buffer[i] \in Bytes
      /\ \A i \in cursor..(length - 1) : buffer[i] \in Bytes
  BY LineBytes
<1>2. IsText(buffer, 0, cursor) /\ IsText(buffer, cursor, length)
  BY <1>1 DEF IsText
<1>3. TextIn(buffer, 0, cursor) \in Seq(Bytes) /\ Len(TextIn(buffer, 0, cursor)) = cursor - 0
  BY <1>2, TextOf
<1>4. /\ TextIn(buffer, cursor, length) \in Seq(Bytes)
      /\ Len(TextIn(buffer, cursor, length)) = length - cursor
  BY <1>2, TextOf
<1> QED  BY <1>1, <1>3, <1>4, TextsAre

LEMMA CursorMovesLeft ==
    ASSUME Inv, cursor > 0
    PROVE  <<TextIn(buffer, 0, cursor - 1), TextIn(buffer, cursor - 1, length)>>
               = Edited!MovedLeft(LeftText, RightText)
<1> DEFINE l == TextIn(buffer, 0, cursor - 1)
           e == buffer[cursor - 1]
<1>1. /\ cursor - 1 \in Nat /\ 0 \in Nat /\ length \in Nat /\ 0 <= cursor - 1
      /\ cursor - 1 < length /\ (cursor - 1) + 1 = cursor
      /\ \A i \in 0..(cursor - 1) : buffer[i] \in Bytes
      /\ \A i \in (cursor - 1)..(length - 1) : buffer[i] \in Bytes
      /\ \A i \in 0..(cursor - 1 - 1) : buffer[i] \in Bytes
  BY LineBytes
<1>2. TextIn(buffer, 0, cursor) = Append(l, e)
  BY <1>1, TextGrows
<1>3. TextIn(buffer, cursor - 1, length) = <<e>> \o TextIn(buffer, cursor, length)
  BY <1>1, TextGrowsLeft
<1>4. l \in Seq(Bytes) /\ e \in Bytes
  <2>1. IsText(buffer, 0, cursor - 1)
    BY <1>1 DEF IsText
  <2> QED  BY <1>1, <2>1, TextOf
<1> HIDE DEF l, e
<1>5. Append(l, e) # <<>> /\ Front(Append(l, e)) = l /\ Last(Append(l, e)) = e
  BY <1>4, FrontLastAppend
<1>6. LeftText = Append(l, e) /\ TextIn(buffer, cursor - 1, length) = <<e>> \o RightText
  BY <1>2, <1>3, TextsAre
<1>7. LeftText # <<>> /\ Edited!Front(LeftText) = l /\ Edited!Last(LeftText) = e
  BY <1>5, <1>6, Zenon DEF Edited!Front, Edited!Last, Front, Last
<1>8. Edited!MovedLeft(LeftText, RightText) = <<l, <<e>> \o RightText>>
  BY <1>7, Zenon DEF Edited!MovedLeft
<1> QED  BY <1>6, <1>8, Zenon DEF l

LEMMA CursorMovesRight ==
    ASSUME Inv, cursor < length
    PROVE  <<TextIn(buffer, 0, cursor + 1), TextIn(buffer, cursor + 1, length)>>
               = Edited!MovedRight(LeftText, RightText)
<1> DEFINE r == TextIn(buffer, cursor + 1, length)
           e == buffer[cursor]
<1>1. /\ cursor \in Nat /\ cursor + 1 \in Nat /\ 0 \in Nat /\ length \in Nat /\ 0 <= cursor
      /\ cursor + 1 <= length /\ e \in Bytes
      /\ \A i \in 0..cursor : buffer[i] \in Bytes
      /\ \A i \in cursor..(length - 1) : buffer[i] \in Bytes
      /\ \A i \in (cursor + 1)..(length - 1) : buffer[i] \in Bytes
  BY LineBytes
<1>2. TextIn(buffer, 0, cursor + 1) = Append(TextIn(buffer, 0, cursor), e)
  BY <1>1, TextGrows
<1>3. TextIn(buffer, cursor, length) = <<e>> \o r
  BY <1>1, TextGrowsLeft
<1>4. r \in Seq(Bytes)
  <2>1. IsText(buffer, cursor + 1, length)
    BY <1>1 DEF IsText
  <2> QED  BY <2>1, TextOf
<1> HIDE DEF r, e
<1>5. <<e>> \o r # <<>> /\ Head(<<e>> \o r) = e /\ Tail(<<e>> \o r) = r
  BY <1>1, <1>4, HeadTailConcat
<1>6. RightText = <<e>> \o r /\ TextIn(buffer, 0, cursor + 1) = Append(LeftText, e)
  BY <1>2, <1>3, TextsAre
<1>7. Edited!MovedRight(LeftText, RightText) = <<Append(LeftText, e), r>>
  BY <1>5, <1>6 DEF Edited!MovedRight
<1> QED  BY <1>6, <1>7 DEF r

LEMMA CharacterInserted ==
    ASSUME Inv, NEW ch \in Printable, InsertCharacter(ch), length + 1 < BUFFER_SIZE
    PROVE  <<LeftText, RightText>>' = Edited!Inserted(LeftText, RightText, ch)
<1>1. /\ length' = length + 1 /\ cursor' = cursor + 1
      /\ buffer' \in [0..BUFFER_SIZE - 1 -> Bytes]
      /\ \A i \in 0..(cursor - 1) : buffer'[i] = buffer[i]
      /\ buffer'[cursor] = ch
      /\ \A i \in cursor..length : buffer'[i + 1] = buffer[i]
  BY InsertedCharacter
<1>2. /\ cursor \in Nat /\ length \in Nat /\ cursor <= length /\ 0 \in Nat /\ 0 <= cursor
      /\ length + 1 \in 0..BUFFER_SIZE - 1 /\ BUFFER_SIZE \in Nat
  BY LineBytes
<1>3. \A i \in 0..cursor : buffer'[i] \in Bytes
  BY <1>1, <1>2
<1>4. TextIn(buffer', 0, cursor + 1) = Append(TextIn(buffer', 0, cursor), ch)
  BY <1>1, <1>2, <1>3, TextGrows
<1>5. TextIn(buffer, 0, cursor) = TextIn(buffer', 0, cursor)
  <2>1. \A i \in 0..(cursor - 1) : buffer[i] = buffer'[i]
    BY <1>1, <1>2
  <2> QED  BY <1>2, <2>1, SameStart
<1>6. TextIn(buffer, cursor, length) = TextIn(buffer', cursor + 1, length + 1)
  <2>1. \A i \in cursor..(length - 1) : buffer[i] = buffer'[i + 1]
    BY <1>1, <1>2
  <2> QED  BY <1>2, <2>1, SameText
<1>7. LeftText' = Append(LeftText, ch) /\ RightText' = RightText
  BY <1>1, <1>4, <1>5, <1>6, TextsAre
<1>8. Len(LeftText) + Len(RightText) < BUFFER_SIZE - 1
  BY <1>2, LineLengths
<1> QED  BY <1>7, <1>8 DEF Edited!Inserted

LEMMA CharacterDeleted ==
    ASSUME Inv, DeleteCharacterLeft, cursor # 0, length # 0
    PROVE  <<LeftText, RightText>>' = Edited!Deleted(LeftText, RightText)
<1> DEFINE l == TextIn(buffer, 0, cursor - 1)
           e == buffer[cursor - 1]
<1>1. /\ length' = length - 1 /\ cursor' = cursor - 1
      /\ \A i \in 0..(cursor - 2) : buffer'[i] = buffer[i]
      /\ \A i \in cursor..length : buffer'[i - 1] = buffer[i]
  BY DeletedCharacter
<1>2. /\ cursor \in Nat /\ length \in Nat /\ cursor <= length /\ 0 \in Nat /\ 0 <= cursor - 1
      /\ cursor - 1 \in Nat /\ (cursor - 1) + 1 = cursor
      /\ \A i \in 0..(cursor - 1) : buffer[i] \in Bytes
      /\ \A i \in 0..(cursor - 1 - 1) : buffer[i] \in Bytes
  BY LineBytes
<1>3. TextIn(buffer, 0, cursor) = Append(l, e)
  BY <1>2, TextGrows
<1>4. l \in Seq(Bytes) /\ e \in Bytes
  <2>1. IsText(buffer, 0, cursor - 1)
    BY <1>2 DEF IsText
  <2> QED  BY <1>2, <2>1, TextOf
<1>5. l = TextIn(buffer', 0, cursor - 1)
  <2>1. \A i \in 0..(cursor - 1 - 1) : buffer[i] = buffer'[i]
    BY <1>1, <1>2
  <2> QED  BY <1>2, <2>1, SameStart
<1>6. TextIn(buffer, cursor, length) = TextIn(buffer', cursor - 1, length - 1)
  <2>1. \A i \in cursor..(length - 1) : buffer[i] = buffer'[i + (-1)]
    BY <1>1, <1>2
  <2>2. TextIn(buffer, cursor, length) = TextIn(buffer', cursor + (-1), length + (-1))
    BY <1>2, <2>1, SameText
  <2> QED  BY <1>2, <2>2
<1> HIDE DEF l, e
<1>7. Append(l, e) # <<>> /\ Front(Append(l, e)) = l
  BY <1>4, FrontLastAppend
<1>8. LeftText = Append(l, e) /\ LeftText' = l /\ RightText' = RightText
  BY <1>1, <1>3, <1>5, <1>6, TextsAre
<1>9. LeftText # <<>> /\ Edited!Front(LeftText) = l
  BY <1>7, <1>8, Zenon DEF Edited!Front, Front
<1> QED  BY <1>8, <1>9, Zenon DEF Edited!Deleted

LEMMA StepIsEditing == Inv /\ [Next]_vars => [Edited!Next]_(Edited!vars)
<1> SUFFICES ASSUME Inv, [Next]_vars PROVE Edited!Next \/ UNCHANGED <<LeftText, RightText>>
  BY DEF Edited!vars
<1>0. ASSUME UNCHANGED line PROVE UNCHANGED <<LeftText, RightText>>
  BY <1>0, TextsAre DEF line
<1>1. CASE Elsewhere \/ UNCHANGED vars
  BY <1>0, <1>1, ElsewhereFacts DEF vars
<1>2. CASE StartLine \/ PromptEof
  <2>1. cursor' = 0 /\ length' = 0
    BY <1>2 DEF StartLine, PromptEof, EmptyLine
  <2>2. LeftText' = <<>> /\ RightText' = <<>>
    BY <2>1, TextsAre, NoText
  <2> QED  BY <2>2 DEF Edited!Next, Edited!Restart
<1>3. CASE ReadPrintable
  <2>1. PICK ch \in Printable : InsertCharacter(ch)
    BY <1>3 DEF ReadPrintable
  <2>2. CASE length + 1 >= BUFFER_SIZE
    BY <1>0, <2>1, <2>2 DEF InsertCharacter
  <2>3. CASE length + 1 < BUFFER_SIZE
    BY <2>1, <2>3, CharacterInserted DEF Edited!Next, Edited!Insert
  <2> QED  BY <2>2, <2>3, LineBytes
<1>4. CASE ReadBackspace
  <2>1. DeleteCharacterLeft
    BY <1>4 DEF ReadBackspace
  <2>2. CASE cursor = 0 \/ length = 0
    BY <1>0, <2>1, <2>2 DEF DeleteCharacterLeft
  <2>3. CASE cursor # 0 /\ length # 0
    BY <2>1, <2>3, CharacterDeleted DEF Edited!Next, Edited!Delete
  <2> QED  BY <2>2, <2>3
<1>5. CASE ReadDirection
  <2>1. CASE MoveCursorLeft
    <3>1. CASE cursor > 0
      <4>1. cursor' = cursor - 1 /\ UNCHANGED <<buffer, length>>
        BY <2>1, <3>1 DEF MoveCursorLeft
      <4>2. <<LeftText', RightText'>> = Edited!MovedLeft(LeftText, RightText)
        BY <3>1, <4>1, CursorMovesLeft, TextsAre
      <4> QED  BY <4>2 DEF Edited!Next, Edited!MoveLeft
    <3> QED  BY <1>0, <2>1, <3>1 DEF MoveCursorLeft, line
  <2>2. CASE MoveCursorRight
    <3>1. CASE cursor < length
      <4>1. cursor' = cursor + 1 /\ UNCHANGED <<buffer, length>>
        BY <2>2, <3>1 DEF MoveCursorRight
      <4>2. <<LeftText', RightText'>> = Edited!MovedRight(LeftText, RightText)
        BY <3>1, <4>1, CursorMovesRight, TextsAre
      <4> QED  BY <4>2 DEF Edited!Next, Edited!MoveRight
    <3> QED  BY <1>0, <2>2, <3>1 DEF MoveCursorRight, line
  <2> QED  BY <1>0, <1>5, <2>1, <2>2 DEF ReadDirection
<1>6. CASE ReadEnter
  <2>1. buffer' = buffer /\ UNCHANGED <<length, cursor>>
    BY <1>6 DEF ReadEnter, Inv, BufferIsString, Editing
  <2> QED  BY <1>0, <2>1 DEF line
<1> QED  BY <1>1, <1>2, <1>3, <1>4, <1>5, <1>6, NextCases

\* Each step of the program on its array is one key of the abstract editor, or none,
\* for every size of the array.
THEOREM BufferIsEdited == Spec => EditedSpec
<1>1. Init => Edited!Init
  <2>1. ASSUME Init PROVE LeftText = <<>> /\ RightText = <<>>
    BY <2>1, TextsAre, NoText DEF Init
  <2> QED  BY <2>1 DEF Edited!Init
<1> QED  BY <1>1, InitInv, StepInv, StepIsEditing, PTL DEF Spec, EditedSpec, Edited!Spec

-----------------------------------------------------------------------------
(* The terminal. *)

\* What original_termios holds while a line is edited, and the mode elsewhere.
ModeInv ==
    \/ gone \/ refused \/ pc = "killed"
    \/ pc \in Editing /\ saved = "cooked"
    \/ pc \notin Editing /\ mode = "cooked"

\* Every way out of read_tty_repl_line gives the terminal back as it was found.
THEOREM TerminalIsRestored == Spec => []TerminalRestored
<1>1. Init => ModeInv
  BY DEF Init, ModeInv, Editing
<1>2. ModeInv /\ [Next]_vars => ModeInv'
  BY DEF ModeInv, Next, vars, Program, Reading, Ending, Failing, Finished, PressKey,
         StartLine, ReadPrintable, ReadBackspace, ReadOther, ReadEscape, ReadBracket,
         ReadDirection, ReadEnter, ReadEot, RunLine, PromptEof, ReadEof, EscapeFails,
         StartFails, ReadFails, HangUp, Interrupt, Consumes, EnableRawMode, DisableRawMode,
         terminal, Editing, Over
<1>3. ModeInv => TerminalRestored
  BY DEF ModeInv, TerminalRestored
<1> QED  BY <1>1, <1>2, <1>3, PTL DEF Spec

-----------------------------------------------------------------------------
(* What the bytes not read yet stand for. *)

\* A state of the reader is <<the two texts, its place in a key, what was asked for>>.
ByteRead(s, b) ==
    IF s[3] # "edit" THEN s
    ELSE IF s[2] = "edit"
    THEN IF b \in Printable THEN <<Edited!Inserted(s[1][1], s[1][2], b), "edit", "edit">>
         ELSE IF b = DEL THEN <<Edited!Deleted(s[1][1], s[1][2]), "edit", "edit">>
         ELSE IF b = ESC THEN <<s[1], "escape", "edit">>
         ELSE IF b = NEWLINE THEN <<s[1], "edit", "submit">>
         ELSE IF b = EOT /\ s[1] = <<<<>>, <<>>>> THEN <<s[1], "edit", "leave">>
         ELSE s
    ELSE IF s[2] = "escape"
    THEN <<s[1], IF b = "[" THEN "bracket" ELSE "other", "edit">>
    ELSE <<IF s[2] = "bracket" /\ b = "D" THEN Edited!MovedLeft(s[1][1], s[1][2])
           ELSE IF s[2] = "bracket" /\ b = "C" THEN Edited!MovedRight(s[1][1], s[1][2])
           ELSE s[1], "edit", "edit">>

\* The reader over all of them.
ToRead == INSTANCE FoldFacts WITH
    Op <- LAMBDA p, v, e : ByteRead(v, e), Base <- LAMBDA p : p

\* While a line is edited: the bytes not read yet lead from the line in the buffer to
\* the line the user has in mind, and to what the user has asked for.
Heard ==
    pc \in Editing /\ ~gone /\ asked # "lost" =>
        /\ mode = "raw"
        /\ ToRead!Fold(<<<<LeftText, RightText>>, pc, "edit">>, input) = <<wish, "edit", asked>>

\* After it: the line that runs is the one in mind, and nothing ends unasked.
Answered ==
    asked # "lost" =>
        /\ pc = "run" => asked = "submit" /\ <<LeftText, RightText>> = wish
        /\ pc = "exited" /\ ~gone =>
            asked = "leave" \/ (asked = "submit" /\ Trimmed(wish[1] \o wish[2]) \in ExitWords)

\* The types of what Inv does not speak of.
Typed ==
    /\ mode \in {"cooked", "raw"} /\ saved \in {"cooked", "raw"}
    /\ gone \in BOOLEAN /\ refused \in BOOLEAN
    /\ input \in Seq(Bytes) /\ (gone => input = <<>>)
    /\ executed \in Seq(Seq(Bytes))
    /\ wish \in Seq(Bytes) \X Seq(Bytes)
    /\ asked \in {"edit", "submit", "leave", "lost"}
    /\ pressed \in Nat

\* A key is one byte, or an escape and the two bytes that the handler of escape
\* sequences reads after it.  One byte may be a lone ESC, which is not read whole: it
\* loses what is asked for.
KeysAreReadWhole ==
    Keys \subseteq {<<b>> : b \in Bytes \ {NUL}} \cup
                   {<<ESC, x, y>> : x \in Bytes \ {NUL}, y \in Bytes \ {NUL}}

LEMMA ReadsFirst ==
    ASSUME NEW E, NEW p, NEW s \in Seq(E), s # <<>>
    PROVE  ToRead!Fold(p, s) = ToRead!Fold(ByteRead(p, Head(s)), Tail(s))
<1> DEFINE e == Head(s)
           T == {t \in Seq(E) : ToRead!Fold(p, <<e>> \o t) = ToRead!Fold(ByteRead(p, e), t)}
<1>1. e \in E /\ Tail(s) \in Seq(E) /\ s = <<e>> \o Tail(s)
  OBVIOUS
<1> HIDE DEF e
<1>2. <<>> \in T
  <2>1. <<e>> \o <<>> = Append(<<>>, e) /\ <<>> \in Seq(E)
    BY <1>1
  <2>2. ToRead!Fold(p, Append(<<>>, e)) = ByteRead(ToRead!Fold(p, <<>>), e)
    BY <1>1, <2>1, ToRead!FoldOfMore
  <2>3. ToRead!Fold(p, <<>>) = p /\ ToRead!Fold(ByteRead(p, e), <<>>) = ByteRead(p, e)
    BY ToRead!FoldOfNone
  <2> QED  BY <2>1, <2>2, <2>3
<1>3. ASSUME NEW t \in Seq(E), NEW f \in E, t \in T PROVE Append(t, f) \in T
  <2>1. <<e>> \o t \in Seq(E) /\ <<e>> \o Append(t, f) = Append(<<e>> \o t, f)
    BY <1>1
  <2>2. ToRead!Fold(p, Append(<<e>> \o t, f)) = ByteRead(ToRead!Fold(p, <<e>> \o t), f)
    BY <2>1, ToRead!FoldOfMore
  <2>3. ToRead!Fold(ByteRead(p, e), Append(t, f))
            = ByteRead(ToRead!Fold(ByteRead(p, e), t), f)
    BY ToRead!FoldOfMore
  <2>4. ToRead!Fold(p, <<e>> \o Append(t, f))
            = ToRead!Fold(ByteRead(p, e), Append(t, f))
    BY <1>3, <2>1, <2>2, <2>3, Zenon
  <2> QED  BY <2>4
<1> HIDE DEF T
<1>4. Tail(s) \in T
  BY <1>1, <1>2, <1>3, ToRead!SeqInduction
<1> QED  BY <1>1, <1>4 DEF T, e

\* Once a line was submitted the rest of the input is not read.
LEMMA AnsweredStays ==
    ASSUME NEW p, p[3] # "edit"
    PROVE  \A s \in Seq(Bytes) : ToRead!Fold(p, s) = p
<1> DEFINE V == {p}
<1>1. p \in V /\ \A v \in V, e \in Bytes : ByteRead(v, e) \in V
  BY DEF ByteRead
<1> HIDE DEF V
<1>2. \A s \in Seq(Bytes) : ToRead!Fold(p, s) \in V
  BY <1>1, ToRead!FoldHasType
<1> QED  BY <1>2 DEF V

\* A key has been read.
KeyRead(p, key) ==
    IF Len(key) = 1 THEN ByteRead(p, key[1])
    ELSE ByteRead(ByteRead(ByteRead(p, key[1]), key[2]), key[3])

LEMMA ReadsKey ==
    ASSUME KeysAreReadWhole, NEW p, NEW s \in Seq(Bytes), NEW key \in Keys
    PROVE  /\ s \o key \in Seq(Bytes)
           /\ ToRead!Fold(p, s \o key) = KeyRead(ToRead!Fold(p, s), key)
<1>1. CASE \E b \in Bytes : key = <<b>>
  <2>1. PICK b \in Bytes : key = <<b>>
    BY <1>1
  <2>2. s \o key = Append(s, b) /\ Append(s, b) \in Seq(Bytes) /\ Len(key) = 1 /\ key[1] = b
    BY <2>1
  <2>3. ToRead!Fold(p, Append(s, b)) = ByteRead(ToRead!Fold(p, s), b)
    BY ToRead!FoldOfMore
  <2> QED  BY <2>2, <2>3 DEF KeyRead
<1>2. CASE \E x \in Bytes, y \in Bytes : key = <<ESC, x, y>>
  <2>1. PICK x \in Bytes, y \in Bytes : key = <<ESC, x, y>>
    BY <1>2
  <2> DEFINE s1 == Append(s, ESC)
             s2 == Append(s1, x)
             s3 == Append(s2, y)
  <2>2. ESC \in Bytes
    BY DEF Bytes, Control
  <2>3. s1 \in Seq(Bytes) /\ s2 \in Seq(Bytes) /\ s3 \in Seq(Bytes) /\ s \o key = s3
        /\ Len(key) = 3 /\ key[1] = ESC /\ key[2] = x /\ key[3] = y
    BY <2>1, <2>2
  <2> HIDE DEF s1, s2, s3
  <2>4. ToRead!Fold(p, s1) = ByteRead(ToRead!Fold(p, s), ESC)
    BY <2>2, ToRead!FoldOfMore DEF s1
  <2>5. ToRead!Fold(p, s2) = ByteRead(ToRead!Fold(p, s1), x)
    BY <2>3, ToRead!FoldOfMore DEF s2
  <2>6. ToRead!Fold(p, s3) = ByteRead(ToRead!Fold(p, s2), y)
    BY <2>3, ToRead!FoldOfMore DEF s3
  <2> QED  BY <2>3, <2>4, <2>5, <2>6 DEF KeyRead
<1> QED  BY <1>1, <1>2 DEF KeysAreReadWhole

\* What a key means to the user is what its bytes do to the reader.
Wanted(key, w) ==
    CASE key = <<NEWLINE>> -> "submit"
      [] key = <<EOT>> /\ w = <<<<>>, <<>>>> -> "leave"
      [] key = EscapeKey -> "lost"
      [] OTHER -> "edit"

LEMMA ControlsDiffer ==
    /\ NUL \notin Printable /\ ESC \notin Printable /\ DEL \notin Printable
    /\ EOT \notin Printable /\ NEWLINE \notin Printable /\ UNPRINTABLE \notin Printable
    /\ Control = {NUL, ESC, DEL, EOT, NEWLINE, UNPRINTABLE}
    /\ ESC # DEL /\ ESC # EOT /\ ESC # NEWLINE /\ DEL # EOT /\ DEL # NEWLINE
    /\ EOT # NEWLINE /\ ESC # UNPRINTABLE /\ DEL # UNPRINTABLE /\ EOT # UNPRINTABLE
    /\ NEWLINE # UNPRINTABLE
BY DEF Printable, Control, NUL, ESC, DEL, EOT, NEWLINE, UNPRINTABLE

LEMMA KeyMeans ==
    ASSUME KeysAreReadWhole, NEW w \in Seq(Bytes) \X Seq(Bytes), NEW key \in Keys,
           key # EscapeKey
    PROVE  KeyRead(<<w, "edit", "edit">>, key)
               = <<Meaning(key, w[1], w[2]), "edit", Wanted(key, w)>>
<1>0. w = <<w[1], w[2]>>
  OBVIOUS
<1>1. ASSUME NEW b \in Bytes \ {NUL, ESC}, key = <<b>>
      PROVE  KeyRead(<<w, "edit", "edit">>, key)
                 = <<Meaning(key, w[1], w[2]), "edit", Wanted(key, w)>>
  <2>1. Len(key) = 1 /\ key[1] = b /\ key # LeftKey /\ key # RightKey
        /\ (key = <<DEL>> <=> b = DEL) /\ (key = <<NEWLINE>> <=> b = NEWLINE)
        /\ (key = <<EOT>> <=> b = EOT)
    BY <1>1 DEF LeftKey, RightKey
  <2>2. KeyRead(<<w, "edit", "edit">>, key) = ByteRead(<<w, "edit", "edit">>, b)
    BY <2>1 DEF KeyRead
  <2>3. CASE b \in Printable
    <3>1. Meaning(key, w[1], w[2]) = Edited!Inserted(w[1], w[2], b)
      BY <2>1, <2>3, ControlsDiffer DEF Meaning
    <3>2. Wanted(key, w) = "edit"
      BY <2>1, <2>3, ControlsDiffer DEF Wanted
    <3> QED  BY <2>2, <2>3, <3>1, <3>2 DEF ByteRead
  <2>4. CASE b = DEL
    <3>1. Meaning(key, w[1], w[2]) = Edited!Deleted(w[1], w[2])
      BY <2>1, <2>4, ControlsDiffer DEF Meaning
    <3>2. Wanted(key, w) = "edit"
      BY <2>1, <2>4, ControlsDiffer DEF Wanted
    <3> QED  BY <2>2, <2>4, <3>1, <3>2, ControlsDiffer DEF ByteRead
  <2>5. CASE b \notin Printable /\ b # DEL
    <3>1. Meaning(key, w[1], w[2]) = w
      BY <1>0, <2>1, <2>5 DEF Meaning
    <3>2. CASE b = NEWLINE
      BY <2>1, <2>2, <2>5, <3>1, <3>2, ControlsDiffer DEF ByteRead, Wanted
    <3>3. CASE b = EOT
      BY <2>1, <2>2, <2>5, <3>1, <3>3, ControlsDiffer DEF ByteRead, Wanted
    <3>4. CASE b # NEWLINE /\ b # EOT
      BY <2>1, <2>2, <2>5, <3>1, <3>4 DEF ByteRead, Wanted
    <3> QED  BY <3>2, <3>3, <3>4
  <2> QED  BY <2>3, <2>4, <2>5
<1>2. ASSUME NEW x \in Bytes, NEW y \in Bytes, key = <<ESC, x, y>>
      PROVE  KeyRead(<<w, "edit", "edit">>, key)
                 = <<Meaning(key, w[1], w[2]), "edit", Wanted(key, w)>>
  <2>1. Len(key) = 3 /\ key[1] = ESC /\ key[2] = x /\ key[3] = y
        /\ key # <<DEL>> /\ key # <<NEWLINE>> /\ key # <<EOT>>
        /\ (key = LeftKey <=> x = "[" /\ y = "D") /\ (key = RightKey <=> x = "[" /\ y = "C")
    BY <1>2 DEF LeftKey, RightKey
  <2>2. Wanted(key, w) = "edit"
    BY <2>1 DEF Wanted
  <2>3. Meaning(key, w[1], w[2]) =
            IF x = "[" /\ y = "D" THEN Edited!MovedLeft(w[1], w[2])
            ELSE IF x = "[" /\ y = "C" THEN Edited!MovedRight(w[1], w[2])
            ELSE w
    <3>0. Len(key) # 1 /\ LeftKey # RightKey /\ "C" # "D"
      BY <2>1 DEF LeftKey, RightKey
    <3>1. CASE key = LeftKey
      <4>1. Meaning(key, w[1], w[2]) = Edited!MovedLeft(w[1], w[2])
        BY <2>1, <3>0, <3>1, Zenon DEF Meaning
      <4> QED  BY <2>1, <3>1, <4>1, Zenon
    <3>2. CASE key = RightKey
      <4>1. Meaning(key, w[1], w[2]) = Edited!MovedRight(w[1], w[2])
        BY <2>1, <3>0, <3>2, Zenon DEF Meaning
      <4> QED  BY <2>1, <3>0, <3>2, <4>1, Zenon
    <3>3. CASE key # LeftKey /\ key # RightKey
      BY <1>0, <2>1, <3>3 DEF Meaning
    <3> QED  BY <3>1, <3>2, <3>3
  <2>4. ByteRead(<<w, "edit", "edit">>, ESC) = <<w, "escape", "edit">>
    BY ControlsDiffer DEF ByteRead
  <2>5. ByteRead(<<w, "escape", "edit">>, x)
            = <<w, IF x = "[" THEN "bracket" ELSE "other", "edit">>
    BY DEF ByteRead
  <2>6. ByteRead(<<w, IF x = "[" THEN "bracket" ELSE "other", "edit">>, y)
            = <<Meaning(key, w[1], w[2]), "edit", "edit">>
    BY <2>3 DEF ByteRead
  <2>7. KeyRead(<<w, "edit", "edit">>, key)
            = ByteRead(ByteRead(ByteRead(<<w, "edit", "edit">>, ESC), x), y)
    BY <2>1 DEF KeyRead
  <2> QED  BY <2>2, <2>4, <2>5, <2>6, <2>7, Zenon
<1>3. (\E b \in Bytes \ {NUL, ESC} : key = <<b>>)
      \/ (\E x \in Bytes, y \in Bytes : key = <<ESC, x, y>>)
  BY DEF KeysAreReadWhole, EscapeKey
<1> QED  BY <1>1, <1>2, <1>3, Zenon

\* The string that is run is the line on both sides of the cursor.
LEMMA StringIsTheLine ==
    ASSUME Inv, pc = "run"
    PROVE  StringIn = LeftText \o RightText /\ StringIn \in Seq(Bytes)
<1> DEFINE nuls == {i \in DOMAIN buffer : buffer[i] = NUL}
<1>0. /\ length \in Nat /\ cursor \in Nat /\ cursor <= length /\ length <= BUFFER_SIZE - 1
      /\ BUFFER_SIZE \in Nat /\ DOMAIN buffer = 0..BUFFER_SIZE - 1
      /\ buffer[length] = NUL /\ \A i \in 0..(length - 1) : buffer[i] \in Printable
  BY LineEditorConstants DEF Inv, BufferIsString
<1>1. nuls \in SUBSET Nat /\ length \in nuls /\ \A i \in nuls : length <= i
  BY <1>0, PrintableIsAByte
<1>2. Min(nuls) = length
  <2> HIDE DEF nuls
  <2>1. ToRead!Min(nuls) \in nuls /\ \A i \in nuls : ToRead!Min(nuls) <= i
    BY <1>1, ToRead!FirstOf
  <2>2. Min(nuls) \in nuls /\ \A i \in nuls : Min(nuls) <= i
    BY <2>1, Zenon DEF Min, ToRead!Min
  <2>3. Min(nuls) \in Nat /\ Min(nuls) <= length /\ length <= Min(nuls)
    BY <1>1, <2>2
  <2> QED  BY <1>0, <2>3
<1>3. StringIn = TextIn(buffer, 0, length)
  BY <1>2 DEF StringIn, Text, TextIn
<1>4. LeftText \in Seq(Bytes) /\ Len(LeftText) = cursor
      /\ RightText \in Seq(Bytes) /\ Len(RightText) = length - cursor
  BY LineLengths
<1>5. IsText(buffer, 0, length) /\ IsText(buffer, 0, cursor) /\ IsText(buffer, cursor, length)
  BY <1>0, PrintableIsAByte DEF IsText
<1>6. TextIn(buffer, 0, length) \in Seq(Bytes) /\ Len(TextIn(buffer, 0, length)) = length - 0
      /\ \A i \in 1..(length - 0) : TextIn(buffer, 0, length)[i] = buffer[0 + i - 1]
  <2>1. IsText(buffer, 0, length)
    BY <1>5
  <2> QED  BY <2>1, TextOf
<1>7. \A i \in 1..(cursor - 0) : TextIn(buffer, 0, cursor)[i] = buffer[0 + i - 1]
  BY <1>5, TextOf
<1>8. \A i \in 1..(length - cursor) : TextIn(buffer, cursor, length)[i] = buffer[cursor + i - 1]
  BY <1>5, TextOf
<1> DEFINE whole == TextIn(buffer, 0, length)
           both == LeftText \o RightText
<1>9. both \in Seq(Bytes) /\ Len(both) = cursor + (length - cursor)
      /\ \A i \in 1..(cursor + (length - cursor)) :
            both[i] = IF i <= cursor THEN LeftText[i] ELSE RightText[i - cursor]
  <2> DEFINE l == LeftText
             r == RightText
  <2>1. l \in Seq(Bytes) /\ r \in Seq(Bytes) /\ Len(l) = cursor /\ Len(r) = length - cursor
    BY <1>4
  <2> HIDE DEF l, r
  <2>2. /\ l \o r \in Seq(Bytes) /\ Len(l \o r) = Len(l) + Len(r)
        /\ \A i \in 1..(Len(l) + Len(r)) :
              (l \o r)[i] = IF i <= Len(l) THEN l[i] ELSE r[i - Len(l)]
    BY <2>1, ConcatProperties, Zenon
  <2>3. both = l \o r
    BY DEF l, r
  <2> QED  BY <2>1, <2>2, <2>3 DEF l, r
<1>10. Len(both) = length /\ Len(whole) = length
  BY <1>0, <1>6, <1>9
<1>11. ASSUME NEW i \in 1..length PROVE both[i] = whole[i]
  <2>1. CASE i <= cursor
    <3>1. i \in 1..(cursor - 0) /\ i \in 1..(cursor + (length - cursor)) /\ i \in 1..(length - 0)
      BY <1>0, <2>1
    <3>2. both[i] = LeftText[i]
      BY <1>9, <3>1, <2>1
    <3>3. LeftText[i] = buffer[0 + i - 1]
      BY <1>7, <3>1, TextsAre
    <3>4. whole[i] = buffer[0 + i - 1]
      BY <1>6, <3>1
    <3> QED  BY <3>2, <3>3, <3>4
  <2>2. CASE i > cursor
    <3>1. i - cursor \in 1..(length - cursor) /\ cursor + (i - cursor) - 1 = 0 + i - 1
          /\ i \in 1..(cursor + (length - cursor)) /\ ~(i <= cursor) /\ i \in 1..(length - 0)
      BY <1>0, <2>2
    <3>2. both[i] = RightText[i - cursor]
      BY <1>9, <3>1
    <3>3. RightText[i - cursor] = buffer[cursor + (i - cursor) - 1]
      BY <1>8, <3>1, TextsAre
    <3>4. whole[i] = buffer[0 + i - 1]
      BY <1>6, <3>1
    <3> QED  BY <3>1, <3>2, <3>3, <3>4
  <2> QED  BY <1>0, <2>1, <2>2
<1>12. whole \in Seq(Bytes)
  BY <1>6
<1> HIDE DEF both, whole
<1>13. both = whole
  BY <1>9, <1>10, <1>11, <1>12, SeqEqual
<1> QED  BY <1>3, <1>12, <1>13 DEF both, whole

LEMMA TrimmedIsText ==
    ASSUME NEW t \in Seq(Bytes) PROVE Trimmed(t) \in Seq(Bytes)
<1> DEFINE kept == {i \in DOMAIN t : t[i] # " "}
<1>0. Len(t) \in Nat /\ DOMAIN t = 1..Len(t)
  OBVIOUS
<1>1. CASE kept = {}
  <2>1. Trimmed(t) = <<>>
    BY <1>1 DEF Trimmed
  <2>2. <<>> \in Seq(Bytes)
    OBVIOUS
  <2> QED  BY <2>1, <2>2
<1>2. CASE kept # {}
  <2>1. kept \in SUBSET Nat /\ kept \in SUBSET (1..Len(t)) /\ Len(t) \in Nat
    <3>1. \A i \in kept : i \in DOMAIN t
      OBVIOUS
    <3> HIDE DEF kept
    <3> QED  BY <1>0, <3>1
  <2> HIDE DEF kept
  <2>2. ToRead!Min(kept) \in kept /\ ToRead!Max(kept) \in kept
    BY <1>2, <2>1, ToRead!FirstOf, ToRead!LastOf
  <2>3. Min(kept) \in kept /\ Max(kept) \in kept
    BY <2>2, Zenon DEF Min, Max, ToRead!Min, ToRead!Max
  <2>4. Min(kept) \in 1..Len(t) /\ Max(kept) \in 1..Len(t)
    BY <2>1, <2>3
  <2>5. SubSeq(t, Min(kept), Max(kept)) \in Seq(Bytes)
    BY <2>1, <2>4
  <2> QED  BY <1>2, <2>5 DEF Trimmed, kept
<1> QED  BY <1>1, <1>2

LEMMA PairOfTexts ==
    \A a \in Seq(Bytes), b \in Seq(Bytes) : <<a, b>> \in Seq(Bytes) \X Seq(Bytes)
OBVIOUS

\* The operations on the two texts, in terms that need no instance.
LEMMA MeaningIsLine ==
    ASSUME NEW w \in Seq(Bytes) \X Seq(Bytes), NEW key \in Keys
    PROVE  Meaning(key, w[1], w[2]) \in Seq(Bytes) \X Seq(Bytes)
<1> DEFINE l == w[1]
           r == w[2]
<1>0. l \in Seq(Bytes) /\ r \in Seq(Bytes)
  OBVIOUS
<1> HIDE DEF l, r
<1>1. ASSUME NEW c \in Bytes PROVE Edited!Inserted(l, r, c) \in Seq(Bytes) \X Seq(Bytes)
  <2>1. Append(l, c) \in Seq(Bytes)
    BY <1>0
  <2>2. Edited!Inserted(l, r, c) = <<Append(l, c), r>> \/ Edited!Inserted(l, r, c) = <<l, r>>
    BY DEF Edited!Inserted
  <2> QED  BY <1>0, <2>1, <2>2, PairOfTexts, Zenon
<1>2. l # <<>> => Edited!Front(l) \in Seq(Bytes) /\ Edited!Last(l) \in Bytes
  BY <1>0 DEF Edited!Front, Edited!Last
<1>3. r # <<>> => Head(r) \in Bytes /\ Tail(r) \in Seq(Bytes)
  BY <1>0
<1>4. Edited!Deleted(l, r) \in Seq(Bytes) \X Seq(Bytes)
  BY <1>0, <1>2 DEF Edited!Deleted
<1>5. Edited!MovedLeft(l, r) \in Seq(Bytes) \X Seq(Bytes)
  <2>1. l # <<>> => <<Edited!Last(l)>> \o r \in Seq(Bytes)
    BY <1>0, <1>2
  <2> QED  BY <1>0, <1>2, <2>1 DEF Edited!MovedLeft
<1>6. Edited!MovedRight(l, r) \in Seq(Bytes) \X Seq(Bytes)
  <2>1. r # <<>> => Append(l, Head(r)) \in Seq(Bytes)
    BY <1>0, <1>3
  <2>2. r # <<>> => Edited!MovedRight(l, r) = <<Append(l, Head(r)), Tail(r)>>
    BY DEF Edited!MovedRight
  <2>3. r = <<>> => Edited!MovedRight(l, r) = <<l, r>>
    BY DEF Edited!MovedRight
  <2> QED  BY <1>0, <1>3, <2>1, <2>2, <2>3, PairOfTexts, Zenon
<1>7. Meaning(key, l, r) \in {Edited!Deleted(l, r), Edited!MovedLeft(l, r),
                             Edited!MovedRight(l, r), <<l, r>>}
                            \cup {Edited!Inserted(l, r, c) : c \in Printable}
  <2>1. CASE Len(key) = 1 /\ key[1] \in Printable
    <3>1. key # <<DEL>> /\ key # LeftKey /\ key # RightKey
      BY <2>1, ControlsDiffer DEF LeftKey, RightKey
    <3>2. Meaning(key, l, r) = Edited!Inserted(l, r, key[1])
      BY <2>1, <3>1, Zenon DEF Meaning
    <3> QED  BY <2>1, <3>2
  <2>2. CASE ~(Len(key) = 1 /\ key[1] \in Printable)
    <3>1. <<DEL>> # LeftKey /\ <<DEL>> # RightKey /\ LeftKey # RightKey
      BY DEF LeftKey, RightKey
    <3> QED  BY <2>2, <3>1, Zenon DEF Meaning
  <2> QED  BY <2>1, <2>2
<1>8. Printable \subseteq Bytes
  BY PrintableIsAByte
<1> QED  BY <1>0, <1>1, <1>4, <1>5, <1>6, <1>7, <1>8 DEF l, r

-----------------------------------------------------------------------------
(* Every variable has its type. *)

LEMMA InitTyped == Init => Typed
<1>1. <<>> \in Seq(Bytes) /\ <<>> \in Seq(Seq(Bytes))
  OBVIOUS
<1>2. <<<<>>, <<>>>> \in Seq(Bytes) \X Seq(Bytes)
  BY <1>1, PairOfTexts, Zenon
<1> SUFFICES ASSUME Init PROVE Typed
  OBVIOUS
<1>3. wish \in Seq(Bytes) \X Seq(Bytes)
  BY <1>2, Zenon DEF Init
<1>4. input \in Seq(Bytes) /\ executed \in Seq(Seq(Bytes)) /\ input = <<>>
  BY <1>1, Zenon DEF Init
<1>5. /\ mode = "cooked" /\ saved = "cooked" /\ gone = FALSE /\ refused = FALSE
      /\ asked = "edit" /\ pressed = 0
  BY Zenon DEF Init
<1> QED  BY <1>3, <1>4, <1>5 DEF Typed

LEMMA InputTail == \A s \in Seq(Bytes) : s # <<>> => Tail(s) \in Seq(Bytes)
OBVIOUS

LEMMA ReadingKeepsTypes ==
    ASSUME Typed, input # <<>>, Consumes PROVE Typed'
BY InputTail DEF Typed, Consumes, terminal, user

LEMMA DisablingKeepsTypes ==
    ASSUME Typed, DisableRawMode, UNCHANGED <<executed, user>> PROVE Typed'
<1>1. <<>> \in Seq(Bytes)
  OBVIOUS
<1> QED  BY <1>1 DEF Typed, DisableRawMode, user

LEMMA TypedStep == Inv /\ Typed /\ [Next]_vars => Typed'
<1> SUFFICES ASSUME Inv, Typed, [Next]_vars PROVE Typed'
  OBVIOUS
<1>0. <<>> \in Seq(Bytes) /\ <<<<>>, <<>>>> \in Seq(Bytes) \X Seq(Bytes)
  <2>1. <<>> \in Seq(Bytes)
    OBVIOUS
  <2> QED  BY <2>1, PairOfTexts, Zenon
<1>1. CASE UNCHANGED vars \/ Finished \/ StartFails
  <2>1. UNCHANGED vars
    BY <1>1 DEF Finished, StartFails
  <2> QED  BY <2>1 DEF vars, Typed, terminal, user
<1>2. CASE StartLine
  <2>1. wish' \in Seq(Bytes) \X Seq(Bytes)
    BY <1>0, <1>2, Zenon DEF StartLine
  <2>2. /\ saved' = mode /\ mode' = "raw" /\ input' = <<>> /\ asked' = "edit"
        /\ UNCHANGED <<gone, refused, executed, pressed>>
    BY <1>2 DEF StartLine, EnableRawMode
  <2> QED  BY <1>0, <2>1, <2>2 DEF Typed
<1>3. CASE PromptEof \/ Interrupt
  BY <1>3 DEF PromptEof, Interrupt, Typed, terminal, user
<1>4. CASE ReadPrintable \/ ReadBackspace \/ ReadOther \/ ReadEscape \/ ReadBracket
           \/ ReadDirection
  <2>1. input # <<>> /\ Consumes
    BY <1>4 DEF ReadPrintable, ReadBackspace, ReadOther, ReadEscape, ReadBracket,
                ReadDirection, Reads
  <2> QED  BY <2>1, ReadingKeepsTypes
<1>5. CASE ReadEnter
  BY <1>5, DisablingKeepsTypes DEF ReadEnter
<1>6. CASE ReadEot
  <2>1. CASE length = 0
    BY <1>6, <2>1, DisablingKeepsTypes DEF ReadEot
  <2>2. CASE length # 0
    BY <1>6, <2>2, ReadingKeepsTypes DEF ReadEot, Reads
  <2> QED  BY <2>1, <2>2
<1>7. CASE ReadFails \/ ReadEof
  BY <1>7, DisablingKeepsTypes DEF ReadFails, ReadEof
<1>8. CASE EscapeFails
  BY <1>8 DEF EscapeFails, Typed, terminal
<1>9. CASE HangUp
  BY <1>0, <1>9 DEF HangUp, Typed, user
<1>10. CASE RunLine
  <2>1. StringIn \in Seq(Bytes)
    BY <1>10, StringIsTheLine DEF RunLine
  <2> DEFINE statement == Trimmed(StringIn)
  <2>2. statement \in Seq(Bytes)
    BY <2>1, TrimmedIsText
  <2> HIDE DEF statement
  <2>3. executed' \in {executed, Append(executed, statement)}
    BY <1>10 DEF RunLine, statement
  <2>4. \A list \in Seq(Seq(Bytes)) : Append(list, statement) \in Seq(Seq(Bytes))
    BY <2>2
  <2>5. executed' \in Seq(Seq(Bytes))
    BY <2>3, <2>4 DEF Typed
  <2>6. UNCHANGED <<terminal, input, user>>
    BY <1>10 DEF RunLine
  <2> QED  BY <2>5, <2>6 DEF Typed, terminal, user
<1>11. CASE PressKey
  <2>1. PICK key \in Keys :
            /\ input' = input \o key
            /\ IF mode = "raw" /\ asked = "edit"
               THEN /\ wish' = Meaning(key, wish[1], wish[2])
                    /\ asked' = Wanted(key, wish)
               ELSE UNCHANGED <<wish, asked>>
    BY <1>11 DEF PressKey, Wanted
  <2>2. key \in Seq(Bytes)
    BY LineEditorConstants
  <2>3. input' \in Seq(Bytes)
    BY <2>1, <2>2 DEF Typed
  <2>4. wish' \in Seq(Bytes) \X Seq(Bytes)
    BY <2>1, MeaningIsLine DEF Typed
  <2>5. asked' \in {"edit", "submit", "leave", "lost"}
    BY <2>1 DEF Typed, Wanted
  <2>6. ~gone /\ pressed' = pressed + 1 /\ UNCHANGED <<terminal, executed>>
    BY <1>11 DEF PressKey
  <2> QED  BY <2>3, <2>4, <2>5, <2>6 DEF Typed, terminal
<1> QED  BY <1>1, <1>2, <1>3, <1>4, <1>5, <1>6, <1>7, <1>8, <1>9, <1>10, <1>11
         DEF Next, Program, Reading, Ending, Failing

\* Every variable of the terminal REPL keeps its type, for every set of keys.
THEOREM LineEditorTypes == Spec => []TypeOK
<1>1. Inv /\ Typed => TypeOK
  <2> SUFFICES ASSUME Inv, Typed PROVE TypeOK
    OBVIOUS
  <2>1. cursor \in 0..BUFFER_SIZE - 1
    BY LineBytes DEF Inv
  <2> QED  BY <2>1 DEF Inv, Typed, TypeOK
<1> QED  BY <1>1, InitInv, StepInv, InitTyped, TypedStep, PTL DEF Spec

-----------------------------------------------------------------------------
(* The keys have their meaning. *)

Here == <<LeftText, RightText>>

\* A byte was read, and did to the line what the reader of bytes says.
LEMMA HeardByte ==
    ASSUME Typed, Heard, pc \in Editing, input # <<>>, Consumes,
           <<Here', pc', "edit">> = ByteRead(<<Here, pc, "edit">>, Head(input))
    PROVE  Heard'
<1> SUFFICES ASSUME ~gone, asked # "lost" PROVE Heard'
  BY DEF Heard, Consumes, terminal, user
<1>1. mode = "raw" /\ ToRead!Fold(<<Here, pc, "edit">>, input) = <<wish, "edit", asked>>
  BY DEF Heard, Here
<1>2. ToRead!Fold(<<Here, pc, "edit">>, input)
          = ToRead!Fold(ByteRead(<<Here, pc, "edit">>, Head(input)), Tail(input))
  BY ReadsFirst DEF Typed
<1>3. ToRead!Fold(<<Here', pc', "edit">>, input') = <<wish', "edit", asked'>>
  BY <1>1, <1>2, Zenon DEF Consumes, user
<1>4. mode' = "raw"
  BY <1>1 DEF Consumes, terminal
<1> QED  BY <1>3, <1>4 DEF Heard, Here

LEMMA LineIsHere == ASSUME UNCHANGED line PROVE Here' = Here
BY TextsAre DEF line, Here

LEMMA HerePairs == Here[1] = LeftText /\ Here[2] = RightText /\ Here' = <<LeftText', RightText'>>
BY DEF Here

LEMMA PrintableIsHeard == ASSUME Inv, Typed, Heard, ReadPrintable PROVE Heard'
<1>1. PICK ch \in Printable : Reads(ch) /\ InsertCharacter(ch)
  BY DEF ReadPrintable
<1>2. pc = "edit" /\ pc' = "edit" /\ Consumes /\ input # <<>> /\ ch = Head(input)
  BY <1>1 DEF ReadPrintable, Reads
<1>3. Here' = Edited!Inserted(LeftText, RightText, ch)
  <2>1. CASE length + 1 >= BUFFER_SIZE
    <3>1. Here' = Here
      BY <1>1, <2>1, LineIsHere DEF InsertCharacter
    <3>2. ~(Len(LeftText) + Len(RightText) < BUFFER_SIZE - 1)
      BY <2>1, LineLengths, LineBytes
    <3> QED  BY <3>1, <3>2 DEF Edited!Inserted, Here
  <2>2. CASE length + 1 < BUFFER_SIZE
    BY <1>1, <2>2, CharacterInserted DEF Here
  <2> QED  BY <2>1, <2>2, LineBytes
<1>4. ByteRead(<<Here, "edit", "edit">>, ch)
          = <<Edited!Inserted(LeftText, RightText, ch), "edit", "edit">>
  BY <1>1, HerePairs DEF ByteRead
<1> QED  BY <1>2, <1>3, <1>4, HeardByte DEF Editing

LEMMA BackspaceIsHeard == ASSUME Inv, Typed, Heard, ReadBackspace PROVE Heard'
<1>1. pc = "edit" /\ pc' = "edit" /\ Consumes /\ input # <<>> /\ Head(input) = DEL
      /\ DeleteCharacterLeft
  BY DEF ReadBackspace, Reads
<1>2. Here' = Edited!Deleted(LeftText, RightText)
  <2>1. CASE cursor = 0 \/ length = 0
    <3>1. Here' = Here
      BY <1>1, <2>1, LineIsHere DEF DeleteCharacterLeft
    <3>2. LeftText = <<>>
      <4>1. LeftText \in Seq(Bytes) /\ Len(LeftText) = 0
        BY <2>1, LineLengths, LineBytes
      <4> QED  BY <4>1, EmptySeq
    <3> QED  BY <3>1, <3>2 DEF Edited!Deleted, Here
  <2>2. CASE cursor # 0 /\ length # 0
    BY <1>1, <2>2, CharacterDeleted DEF Here
  <2> QED  BY <2>1, <2>2
<1>3. ByteRead(<<Here, "edit", "edit">>, DEL)
          = <<Edited!Deleted(LeftText, RightText), "edit", "edit">>
  BY HerePairs, ControlsDiffer DEF ByteRead
<1> QED  BY <1>1, <1>2, <1>3, HeardByte DEF Editing

LEMMA DirectionIsHeard == ASSUME Inv, Typed, Heard, ReadDirection PROVE Heard'
<1>1. pc \in {"bracket", "other"} /\ pc' = "edit" /\ Consumes /\ input # <<>>
  BY DEF ReadDirection
<1> DEFINE b == Head(input)
<1>2. CASE pc = "bracket" /\ b = "D"
  <2>1. MoveCursorLeft
    BY <1>1, <1>2 DEF ReadDirection, Reads
  <2>2. Here' = Edited!MovedLeft(LeftText, RightText)
    <3>1. CASE cursor > 0
      <4>1. cursor' = cursor - 1 /\ UNCHANGED <<buffer, length>>
        BY <2>1, <3>1 DEF MoveCursorLeft
      <4> QED  BY <3>1, <4>1, CursorMovesLeft, TextsAre DEF Here
    <3>2. CASE ~(cursor > 0)
      <4>1. Here' = Here
        BY <2>1, <3>2, LineIsHere DEF MoveCursorLeft, line
      <4>2. LeftText = <<>>
        <5>1. LeftText \in Seq(Bytes) /\ Len(LeftText) = 0
          BY <3>2, LineLengths, LineBytes
        <5> QED  BY <5>1, EmptySeq
      <4> QED  BY <4>1, <4>2 DEF Edited!MovedLeft, Here
    <3> QED  BY <3>1, <3>2
  <2>3. ByteRead(<<Here, pc, "edit">>, b)
            = <<Edited!MovedLeft(LeftText, RightText), "edit", "edit">>
    BY <1>2, HerePairs DEF ByteRead
  <2> QED  BY <1>1, <2>2, <2>3, HeardByte DEF Editing
<1>3. CASE pc = "bracket" /\ b = "C"
  <2>1. MoveCursorRight
    BY <1>1, <1>3 DEF ReadDirection, Reads
  <2>2. Here' = Edited!MovedRight(LeftText, RightText)
    <3>1. CASE cursor < length
      <4>1. cursor' = cursor + 1 /\ UNCHANGED <<buffer, length>>
        BY <2>1, <3>1 DEF MoveCursorRight
      <4> QED  BY <3>1, <4>1, CursorMovesRight, TextsAre DEF Here
    <3>2. CASE ~(cursor < length)
      <4>1. Here' = Here
        BY <2>1, <3>2, LineIsHere DEF MoveCursorRight, line
      <4>2. RightText = <<>>
        <5>1. RightText \in Seq(Bytes) /\ Len(RightText) = 0
          BY <3>2, LineLengths, LineBytes
        <5> QED  BY <5>1, EmptySeq
      <4> QED  BY <4>1, <4>2 DEF Edited!MovedRight, Here
    <3> QED  BY <3>1, <3>2
  <2>3. ByteRead(<<Here, pc, "edit">>, b)
            = <<Edited!MovedRight(LeftText, RightText), "edit", "edit">>
    BY <1>3, HerePairs DEF ByteRead
  <2> QED  BY <1>1, <2>2, <2>3, HeardByte DEF Editing
<1>4. CASE ~(pc = "bracket" /\ b = "D") /\ ~(pc = "bracket" /\ b = "C")
  <2>1. UNCHANGED line
    BY <1>1, <1>4 DEF ReadDirection, Reads
  <2>2. ByteRead(<<Here, pc, "edit">>, b) = <<Here, "edit", "edit">>
    BY <1>1, <1>4 DEF ByteRead
  <2> QED  BY <1>1, <2>1, <2>2, LineIsHere, HeardByte DEF Editing
<1> QED  BY <1>2, <1>3, <1>4

LEMMA OtherBytesAreHeard ==
    ASSUME Inv, Typed, Heard, ReadOther \/ ReadEscape \/ ReadBracket PROVE Heard'
<1>1. Consumes /\ input # <<>> /\ UNCHANGED line /\ pc \in Editing
  BY DEF ReadOther, ReadEscape, ReadBracket, Reads, Editing
<1>2. CASE ReadOther
  <2>1. pc = "edit" /\ pc' = "edit" /\ Head(input) = UNPRINTABLE
    BY <1>2 DEF ReadOther, Reads
  <2>2. ByteRead(<<Here, "edit", "edit">>, UNPRINTABLE) = <<Here, "edit", "edit">>
    BY ControlsDiffer DEF ByteRead
  <2> QED  BY <1>1, <2>1, <2>2, LineIsHere, HeardByte
<1>3. CASE ReadEscape
  <2>1. pc = "edit" /\ pc' = "escape" /\ Head(input) = ESC
    BY <1>3 DEF ReadEscape, Reads
  <2>2. ByteRead(<<Here, "edit", "edit">>, ESC) = <<Here, "escape", "edit">>
    BY ControlsDiffer DEF ByteRead
  <2> QED  BY <1>1, <2>1, <2>2, LineIsHere, HeardByte
<1>4. CASE ReadBracket
  <2>1. pc = "escape" /\ pc' = IF Head(input) = "[" THEN "bracket" ELSE "other"
    BY <1>4 DEF ReadBracket, Reads
  <2>2. ByteRead(<<Here, "escape", "edit">>, Head(input)) = <<Here, pc', "edit">>
    BY <2>1 DEF ByteRead
  <2> QED  BY <1>1, <2>1, <2>2, LineIsHere, HeardByte
<1> QED  BY <1>2, <1>3, <1>4

LEMMA EnterIsHeard ==
    ASSUME Inv, Typed, Heard, Answered, ReadEnter PROVE Heard' /\ Answered'
<1>1. /\ pc = "edit" /\ pc' = "run" /\ input # <<>> /\ Head(input) = NEWLINE
      /\ UNCHANGED <<length, cursor, user>> /\ buffer' = [buffer EXCEPT ![length] = NUL]
      /\ gone' = gone
  BY DEF ReadEnter, Reads, DisableRawMode
<1>2. ~gone /\ asked' = asked /\ wish' = wish
  BY <1>1 DEF Typed, user
<1>3. Heard'
  BY <1>1 DEF Heard, Editing
<1>4. ASSUME asked # "lost" PROVE asked = "submit" /\ Here = wish
  <2>1. ToRead!Fold(<<Here, pc, "edit">>, input) = <<wish, "edit", asked>>
    BY <1>1, <1>2, <1>4 DEF Heard, Here, Editing
  <2>2. ToRead!Fold(<<Here, pc, "edit">>, input)
            = ToRead!Fold(ByteRead(<<Here, pc, "edit">>, Head(input)), Tail(input))
    BY <1>1, ReadsFirst DEF Typed
  <2>3. ByteRead(<<Here, "edit", "edit">>, NEWLINE) = <<Here, "edit", "submit">>
    BY ControlsDiffer DEF ByteRead
  <2>4. Tail(input) \in Seq(Bytes)
    BY <1>1, InputTail DEF Typed
  <2>5. ToRead!Fold(<<Here, "edit", "submit">>, Tail(input)) = <<Here, "edit", "submit">>
    BY <2>4, AnsweredStays
  <2>6. <<wish, "edit", asked>> = <<Here, "edit", "submit">>
    BY <1>1, <2>1, <2>2, <2>3, <2>5, Zenon
  <2> QED  BY <2>6
<1>5. Here' = Here
  <2>1. buffer' = buffer
    BY <1>1 DEF Inv, BufferIsString, Editing
  <2> QED  BY <1>1, <2>1, LineIsHere DEF line
<1>6. Answered'
  BY <1>1, <1>2, <1>4, <1>5 DEF Answered, Here
<1> QED  BY <1>3, <1>6

LEMMA EotIsHeard ==
    ASSUME Inv, Typed, Heard, Answered, ReadEot PROVE Heard' /\ Answered'
<1>1. pc = "edit" /\ input # <<>> /\ Head(input) = EOT /\ UNCHANGED line
  BY DEF ReadEot, Reads
<1>2. ~gone
  BY <1>1 DEF Typed
<1>3. CASE length = 0
  <2>1. pc' = "exited" /\ gone' = gone /\ UNCHANGED user
    BY <1>3 DEF ReadEot, DisableRawMode
  <2>2. Here = <<<<>>, <<>>>>
    <3>1. cursor = 0
      BY <1>3, LineBytes
    <3>2. LeftText = <<>> /\ RightText = <<>>
      BY <1>3, <3>1, TextsAre, NoText
    <3> QED  BY <3>2 DEF Here
  <2>3. ASSUME asked # "lost" PROVE asked = "leave"
    <3>1. ToRead!Fold(<<Here, pc, "edit">>, input) = <<wish, "edit", asked>>
      BY <1>1, <1>2, <2>3 DEF Heard, Here, Editing
    <3>2. ToRead!Fold(<<Here, pc, "edit">>, input)
              = ToRead!Fold(ByteRead(<<Here, pc, "edit">>, Head(input)), Tail(input))
      BY <1>1, ReadsFirst DEF Typed
    <3>3. ByteRead(<<Here, "edit", "edit">>, EOT) = <<Here, "edit", "leave">>
      BY <2>2, ControlsDiffer DEF ByteRead
    <3>4. Tail(input) \in Seq(Bytes)
      BY <1>1, InputTail DEF Typed
    <3>5. ToRead!Fold(<<Here, "edit", "leave">>, Tail(input)) = <<Here, "edit", "leave">>
      BY <3>4, AnsweredStays
    <3>6. <<wish, "edit", asked>> = <<Here, "edit", "leave">>
      BY <1>1, <3>1, <3>2, <3>3, <3>5, Zenon
    <3> QED  BY <3>6
  <2>4. Heard'
    BY <2>1 DEF Heard, Editing
  <2>5. Answered'
    BY <2>1, <2>3 DEF Answered, user
  <2> QED  BY <2>4, <2>5
<1>4. CASE length # 0
  <2>1. pc' = "edit" /\ Consumes
    BY <1>1, <1>4 DEF ReadEot
  <2>2. Here # <<<<>>, <<>>>>
    <3>1. ~(Len(LeftText) = 0 /\ Len(RightText) = 0)
      BY <1>4, LineLengths, LineBytes
    <3>2. Len(<<>>) = 0
      OBVIOUS
    <3> QED  BY <3>1, <3>2 DEF Here
  <2>3. ByteRead(<<Here, "edit", "edit">>, EOT) = <<Here, "edit", "edit">>
    BY <2>2, ControlsDiffer DEF ByteRead
  <2>4. Here' = Here
    BY <1>1, LineIsHere
  <2>5. Heard'
    BY <1>1, <2>1, <2>3, <2>4, HeardByte DEF Editing
  <2>6. Answered'
    BY <2>1 DEF Answered, Consumes, user
  <2> QED  BY <2>5, <2>6
<1> QED  BY <1>3, <1>4

\* A key pressed is added to what has not been read, and to what the user means.
LEMMA KeyIsHeard ==
    ASSUME KeysAreReadWhole, Typed, Heard, PressKey PROVE Heard'
<1>1. PICK key \in Keys :
          /\ input' = input \o key
          /\ IF mode = "raw" /\ asked = "edit"
             THEN /\ wish' = Meaning(key, wish[1], wish[2])
                  /\ asked' = Wanted(key, wish)
             ELSE UNCHANGED <<wish, asked>>
  BY DEF PressKey, Wanted
<1>2. /\ ~gone /\ UNCHANGED <<line, terminal>> /\ pc' = pc
  BY DEF PressKey
<1> SUFFICES ASSUME pc \in Editing, asked' # "lost" PROVE Heard'
  BY <1>2 DEF Heard
<1>3. asked # "lost"
  BY <1>1
<1>4. mode = "raw" /\ mode' = mode
      /\ ToRead!Fold(<<Here, pc, "edit">>, input) = <<wish, "edit", asked>>
  BY <1>2, <1>3 DEF Heard, Here, terminal
<1>5. ToRead!Fold(<<Here, pc, "edit">>, input') = KeyRead(<<wish, "edit", asked>>, key)
  <2>1. ToRead!Fold(<<Here, pc, "edit">>, input \o key)
            = KeyRead(ToRead!Fold(<<Here, pc, "edit">>, input), key)
    BY ReadsKey DEF Typed
  <2> QED  BY <1>1, <1>4, <2>1, Zenon
<1>6. KeyRead(<<wish, "edit", asked>>, key) = <<wish', "edit", asked'>>
  <2>1. CASE asked = "edit"
    <3>1. key # EscapeKey
      <4>1. EscapeKey # <<NEWLINE>> /\ EscapeKey # <<EOT>>
        BY ControlsDiffer DEF EscapeKey
      <4> QED  BY <1>1, <1>4, <2>1, <4>1 DEF Wanted
    <3>2. KeyRead(<<wish, "edit", "edit">>, key)
              = <<Meaning(key, wish[1], wish[2]), "edit", Wanted(key, wish)>>
      BY <3>1, KeyMeans DEF Typed
    <3> QED  BY <1>1, <1>4, <2>1, <3>2, Zenon
  <2>2. CASE asked # "edit"
    <3>1. \A b : ByteRead(<<wish, "edit", asked>>, b) = <<wish, "edit", asked>>
      BY <2>2 DEF ByteRead
    <3>2. KeyRead(<<wish, "edit", asked>>, key) = <<wish, "edit", asked>>
      BY <3>1, Zenon DEF KeyRead
    <3> QED  BY <1>1, <2>2, <3>2
  <2> QED  BY <2>1, <2>2
<1>7. Here' = Here
  BY <1>2, LineIsHere
<1>8. ToRead!Fold(<<Here', pc', "edit">>, input') = <<wish', "edit", asked'>>
  BY <1>2, <1>5, <1>6, <1>7, Zenon
<1> QED  BY <1>4, <1>8 DEF Heard, Here

LEMMA LineStarts == ASSUME StartLine PROVE Heard' /\ Answered'
<1>1. /\ pc' = "edit" /\ mode' = "raw" /\ input' = <<>> /\ asked' = "edit"
      /\ wish' = <<<<>>, <<>>>> /\ cursor' = 0 /\ length' = 0
  BY DEF StartLine, EnableRawMode, EmptyLine
<1>2. Here' = <<<<>>, <<>>>>
  <2>1. LeftText' = <<>> /\ RightText' = <<>>
    BY <1>1, TextsAre, NoText
  <2> QED  BY <2>1 DEF Here
<1>3. ToRead!Fold(<<Here', pc', "edit">>, input') = <<Here', pc', "edit">>
  BY <1>1, ToRead!FoldOfNone
<1>4. ToRead!Fold(<<Here', pc', "edit">>, input') = <<wish', "edit", asked'>>
  BY <1>1, <1>2, <1>3, Zenon
<1>5. Heard'
  BY <1>1, <1>4 DEF Heard, Here
<1>6. Answered'
  BY <1>1 DEF Answered
<1> QED  BY <1>5, <1>6

LEMMA RunIsAnswered == ASSUME Inv, Answered, RunLine PROVE Heard' /\ Answered'
<1>1. /\ pc = "run" /\ UNCHANGED <<user, terminal>>
      /\ pc' = IF Trimmed(StringIn) \in ExitWords THEN "exited" ELSE "prompt"
  BY DEF RunLine
<1>2. Heard'
  BY <1>1 DEF Heard, Editing
<1>3. StringIn = LeftText \o RightText
  BY <1>1, StringIsTheLine
<1>4. ASSUME asked # "lost" PROVE asked = "submit" /\ StringIn = wish[1] \o wish[2]
  <2>1. asked = "submit" /\ <<LeftText, RightText>> = wish
    BY <1>1, <1>4 DEF Answered
  <2> QED  BY <1>3, <2>1
<1>5. Answered'
  BY <1>1, <1>4 DEF Answered, user
<1> QED  BY <1>2, <1>5

LEMMA HeardStep ==
    ASSUME KeysAreReadWhole, Inv, Typed, Heard, Answered, [Next]_vars
    PROVE  Heard' /\ Answered'
<1>1. CASE UNCHANGED vars \/ Finished \/ StartFails
  <2>1. UNCHANGED vars
    BY <1>1 DEF Finished, StartFails
  <2>2. Here' = Here
    BY <2>1, LineIsHere DEF vars
  <2>3. UNCHANGED <<pc, gone, asked, mode, input, wish>>
    BY <2>1 DEF vars, user, terminal
  <2> QED  BY <2>2, <2>3 DEF Heard, Answered, Here
<1>2. CASE StartLine
  BY <1>2, LineStarts
<1>3. CASE ReadPrintable \/ ReadBackspace \/ ReadOther \/ ReadEscape \/ ReadBracket
           \/ ReadDirection
  <2>1. Heard'
    BY <1>3, PrintableIsHeard, BackspaceIsHeard, DirectionIsHeard, OtherBytesAreHeard
  <2>2. pc' \in Editing
    BY <1>3 DEF ReadPrintable, ReadBackspace, ReadOther, ReadEscape, ReadBracket,
                ReadDirection, Editing
  <2>3. Answered'
    BY <2>2 DEF Answered, Editing
  <2> QED  BY <2>1, <2>3
<1>4. CASE ReadEnter
  BY <1>4, EnterIsHeard
<1>5. CASE ReadEot
  BY <1>5, EotIsHeard
<1>6. CASE PromptEof \/ ReadEof \/ ReadFails \/ Interrupt
  <2>1. pc' \in {"exited", "prompt", "killed"} /\ (pc' = "exited" => gone')
    BY <1>6 DEF PromptEof, ReadEof, ReadFails, Interrupt, DisableRawMode, terminal
  <2> QED  BY <2>1 DEF Heard, Answered, Editing
<1>7. CASE EscapeFails
  <2>1. pc' = "edit" /\ (gone' \/ asked' = "lost")
    BY <1>7 DEF EscapeFails, terminal
  <2> QED  BY <2>1 DEF Heard, Answered
<1>8. CASE HangUp
  <2>1. gone' /\ UNCHANGED <<line, pc, user>>
    BY <1>8 DEF HangUp
  <2>2. Here' = Here
    BY <2>1, LineIsHere
  <2> QED  BY <2>1, <2>2 DEF Heard, Answered, user, Here
<1>9. CASE RunLine
  BY <1>9, RunIsAnswered
<1>10. CASE PressKey
  <2>1. Heard'
    BY <1>10, KeyIsHeard
  <2>2. UNCHANGED <<line, pc, gone>> /\ pc \notin Over
    BY <1>10 DEF PressKey, terminal
  <2>3. Here' = Here
    BY <2>2, LineIsHere
  <2>4. ASSUME pc' = "run", asked' # "lost" PROVE asked' = "submit" /\ Here' = wish'
    <3>1. asked # "lost"
      BY <1>10, <2>4 DEF PressKey
    <3>2. asked = "submit" /\ Here = wish
      BY <2>2, <2>4, <3>1 DEF Answered, Here
    <3>3. UNCHANGED <<wish, asked>>
      BY <1>10, <3>2 DEF PressKey
    <3> QED  BY <2>3, <3>2, <3>3
  <2>5. pc' # "exited"
    BY <2>2 DEF Over
  <2>6. Answered'
    BY <2>4, <2>5 DEF Answered, Here
  <2> QED  BY <2>1, <2>6
<1> QED  BY <1>1, <1>2, <1>3, <1>4, <1>5, <1>6, <1>7, <1>8, <1>9, <1>10
         DEF Next, Program, Reading, Ending, Failing

\* The bytes not read yet always lead from the line in the buffer to the line the
\* user has in mind, for every keyboard whose keys the program reads whole, every
\* size of the buffer, and however fast the keys are pressed.
THEOREM KeysMeanWhatTheySay ==
    KeysAreReadWhole => (Spec => []KeysHaveTheirMeaning)
<1>1. Init => Heard /\ Answered
  BY DEF Init, Heard, Answered, Editing
<1>2. ASSUME Inv, Typed, Heard, Answered PROVE KeysHaveTheirMeaning
  <2> SUFFICES ASSUME Inv, Typed, Heard, Answered, asked # "lost"
               PROVE  KeysHaveTheirMeaning
    BY <1>2 DEF KeysHaveTheirMeaning
  <2>1. ASSUME pc = "edit", input = <<>>, ~gone
        PROVE  asked = "edit" /\ <<LeftText, RightText>> = wish
    <3>1. ToRead!Fold(<<Here, pc, "edit">>, input) = <<wish, "edit", asked>>
      BY <2>1 DEF Heard, Here, Editing
    <3>2. ToRead!Fold(<<Here, pc, "edit">>, input) = <<Here, pc, "edit">>
      BY <2>1, ToRead!FoldOfNone
    <3>3. <<wish, "edit", asked>> = <<Here, pc, "edit">>
      BY <3>1, <3>2, Zenon
    <3> QED  BY <3>3 DEF Here
  <2>2. ASSUME pc = "run" PROVE asked = "submit" /\ StringIn = wish[1] \o wish[2]
    <3>1. asked = "submit" /\ <<LeftText, RightText>> = wish
      BY <2>2 DEF Answered
    <3>2. StringIn = LeftText \o RightText
      BY <2>2, StringIsTheLine
    <3> QED  BY <3>1, <3>2
  <2>3. pc = "exited" /\ ~gone =>
            asked = "leave" \/ (asked = "submit" /\ Trimmed(wish[1] \o wish[2]) \in ExitWords)
    BY DEF Answered
  <2> QED  BY <2>1, <2>2, <2>3 DEF KeysHaveTheirMeaning
<1>3. ASSUME KeysAreReadWhole
      PROVE  Inv /\ Typed /\ Heard /\ Answered /\ [Next]_vars => Heard' /\ Answered'
  BY <1>3, HeardStep
<1>4. ASSUME KeysAreReadWhole PROVE Spec => []KeysHaveTheirMeaning
  BY <1>1, <1>2, <1>3, <1>4, InitInv, StepInv, InitTyped, TypedStep, PTL DEF Spec
<1> QED  BY <1>4

-----------------------------------------------------------------------------
(* The same program on a pipe or a file. *)

CONSTANTS
    Piped,      \* what may be on the pipe
    PipeFaults  \* {} or {"read"}

VARIABLES piped, unread, broken, got, said, at

Pipe == INSTANCE PipedRepl WITH
    Inputs <- Piped, Faults <- PipeFaults, whole <- piped, input <- unread,
    error <- broken, line <- got, executed <- said, pc <- at

\* What PipedRepl assumes of its constants.
PipeConstants ==
    /\ BUFFER_SIZE \in Nat /\ BUFFER_SIZE > 1
    /\ PipeFaults \subseteq {"read"}
    /\ \A t \in Piped : t \in Seq(STRING)

\* The bytes of the pipe, one after the other.
Cutting == INSTANCE FoldFacts WITH
    Op <- LAMBDA p, v, e : Pipe!WithByte(v, e), Base <- LAMBDA p : Pipe!NoLines
\* Its lines, one after the other.
Talking == INSTANCE FoldFacts WITH
    Op <- LAMBDA p, v, e : Pipe!WithLine(v, e), Base <- LAMBDA p : Pipe!Silence

String == Seq(STRING)

LEMMA CutIsFold == \A s : Cutting!Fold(0, s) = Pipe!Cut(s)
BY DEF Cutting!Fold, Pipe!Cut, FoldLeft, Cutting!FoldLeft, Pipe!FoldLeft, MapThenFoldSet,
       Cutting!MapThenFoldSet, Pipe!MapThenFoldSet, Max, Cutting!Max, Pipe!Max

LEMMA CutNext ==
    ASSUME NEW t \in String, NEW b \in STRING
    PROVE  Pipe!Cut(Append(t, b)) = Pipe!WithByte(Pipe!Cut(t), b)
<1>1. Cutting!Fold(0, Append(t, b)) = Pipe!WithByte(Cutting!Fold(0, t), b)
  BY Cutting!FoldOfMore DEF String
<1> QED  BY <1>1, CutIsFold

LEMMA CutNone == Pipe!Cut(<<>>) = Pipe!NoLines
<1>1. Cutting!Fold(0, <<>>) = Pipe!NoLines
  BY Cutting!FoldOfNone
<1> QED  BY <1>1, CutIsFold

LEMMA TalkIsFold == \A s : Talking!Fold(0, s) = Pipe!Talk(s)
BY DEF Talking!Fold, Pipe!Talk, FoldLeft, Talking!FoldLeft, Pipe!FoldLeft, MapThenFoldSet,
       Talking!MapThenFoldSet, Pipe!MapThenFoldSet, Max, Talking!Max, Pipe!Max

LEMMA TalkNext ==
    ASSUME NEW E, NEW ls \in Seq(E), NEW l \in E
    PROVE  Pipe!Talk(Append(ls, l)) = Pipe!WithLine(Pipe!Talk(ls), l)
<1>1. Talking!Fold(0, Append(ls, l)) = Pipe!WithLine(Talking!Fold(0, ls), l)
  BY Talking!FoldOfMore
<1> QED  BY <1>1, TalkIsFold

LEMMA TalkNone == Pipe!Talk(<<>>) = Pipe!Silence
<1>1. Talking!Fold(0, <<>>) = Pipe!Silence
  BY Talking!FoldOfNone
<1> QED  BY <1>1, TalkIsFold

-----------------------------------------------------------------------------
(* What trimming leaves *)

\* The places whose byte is kept have a first and a last one.
LEMMA Ends ==
    ASSUME NEW t \in String, NEW d \in SUBSET DOMAIN t, d # {}
    PROVE  /\ Pipe!Min(d) \in d /\ Pipe!Max(d) \in d
           /\ \A i \in d : Pipe!Min(d) <= i /\ i <= Pipe!Max(d)
<1>1. Len(t) \in Nat /\ d \in SUBSET Nat /\ d \in SUBSET (1..Len(t))
  BY DEF String
<1>2. Min(d) \in d /\ \A i \in d : Min(d) <= i
  BY <1>1, Cutting!FirstOf DEF Min, Cutting!Min
<1>3. Max(d) \in d /\ \A i \in d : i <= Max(d)
  BY <1>1, Cutting!LastOf DEF Max, Cutting!Max
<1> QED  BY <1>2, <1>3 DEF Min, Max, Pipe!Min, Pipe!Max

LEMMA TrimmedIsAString ==
    ASSUME NEW t \in String
    PROVE  Pipe!Trimmed(t) \in String /\ Len(Pipe!Trimmed(t)) <= Len(t)
<1> DEFINE kept == {i \in DOMAIN t : t[i] \notin Pipe!Spaces}
<1>1. CASE kept = {}
  BY <1>1 DEF Pipe!Trimmed, String
<1>2. CASE kept # {}
  <2>1. Pipe!Min(kept) \in kept /\ Pipe!Max(kept) \in kept
    BY <1>2, Ends
  <2>2. Pipe!Min(kept) \in 1..Len(t) /\ Pipe!Max(kept) \in 1..Len(t)
    BY <2>1 DEF String
  <2>3. Pipe!Trimmed(t) = SubSeq(t, Pipe!Min(kept), Pipe!Max(kept))
    BY <1>2 DEF Pipe!Trimmed
  <2> HIDE DEF kept
  <2>4. \A a, z \in 1..Len(t) : SubSeq(t, a, z) \in String /\ Len(SubSeq(t, a, z)) <= Len(t)
    BY DEF String
  <2> QED  BY <2>2, <2>3, <2>4
<1> QED  BY <1>1, <1>2

\* Blanks at the end make no difference.
LEMMA TrimmedOfStart ==
    ASSUME NEW t \in String, NEW m \in 0..Len(t),
           \A i \in m + 1..Len(t) : t[i] \in Pipe!Spaces
    PROVE  Pipe!Trimmed(SubSeq(t, 1, m)) = Pipe!Trimmed(t)
<1> DEFINE s == SubSeq(t, 1, m)
           kept == {i \in DOMAIN t : t[i] \notin Pipe!Spaces}
<1>1. s \in String /\ DOMAIN s = 1..m /\ \A i \in 1..m : s[i] = t[i]
  BY DEF String
<1>2. DOMAIN t = 1..Len(t) /\ Len(t) \in Nat
  BY DEF String
<1> HIDE DEF s
<1>3. {i \in DOMAIN s : s[i] \notin Pipe!Spaces} = kept
  BY <1>1, <1>2
<1>4. CASE kept = {}
  BY <1>3, <1>4 DEF Pipe!Trimmed, s
<1>5. CASE kept # {}
  <2>1. Pipe!Min(kept) \in kept /\ Pipe!Max(kept) \in kept
    BY <1>5, Ends
  <2>2. Pipe!Min(kept) \in 1..m /\ Pipe!Max(kept) \in 1..m
    BY <2>1, <1>1, <1>3
  <2>3. Pipe!Trimmed(t) = SubSeq(t, Pipe!Min(kept), Pipe!Max(kept))
        /\ Pipe!Trimmed(s) = SubSeq(s, Pipe!Min(kept), Pipe!Max(kept))
    BY <1>3, <1>5 DEF Pipe!Trimmed
  <2> HIDE DEF kept
  <2>4. \A a, z \in 1..m : SubSeq(s, a, z) = SubSeq(t, a, z)
    BY <1>1 DEF String
  <2> QED  BY <2>2, <2>3, <2>4 DEF s
<1> QED  BY <1>4, <1>5

LEMMA TrimmedOfLine ==
    ASSUME NEW t \in String
    PROVE  /\ Pipe!WithoutEnding(t) \in String
           /\ Len(Pipe!WithoutEnding(t)) <= Len(t)
           /\ Pipe!Trimmed(Pipe!WithoutEnding(t)) = Pipe!Trimmed(t)
<1> DEFINE kept == {i \in DOMAIN t : t[i] \notin {Pipe!NEWLINE, "\r"}}
           m == IF kept = {} THEN 0 ELSE Pipe!Max(kept)
<1>1. m \in 0..Len(t) /\ \A i \in m + 1..Len(t) : i \notin kept
  <2>0. Len(t) \in Nat /\ kept \in SUBSET (1..Len(t))
    BY DEF String
  <2>1. CASE kept = {}
    BY <2>0, <2>1
  <2>2. CASE kept # {}
    <3> HIDE DEF kept
    <3>0. kept \in SUBSET DOMAIN t
      BY <2>0 DEF String
    <3>1. Pipe!Max(kept) \in kept /\ \A i \in kept : i <= Pipe!Max(kept)
      BY <2>2, <3>0, Ends
    <3>2. m = Pipe!Max(kept)
      BY <2>2
    <3> HIDE DEF m
    <3>3. m \in 1..Len(t)
      BY <2>0, <3>1, <3>2
    <3>4. ASSUME NEW i \in m + 1..Len(t) PROVE i \notin kept
      BY <3>1, <3>2, <3>3, <2>0
    <3> QED  BY <2>0, <3>3, <3>4
  <2> QED  BY <2>1, <2>2
<1>2. \A i \in m + 1..Len(t) : t[i] \in Pipe!Spaces
  <2>1. \A i \in m + 1..Len(t) : i \in DOMAIN t
    BY <1>1 DEF String
  <2> QED  BY <1>1, <2>1 DEF Pipe!Spaces
<1>3. Pipe!WithoutEnding(t) = SubSeq(t, 1, m)
  <2>1. SubSeq(t, 1, 0) = <<>>
    BY DEF String
  <2>2. Pipe!WithoutEnding(t) = IF kept = {} THEN <<>> ELSE SubSeq(t, 1, Pipe!Max(kept))
    BY DEF Pipe!WithoutEnding
  <2> HIDE DEF kept
  <2> QED  BY <2>1, <2>2
<1> HIDE DEF m, kept
<1>4. SubSeq(t, 1, m) \in String /\ Len(SubSeq(t, 1, m)) <= Len(t)
  BY <1>1 DEF String
<1>5. Pipe!Trimmed(SubSeq(t, 1, m)) = Pipe!Trimmed(t)
  BY <1>1, <1>2, TrimmedOfStart
<1> QED  BY <1>3, <1>4, <1>5

\* What a line says is what is left of it.
LEMMA SameTalk ==
    ASSUME NEW talk, NEW l, NEW k, Pipe!Trimmed(l) = Pipe!Trimmed(k)
    PROVE  Pipe!WithLine(talk, l) = Pipe!WithLine(talk, k)
BY DEF Pipe!WithLine

LEMMA TrimmedOfNothing == Pipe!Trimmed(<<>>) = <<>>
<1>1. {i \in DOMAIN <<>> : <<>>[i] \notin Pipe!Spaces} = {}
  OBVIOUS
<1> QED  BY <1>1 DEF Pipe!Trimmed

-----------------------------------------------------------------------------
(* The pipe up to a place *)

CutAt(w, p) == Pipe!Cut(SubSeq(w, 1, p))
TalkAt(w, p) == Pipe!Talk(CutAt(w, p).done)
AllTalk(w) == Pipe!Talk(Pipe!LinesOf(w))

Cuts == [done : Seq(String), open : String]

LEMMA CutsAreCuts == \A t \in String : Pipe!Cut(t) \in Cuts
<1>1. Pipe!NoLines \in Cuts
  BY DEF Pipe!NoLines, Cuts, String
<1>2. \A v \in Cuts, e \in STRING : Pipe!WithByte(v, e) \in Cuts
  BY DEF Pipe!WithByte, Cuts, String
<1> HIDE DEF Cuts
<1>3. \A t \in String : Cutting!Fold(0, t) \in Cuts
  BY <1>1, <1>2, Cutting!FoldHasType DEF String
<1> QED  BY <1>3, CutIsFold

LEMMA CutAtNext ==
    ASSUME NEW w \in String, NEW p \in Nat, p < Len(w)
    PROVE  /\ CutAt(w, p) \in Cuts
           /\ CutAt(w, p + 1) = Pipe!WithByte(CutAt(w, p), w[p + 1])
<1>1. SubSeq(w, 1, p) \in String /\ w[p + 1] \in STRING
      /\ SubSeq(w, 1, p + 1) = Append(SubSeq(w, 1, p), w[p + 1])
  BY DEF String
<1>2. Pipe!Cut(Append(SubSeq(w, 1, p), w[p + 1])) = Pipe!WithByte(CutAt(w, p), w[p + 1])
  BY <1>1, CutNext DEF CutAt
<1> QED  BY <1>1, <1>2, CutsAreCuts DEF CutAt

LEMMA CutAtEnds ==
    ASSUME NEW w \in String
    PROVE  CutAt(w, 0) = Pipe!NoLines /\ CutAt(w, Len(w)) = Pipe!Cut(w)
<1>1. SubSeq(w, 1, 0) = <<>> /\ SubSeq(w, 1, Len(w)) = w
  BY DEF String
<1> QED  BY <1>1, CutNone DEF CutAt

LEMMA CutAtType ==
    ASSUME NEW w \in String, NEW p \in 0..Len(w)
    PROVE  CutAt(w, p).done \in Seq(String) /\ CutAt(w, p).open \in String
<1>1. SubSeq(w, 1, p) \in String
  BY DEF String
<1>2. CutAt(w, p) \in Cuts
  BY <1>1, CutsAreCuts DEF CutAt
<1> QED  BY <1>2 DEF Cuts

\* Bytes that are no newlines follow each other in the open line.
LEMMA OpenGrows ==
    ASSUME NEW w \in String, NEW p \in 0..Len(w), CutAt(w, p).open = <<>>
    PROVE  \A n \in Nat :
              (p + n <= Len(w) /\ \A i \in 1..n : w[p + i] # Pipe!NEWLINE)
                  => CutAt(w, p + n) = [done |-> CutAt(w, p).done,
                                        open |-> SubSeq(w, p + 1, p + n)]
<1> DEFINE Grown(n) == CutAt(w, p + n) = [done |-> CutAt(w, p).done,
                                          open |-> SubSeq(w, p + 1, p + n)]
           Plain(n) == p + n <= Len(w) /\ \A i \in 1..n : w[p + i] # Pipe!NEWLINE
           T == {n \in Nat : Plain(n) => Grown(n)}
<1>0. Len(w) \in Nat /\ p \in Nat
  BY DEF String
<1>1. 0 \in T
  <2>1. CutAt(w, p) \in Cuts
    <3>1. SubSeq(w, 1, p) \in String
      BY DEF String
    <3> QED  BY <3>1, CutsAreCuts DEF CutAt
  <2>2. CutAt(w, p) = [done |-> CutAt(w, p).done, open |-> CutAt(w, p).open]
    BY <2>1 DEF Cuts
  <2>3. SubSeq(w, p + 1, p + 0) = <<>> /\ p + 0 = p
    BY <1>0 DEF String
  <2> QED  BY <2>2, <2>3
<1>2. ASSUME NEW n \in Nat, n \in T PROVE n + 1 \in T
  <2> SUFFICES ASSUME Plain(n + 1) PROVE Grown(n + 1)
    OBVIOUS
  <2>1. Plain(n) /\ p + n < Len(w) /\ w[p + n + 1] # Pipe!NEWLINE
    <3>1. p + n < Len(w) /\ p + n <= Len(w) /\ n + 1 \in 1..n + 1 /\ p + (n + 1) = p + n + 1
          /\ 1..n \subseteq 1..n + 1
      BY <1>0
    <3> QED  BY <3>1
  <2>2. Grown(n)
    BY <1>2, <2>1
  <2>3. CutAt(w, (p + n) + 1) = Pipe!WithByte(CutAt(w, p + n), w[(p + n) + 1])
    BY <1>0, <2>1, CutAtNext
  <2>4. SubSeq(w, p + 1, p + n + 1) = Append(SubSeq(w, p + 1, p + n), w[p + n + 1])
    BY <1>0, <2>1 DEF String
  <2>5. p + (n + 1) = p + n + 1
    BY <1>0
  <2>6. \A d, o, b : b # Pipe!NEWLINE =>
            Pipe!WithByte([done |-> d, open |-> o], b) = [done |-> d, open |-> Append(o, b)]
    BY DEF Pipe!WithByte
  <2>7. CutAt(w, p + n + 1) = [done |-> CutAt(w, p).done,
                               open |-> Append(SubSeq(w, p + 1, p + n), w[p + n + 1])]
    BY <2>1, <2>2, <2>3, <2>6, Zenon
  <2> QED  BY <2>4, <2>5, <2>7, Zenon
<1> HIDE DEF T
<1>3. \A n \in Nat : n \in T
  BY <1>1, <1>2, Cutting!SetInduction
<1> QED  BY <1>3 DEF T

\* A line that was that long at some place is no shorter in the end.
LongLine(c, n) ==
    Len(c.open) >= n \/ \E j \in DOMAIN c.done : Len(c.done[j]) >= n

LEMMA LongStaysLong ==
    ASSUME NEW w \in String, NEW p \in 0..Len(w)
    PROVE  \E j \in DOMAIN Pipe!LinesOf(w) :
              Len(Pipe!LinesOf(w)[j]) >= Len(CutAt(w, p).open)
<1> DEFINE n == Len(CutAt(w, p).open)
           T == {m \in Nat : p + m <= Len(w) => LongLine(CutAt(w, p + m), n)}
<1>0. Len(w) \in Nat /\ p \in Nat /\ n \in Nat
  BY CutAtType DEF String
<1> HIDE DEF n
<1>1. 0 \in T
  <2>1. LongLine(CutAt(w, p), n)
    BY <1>0 DEF LongLine, n
  <2>2. p + 0 = p
    BY <1>0
  <2> QED  BY <2>1, <2>2
<1>2. ASSUME NEW m \in Nat, m \in T PROVE m + 1 \in T
  <2> SUFFICES ASSUME p + (m + 1) <= Len(w) PROVE LongLine(CutAt(w, p + (m + 1)), n)
    OBVIOUS
  <2> DEFINE c == CutAt(w, p + m)
  <2>1. LongLine(c, n) /\ p + m \in Nat /\ p + m < Len(w)
    BY <1>0, <1>2
  <2>2. CutAt(w, (p + m) + 1) = Pipe!WithByte(c, w[(p + m) + 1]) /\ c \in Cuts
    BY <2>1, CutAtNext
  <2> HIDE DEF c
  <2>3. c.done \in Seq(String) /\ c.open \in Seq(STRING) /\ w[(p + m) + 1] \in STRING
    BY <2>1, <2>2, <1>0 DEF Cuts, String
  <2>4. \A b \in STRING : LongLine(Pipe!WithByte(c, b), n)
    <3> TAKE b \in STRING
    <3> DEFINE d == Append(c.done, c.open)
    <3>1. /\ \A j \in DOMAIN c.done : j \in DOMAIN d /\ d[j] = c.done[j]
          /\ Len(c.done) + 1 \in DOMAIN d /\ d[Len(c.done) + 1] = c.open
      BY <2>3
    <3> HIDE DEF d
    <3>2. \E j \in DOMAIN d : Len(d[j]) >= n
      BY <2>1, <3>1, Zenon DEF LongLine
    <3>3. Len(Append(c.open, b)) = Len(c.open) + 1 /\ Len(c.open) \in Nat
      BY <2>3
    <3>4. CASE b = Pipe!NEWLINE
      <4>1. Pipe!WithByte(c, b).done = d
        BY <3>4 DEF Pipe!WithByte, d
      <4> QED  BY <3>2, <4>1 DEF LongLine
    <3>5. CASE b # Pipe!NEWLINE
      <4>1. Pipe!WithByte(c, b).done = c.done
            /\ Pipe!WithByte(c, b).open = Append(c.open, b)
        BY <3>5 DEF Pipe!WithByte
      <4>2. Len(c.open) >= n => Len(Append(c.open, b)) >= n
        BY <3>3, <1>0
      <4> QED  BY <2>1, <4>1, <4>2, Zenon DEF LongLine
    <3> QED  BY <3>4, <3>5
  <2>5. (p + m) + 1 = p + (m + 1)
    BY <1>0
  <2> QED  BY <2>2, <2>3, <2>4, <2>5
<1> HIDE DEF T
<1>3. \A m \in Nat : m \in T
  BY <1>1, <1>2, Cutting!SetInduction
<1>4. LongLine(Pipe!Cut(w), n)
  <2>1. Len(w) - p \in Nat /\ p + (Len(w) - p) = Len(w)
    BY <1>0
  <2>2. Len(w) - p \in T
    BY <2>1, <1>3
  <2>3. LongLine(CutAt(w, Len(w)), n)
    BY <2>1, <2>2, <1>0 DEF T
  <2> QED  BY <2>3, CutAtEnds
<1>5. Pipe!Cut(w) \in Cuts
  BY CutsAreCuts
<1> DEFINE c == Pipe!Cut(w)
<1>6. /\ \A j \in DOMAIN c.done : j \in DOMAIN Pipe!LinesOf(w) /\ Pipe!LinesOf(w)[j] = c.done[j]
      /\ Len(c.done) + 1 \in DOMAIN Pipe!LinesOf(w)
      /\ Pipe!LinesOf(w)[Len(c.done) + 1] = c.open
  <2>1. c.done \in Seq(String) /\ c.open \in String
    BY <1>5 DEF Cuts
  <2> HIDE DEF c
  <2>2. Pipe!LinesOf(w) = Append(c.done, c.open)
    BY DEF Pipe!LinesOf, c
  <2> QED  BY <2>1, <2>2
<1> HIDE DEF c
<1>7. \E j \in DOMAIN Pipe!LinesOf(w) : Len(Pipe!LinesOf(w)[j]) >= n
  BY <1>4, <1>6, Zenon DEF LongLine, c
<1> QED  BY <1>7 DEF n

-----------------------------------------------------------------------------
(* What has been said is never unsaid *)

Talks == [said : Seq(String), over : BOOLEAN]
Extends(a, b) == Pipe!IsPrefix(a.said, b.said) /\ (a.over => b = a)

LEMMA PrefixOfItself ==
    ASSUME NEW s \in Seq(String) PROVE Pipe!IsPrefix(s, s)
BY DEF Pipe!IsPrefix

LEMMA PrefixOfPrefix ==
    ASSUME NEW a \in Seq(String), NEW b \in Seq(String), NEW c \in Seq(String),
           Pipe!IsPrefix(a, b), Pipe!IsPrefix(b, c)
    PROVE  Pipe!IsPrefix(a, c)
<1>1. /\ Len(a) \in Nat /\ Len(b) \in Nat /\ Len(c) \in Nat
      /\ Len(a) <= Len(b) /\ Len(b) <= Len(c)
      /\ SubSeq(a, 1, Len(a)) = SubSeq(b, 1, Len(a))
      /\ SubSeq(b, 1, Len(b)) = SubSeq(c, 1, Len(b))
  BY DEF Pipe!IsPrefix
<1>2. SubSeq(b, 1, Len(b)) = b
  OBVIOUS
<1>3. \A i \in 1..Len(b) : b[i] = c[i]
  BY <1>1, <1>2
<1>4. SubSeq(b, 1, Len(a)) = SubSeq(c, 1, Len(a))
  BY <1>1, <1>3
<1> QED  BY <1>1, <1>4 DEF Pipe!IsPrefix

LEMMA PrefixOfMore ==
    ASSUME NEW s \in Seq(String), NEW e \in String
    PROVE  Pipe!IsPrefix(s, Append(s, e))
BY DEF Pipe!IsPrefix

LEMMA LineExtends ==
    ASSUME NEW talk \in Talks, NEW l \in String
    PROVE  Pipe!WithLine(talk, l) \in Talks /\ Extends(talk, Pipe!WithLine(talk, l))
<1>1. Pipe!Trimmed(l) \in String
  BY TrimmedIsAString
<1>2. talk.said \in Seq(String) /\ talk.over \in BOOLEAN
  BY DEF Talks
<1>3. Append(talk.said, Pipe!Trimmed(l)) \in Seq(String)
      /\ Pipe!IsPrefix(talk.said, Append(talk.said, Pipe!Trimmed(l)))
      /\ Pipe!IsPrefix(talk.said, talk.said)
  <2>1. \A e \in String : Append(talk.said, e) \in Seq(String)
    BY <1>2
  <2> QED  BY <1>1, <1>2, <2>1, PrefixOfMore, PrefixOfItself
<1>4. CASE talk.over
  BY <1>3, <1>4 DEF Pipe!WithLine, Extends
<1>5. CASE ~talk.over
  BY <1>2, <1>3, <1>5 DEF Pipe!WithLine, Extends, Talks
<1> QED  BY <1>4, <1>5

LEMMA ExtendsTwice ==
    ASSUME NEW a \in Talks, NEW b \in Talks, NEW c \in Talks, Extends(a, b), Extends(b, c)
    PROVE  Extends(a, c)
<1>1. a.said \in Seq(String) /\ b.said \in Seq(String) /\ c.said \in Seq(String)
  BY DEF Talks
<1>2. Pipe!IsPrefix(a.said, b.said) /\ Pipe!IsPrefix(b.said, c.said)
  BY DEF Extends
<1>3. Pipe!IsPrefix(a.said, c.said)
  BY <1>1, <1>2, PrefixOfPrefix
<1> QED  BY <1>3 DEF Extends

LEMMA TalksAreTalks ==
    ASSUME NEW w \in String, NEW p \in 0..Len(w)
    PROVE  TalkAt(w, p) \in Talks
<1>1. Pipe!Silence \in Talks
  BY DEF Pipe!Silence, Talks
<1>2. \A v \in Talks, e \in String : Pipe!WithLine(v, e) \in Talks
  BY LineExtends
<1> HIDE DEF Talks
<1>3. \A ls \in Seq(String) : Talking!Fold(0, ls) \in Talks
  BY <1>1, <1>2, Talking!FoldHasType
<1>4. CutAt(w, p).done \in Seq(String)
  BY CutAtType
<1> QED  BY <1>3, <1>4, TalkIsFold DEF TalkAt

\* One byte more says what the open line says, when the byte ends it.
LEMMA TalkAtNext ==
    ASSUME NEW w \in String, NEW p \in Nat, p < Len(w)
    PROVE  TalkAt(w, p + 1) = IF w[p + 1] = Pipe!NEWLINE
                              THEN Pipe!WithLine(TalkAt(w, p), CutAt(w, p).open)
                              ELSE TalkAt(w, p)
<1>1. p \in 0..Len(w)
  BY DEF String
<1>2. CutAt(w, p).done \in Seq(String) /\ CutAt(w, p).open \in String
  BY <1>1, CutAtType
<1>3. Pipe!Talk(Append(CutAt(w, p).done, CutAt(w, p).open))
          = Pipe!WithLine(TalkAt(w, p), CutAt(w, p).open)
  BY <1>2, TalkNext DEF TalkAt
<1>4. CutAt(w, p + 1) = Pipe!WithByte(CutAt(w, p), w[p + 1])
  BY CutAtNext
<1>5. w[p + 1] = Pipe!NEWLINE =>
          CutAt(w, p + 1).done = Append(CutAt(w, p).done, CutAt(w, p).open)
  BY <1>4 DEF Pipe!WithByte
<1>6. w[p + 1] # Pipe!NEWLINE => CutAt(w, p + 1).done = CutAt(w, p).done
  BY <1>4 DEF Pipe!WithByte
<1> QED  BY <1>3, <1>5, <1>6, Zenon DEF TalkAt

LEMMA TalkEnds ==
    ASSUME NEW w \in String
    PROVE  /\ TalkAt(w, 0) = Pipe!Silence
           /\ AllTalk(w) = Pipe!WithLine(TalkAt(w, Len(w)), CutAt(w, Len(w)).open)
<1>1. CutAt(w, 0).done = <<>>
  BY CutAtEnds DEF Pipe!NoLines
<1>2. Len(w) \in 0..Len(w)
  BY DEF String
<1>3. CutAt(w, Len(w)).done \in Seq(String) /\ CutAt(w, Len(w)).open \in String
  BY <1>2, CutAtType
<1>4. Pipe!LinesOf(w) = Append(CutAt(w, Len(w)).done, CutAt(w, Len(w)).open)
  BY CutAtEnds DEF Pipe!LinesOf
<1>5. AllTalk(w) = Pipe!WithLine(TalkAt(w, Len(w)), CutAt(w, Len(w)).open)
  BY <1>3, <1>4, TalkNext DEF AllTalk, TalkAt
<1> QED  BY <1>1, <1>5, TalkNone DEF TalkAt

LEMMA TalkGrows ==
    ASSUME NEW w \in String, NEW p \in 0..Len(w)
    PROVE  AllTalk(w) \in Talks /\ Extends(TalkAt(w, p), AllTalk(w))
<1> DEFINE T == {m \in Nat : p + m <= Len(w) => Extends(TalkAt(w, p), TalkAt(w, p + m))}
<1>0. Len(w) \in Nat /\ p \in Nat
  BY DEF String
<1>1. 0 \in T
  <2>1. TalkAt(w, p).said \in Seq(String)
    BY TalksAreTalks DEF Talks
  <2>2. Extends(TalkAt(w, p), TalkAt(w, p))
    BY <2>1, PrefixOfItself DEF Extends
  <2>3. p + 0 = p
    BY <1>0
  <2> QED  BY <2>2, <2>3
<1>2. ASSUME NEW m \in Nat, m \in T PROVE m + 1 \in T
  <2> SUFFICES ASSUME p + (m + 1) <= Len(w)
               PROVE  Extends(TalkAt(w, p), TalkAt(w, p + (m + 1)))
    OBVIOUS
  <2> DEFINE q == p + m
  <2>1. q \in Nat /\ q < Len(w) /\ q + 1 = p + (m + 1) /\ q \in 0..Len(w) /\ q + 1 \in 0..Len(w)
    BY <1>0
  <2>2. Extends(TalkAt(w, p), TalkAt(w, q))
    BY <1>2, <2>1, <1>0
  <2> HIDE DEF q
  <2>3. TalkAt(w, p) \in Talks /\ TalkAt(w, q) \in Talks /\ TalkAt(w, q + 1) \in Talks
    BY <2>1, TalksAreTalks
  <2>4. CutAt(w, q).open \in String
    BY <2>1, CutAtType
  <2>5. Extends(TalkAt(w, q), Pipe!WithLine(TalkAt(w, q), CutAt(w, q).open))
    BY <2>3, <2>4, LineExtends
  <2>6. TalkAt(w, q).said \in Seq(String)
    BY <2>3 DEF Talks
  <2>7. Extends(TalkAt(w, q), TalkAt(w, q))
    BY <2>6, PrefixOfItself DEF Extends
  <2>8. Extends(TalkAt(w, q), TalkAt(w, q + 1))
    BY <2>1, <2>5, <2>7, TalkAtNext
  <2>9. Extends(TalkAt(w, p), TalkAt(w, q + 1))
    BY <2>2, <2>3, <2>8, ExtendsTwice
  <2> QED  BY <2>1, <2>9
<1> HIDE DEF T
<1>3. \A m \in Nat : m \in T
  BY <1>1, <1>2, Cutting!SetInduction
<1>4. Extends(TalkAt(w, p), TalkAt(w, Len(w)))
  <2>1. Len(w) - p \in Nat /\ p + (Len(w) - p) = Len(w)
    BY <1>0
  <2>2. Len(w) - p \in T
    BY <2>1, <1>3
  <2> QED  BY <2>1, <2>2, <1>0 DEF T
<1>5. Len(w) \in 0..Len(w)
  BY <1>0
<1>6. TalkAt(w, p) \in Talks /\ TalkAt(w, Len(w)) \in Talks /\ CutAt(w, Len(w)).open \in String
  BY <1>5, TalksAreTalks, CutAtType
<1>7. AllTalk(w) \in Talks /\ Extends(TalkAt(w, Len(w)), AllTalk(w))
  BY <1>6, TalkEnds, LineExtends
<1> QED  BY <1>4, <1>6, <1>7, ExtendsTwice

-----------------------------------------------------------------------------
(* The inductive invariant of the piped REPL *)

TailOf(u, w) == Len(u) <= Len(w) /\ u = SubSeq(w, Len(w) - Len(u) + 1, Len(w))

PipeTyped ==
    /\ piped \in String /\ unread \in String /\ TailOf(unread, piped)
    /\ broken \in BOOLEAN
    /\ got \in String /\ Len(got) < BUFFER_SIZE
    /\ said \in Seq(String)
    /\ \A i \in DOMAIN said : Len(said[i]) \in 1..BUFFER_SIZE - 1
    /\ at \in {"prompt", "run", "exited"}

LinesAreShort ==
    \A j \in DOMAIN Pipe!LinesOf(piped) : Len(Pipe!LinesOf(piped)[j]) + 2 <= BUFFER_SIZE

\* Where the pipe has been read to.
Place == Len(piped) - Len(unread)
SoFar == [said |-> said, over |-> FALSE]

\* The talk of the lines that have been read.  The last line of the pipe may lack its
\* newline: then all has been read, but the line is still open.
Heeded(talk) ==
    \/ CutAt(piped, Place).open = <<>> /\ TalkAt(piped, Place) = talk
    \/ unread = <<>> /\ AllTalk(piped) = talk

Followed ==
    ~broken /\ LinesAreShort =>
        /\ at = "prompt" => Heeded(SoFar)
        /\ at = "run" => Heeded(Pipe!WithLine(SoFar, got))
        /\ at = "exited" => AllTalk(piped).said = said

LEMMA TailsOfTails ==
    ASSUME NEW w \in String, NEW u \in String, TailOf(u, w), NEW k \in 0..Len(u)
    PROVE  LET v == SubSeq(u, k + 1, Len(u))
           IN  v \in String /\ TailOf(v, w) /\ Len(v) = Len(u) - k
<1> DEFINE v == SubSeq(u, k + 1, Len(u))
<1>0. Len(w) \in Nat /\ Len(u) \in Nat /\ Len(u) <= Len(w)
      /\ u = SubSeq(w, Len(w) - Len(u) + 1, Len(w))
  BY DEF String, TailOf
<1>1. v \in String /\ Len(v) = Len(u) - k
  BY DEF String
<1>2. \A i \in 1..Len(u) : u[i] = w[Len(w) - Len(u) + i]
  BY <1>0 DEF String
<1>3. \A i \in 1..Len(u) - k : v[i] = w[Len(w) - Len(u) + k + i]
  <2>1. \A i \in 1..Len(u) - k : v[i] = u[k + i] /\ k + i \in 1..Len(u)
    BY <1>0 DEF String
  <2> HIDE DEF v
  <2> TAKE i \in 1..Len(u) - k
  <2>2. v[i] = w[Len(w) - Len(u) + (k + i)]
    BY <1>2, <2>1
  <2>3. Len(w) - Len(u) + (k + i) = Len(w) - Len(u) + k + i
    BY <1>0
  <2> QED  BY <2>2, <2>3
<1> HIDE DEF v
<1>4. v = SubSeq(w, Len(w) - Len(v) + 1, Len(w))
  <2> DEFINE x == SubSeq(w, Len(w) - (Len(u) - k) + 1, Len(w))
  <2>1. \A a \in 1..Len(w) + 1 :
            /\ SubSeq(w, a, Len(w)) \in String /\ Len(SubSeq(w, a, Len(w))) = Len(w) - a + 1
            /\ \A i \in 1..Len(w) - a + 1 : SubSeq(w, a, Len(w))[i] = w[a + i - 1]
    BY <1>0 DEF String
  <2> DEFINE a == Len(w) - (Len(u) - k) + 1
  <2>2. a \in 1..Len(w) + 1 /\ Len(w) - a + 1 = Len(u) - k
        /\ \A i \in Int : a + i - 1 = Len(w) - Len(u) + k + i
    BY <1>0
  <2> HIDE DEF x, a
  <2>3. x = SubSeq(w, a, Len(w))
    BY DEF x, a
  <2>4. x \in String /\ Len(x) = Len(v) /\ \A i \in 1..Len(v) : x[i] = v[i]
    <3>1. x \in String /\ Len(x) = Len(u) - k
      BY <2>1, <2>2, <2>3
    <3>2. ASSUME NEW i \in 1..Len(u) - k PROVE x[i] = v[i]
      <4>1. x[i] = w[a + i - 1] /\ i \in Int
        BY <2>1, <2>2, <2>3
      <4> QED  BY <1>3, <2>2, <4>1
    <3> QED  BY <1>1, <3>1, <3>2
  <2>5. x = v
    BY <1>1, <2>4, SeqEqual DEF String
  <2> QED  BY <1>1, <2>5 DEF x
<1>5. Len(v) <= Len(w)
  BY <1>0, <1>1
<1> QED  BY <1>1, <1>4, <1>5 DEF v, TailOf

\* What fgets takes: up to a newline, all there is, or what the buffer holds.
LEMMA ChunkOf ==
    ASSUME PipeConstants, unread \in String, unread # <<>>
    PROVE  /\ Pipe!ChunkLength \in 1..Len(unread)
           /\ Pipe!ChunkLength <= BUFFER_SIZE - 1
           /\ \A i \in 1..Pipe!ChunkLength - 1 : unread[i] # Pipe!NEWLINE
           /\ \/ unread[Pipe!ChunkLength] = Pipe!NEWLINE
              \/ Pipe!ChunkLength \in {BUFFER_SIZE - 1, Len(unread)}
<1> DEFINE ends == {i \in DOMAIN unread : unread[i] = Pipe!NEWLINE}
           d == {BUFFER_SIZE - 1, Len(unread)} \cup ends
<1>1. Len(unread) \in Nat /\ Len(unread) >= 1 /\ BUFFER_SIZE - 1 \in Nat /\ BUFFER_SIZE - 1 >= 1
  BY DEF PipeConstants, String
<1>2. ends \in SUBSET (1..Len(unread))
  BY DEF String
<1>3. Min(d) = Pipe!ChunkLength
  BY DEF Pipe!ChunkLength, Min, Pipe!Min
<1>4. d \in SUBSET Nat /\ d # {} /\ BUFFER_SIZE - 1 \in d /\ Len(unread) \in d
      /\ \A i \in d : i >= 1
  BY <1>1, <1>2
<1>5. \A i \in 1..Len(unread) : unread[i] = Pipe!NEWLINE => i \in d
  BY DEF String
<1>6. \A i \in d : unread[i] = Pipe!NEWLINE \/ i \in {BUFFER_SIZE - 1, Len(unread)}
  OBVIOUS
<1> HIDE DEF d
<1>7. Min(d) \in d /\ \A i \in d : Min(d) <= i
  BY <1>4, Cutting!FirstOf DEF Min, Cutting!Min
<1>8. Pipe!ChunkLength \in 1..Len(unread) /\ Pipe!ChunkLength <= BUFFER_SIZE - 1
  <2>1. Pipe!ChunkLength \in Nat /\ Pipe!ChunkLength >= 1
        /\ Pipe!ChunkLength <= BUFFER_SIZE - 1 /\ Pipe!ChunkLength <= Len(unread)
    BY <1>3, <1>4, <1>7
  <2> QED  BY <1>1, <2>1
<1>9. ASSUME NEW i \in 1..Pipe!ChunkLength - 1 PROVE unread[i] # Pipe!NEWLINE
  <2>1. i \in 1..Len(unread) /\ ~(Pipe!ChunkLength <= i)
    BY <1>1, <1>8
  <2> QED  BY <1>3, <1>5, <1>7, <2>1
<1> QED  BY <1>3, <1>6, <1>7, <1>8, <1>9

\* The bytes that are left, as bytes of the pipe.
LEMMA SameBytes ==
    ASSUME PipeTyped
    PROVE  /\ Place \in 0..Len(piped) /\ Place + Len(unread) = Len(piped)
           /\ \A i \in 1..Len(unread) : unread[i] = piped[Place + i]
           /\ \A j \in 0..Len(unread) :
                 SubSeq(unread, 1, j) = SubSeq(piped, Place + 1, Place + j)
<1>0. /\ Len(piped) \in Nat /\ Len(unread) \in Nat /\ Len(unread) <= Len(piped)
      /\ unread = SubSeq(piped, Len(piped) - Len(unread) + 1, Len(piped))
      /\ piped \in Seq(STRING) /\ unread \in Seq(STRING)
  BY DEF PipeTyped, TailOf, String
<1>1. /\ Place \in Int /\ Place \in 0..Len(piped) /\ Place + Len(unread) = Len(piped)
      /\ unread = SubSeq(piped, Place + 1, Len(piped))
  BY <1>0 DEF Place
<1> HIDE DEF Place
<1>2. ASSUME NEW i \in 1..Len(unread) PROVE unread[i] = piped[Place + i]
  BY <1>0, <1>1
<1>3. ASSUME NEW j \in 0..Len(unread)
      PROVE  SubSeq(unread, 1, j) = SubSeq(piped, Place + 1, Place + j)
  <2> DEFINE x == SubSeq(unread, 1, j)
             y == SubSeq(piped, Place + 1, Place + j)
  <2>1. x \in Seq(STRING) /\ Len(x) = j /\ \A i \in 1..j : x[i] = unread[i]
    BY <1>0
  <2>2. /\ y \in Seq(STRING) /\ Len(y) = j
        /\ \A i \in 1..j : y[i] = piped[Place + i]
    <3>1. Place + j <= Len(piped) /\ j \in Nat /\ Place \in Nat
      BY <1>0, <1>1
    <3> QED  BY <1>0, <3>1
  <2> HIDE DEF x, y
  <2>3. \A i \in 1..Len(x) : x[i] = y[i]
    BY <1>0, <1>2, <2>1, <2>2
  <2>4. x = y
    BY <2>1, <2>2, <2>3, SeqEqual
  <2> QED  BY <2>4 DEF x, y
<1> QED  BY <1>1, <1>2, <1>3

\* What a call of fgets takes off the pipe between two lines: a line or, at the end of
\* the pipe, the line without a newline.
TakesALine(k) ==
    /\ CutAt(piped, Place + k).open = <<>>
    /\ TalkAt(piped, Place + k)
           = Pipe!WithLine(TalkAt(piped, Place), SubSeq(unread, 1, k))
TakesTheRest(k) ==
    /\ k = Len(unread)
    /\ AllTalk(piped) = Pipe!WithLine(TalkAt(piped, Place), SubSeq(unread, 1, k))

LEMMA ChunkIsALine ==
    ASSUME PipeConstants, PipeTyped, LinesAreShort, unread # <<>>,
           CutAt(piped, Place).open = <<>>
    PROVE  TakesALine(Pipe!ChunkLength) \/ TakesTheRest(Pipe!ChunkLength)
<1> DEFINE k == Pipe!ChunkLength
           w == piped
           done == CutAt(w, Place).done
<1>0. w \in String /\ unread \in String
  BY DEF PipeTyped
<1>1. /\ k \in 1..Len(unread) /\ k <= BUFFER_SIZE - 1
      /\ \A i \in 1..k - 1 : unread[i] # Pipe!NEWLINE
      /\ unread[k] = Pipe!NEWLINE \/ k \in {BUFFER_SIZE - 1, Len(unread)}
  BY <1>0, ChunkOf
<1>2. /\ Place \in 0..Len(w) /\ Place + Len(unread) = Len(w) /\ Len(w) \in Nat
      /\ Len(unread) \in Nat
      /\ \A i \in 1..Len(unread) : unread[i] = w[Place + i]
      /\ \A j \in 0..Len(unread) : SubSeq(unread, 1, j) = SubSeq(w, Place + 1, Place + j)
  BY <1>0, SameBytes DEF String
<1> HIDE DEF k, w, Place
<1>3. k \in Nat /\ k >= 1 /\ k - 1 \in Nat /\ Place \in Nat /\ Place + k <= Len(w)
      /\ Place + (k - 1) < Len(w) /\ Place + (k - 1) \in Nat
      /\ (Place + (k - 1)) + 1 = Place + k
      /\ k \in 0..Len(unread) /\ k - 1 \in 0..Len(unread)
  BY <1>1, <1>2
<1>4. CutAt(w, Place).open = <<>>
  BY DEF w
<1>5. \A n \in Nat : (Place + n <= Len(w) /\ \A i \in 1..n : w[Place + i] # Pipe!NEWLINE)
          => CutAt(w, Place + n) = [done |-> done, open |-> SubSeq(w, Place + 1, Place + n)]
  BY <1>0, <1>2, <1>4, OpenGrows
<1>6. TalkAt(w, Place) = Pipe!Talk(done)
  BY DEF TalkAt
<1> HIDE DEF done
<1>7. unread[k] = w[Place + k]
  BY <1>1, <1>2
<1>8. \A i \in 1..k - 1 : w[Place + i] # Pipe!NEWLINE
  <2>1. \A i \in 1..k - 1 : i \in 1..Len(unread)
    BY <1>1, <1>2
  <2> QED  BY <1>1, <1>2, <2>1
<1>9. CASE unread[k] = Pipe!NEWLINE
  <2> DEFINE q == Place + (k - 1)
  <2>1. q \in Nat /\ q < Len(w) /\ q + 1 = Place + k
    BY <1>3
  <2>2. CutAt(w, q) = [done |-> done, open |-> SubSeq(unread, 1, k - 1)]
    <3>1. q <= Len(w)
      BY <1>2, <2>1
    <3>2. CutAt(w, q) = [done |-> done, open |-> SubSeq(w, Place + 1, q)]
      BY <1>3, <1>5, <1>8, <3>1
    <3> QED  BY <1>2, <1>3, <3>2
  <2> HIDE DEF q
  <2>3. w[q + 1] = Pipe!NEWLINE
    BY <1>7, <1>9, <2>1
  <2>4. CutAt(w, q + 1).open = <<>>
    <3>1. CutAt(w, q + 1) = Pipe!WithByte(CutAt(w, q), w[q + 1])
      BY <1>0, <2>1, CutAtNext DEF w
    <3> QED  BY <2>3, <3>1 DEF Pipe!WithByte
  <2>5. TalkAt(w, q + 1) = Pipe!WithLine(TalkAt(w, q), CutAt(w, q).open)
    BY <1>0, <2>1, <2>3, TalkAtNext DEF w
  <2>6. TalkAt(w, q) = TalkAt(w, Place)
    BY <1>6, <2>2 DEF TalkAt
  <2>7. Pipe!Trimmed(SubSeq(unread, 1, k - 1)) = Pipe!Trimmed(SubSeq(unread, 1, k))
    <3> DEFINE t == SubSeq(unread, 1, k)
    <3>1. t \in String /\ Len(t) = k /\ SubSeq(t, 1, k - 1) = SubSeq(unread, 1, k - 1)
          /\ t[k] = unread[k]
      BY <1>0, <1>1, <1>3 DEF String
    <3> HIDE DEF t
    <3>2. k - 1 \in 0..Len(t) /\ \A i \in (k - 1) + 1..Len(t) : i = k
      BY <1>3, <3>1
    <3>3. \A i \in (k - 1) + 1..Len(t) : t[i] \in Pipe!Spaces
      BY <1>9, <3>1, <3>2 DEF Pipe!Spaces
    <3>4. Pipe!Trimmed(SubSeq(t, 1, k - 1)) = Pipe!Trimmed(t)
      BY <3>1, <3>2, <3>3, TrimmedOfStart
    <3> QED  BY <3>1, <3>4 DEF t
  <2>8. TalkAt(w, q + 1) = Pipe!WithLine(TalkAt(w, Place), SubSeq(unread, 1, k))
    BY <2>2, <2>5, <2>6, <2>7, SameTalk
  <2>9. TakesALine(k)
    BY <2>1, <2>4, <2>8 DEF TakesALine, w
  <2> QED  BY <2>9 DEF k
<1>10. CASE unread[k] # Pipe!NEWLINE
  <2>1. \A i \in 1..k : w[Place + i] # Pipe!NEWLINE
    <3>1. \A i \in 1..k : i \in 1..k - 1 \/ i = k
      BY <1>3
    <3> QED  BY <1>7, <1>8, <1>10, <3>1
  <2>2. CutAt(w, Place + k) = [done |-> done, open |-> SubSeq(unread, 1, k)]
    BY <1>2, <1>3, <1>5, <2>1
  <2>3. Len(SubSeq(unread, 1, k)) = k
    BY <1>0, <1>1, <1>3 DEF String
  <2>4. k + 2 <= BUFFER_SIZE
    <3>1. Place + k \in 0..Len(w)
      BY <1>2, <1>3
    <3>2. PICK j \in DOMAIN Pipe!LinesOf(w) : Len(Pipe!LinesOf(w)[j]) >= k
      <4>1. Len(CutAt(w, Place + k).open) = k
        <5>1. CutAt(w, Place + k).open = SubSeq(unread, 1, k)
          BY <2>2
        <5> QED  BY <2>3, <5>1, Zenon
      <4> QED  BY <1>0, <3>1, <4>1, LongStaysLong, Zenon
    <3>3. Pipe!LinesOf(w) \in Seq(String)
      <4>1. Pipe!Cut(w) \in Cuts
        BY <1>0, CutsAreCuts DEF w
      <4>2. Pipe!Cut(w).done \in Seq(String) /\ Pipe!Cut(w).open \in String
        BY <4>1 DEF Cuts
      <4> QED  BY <4>2 DEF Pipe!LinesOf
    <3>4. Len(Pipe!LinesOf(w)[j]) \in Nat
      <4>1. Pipe!LinesOf(w)[j] \in String
        BY <3>3
      <4> QED  BY <4>1 DEF String
    <3>5. Len(Pipe!LinesOf(w)[j]) + 2 <= BUFFER_SIZE
      BY DEF LinesAreShort, w
    <3> QED  BY <1>3, <3>2, <3>4, <3>5 DEF PipeConstants
  <2>5. k = Len(unread)
    BY <1>1, <1>3, <1>10, <2>4 DEF PipeConstants
  <2>6. AllTalk(w) = Pipe!WithLine(TalkAt(w, Len(w)), CutAt(w, Len(w)).open)
    BY <1>0, TalkEnds DEF w
  <2>7. Len(w) = Place + k
    BY <1>2, <2>5
  <2>8. TalkAt(w, Len(w)) = TalkAt(w, Place) /\ CutAt(w, Len(w)).open = SubSeq(unread, 1, k)
    BY <1>6, <2>2, <2>7 DEF TalkAt
  <2>9. TakesTheRest(k)
    BY <2>5, <2>6, <2>8 DEF TakesTheRest, w
  <2> QED  BY <2>9 DEF k
<1> QED  BY <1>9, <1>10

-----------------------------------------------------------------------------
(* The steps *)

PipeInv == PipeTyped /\ Followed

LEMMA PipeStarts ==
    ASSUME PipeConstants, Pipe!Init PROVE PipeInv
<1>1. piped \in String /\ unread = piped /\ broken = FALSE /\ got = <<>> /\ said = <<>>
      /\ at = "prompt"
  BY DEF Pipe!Init, PipeConstants, String
<1>2. TailOf(unread, piped)
  BY <1>1 DEF TailOf, String
<1>3. PipeTyped
  <2>1. got \in String /\ Len(got) < BUFFER_SIZE
    BY <1>1 DEF PipeConstants, String
  <2>2. said \in Seq(String) /\ DOMAIN said = {}
    BY <1>1
  <2> QED  BY <1>1, <1>2, <2>1, <2>2 DEF PipeTyped
<1>4. Place = 0
  BY <1>1 DEF Place, String
<1>5. CutAt(piped, 0).open = <<>> /\ TalkAt(piped, 0) = SoFar
  <2>1. SoFar = Pipe!Silence
    BY <1>1 DEF SoFar, Pipe!Silence
  <2> QED  BY <1>1, <2>1, CutAtEnds, TalkEnds DEF Pipe!NoLines
<1>6. Followed
  BY <1>1, <1>4, <1>5 DEF Followed, Heeded
<1> QED  BY <1>3, <1>6 DEF PipeInv

LEMMA PipeStutters ==
    ASSUME PipeInv, UNCHANGED Pipe!vars PROVE PipeInv'
<1>1. /\ piped' = piped /\ unread' = unread /\ broken' = broken /\ got' = got
      /\ said' = said /\ at' = at
  BY DEF Pipe!vars
<1>2. PipeTyped'
  BY <1>1 DEF PipeInv, PipeTyped
<1>3. Followed'
  BY <1>1 DEF PipeInv, Followed, Heeded, SoFar, Place, LinesAreShort
<1> QED  BY <1>2, <1>3 DEF PipeInv

LEMMA FgetsLineKeeps ==
    ASSUME PipeConstants, PipeInv, Pipe!FgetsLine PROVE PipeInv'
<1> DEFINE k == Pipe!ChunkLength
           chunk == SubSeq(unread, 1, k)
<1>1. /\ at = "prompt" /\ unread # <<>>
      /\ got' = Pipe!WithoutEnding(chunk)
      /\ unread' = SubSeq(unread, k + 1, Len(unread))
      /\ at' = "run"
      /\ piped' = piped /\ broken' = broken /\ said' = said
  BY DEF Pipe!FgetsLine
<1>2. PipeTyped
  BY DEF PipeInv
<1>3. piped \in String /\ unread \in String /\ TailOf(unread, piped)
  BY <1>2 DEF PipeTyped
<1>4. k \in 1..Len(unread) /\ k <= BUFFER_SIZE - 1 /\ Len(unread) \in Nat
  <2>1. Len(unread) \in Nat
    BY <1>3 DEF String
  <2> QED  BY <1>1, <1>3, <2>1, ChunkOf
<1> HIDE DEF k
<1>5. chunk \in String /\ Len(chunk) = k
  BY <1>3, <1>4 DEF String
<1> HIDE DEF chunk
<1>6. got' \in String /\ Len(got') <= k /\ Pipe!Trimmed(got') = Pipe!Trimmed(chunk)
  BY <1>1, <1>5, TrimmedOfLine
<1>7. unread' \in String /\ TailOf(unread', piped) /\ Len(unread') = Len(unread) - k
  <2>1. k \in 0..Len(unread)
    BY <1>4
  <2> QED  BY <1>1, <1>3, <2>1, TailsOfTails
<1>8. PipeTyped'
  <2>1. Len(got') < BUFFER_SIZE
    <3>1. Len(got') \in Nat /\ BUFFER_SIZE \in Nat
      BY <1>6 DEF String, PipeConstants
    <3> QED  BY <1>4, <1>6, <3>1
  <2> QED  BY <1>1, <1>2, <1>6, <1>7, <2>1 DEF PipeTyped
<1>9. Followed'
  <2> SUFFICES ASSUME ~broken, LinesAreShort
               PROVE  Heeded(Pipe!WithLine(SoFar, got))'
    BY <1>1 DEF Followed, LinesAreShort
  <2>1. Heeded(SoFar)
    BY <1>1 DEF PipeInv, Followed
  <2>2. CutAt(piped, Place).open = <<>> /\ TalkAt(piped, Place) = SoFar
    BY <1>1, <2>1 DEF Heeded
  <2>3. Place' = Place + k
    <3>1. Place' = Len(piped) - Len(unread')
      BY <1>1 DEF Place
    <3>2. Len(piped) \in Nat /\ Len(unread) \in Nat /\ k \in Nat
      BY <1>3, <1>4 DEF String
    <3> QED  BY <1>7, <3>1, <3>2 DEF Place
  <2>4. TakesALine(k) \/ TakesTheRest(k)
    BY <1>1, <1>2, <2>2, ChunkIsALine DEF k
  <2>5. Pipe!WithLine(SoFar, chunk) = Pipe!WithLine(SoFar, got)'
    <3>1. SoFar' = SoFar
      BY <1>1 DEF SoFar
    <3>2. Pipe!WithLine(SoFar, got)' = Pipe!WithLine(SoFar', got')
      OBVIOUS
    <3> QED  BY <1>6, <3>1, <3>2, SameTalk
  <2>6. CASE TakesALine(k)
    <3>1. CutAt(piped, Place').open = <<>>
          /\ TalkAt(piped, Place') = Pipe!WithLine(SoFar, chunk)
      BY <2>2, <2>3, <2>6 DEF TakesALine, chunk
    <3> QED  BY <1>1, <2>5, <3>1 DEF Heeded
  <2>7. CASE TakesTheRest(k)
    <3>1. AllTalk(piped) = Pipe!WithLine(SoFar, chunk)
      BY <2>2, <2>7 DEF TakesTheRest, chunk
    <3>2. unread' = <<>>
      BY <1>4, <1>7, <2>7 DEF TakesTheRest, String
    <3> QED  BY <1>1, <2>5, <3>1, <3>2 DEF Heeded
  <2> QED  BY <2>4, <2>6, <2>7
<1> QED  BY <1>8, <1>9 DEF PipeInv

LEMMA FgetsFailsKeeps ==
    ASSUME PipeConstants, PipeInv, Pipe!FgetsFails PROVE PipeInv'
<1>1. PICK lost \in 0..(IF unread = <<>> THEN 0 ELSE Pipe!ChunkLength - 1) :
          unread' = SubSeq(unread, lost + 1, Len(unread))
  BY DEF Pipe!FgetsFails
<1>2. got' = <<>> /\ broken' = TRUE /\ piped' = piped /\ said' = said /\ at' = at
  BY DEF Pipe!FgetsFails
<1>3. PipeTyped
  BY DEF PipeInv
<1>4. piped \in String /\ unread \in String /\ TailOf(unread, piped) /\ Len(unread) \in Nat
  BY <1>3 DEF PipeTyped, String
<1>5. lost \in 0..Len(unread)
  <2>1. CASE unread = <<>>
    BY <1>1, <1>4, <2>1
  <2>2. CASE unread # <<>>
    <3>1. Pipe!ChunkLength \in 1..Len(unread)
      BY <1>4, <2>2, ChunkOf
    <3> QED  BY <1>1, <1>4, <2>2, <3>1
  <2> QED  BY <2>1, <2>2
<1>6. unread' \in String /\ TailOf(unread', piped)
  BY <1>1, <1>4, <1>5, TailsOfTails
<1>7. PipeTyped'
  BY <1>2, <1>3, <1>6 DEF PipeTyped, PipeConstants, String
<1>8. Followed'
  BY <1>2 DEF Followed
<1> QED  BY <1>7, <1>8 DEF PipeInv

LEMMA FgetsEofKeeps ==
    ASSUME PipeConstants, PipeInv, Pipe!FgetsEof PROVE PipeInv'
<1>1. /\ at = "prompt" /\ unread = <<>> /\ got' = <<>>
      /\ at' = IF broken THEN "prompt" ELSE "exited"
      /\ piped' = piped /\ unread' = unread /\ broken' = broken /\ said' = said
  BY DEF Pipe!FgetsEof
<1>2. PipeTyped
  BY DEF PipeInv
<1>3. PipeTyped'
  BY <1>1, <1>2 DEF PipeTyped, PipeConstants, String
<1>4. ASSUME ~broken, LinesAreShort PROVE AllTalk(piped).said = said
  <2>1. Heeded(SoFar)
    BY <1>1, <1>4 DEF PipeInv, Followed
  <2>2. CASE AllTalk(piped) = SoFar
    BY <2>2 DEF SoFar
  <2>3. CASE CutAt(piped, Place).open = <<>> /\ TalkAt(piped, Place) = SoFar
    <3>1. piped \in String /\ Place = Len(piped)
      BY <1>1, <1>2 DEF PipeTyped, Place, String
    <3>2. AllTalk(piped) = Pipe!WithLine(SoFar, <<>>)
      BY <2>3, <3>1, TalkEnds
    <3>3. Pipe!WithLine(SoFar, <<>>).said = said
      BY TrimmedOfNothing DEF Pipe!WithLine, SoFar
    <3> QED  BY <3>2, <3>3
  <2> QED  BY <2>1, <2>2, <2>3 DEF Heeded
<1>5. Followed'
  BY <1>1, <1>4 DEF Followed, LinesAreShort
<1> QED  BY <1>3, <1>5 DEF PipeInv

LEMMA RunLineKeeps ==
    ASSUME PipeConstants, PipeInv, Pipe!RunLine PROVE PipeInv'
<1> DEFINE s == Pipe!Trimmed(got)
<1>1. /\ at = "run"
      /\ said' = IF s = <<>> \/ s \in ExitWords THEN said ELSE Append(said, s)
      /\ at' = IF s \in ExitWords THEN "exited" ELSE "prompt"
      /\ piped' = piped /\ unread' = unread /\ broken' = broken /\ got' = got
  BY DEF Pipe!RunLine
<1>2. PipeTyped
  BY DEF PipeInv
<1>3. s \in String /\ Len(s) <= Len(got)
  BY <1>2, TrimmedIsAString DEF PipeTyped
<1>4. Pipe!WithLine(SoFar, got) = [said |-> said', over |-> at' = "exited"]
  BY <1>1 DEF Pipe!WithLine, SoFar
<1> HIDE DEF s
<1>5. PipeTyped'
  <2>1. said \in Seq(String) /\ \A i \in DOMAIN said : Len(said[i]) \in 1..BUFFER_SIZE - 1
    BY <1>2 DEF PipeTyped
  <2>2. CASE said' = said
    BY <1>1, <1>2, <2>2 DEF PipeTyped
  <2>3. CASE s # <<>> /\ said' = Append(said, s)
    <3>1. Len(s) \in 1..BUFFER_SIZE - 1
      <4>1. Len(s) \in Nat /\ Len(s) # 0 /\ Len(got) \in Nat /\ Len(got) < BUFFER_SIZE
            /\ BUFFER_SIZE \in Nat
        BY <1>2, <1>3, <2>3 DEF PipeTyped, PipeConstants, String
      <4> QED  BY <1>3, <4>1
    <3>2. said' \in Seq(String)
          /\ \A i \in DOMAIN said' : said'[i] = s \/ (i \in DOMAIN said /\ said'[i] = said[i])
      BY <1>3, <2>1, <2>3
    <3>3. \A i \in DOMAIN said' : Len(said'[i]) \in 1..BUFFER_SIZE - 1
      BY <2>1, <3>1, <3>2, Zenon
    <3> QED  BY <1>1, <1>2, <3>2, <3>3 DEF PipeTyped
  <2> QED  BY <1>1, <2>2, <2>3
<1>6. Followed'
  <2> SUFFICES ASSUME ~broken, LinesAreShort
               PROVE  /\ at' = "prompt" => Heeded(SoFar)'
                      /\ at' = "exited" => AllTalk(piped).said = said'
    BY <1>1 DEF Followed, LinesAreShort
  <2> DEFINE talk == Pipe!WithLine(SoFar, got)
  <2>1. Heeded(talk)
    BY <1>1 DEF PipeInv, Followed
  <2> HIDE DEF talk
  <2>2. talk = [said |-> said', over |-> at' = "exited"]
    BY <1>4 DEF talk
  <2>3. ASSUME at' = "prompt" PROVE Heeded(SoFar)'
    <3>1. talk = SoFar'
      BY <2>2, <2>3 DEF SoFar
    <3> QED  BY <1>1, <2>1, <3>1 DEF Heeded, Place
  <2>4. ASSUME at' = "exited" PROVE AllTalk(piped).said = said'
    <3>1. talk.over /\ talk.said = said'
      BY <2>2, <2>4
    <3>2. CASE AllTalk(piped) = talk
      BY <3>1, <3>2
    <3>3. CASE TalkAt(piped, Place) = talk
      <4>1. piped \in String /\ Place \in 0..Len(piped)
        BY <1>2, SameBytes DEF PipeTyped
      <4>2. Extends(talk, AllTalk(piped))
        BY <3>3, <4>1, TalkGrows
      <4> QED  BY <3>1, <4>2 DEF Extends
    <3> QED  BY <2>1, <3>2, <3>3 DEF Heeded
  <2> QED  BY <2>3, <2>4
<1> QED  BY <1>5, <1>6 DEF PipeInv

LEMMA PipeStep ==
    ASSUME PipeConstants, PipeInv, [Pipe!Next]_(Pipe!vars) PROVE PipeInv'
<1>1. CASE Pipe!FgetsLine
  BY <1>1, FgetsLineKeeps
<1>2. CASE Pipe!FgetsFails
  BY <1>2, FgetsFailsKeeps
<1>3. CASE Pipe!FgetsEof
  BY <1>3, FgetsEofKeeps
<1>4. CASE Pipe!RunLine
  BY <1>4, RunLineKeeps
<1>5. CASE UNCHANGED Pipe!vars
  BY <1>5, PipeStutters
<1> QED  BY <1>1, <1>2, <1>3, <1>4, <1>5 DEF Pipe!Next, Pipe!Program, Pipe!Finished

\* PipedRepl.TypeOK, for every size of the buffer and every input: what is left is the
\* end of the input, and no line and no statement is longer than its buffer
\* (main.c 451-463, 1004-1013).
THEOREM PipedReplTypes == ASSUME PipeConstants PROVE Pipe!Spec => []Pipe!TypeOK
<1>1. Pipe!Init => PipeInv
  BY PipeStarts
<1>2. PipeInv /\ [Pipe!Next]_(Pipe!vars) => PipeInv'
  BY PipeStep
<1>3. PipeInv => Pipe!TypeOK
  <2> SUFFICES ASSUME PipeTyped PROVE Pipe!TypeOK
    BY DEF PipeInv
  <2>1. Pipe!IsSuffix(unread, piped)
    <3>1. /\ piped \in Seq(STRING) /\ unread \in Seq(STRING)
          /\ Len(unread) \in Nat /\ Len(piped) \in Nat /\ Len(unread) <= Len(piped)
          /\ Place \in 0..Len(piped) /\ Place + Len(unread) = Len(piped)
          /\ \A i \in 1..Len(unread) : unread[i] = piped[Place + i]
      BY SameBytes DEF PipeTyped, TailOf, String
    <3> HIDE DEF Place
    <3> DEFINE r == Pipe!Reverse(unread)
               q == Pipe!Reverse(piped)
               n == Len(unread)
    <3>2. r \in Seq(STRING) /\ Len(r) = n /\ \A i \in 1..n : r[i] = unread[(n - i) + 1]
      BY <3>1 DEF Pipe!Reverse
    <3>3. q \in Seq(STRING) /\ Len(q) = Len(piped)
          /\ \A i \in 1..Len(piped) : q[i] = piped[(Len(piped) - i) + 1]
      BY <3>1 DEF Pipe!Reverse
    <3> HIDE DEF r, q
    <3>4. ASSUME NEW i \in 1..n PROVE r[i] = q[i]
      <4>1. (n - i) + 1 \in 1..n /\ i \in 1..Len(piped)
            /\ Place + ((n - i) + 1) = (Len(piped) - i) + 1
        <5>1. \A p, m \in Nat : \A j \in 1..m :
                  /\ (m - j) + 1 \in 1..m /\ j \in 1..p + m
                  /\ p + ((m - j) + 1) = ((p + m) - j) + 1
          BY ONLY TRUE
        <5>2. Place \in Nat /\ n \in Nat /\ Place + n = Len(piped)
          BY <3>1
        <5> HIDE DEF n
        <5> QED  BY <5>1, <5>2, Zenon
      <4>2. unread[(n - i) + 1] = piped[Place + ((n - i) + 1)]
        BY <3>1, <4>1
      <4>3. q[i] = piped[(Len(piped) - i) + 1]
        BY <3>3, <4>1
      <4> QED  BY <3>2, <4>1, <4>2, <4>3
    <3> HIDE DEF n
    <3>5. n \in Nat /\ n <= Len(piped)
      BY <3>1 DEF n
    <3>6. SubSeq(r, 1, Len(r)) = SubSeq(q, 1, Len(r))
      BY <3>2, <3>3, <3>4, <3>5
    <3> QED  BY <3>2, <3>3, <3>5, <3>6 DEF Pipe!IsSuffix, Pipe!IsPrefix, r, q
  <2> QED  BY <2>1 DEF PipeTyped, Pipe!TypeOK
<1> QED  BY <1>1, <1>2, <1>3, PTL DEF Pipe!Spec

\* PipedRepl.ShortLinesAreStatements: as long as no read fails, and for every input whose
\* lines fit the buffer, each line is executed as one statement, in order, up to
\* the word that ends the session (main.c 451-463, 981-1024).
THEOREM ShortLinesAreExecuted ==
    ASSUME PipeConstants PROVE Pipe!Spec => []Pipe!ShortLinesAreStatements
<1>1. Pipe!Init => PipeInv
  BY PipeStarts
<1>2. PipeInv /\ [Pipe!Next]_(Pipe!vars) => PipeInv'
  BY PipeStep
<1>3. PipeInv => Pipe!ShortLinesAreStatements
  <2> SUFFICES ASSUME PipeInv, ~broken, LinesAreShort PROVE Pipe!LinesAreStatements
    BY DEF Pipe!ShortLinesAreStatements, LinesAreShort
  <2> DEFINE all == AllTalk(piped).said
  <2>1. all = Pipe!StatementsOf(piped)
    BY DEF AllTalk, Pipe!StatementsOf
  <2>2. piped \in String /\ Place \in 0..Len(piped) /\ said \in Seq(String)
        /\ got \in String /\ at \in {"prompt", "run", "exited"}
    BY SameBytes DEF PipeInv, PipeTyped
  <2>3. AllTalk(piped) \in Talks /\ Extends(TalkAt(piped, Place), AllTalk(piped))
    BY <2>2, TalkGrows
  <2>4. all \in Seq(String) /\ Pipe!IsPrefix(all, all)
    BY <2>3, PrefixOfItself DEF Talks
  <2>5. \A talk : Heeded(talk) => Pipe!IsPrefix(talk.said, all)
    BY <2>3, <2>4 DEF Heeded, Extends
  <2>6. SoFar \in Talks /\ SoFar.said = said
    BY <2>2 DEF SoFar, Talks
  <2>7. CASE at = "prompt"
    <3>1. Pipe!IsPrefix(said, all)
      BY <2>5, <2>6, <2>7 DEF PipeInv, Followed
    <3> QED  BY <2>1, <2>7, <3>1 DEF Pipe!LinesAreStatements
  <2>8. CASE at = "run"
    <3> DEFINE talk == Pipe!WithLine(SoFar, got)
    <3>1. talk \in Talks /\ Pipe!IsPrefix(said, talk.said)
      BY <2>2, <2>6, LineExtends DEF Extends
    <3>2. Pipe!IsPrefix(talk.said, all)
      BY <2>5, <2>8 DEF PipeInv, Followed
    <3>3. talk.said \in Seq(String)
      BY <3>1 DEF Talks
    <3>4. Pipe!IsPrefix(said, all)
      BY <2>2, <2>4, <3>1, <3>2, <3>3, PrefixOfPrefix
    <3> QED  BY <2>1, <2>8, <3>4 DEF Pipe!LinesAreStatements
  <2>9. CASE at = "exited"
    <3>1. said = all
      BY <2>9 DEF PipeInv, Followed
    <3> QED  BY <2>1, <2>4, <3>1 DEF Pipe!LinesAreStatements
  <2> QED  BY <2>2, <2>7, <2>8, <2>9
<1> QED  BY <1>1, <1>2, <1>3, PTL DEF Pipe!Spec
=============================================================================
