---------------------------- MODULE StorageProofs ----------------------------
(***************************************************************************)
(* Proofs about append_row and read_all_rows for any number of processes,  *)
(* any table, any file and any combination of failing library calls.       *)
(***************************************************************************)
EXTENDS StorageProperties, CodecProofs, FiniteSetTheorems

-----------------------------------------------------------------------------
(* What the stream's buffer holds *)

\* A part of what a stream holds is again something a stream may hold: the
\* newline is the last byte or absent.
LEMMA StreamPart ==
    ASSUME NEW t \in Stream, NEW m \in Nat, NEW n \in Nat, 1 <= m, n <= Len(t)
    PROVE  SubSeq(t, m, n) \in Stream
<1> DEFINE u == SubSeq(t, m, n)
<1>1. t \in Seq(Bytes \cup {NL}) /\ Len(t) \in Nat
  BY DEF Stream, Text
<1>2. CASE m <= n
  <2>1. /\ u \in Seq(Bytes \cup {NL}) /\ Len(u) = n - m + 1
        /\ \A i \in 1..Len(u) : u[i] = t[m + i - 1]
    BY <1>1, <1>2, SubSeqProperties
  <2>2. \A i \in 1..Len(u) - 1 : u[i] \in Bytes
    <3> TAKE i \in 1..Len(u) - 1
    <3>1. m + i - 1 \in 1..Len(t) - 1 /\ i \in 1..Len(u)
      BY <2>1, <1>1, <1>2
    <3> QED  BY <3>1, <2>1 DEF Stream
  <2> QED  BY <2>1, <2>2 DEF Stream, Text
<1>3. CASE m > n
  <2>1. u = <<>>
    BY <1>1, <1>3
  <2> QED  BY <2>1 DEF Stream, Text
<1> QED  BY <1>2, <1>3

\* A line and its newline, as append_row prints them.
LEMMA StreamOfLine ==
    ASSUME NEW l \in Line
    PROVE  /\ Append(l, NL) \in Stream
           /\ Len(Append(l, NL)) = Len(l) + 1
           /\ Append(l, NL) # <<>>
           /\ Append(l, NL)[Len(l) + 1] = NL
           /\ SubSeq(Append(l, NL), 1, Len(l)) = l
<1>1. l \in Seq(Bytes) /\ Len(l) \in Nat
  BY DEF Line
<1> DEFINE u == Append(l, NL)
<1>2. /\ u \in Seq(Bytes \cup {NL}) /\ Len(u) = Len(l) + 1
      /\ \A i \in 1..Len(l) : u[i] = l[i]
      /\ u[Len(l) + 1] = NL
  BY <1>1
<1>3. u \in Stream
  <2>1. \A i \in 1..Len(u) - 1 : u[i] \in Bytes
    BY <1>1, <1>2
  <2> QED  BY <1>2, <2>1 DEF Stream, Text
<1>4. SubSeq(u, 1, Len(l)) = l
  BY <1>1, <1>2
<1> QED  BY <1>2, <1>3, <1>4

\* A write leaves a file whose lines have no newline inside.
LEMMA WrittenType ==
    ASSUME lines \in Seq(Seq(Bytes)), tail \in Seq(Bytes), NEW t \in Stream, Written(t)
    PROVE  lines' \in Seq(Seq(Bytes)) /\ tail' \in Seq(Bytes)
<1>1. t \in Seq(Bytes \cup {NL}) /\ Len(t) \in Nat
  BY DEF Stream, Text
<1>2. CASE t # <<>> /\ t[Len(t)] = NL
  <2>1. SubSeq(t, 1, Len(t) - 1) \in Seq(Bytes)
    <3>1. Len(t) >= 1
      BY <1>1, <1>2
    <3>2. \A i \in 1..Len(t) - 1 : t[i] \in Bytes
      BY DEF Stream
    <3> QED  BY <1>1, <3>1, <3>2, SubSeqProperties
  <2> QED  BY <1>2, <2>1 DEF Written
<1>3. CASE ~(t # <<>> /\ t[Len(t)] = NL)
  <2>1. t \in Seq(Bytes)
    <3>1. \A i \in 1..Len(t) : t[i] \in Bytes
      BY <1>1, <1>3 DEF Stream
    <3>2. SubSeq(t, 1, Len(t)) \in Seq(Bytes)
      BY <1>1, <3>1, SubSeqProperties
    <3> QED  BY <1>1, <3>2, SubSeqFull
  <2> QED  BY <1>3, <2>1 DEF Written
<1> QED  BY <1>2, <1>3

-----------------------------------------------------------------------------
(* Type correctness *)

\* The end of an operation keeps the types, given the answer's.
LEMMA ReturnType ==
    ASSUME TypeOK, NEW s \in Sessions, NEW result \in Answers, Return(s, result),
           result.status = "ok" => row[s] \in StorableRows
    PROVE  /\ pc' \in [Sessions -> Places]
           /\ row' \in [Sessions -> StorableRows \cup {<<>>}]
           /\ \A z \in Sessions :
                pc'[z] \in {"open", "print", "failed", "written"} => row'[z] \in StorableRows
           /\ stream' \in [Sessions -> Stream]
           /\ got' \in [Sessions -> Seq(Seq(Bytes))]
           /\ answer' \in [Sessions -> Answers]
           /\ acked' \in Seq(StorableRows)
           /\ broken' \in Nat
           /\ overlaps' \in Nat
<1>1. <<>> \in Stream
  BY DEF Stream, Text
<1>2. pc' \in [Sessions -> Places]
  BY DEF TypeOK, Return, Goto, Places
<1>3. row' \in [Sessions -> StorableRows \cup {<<>>}]
  BY DEF TypeOK, Return
<1>4. ASSUME NEW z \in Sessions, pc'[z] \in {"open", "print", "failed", "written"}
      PROVE  row'[z] \in StorableRows
  BY <1>4 DEF TypeOK, Return, Goto
<1>5. stream' \in [Sessions -> Stream] /\ got' \in [Sessions -> Seq(Seq(Bytes))]
  BY <1>1 DEF TypeOK, Return
<1>6. answer' \in [Sessions -> Answers]
  BY DEF TypeOK, Return
<1>7. acked' \in Seq(StorableRows)
  BY DEF TypeOK, Return
<1>8. broken' \in Nat
  BY DEF TypeOK, Return
<1>9. overlaps' \in Nat
  BY DEF TypeOK, Return
<1> QED  BY <1>2, <1>3, <1>4, <1>5, <1>6, <1>7, <1>8, <1>9

LEMMA AnswerTypes ==
    /\ NoAnswer \in Answers /\ Error \in Answers /\ Ok \in Answers
    /\ \A t \in Seq(Seq(Bytes)) : Found(t) \in Answers
    /\ NoAnswer.status # "ok" /\ Error.status # "ok"
    /\ \A t : Found(t).status # "ok"
BY DEF Answers, NoAnswer, Error, Ok, Found

LEMMA TypeInit == Init => TypeOK
BY StorageConstants DEF Init, TypeOK, Places, NoAnswer, Answers, Stream, Text, InitFile

LEMMA TypeStep == TypeOK /\ [Next]_vars => TypeOK'
<1> SUFFICES ASSUME TypeOK, [Next]_vars PROVE TypeOK'
  OBVIOUS
<1>1. CASE UNCHANGED vars
  BY <1>1 DEF vars, TypeOK
<1>2. ASSUME NEW s \in Sessions, BeginAppend(s) PROVE TypeOK'
  BY <1>2, AnswerTypes DEF BeginAppend, Begin, Goto, TypeOK, Places, StorableRows
<1>3. ASSUME NEW s \in Sessions, RefuseAppend(s) PROVE TypeOK'
  BY <1>3, AnswerTypes, ReturnType DEF RefuseAppend, Begin, TypeOK
<1>4. ASSUME NEW s \in Sessions, BeginRead(s) PROVE TypeOK'
  BY <1>4, AnswerTypes DEF BeginRead, Begin, Goto, TypeOK, Places
<1>5. ASSUME NEW s \in Sessions, OpenAppend(s) PROVE TypeOK'
  <2>1. row[s] \in StorableRows
    BY <1>5 DEF OpenAppend, TypeOK
  <2>2. Append(Serialize(row[s]), NL) \in Stream
    BY <2>1, StreamOfLine DEF StorableRows, Storable
  <2>3. stream' \in [Sessions -> Stream]
    BY <1>5, <2>2 DEF OpenAppend, TypeOK
  <2>4. overlaps' \in Nat
    BY <1>5 DEF OpenAppend, Overlaps, TypeOK
  <2> QED  BY <1>5, <2>1, <2>3, <2>4 DEF OpenAppend, Goto, TypeOK, Places
<1>6. ASSUME NEW s \in Sessions, WriteBuffer(s) PROVE TypeOK'
  <2>1. stream[s] \in Stream /\ Len(stream[s]) \in Nat
    BY DEF TypeOK, Stream, Text
  <2>2. /\ SubSeq(stream[s], 1, STDIO_BUFFER) \in Stream
        /\ SubSeq(stream[s], STDIO_BUFFER + 1, Len(stream[s])) \in Stream
    BY <1>6, <2>1, StreamPart, StorageConstants DEF WriteBuffer
  <2>3. lines' \in Seq(Seq(Bytes)) /\ tail' \in Seq(Bytes)
    BY <1>6, <2>2, WrittenType DEF WriteBuffer, TypeOK
  <2>4. stream' \in [Sessions -> Stream]
    BY <1>6, <2>2 DEF WriteBuffer, TypeOK
  <2> QED  BY <1>6, <2>3, <2>4 DEF WriteBuffer, TypeOK
<1>7. ASSUME NEW s \in Sessions, CloseWrites(s) PROVE TypeOK'
  <2>1. stream[s] \in Stream /\ <<>> \in Stream
    BY DEF TypeOK, Stream, Text
  <2>2. lines' \in Seq(Seq(Bytes)) /\ tail' \in Seq(Bytes)
    BY <1>7, <2>1, WrittenType DEF CloseWrites, TypeOK
  <2>3. stream' \in [Sessions -> Stream]
    BY <1>7, <2>1 DEF CloseWrites, TypeOK
  <2> QED  BY <1>7, <2>2, <2>3 DEF CloseWrites, Goto, TypeOK, Places
<1>8. ASSUME NEW s \in Sessions, PrintFails(s) PROVE TypeOK'
  <2>1. stream[s] \in Stream /\ Len(stream[s]) \in Nat
    BY DEF TypeOK, Stream, Text
  <2>2. PICK n \in 0..STDIO_BUFFER - 1 :
            /\ Written(SubSeq(stream[s], 1, n))
            /\ stream' = [stream EXCEPT ![s] = SubSeq(@, n + 1, STDIO_BUFFER)]
    BY <1>8 DEF PrintFails
  <2>3. /\ SubSeq(stream[s], 1, n) \in Stream
        /\ SubSeq(stream[s], n + 1, STDIO_BUFFER) \in Stream
    BY <1>8, <2>1, StreamPart, StorageConstants DEF PrintFails
  <2>4. lines' \in Seq(Seq(Bytes)) /\ tail' \in Seq(Bytes)
    BY <2>2, <2>3, WrittenType DEF TypeOK
  <2>5. stream' \in [Sessions -> Stream]
    BY <2>2, <2>3 DEF TypeOK
  <2> QED  BY <1>8, <2>4, <2>5 DEF PrintFails, Goto, TypeOK, Places
<1>9. ASSUME NEW s \in Sessions, CloseAfterError(s) \/ FlushFails(s) PROVE TypeOK'
  <2>1. stream[s] \in Stream /\ Len(stream[s]) \in Nat
    BY DEF TypeOK, Stream, Text
  <2>2. PICK n \in 0..Len(stream[s]) : Written(SubSeq(stream[s], 1, n))
    BY <1>9, <2>1 DEF CloseAfterError, FlushFails
  <2>3. SubSeq(stream[s], 1, n) \in Stream
    BY <2>1, StreamPart
  <2>4. lines' \in Seq(Seq(Bytes)) /\ tail' \in Seq(Bytes)
    BY <2>2, <2>3, WrittenType DEF TypeOK
  <2>5. Return(s, Error) /\ calls' = calls
    BY <1>9 DEF CloseAfterError, FlushFails
  <2> QED  BY <2>4, <2>5, AnswerTypes, ReturnType DEF TypeOK
<1>10. ASSUME NEW s \in Sessions, AppendOk(s) PROVE TypeOK'
  <2>1. row[s] \in StorableRows
    BY <1>10 DEF AppendOk, TypeOK
  <2> QED  BY <1>10, <2>1, AnswerTypes, ReturnType DEF AppendOk, TypeOK
<1>11. ASSUME NEW s \in Sessions,
              OpenFails(s) \/ CloseFails(s) \/ ReadFails(s) \/ FgetsBadLine(s)
       PROVE  TypeOK'
  <2>1. Return(s, Error) /\ UNCHANGED <<lines, tail, calls>>
    BY <1>11 DEF OpenFails, CloseFails, ReadFails, FgetsBadLine
  <2> QED  BY <2>1, AnswerTypes, ReturnType DEF TypeOK
<1>12. ASSUME NEW s \in Sessions, Crash(s) PROVE TypeOK'
  BY <1>12, AnswerTypes, ReturnType DEF Crash, TypeOK
<1>13. ASSUME NEW s \in Sessions, FgetsLine(s) PROVE TypeOK'
  <2>1. got[s] \in Seq(Seq(Bytes)) /\ lines \in Seq(Seq(Bytes))
    BY DEF TypeOK
  <2>2. NextLine(s) \in Seq(Bytes)
    BY <1>13, <2>1 DEF FgetsLine, NextLine
  <2>3. got' \in [Sessions -> Seq(Seq(Bytes))]
    BY <1>13, <2>1, <2>2 DEF FgetsLine, TypeOK
  <2> QED  BY <1>13, <2>3 DEF FgetsLine, TypeOK
<1>14. ASSUME NEW s \in Sessions, FgetsEof(s) PROVE TypeOK'
  <2>1. got[s] \in Seq(Seq(Bytes)) /\ Append(got[s], tail) \in Seq(Seq(Bytes))
    BY DEF TypeOK
  <2>2. PICK result \in Answers : Return(s, result) /\ result.status # "ok"
    BY <1>14, <2>1, AnswerTypes DEF FgetsEof
  <2> QED  BY <1>14, <2>2, ReturnType DEF FgetsEof, TypeOK
<1> QED  BY <1>1, <1>2, <1>3, <1>4, <1>5, <1>6, <1>7, <1>8, <1>9, <1>10, <1>11,
             <1>12, <1>13, <1>14 DEF Next, Works, Breaks, Finished

\* Every reachable state is well typed; in particular no line of the file ever
\* holds a newline, however the writes of the processes mix.
THEOREM TypeCorrect == Spec => []TypeOK
BY TypeInit, TypeStep, PTL DEF Spec

-----------------------------------------------------------------------------
(* The file is a table of lines.  IInv strengthens WholeLines to an inductive   *)
(* invariant with the types and with the answers already given.                 *)

IInv == TypeOK /\ WholeLines /\ AnswersStayTrue

\* The conditions under which it holds: the lines fit the stream's buffer, no
\* write fails half-way, and the file did not start with an unfinished line.
Undisturbed == ShortLines /\ "write" \notin Faults /\ InitTail = <<>>

LEMMA PrefixProperties ==
    ASSUME NEW S, NEW t \in Seq(S), NEW x \in S
    PROVE  /\ IsPrefix(<<>>, t)
           /\ IsPrefix(t, t)
           /\ \A u \in Seq(S) : IsPrefix(u, t) => IsPrefix(u, Append(t, x))
           /\ \A u \in Seq(S) : IsPrefix(u, t) /\ Len(u) = Len(t) => u = t
           /\ \A u \in Seq(S) :
                IsPrefix(u, t) /\ Len(u) < Len(t) => IsPrefix(Append(u, t[Len(u) + 1]), t)
<1> USE DEF IsPrefix
<1>1. IsPrefix(<<>>, t)
  OBVIOUS
<1>2. IsPrefix(t, t)
  OBVIOUS
<1>3. ASSUME NEW u \in Seq(S), IsPrefix(u, t) PROVE IsPrefix(u, Append(t, x))
  <2>1. SubSeq(Append(t, x), 1, Len(u)) = SubSeq(t, 1, Len(u))
    BY <1>3
  <2> QED  BY <1>3, <2>1
<1>4. ASSUME NEW u \in Seq(S), IsPrefix(u, t), Len(u) = Len(t) PROVE u = t
  BY <1>4, SubSeqFull
<1>5. ASSUME NEW u \in Seq(S), IsPrefix(u, t), Len(u) < Len(t)
      PROVE  IsPrefix(Append(u, t[Len(u) + 1]), t)
  <2> DEFINE w == Append(u, t[Len(u) + 1])
  <2>1. \A i \in 1..Len(u) : u[i] = t[i]
    <3>1. SubSeq(u, 1, Len(u)) = u
      BY SubSeqFull
    <3> QED  BY <1>5, <3>1
  <2>2. w \in Seq(S) /\ Len(w) = Len(u) + 1 /\ Len(w) <= Len(t)
    BY <1>5
  <2>3. \A i \in 1..Len(w) : w[i] = t[i]
    BY <1>5, <2>1, <2>2
  <2>4. SubSeq(w, 1, Len(w)) = SubSeq(t, 1, Len(w))
    BY <2>2, <2>3
  <2> QED  BY <2>2, <2>4
<1> QED  BY <1>1, <1>2, <1>3, <1>4, <1>5

\* The one step that changes the file appends the whole line of its process.
LEMMA CloseAddsLine ==
    ASSUME IInv, NEW s \in Sessions, CloseWrites(s)
    PROVE  /\ row[s] \in StorableRows /\ Serialize(row[s]) \in Seq(Bytes)
           /\ lines' = Append(lines, Serialize(row[s]))
           /\ tail' = <<>>
<1>1. pc[s] = "print" /\ row[s] \in StorableRows
  BY DEF IInv, TypeOK, CloseWrites
<1> DEFINE l == Serialize(row[s])
<1>2. l \in Line /\ l \in Seq(Bytes)
  BY <1>1 DEF StorableRows, Storable, Line
<1>3. stream[s] = Append(l, NL) /\ tail = <<>>
  BY <1>1 DEF IInv, WholeLines
<1>4. Written(Append(l, NL))
  BY <1>3 DEF CloseWrites
<1> HIDE DEF l
<1>5. lines' = Append(lines, tail \o SubSeq(Append(l, NL), 1, Len(l))) /\ tail' = <<>>
  <2> DEFINE u == Append(l, NL)
  <2>1. u # <<>> /\ u[Len(u)] = NL /\ Len(u) - 1 = Len(l)
    BY <1>2, StreamOfLine DEF Line
  <2>2. Written(u)
    BY <1>4
  <2> HIDE DEF u
  <2>3. lines' = Append(lines, tail \o SubSeq(u, 1, Len(l))) /\ tail' = <<>>
    BY <2>1, <2>2 DEF Written
  <2> QED  BY <2>3 DEF u
<1>6. tail \o SubSeq(Append(l, NL), 1, Len(l)) = l
  BY <1>2, <1>3, StreamOfLine, ConcatEmptySeq
<1> QED  BY <1>1, <1>2, <1>5, <1>6 DEF l

\* No line is written in pieces.
LEMMA NoPieces ==
    ASSUME Undisturbed, IInv, NEW s \in Sessions
    PROVE  ~WriteBuffer(s) /\ ~PrintFails(s) /\ ~FlushFails(s) /\ ~CloseAfterError(s)
<1>1. ~CloseAfterError(s) /\ ~PrintFails(s) /\ ~FlushFails(s)
  BY DEF CloseAfterError, PrintFails, FlushFails, Undisturbed, IInv, WholeLines
<1>2. ~WriteBuffer(s)
  <2> SUFFICES ASSUME pc[s] = "print" PROVE ~(Len(stream[s]) > STDIO_BUFFER)
    BY DEF WriteBuffer
  <2>1. row[s] \in StorableRows /\ stream[s] = Append(Serialize(row[s]), NL)
    BY DEF IInv, TypeOK, WholeLines
  <2>2. Len(stream[s]) = Len(Serialize(row[s])) + 1 /\ Len(Serialize(row[s])) \in Nat
    BY <2>1, StreamOfLine DEF StorableRows, Storable, Line
  <2> QED  BY <2>1, <2>2, StorageConstants DEF Undisturbed, ShortLines
<1> QED  BY <1>1, <1>2

LEMMA InvInit == Undisturbed /\ Init => IInv
<1> SUFFICES ASSUME Undisturbed, Init PROVE IInv
  OBVIOUS
<1>1. TypeOK
  BY TypeInit
<1>2. WholeLines
  BY StorageConstants, PrefixProperties, EmptySeq DEF Init, WholeLines, Undisturbed
<1>3. AnswersStayTrue
  BY DEF Init, AnswersStayTrue, NoAnswer
<1> QED  BY <1>1, <1>2, <1>3 DEF IInv

\* The answer a SELECT gives at the end of the file is the whole file.
LEMMA EofAnswer ==
    ASSUME IInv, NEW s \in Sessions, FgetsEof(s)
    PROVE  Return(s, Found(lines)) /\ FileLines = lines
<1>1. got[s] \in Seq(Seq(Bytes)) /\ lines \in Seq(Seq(Bytes)) /\ tail = <<>>
  BY DEF IInv, TypeOK, WholeLines
<1>2. IsPrefix(got[s], lines) /\ Len(got[s]) = Len(lines)
  BY DEF IInv, WholeLines, FgetsEof
<1>3. got[s] = lines
  BY <1>1, <1>2, PrefixProperties, EmptySeq
<1> QED  BY <1>1, <1>3 DEF FgetsEof, FileLines

LEMMA InvStep == Undisturbed /\ IInv /\ [Next]_vars => IInv'
<1> SUFFICES ASSUME Undisturbed, IInv, [Next]_vars PROVE IInv'
  OBVIOUS
<1>1. TypeOK /\ TypeOK'
  BY TypeStep DEF IInv
<1>2. lines \in Seq(Seq(Bytes)) /\ FileLines = lines /\ tail = <<>>
  BY DEF IInv, TypeOK, WholeLines, FileLines
<1>3. CASE UNCHANGED vars
  BY <1>1, <1>3 DEF vars, IInv, WholeLines, AnswersStayTrue, FileLines
<1>4. ASSUME NEW s \in Sessions, CloseWrites(s) PROVE IInv'
  <2>1. lines' = Append(lines, Serialize(row[s])) /\ tail' = <<>>
        /\ Serialize(row[s]) \in Seq(Bytes)
    BY <1>4, CloseAddsLine
  <2>2. \A u \in Seq(Seq(Bytes)) : IsPrefix(u, lines) => IsPrefix(u, lines')
    BY <1>2, <2>1, PrefixProperties
  <2>3. WholeLines'
    BY <1>1, <1>4, <2>1, <2>2 DEF IInv, TypeOK, WholeLines, CloseWrites, Goto
  <2>4. AnswersStayTrue'
    <3> SUFFICES ASSUME NEW z \in Sessions, answer'[z].status = "found"
                 PROVE  IsPrefix(answer'[z].items, lines')
      BY <2>1 DEF AnswersStayTrue, FileLines
    <3>1. answer' = answer /\ answer[z].items \in Seq(Seq(Bytes))
      BY <1>1, <1>4 DEF CloseWrites, TypeOK, Answers
    <3> QED  BY <1>2, <2>2, <3>1 DEF IInv, AnswersStayTrue
  <2> QED  BY <1>1, <2>3, <2>4 DEF IInv
<1>5. ASSUME NEW s \in Sessions, NEW result \in Answers, Return(s, result),
             UNCHANGED <<lines, tail>>,
             result.status = "found" => IsPrefix(result.items, lines)
      PROVE  IInv'
  <2>0. IsPrefix(<<>>, lines)
    BY <1>2, PrefixProperties, EmptySeq
  <2>1. WholeLines'
    BY <1>1, <1>5, <2>0 DEF IInv, TypeOK, WholeLines, Return, Goto
  <2>2. AnswersStayTrue'
    BY <1>1, <1>2, <1>5 DEF IInv, TypeOK, AnswersStayTrue, FileLines, Return
  <2> QED  BY <1>1, <2>1, <2>2 DEF IInv
<1>6. ASSUME NEW s \in Sessions, RefuseAppend(s) PROVE IInv'
  BY <1>6, <1>5, AnswerTypes DEF RefuseAppend, Error
<1>7. ASSUME NEW s \in Sessions, BeginAppend(s) \/ BeginRead(s) PROVE IInv'
  <2>1. WholeLines'
    BY <1>1, <1>7 DEF IInv, TypeOK, WholeLines, BeginAppend, BeginRead, Begin, Goto
  <2>2. answer' = [answer EXCEPT ![s] = NoAnswer] /\ UNCHANGED <<lines, tail>>
    BY <1>7 DEF BeginAppend, BeginRead
  <2>3. AnswersStayTrue'
    BY <1>1, <2>2 DEF IInv, TypeOK, AnswersStayTrue, FileLines, NoAnswer
  <2> QED  BY <1>1, <2>1, <2>3 DEF IInv
<1>8. ASSUME NEW s \in Sessions, OpenAppend(s) PROVE IInv'
  <2>1. WholeLines'
    BY <1>1, <1>8 DEF IInv, TypeOK, WholeLines, OpenAppend, Goto
  <2>2. AnswersStayTrue'
    BY <1>8 DEF IInv, AnswersStayTrue, FileLines, OpenAppend
  <2> QED  BY <1>1, <2>1, <2>2 DEF IInv
<1>9. ASSUME NEW s \in Sessions, FgetsLine(s) PROVE IInv'
  <2>1. got[s] \in Seq(Seq(Bytes)) /\ IsPrefix(got[s], lines) /\ Len(got[s]) < Len(lines)
    BY <1>1, <1>9 DEF IInv, TypeOK, WholeLines, FgetsLine
  <2>2. IsPrefix(Append(got[s], NextLine(s)), lines)
    BY <1>2, <2>1, PrefixProperties, EmptySeq DEF NextLine
  <2>3. WholeLines'
    BY <1>1, <1>9, <2>2 DEF IInv, TypeOK, WholeLines, FgetsLine
  <2>4. AnswersStayTrue'
    BY <1>9 DEF IInv, AnswersStayTrue, FileLines, FgetsLine
  <2> QED  BY <1>1, <2>3, <2>4 DEF IInv
<1>10. ASSUME NEW s \in Sessions, FgetsEof(s) PROVE IInv'
  BY <1>2, <1>5, <1>10, EofAnswer, AnswerTypes, PrefixProperties, EmptySeq DEF FgetsEof, Found
<1>11. ASSUME NEW s \in Sessions, AppendOk(s) PROVE IInv'
  BY <1>5, <1>11, AnswerTypes DEF AppendOk, Ok
<1>12. ASSUME NEW s \in Sessions,
              FgetsBadLine(s) \/ OpenFails(s) \/ CloseFails(s) \/ ReadFails(s) \/ Crash(s)
       PROVE  IInv'
  BY <1>5, <1>12, AnswerTypes
     DEF FgetsBadLine, OpenFails, CloseFails, ReadFails, Crash, Error, NoAnswer
<1>13. ASSUME NEW s \in Sessions,
              WriteBuffer(s) \/ CloseAfterError(s) \/ PrintFails(s) \/ FlushFails(s)
       PROVE  IInv'
  BY <1>13, NoPieces
<1> QED  BY <1>3, <1>4, <1>6, <1>7, <1>8, <1>9, <1>10, <1>11, <1>12, <1>13
         DEF Next, Works, Breaks, Finished

\* SELECTs never show a row that is later taken back, whatever processes append
\* meanwhile.
THEOREM AnswersStay == ASSUME Undisturbed PROVE Spec => []AnswersStayTrue
<1>1. Init => IInv
  BY InvInit
<1>2. IInv /\ [Next]_vars => IInv'
  BY InvStep
<1>3. IInv => AnswersStayTrue
  BY DEF IInv
<1> QED  BY <1>1, <1>2, <1>3, PTL DEF Spec

\* Every line of the file is a whole line of one INSERT.
THEOREM LinesStayWhole == ASSUME Undisturbed PROVE Spec => []WholeLines
<1>1. Init => IInv
  BY InvInit
<1>2. IInv /\ [Next]_vars => IInv'
  BY InvStep
<1>3. IInv => WholeLines
  BY DEF IInv
<1> QED  BY <1>1, <1>2, <1>3, PTL DEF Spec

-----------------------------------------------------------------------------
(* Refinement: each step of the processes is one step of the table or none.  *)

LEMMA TableInit == Undisturbed /\ Init => LineTable!Init
BY DEF Undisturbed, Init, LineTable!Init, InitFile, FileLines, CallOf, NoAnswer,
       LineTable!NoAnswer

LEMMA TableStep ==
    ASSUME Undisturbed, IInv, IInv', [Next]_vars
    PROVE  [LineTable!Next]_(LineTable!vars)
<1> USE DEF LineTable!vars
<1>1. TypeOK /\ FileLines = lines /\ FileLines' = lines'
  BY DEF IInv, WholeLines, FileLines
<1>2. CASE UNCHANGED vars
  BY <1>2 DEF vars, FileLines, CallOf
<1>3. ASSUME NEW s \in Sessions, NEW result, Return(s, result), UNCHANGED <<lines, tail>>
      PROVE  LineTable!Ends(s, result) /\ FileLines' = FileLines
  <2>1. [z \in Sessions |-> CallOf(z)]'
            = [[z \in Sessions |-> CallOf(z)] EXCEPT ![s] = "none"]
    BY <1>1, <1>3 DEF Return, Goto, CallOf, TypeOK
  <2>2. [z \in Sessions |-> IF CallOf(z) = "insert" THEN Serialize(row[z]) ELSE <<>>]'
            = [[z \in Sessions |-> IF CallOf(z) = "insert" THEN Serialize(row[z]) ELSE <<>>]
                EXCEPT ![s] = <<>>]
    BY <1>1, <1>3 DEF Return, Goto, CallOf, TypeOK
  <2>3. [z \in Sessions |-> pc[z] = "written"]'
            = [[z \in Sessions |-> pc[z] = "written"] EXCEPT ![s] = FALSE]
    BY <1>1, <1>3 DEF Return, Goto, TypeOK
  <2>4. answer' = [answer EXCEPT ![s] = result]
    BY <1>3 DEF Return
  <2> QED  BY <1>1, <1>3, <2>1, <2>2, <2>3, <2>4 DEF LineTable!Ends
<1>4. ASSUME NEW s \in Sessions, BeginAppend(s) PROVE LineTable!Next
  <2>1. PICK r \in Rows : Storable(Schema, r) /\ row' = [row EXCEPT ![s] = r]
    BY <1>4 DEF BeginAppend
  <2>2. Serialize(r) \in {Serialize(x) : x \in StorableRows}
    BY <2>1 DEF StorableRows
  <2>3. LineTable!Begin(s, "insert", Serialize(r))
    BY <1>1, <1>4, <2>1
       DEF LineTable!Begin, BeginAppend, Begin, Goto, CallOf, TypeOK, NoAnswer,
           LineTable!NoAnswer
  <2> QED  BY <2>2, <2>3 DEF LineTable!Next, LineTable!Insert
<1>5. ASSUME NEW s \in Sessions, BeginRead(s) PROVE LineTable!Next
  <2>1. LineTable!Begin(s, "select", <<>>)
    BY <1>1, <1>5 DEF LineTable!Begin, BeginRead, Begin, Goto, CallOf, TypeOK, NoAnswer,
                      LineTable!NoAnswer
  <2> QED  BY <2>1 DEF LineTable!Next, LineTable!Select
<1>6. ASSUME NEW s \in Sessions, OpenAppend(s) \/ FgetsLine(s)
      PROVE  UNCHANGED LineTable!vars
  BY <1>1, <1>6 DEF OpenAppend, FgetsLine, Goto, CallOf, TypeOK
<1>7. ASSUME NEW s \in Sessions, CloseWrites(s) PROVE LineTable!Next
  <2>1. FileLines' = Append(FileLines, Serialize(row[s]))
    BY <1>1, <1>7, CloseAddsLine
  <2>2. LineTable!Add(s)
    BY <1>1, <1>7, <2>1 DEF LineTable!Add, CloseWrites, Goto, CallOf, TypeOK
  <2> QED  BY <2>2 DEF LineTable!Next
<1>8. ASSUME NEW s \in Sessions, AppendOk(s) PROVE LineTable!Next
  <2>1. LineTable!Ends(s, Ok) /\ FileLines' = FileLines
    BY <1>3, <1>8 DEF AppendOk
  <2>2. LineTable!InsertOk(s)
    BY <1>8, <2>1 DEF LineTable!InsertOk, AppendOk, CallOf, Ok, LineTable!Ok
  <2> QED  BY <2>2 DEF LineTable!Next
<1>9. ASSUME NEW s \in Sessions, FgetsEof(s) PROVE LineTable!Next
  <2>1. Return(s, Found(lines))
    BY <1>9, EofAnswer
  <2>2. UNCHANGED <<lines, tail>> /\ CallOf(s) = "select"
    BY <1>9 DEF FgetsEof, CallOf
  <2>3. PICK result : result = Found(lines) /\ Return(s, result)
    BY <2>1
  <2>4. LineTable!Ends(s, result) /\ FileLines' = FileLines
    BY <1>3, <2>2, <2>3
  <2>5. LineTable!SelectOk(s)
    BY <1>1, <2>2, <2>3, <2>4 DEF LineTable!SelectOk, LineTable!Ends, Found, LineTable!Found
  <2> QED  BY <2>5 DEF LineTable!Next
<1>10. ASSUME NEW s \in Sessions,
              \/ RefuseAppend(s) \/ FgetsBadLine(s) \/ OpenFails(s) \/ CloseFails(s)
              \/ ReadFails(s)
       PROVE  LineTable!Next
  <2>1. Return(s, Error) /\ UNCHANGED <<lines, tail>>
    BY <1>10 DEF RefuseAppend, FgetsBadLine, OpenFails, CloseFails, ReadFails
  <2>2. LineTable!Ends(s, Error) /\ FileLines' = FileLines
    BY <1>3, <2>1
  <2> QED  BY <2>2 DEF LineTable!Next, LineTable!Fail, Error, LineTable!Error
<1>11. ASSUME NEW s \in Sessions, Crash(s) PROVE LineTable!Next
  <2>1. LineTable!Ends(s, NoAnswer) /\ FileLines' = FileLines
    BY <1>3, <1>11 DEF Crash
  <2> QED  BY <2>1 DEF LineTable!Next, LineTable!Die, NoAnswer, LineTable!NoAnswer
<1>12. ASSUME NEW s \in Sessions PROVE ~WriteBuffer(s) /\ ~PrintFails(s)
                                        /\ ~FlushFails(s) /\ ~CloseAfterError(s)
  BY NoPieces
<1> QED  BY <1>2, <1>4, <1>5, <1>6, <1>7, <1>8, <1>9, <1>10, <1>11, <1>12
         DEF Next, Works, Breaks, Finished

\* Any number of processes that append and read through the C library, without a
\* lock and with opens, closes and reads that fail and processes that die, act on
\* an atomic table of lines: an acknowledged INSERT is there once and for all,
\* and a SELECT sees the table of one instant.
THEOREM StorageIsATable == ASSUME Undisturbed PROVE Spec => LineTableSpec
<1>1. Init => IInv /\ LineTable!Init
  BY InvInit, TableInit
<1>2. IInv /\ [Next]_vars => IInv'
  BY InvStep
<1>3. IInv /\ IInv' /\ [Next]_vars => [LineTable!Next]_(LineTable!vars)
  BY TableStep
<1> QED  BY <1>1, <1>2, <1>3, PTL DEF Spec, LineTableSpec, LineTable!Spec

-----------------------------------------------------------------------------
(* The same of the rows: with what CodecProofs says of one row, the file is a  *)
(* table of the rows that were inserted.                                       *)

\* The rows are rows of values, and none is written as a blank line, which
\* read_all_rows would skip.
Legible ==
    /\ Schema \in Seq(ColumnTypes)
    /\ \A r \in StorableRows : r \in Seq(Cells) /\ Serialize(r) # <<>>

\* A process that inserts nothing holds no row.
Empty == \A s \in Sessions : pc[s] \in {"idle", "read"} => row[s] = <<>>
RowInv == IInv /\ Empty

LEMMA StoredRowIsRead ==
    ASSUME Legible, NEW r \in StorableRows
    PROVE  /\ ~Blank(Serialize(r)) /\ Readable(Schema, Serialize(r))
           /\ ParsedRow(Schema, StripLineEndings(Serialize(r))) = r
<1>1. Storable(Schema, r) /\ r \in Seq(Cells) /\ Serialize(r) # <<>>
  BY DEF Legible, StorableRows
<1>2. ValidRow(Schema, r) /\ Serialize(r) \in Line
  BY <1>1 DEF Storable
<1>3. /\ ~Blank(Serialize(r)) /\ StripLineEndings(Serialize(r)) = Serialize(r)
      /\ Parsable(Schema, Serialize(r)) /\ ParsedRow(Schema, Serialize(r)) = r
  BY <1>1, <1>2, RoundTrip DEF Legible
<1>4. Len(Serialize(r)) < MAX_LINE_LENGTH
  <2>1. Len(Serialize(r)) \in Nat /\ Len(Serialize(r)) + 1 <= MAX_LINE_LENGTH
    BY <1>2 DEF Line
  <2> QED  BY <2>1, CodecConstants
<1> QED  BY <1>3, <1>4, Zenon DEF Readable

LEMMA RowIsAdded ==
    ASSUME Legible, NEW r \in StorableRows, NEW before \in Seq(Seq(Bytes)),
           Serialize(r) \in Seq(Bytes)
    PROVE  RowsOf(Schema, Append(before, Serialize(r))) = Append(RowsOf(Schema, before), r)
<1>1. RowsOf(Schema, Append(before, Serialize(r)))
        = WithLine(Schema, RowsOf(Schema, before), Serialize(r))
  BY RowsOfMore
<1> QED  BY <1>1, StoredRowIsRead DEF WithLine

LEMMA EmptyStep == Empty /\ TypeOK /\ [Next]_vars => Empty'
<1> SUFFICES ASSUME Empty, TypeOK, [Next]_vars PROVE Empty'
  OBVIOUS
<1>1. ASSUME NEW s \in Sessions, NEW result, Return(s, result) PROVE Empty'
  BY <1>1 DEF Return, Goto, Empty, TypeOK
<1>2. ASSUME NEW s \in Sessions, BeginAppend(s) \/ BeginRead(s) PROVE Empty'
  BY <1>2 DEF BeginAppend, BeginRead, Begin, Goto, Empty, TypeOK
<1>3. ASSUME NEW s \in Sessions,
             OpenAppend(s) \/ WriteBuffer(s) \/ CloseWrites(s) \/ FgetsLine(s) \/ PrintFails(s)
      PROVE  Empty'
  BY <1>3 DEF OpenAppend, WriteBuffer, CloseWrites, FgetsLine, PrintFails, Goto, Empty, TypeOK
<1>4. ASSUME NEW s \in Sessions,
             \/ RefuseAppend(s) \/ CloseAfterError(s) \/ AppendOk(s) \/ FgetsBadLine(s)
             \/ OpenFails(s) \/ FlushFails(s) \/ CloseFails(s) \/ ReadFails(s) \/ Crash(s)
      PROVE  Empty'
  BY <1>1, <1>4 DEF RefuseAppend, CloseAfterError, AppendOk, FgetsBadLine, OpenFails,
                    FlushFails, CloseFails, ReadFails, Crash
<1>5. ASSUME NEW s \in Sessions, FgetsEof(s) PROVE Empty'
  <2>1. PICK result : Return(s, result)
    BY <1>5 DEF FgetsEof
  <2> QED  BY <1>1, <2>1
<1>6. CASE UNCHANGED vars
  BY <1>6 DEF vars, Empty
<1> QED  BY <1>2, <1>3, <1>4, <1>5, <1>6 DEF Next, Works, Breaks, Finished

LEMMA RowInvInit == Undisturbed /\ Init => RowInv
BY InvInit DEF RowInv, Init, Empty

LEMMA RowInvStep == Undisturbed /\ RowInv /\ [Next]_vars => RowInv'
BY InvStep, EmptyStep DEF RowInv, IInv

LEMMA RowsInIs == \A texts \in Seq(Seq(Bytes)) : RowsIn[texts] = RowsOf(Schema, texts)
BY DEF RowsIn

LEMMA RowsInNone == RowsIn[<<>>] = <<>>
<1>1. <<>> \in Seq(Seq(Bytes))
  OBVIOUS
<1> QED  BY <1>1, RowsInIs, RowsOfNone

LEMMA RowTableInit == Undisturbed /\ Init => RowTable!Init
<1> SUFFICES ASSUME Undisturbed, Init PROVE RowTable!Init
  OBVIOUS
<1>1. FileLines = InitFile
  BY DEF Undisturbed, Init, InitFile, FileLines
<1>2. [NoAnswer EXCEPT !.items = RowsIn[@]] = RowTable!NoAnswer
  BY RowsInNone DEF NoAnswer, RowTable!NoAnswer
<1> QED  BY <1>1, <1>2 DEF Init, RowTable!Init, CallOf

LEMMA RowTableStep ==
    ASSUME Undisturbed, Legible, RowInv, RowInv', [Next]_vars
    PROVE  [RowTable!Next]_(RowTable!vars)
<1> USE DEF RowTable!vars
<1>1. TypeOK /\ FileLines = lines /\ FileLines' = lines'
  BY DEF RowInv, IInv, WholeLines, FileLines
<1>2. CASE UNCHANGED vars
  BY <1>2 DEF vars, FileLines, CallOf
<1> DEFINE Rowed(result) == [result EXCEPT !.items = RowsIn[@]]
<1>0. /\ Rowed(NoAnswer) = RowTable!NoAnswer /\ Rowed(Ok) = RowTable!Ok
      /\ Rowed(Error) = RowTable!Error
      /\ \A items : Rowed(Found(items)) = RowTable!Found(RowsIn[items])
  BY RowsInNone DEF NoAnswer, RowTable!NoAnswer, Ok, RowTable!Ok, Error, RowTable!Error,
                    Found, RowTable!Found
<1>3. ASSUME NEW s \in Sessions, NEW result, Return(s, result), UNCHANGED <<lines, tail>>
      PROVE  RowTable!Ends(s, Rowed(result)) /\ FileLines' = FileLines
  <2>1. [z \in Sessions |-> CallOf(z)]'
            = [[z \in Sessions |-> CallOf(z)] EXCEPT ![s] = "none"]
    BY <1>1, <1>3 DEF Return, Goto, CallOf, TypeOK
  <2>2. [z \in Sessions |-> row[z]]' = [[z \in Sessions |-> row[z]] EXCEPT ![s] = <<>>]
    BY <1>1, <1>3 DEF Return, TypeOK
  <2>3. [z \in Sessions |-> pc[z] = "written"]'
            = [[z \in Sessions |-> pc[z] = "written"] EXCEPT ![s] = FALSE]
    BY <1>1, <1>3 DEF Return, Goto, TypeOK
  <2>4. [z \in Sessions |-> Rowed(answer[z])]'
            = [[z \in Sessions |-> Rowed(answer[z])] EXCEPT ![s] = Rowed(result)]
    <3>1. answer' = [answer EXCEPT ![s] = result] /\ answer \in [Sessions -> Answers]
      BY <1>1, <1>3 DEF Return, TypeOK
    <3> HIDE DEF Rowed
    <3>2. \A z \in Sessions : Rowed(answer'[z])
              = IF z = s THEN Rowed(result) ELSE Rowed(answer[z])
      BY <3>1
    <3>3. [z \in Sessions |-> Rowed(answer'[z])]
              = [[z \in Sessions |-> Rowed(answer[z])] EXCEPT ![s] = Rowed(result)]
      BY <3>2
    <3> QED  BY <3>3 DEF Rowed
  <2> QED  BY <1>1, <1>3, <2>1, <2>2, <2>3, <2>4 DEF RowTable!Ends
<1>4. ASSUME NEW s \in Sessions, BeginAppend(s) \/ BeginRead(s)
      PROVE  [z \in Sessions |-> Rowed(answer[z])]'
                = [[z \in Sessions |-> Rowed(answer[z])] EXCEPT ![s] = RowTable!NoAnswer]
  <2>1. answer' = [answer EXCEPT ![s] = NoAnswer] /\ answer \in [Sessions -> Answers]
    BY <1>1, <1>4 DEF BeginAppend, BeginRead, TypeOK
  <2>2. Rowed(NoAnswer) = RowTable!NoAnswer
    BY <1>0
  <2> HIDE DEF Rowed
  <2>3. \A z \in Sessions : Rowed(answer'[z])
            = IF z = s THEN RowTable!NoAnswer ELSE Rowed(answer[z])
    BY <2>1, <2>2
  <2>4. [z \in Sessions |-> Rowed(answer'[z])]
            = [[z \in Sessions |-> Rowed(answer[z])] EXCEPT ![s] = RowTable!NoAnswer]
    BY <2>3
  <2> QED  BY <2>4 DEF Rowed
<1>5. ASSUME NEW s \in Sessions, BeginAppend(s) PROVE RowTable!Next
  <2>1. PICK r \in Rows : Storable(Schema, r) /\ row' = [row EXCEPT ![s] = r]
    BY <1>5 DEF BeginAppend
  <2>2. r \in StorableRows
    BY <2>1 DEF StorableRows
  <2>3. RowTable!Begin(s, "insert", r)
    BY <1>1, <1>4, <1>5, <2>1
       DEF RowTable!Begin, BeginAppend, Begin, Goto, CallOf, TypeOK
  <2> QED  BY <2>2, <2>3 DEF RowTable!Next, RowTable!Insert
<1>6. ASSUME NEW s \in Sessions, BeginRead(s) PROVE RowTable!Next
  <2>1. row[s] = <<>>
    BY <1>6 DEF RowInv, Empty, BeginRead, Begin
  <2>2. RowTable!Begin(s, "select", <<>>)
    BY <1>1, <1>4, <1>6, <2>1
       DEF RowTable!Begin, BeginRead, Begin, Goto, CallOf, TypeOK
  <2> QED  BY <2>2 DEF RowTable!Next, RowTable!Select
<1>7. ASSUME NEW s \in Sessions, OpenAppend(s) \/ FgetsLine(s)
      PROVE  UNCHANGED RowTable!vars
  BY <1>1, <1>7 DEF OpenAppend, FgetsLine, Goto, CallOf, TypeOK
<1>8. ASSUME NEW s \in Sessions, CloseWrites(s) PROVE RowTable!Next
  <2>1. /\ row[s] \in StorableRows /\ Serialize(row[s]) \in Seq(Bytes)
        /\ lines' = Append(lines, Serialize(row[s]))
    BY <1>8, CloseAddsLine DEF RowInv
  <2>4. lines \in Seq(Seq(Bytes)) /\ lines' \in Seq(Seq(Bytes))
    BY <1>1, <2>1 DEF TypeOK
  <2>2. RowsIn[FileLines'] = Append(RowsIn[FileLines], row[s])
    BY <1>1, <2>1, <2>4, RowIsAdded, RowsInIs
  <2>3. RowTable!Add(s)
    BY <1>1, <1>8, <2>2 DEF RowTable!Add, CloseWrites, Goto, CallOf, TypeOK
  <2> QED  BY <2>3 DEF RowTable!Next
<1>9. ASSUME NEW s \in Sessions, AppendOk(s) PROVE RowTable!Next
  <2>1. RowTable!Ends(s, Rowed(Ok)) /\ FileLines' = FileLines
    BY <1>3, <1>9 DEF AppendOk
  <2>2. RowTable!Ends(s, RowTable!Ok)
    BY <1>0, <2>1, Zenon
  <2>3. RowTable!InsertOk(s)
    BY <1>9, <2>1, <2>2 DEF RowTable!InsertOk, AppendOk, CallOf
  <2> QED  BY <2>3 DEF RowTable!Next
<1>10. ASSUME NEW s \in Sessions, FgetsEof(s) PROVE RowTable!Next
  <2>1. Return(s, Found(lines))
    BY <1>10, EofAnswer DEF RowInv
  <2>2. UNCHANGED <<lines, tail>> /\ CallOf(s) = "select"
    BY <1>10 DEF FgetsEof, CallOf
  <2>3. PICK result : result = Found(lines) /\ Return(s, result)
    BY <2>1
  <2>4. RowTable!Ends(s, Rowed(result)) /\ FileLines' = FileLines
    BY <1>3, <2>2, <2>3
  <2>6. Rowed(result) = RowTable!Found(RowsIn[FileLines])
    BY <1>0, <1>1, <2>3, Zenon
  <2>7. RowTable!Ends(s, RowTable!Found(RowsIn[FileLines]))
    <3> HIDE DEF Rowed
    <3>1. PICK r : r = Rowed(result)
      OBVIOUS
    <3>2. RowTable!Ends(s, r) /\ r = RowTable!Found(RowsIn[FileLines])
      BY <2>4, <2>6, <3>1
    <3> QED  BY <3>2 DEF RowTable!Ends
  <2>5. RowTable!SelectOk(s)
    BY <2>2, <2>4, <2>7 DEF RowTable!SelectOk
  <2> QED  BY <2>5 DEF RowTable!Next
<1>11. ASSUME NEW s \in Sessions,
              \/ RefuseAppend(s) \/ FgetsBadLine(s) \/ OpenFails(s) \/ CloseFails(s)
              \/ ReadFails(s)
       PROVE  RowTable!Next
  <2>1. Return(s, Error) /\ UNCHANGED <<lines, tail>>
    BY <1>11 DEF RefuseAppend, FgetsBadLine, OpenFails, CloseFails, ReadFails
  <2>2. RowTable!Ends(s, Rowed(Error)) /\ FileLines' = FileLines
    BY <1>3, <2>1
  <2>3. RowTable!Ends(s, RowTable!Error)
    BY <1>0, <2>2, Zenon
  <2> QED  BY <2>2, <2>3 DEF RowTable!Next, RowTable!Fail
<1>12. ASSUME NEW s \in Sessions, Crash(s) PROVE RowTable!Next
  <2>1. RowTable!Ends(s, Rowed(NoAnswer)) /\ FileLines' = FileLines
    BY <1>3, <1>12 DEF Crash
  <2>2. RowTable!Ends(s, RowTable!NoAnswer)
    BY <1>0, <2>1, Zenon
  <2> QED  BY <2>1, <2>2 DEF RowTable!Next, RowTable!Die
<1>13. ASSUME NEW s \in Sessions PROVE ~WriteBuffer(s) /\ ~PrintFails(s)
                                        /\ ~FlushFails(s) /\ ~CloseAfterError(s)
  BY NoPieces DEF RowInv
<1> QED  BY <1>2, <1>5, <1>6, <1>7, <1>8, <1>9, <1>10, <1>11, <1>12, <1>13
         DEF Next, Works, Breaks, Finished

\* Whatever the interleaving of the processes, and though they write and parse
\* texts, what one is given to insert is what all read afterwards: the file is an
\* atomic table of rows.
THEOREM StorageIsATableOfRows == ASSUME Undisturbed, Legible PROVE Spec => RowTableSpec
<1>1. Init => RowInv /\ RowTable!Init
  BY RowInvInit, RowTableInit
<1>2. RowInv /\ [Next]_vars => RowInv'
  BY RowInvStep
<1>3. RowInv /\ RowInv' /\ [Next]_vars => [RowTable!Next]_(RowTable!vars)
  BY RowTableStep
<1> QED  BY <1>1, <1>2, <1>3, PTL DEF Spec, RowTableSpec, RowTable!Spec

-----------------------------------------------------------------------------
(* How many rows there are.  A line in the file whose INSERT has not returned  *)
(* yet belongs to a process that has written and not closed.                   *)

LegibleStart == \A i \in DOMAIN InitLines : Readable(Schema, InitLines[i])

Writers == {s \in Sessions : pc[s] = "written"}
RowCount == Len(RowsOf(Schema, lines))
Owed == Len(acked) + Cardinality(Writers)
RowsAreCounted ==
    /\ IsFiniteSet(Writers)
    /\ RowCount - Len(RowsOf(Schema, InitLines)) \in Owed..(Owed + broken)
    /\ \A i \in DOMAIN lines : Readable(Schema, lines[i])

LEMMA RowCountType ==
    ASSUME NEW texts \in Seq(Seq(Bytes))
    PROVE  Len(RowsOf(Schema, texts)) \in Nat
BY RowsAreRows, LenProperties

LEMMA CountInit == LegibleStart /\ Init => RowsAreCounted
<1> SUFFICES ASSUME LegibleStart, Init PROVE RowsAreCounted
  OBVIOUS
<1>1. Writers = {}
  BY DEF Init, Writers
<1>2. IsFiniteSet({}) /\ Cardinality({}) = 0
  BY FS_EmptySet
<1>3. Len(RowsOf(Schema, InitLines)) \in Nat
  BY RowCountType, StorageConstants
<1>4. lines = InitLines /\ Len(acked) = 0 /\ broken = 0
  BY DEF Init
<1> QED  BY <1>1, <1>2, <1>3, <1>4 DEF RowsAreCounted, RowCount, Owed, LegibleStart

\* An INSERT returns.
LEMMA CountAtReturn ==
    ASSUME TypeOK, RowsAreCounted, NEW s \in Sessions, NEW result, Return(s, result),
           UNCHANGED lines, result.status = "ok" => pc[s] = "written"
    PROVE  RowsAreCounted'
<1> DEFINE base == Len(RowsOf(Schema, InitLines))
           n == RowCount - base
           w == Cardinality(Writers)
<1>1. RowCount \in Nat /\ base \in Nat /\ RowCount' = RowCount
  BY RowCountType, StorageConstants DEF TypeOK, RowCount
<1>2. /\ IsFiniteSet(Writers) /\ w \in Nat /\ Len(acked) \in Nat /\ broken \in Nat
      /\ n \in Len(acked) + w..Len(acked) + w + broken
  BY FS_CardinalityType DEF RowsAreCounted, TypeOK, Owed
<1>3. Writers' = Writers \ {s}
  BY DEF Return, Goto, TypeOK, Writers
<1>4. IsFiniteSet(Writers') /\ Cardinality(Writers') = IF pc[s] = "written" THEN w - 1 ELSE w
  <2>1. s \in Writers <=> pc[s] = "written"
    BY DEF Writers
  <2> QED  BY <1>2, <1>3, <2>1, FS_RemoveElement
<1>5. Len(acked') = IF result.status = "ok" THEN Len(acked) + 1 ELSE Len(acked)
  <2>1. result.status = "ok" => row[s] \in StorableRows
    BY DEF TypeOK
  <2> QED  BY <2>1 DEF TypeOK, Return
<1>6. broken' = IF pc[s] \in {"print", "failed", "written"} /\ result.status # "ok"
                THEN broken + 1 ELSE broken
  BY DEF Return
<1>7. RowCount' - base \in Owed'..(Owed' + broken')
  <2> HIDE DEF n, w, base
  <2>1. n \in Owed'..(Owed' + broken')
    <3>1. CASE result.status = "ok"
      BY <3>1, <1>2, <1>4, <1>5, <1>6 DEF Owed, w
    <3>2. CASE result.status # "ok" /\ pc[s] = "written"
      BY <3>2, <1>2, <1>4, <1>5, <1>6 DEF Owed, w
    <3>3. CASE result.status # "ok" /\ pc[s] # "written"
      BY <3>3, <1>2, <1>4, <1>5, <1>6 DEF Owed, w
    <3> QED  BY <3>1, <3>2, <3>3
  <2> QED  BY <1>1, <2>1 DEF n
<1> QED  BY <1>4, <1>7 DEF RowsAreCounted

\* A line reaches the file.
LEMMA CountAtClose ==
    ASSUME Legible, IInv, RowsAreCounted, NEW s \in Sessions, CloseWrites(s)
    PROVE  RowsAreCounted'
<1> DEFINE base == Len(RowsOf(Schema, InitLines))
           n == RowCount - base
           w == Cardinality(Writers)
<1>0. TypeOK
  BY DEF IInv
<1>1. /\ row[s] \in StorableRows /\ Serialize(row[s]) \in Seq(Bytes)
      /\ lines' = Append(lines, Serialize(row[s]))
  BY CloseAddsLine
<1>2. RowCount \in Nat /\ base \in Nat /\ RowCount' = RowCount + 1
  <2>1. RowsOf(Schema, lines') = Append(RowsOf(Schema, lines), row[s])
    BY <1>0, <1>1, RowIsAdded DEF TypeOK
  <2>2. PICK E : RowsOf(Schema, lines) \in Seq(E)
    BY <1>0, RowsAreRows DEF TypeOK
  <2>3. RowsOf(Schema, lines) \in Seq(E \cup {row[s]})
    BY <2>2, SeqIsLarger
  <2>4. Len(Append(RowsOf(Schema, lines), row[s])) = Len(RowsOf(Schema, lines)) + 1
    BY <2>3, AppendProperties
  <2> QED  BY <1>0, <2>1, <2>4, RowCountType, StorageConstants DEF TypeOK, RowCount
<1>3. /\ IsFiniteSet(Writers) /\ w \in Nat /\ Len(acked) \in Nat /\ broken \in Nat
      /\ n \in Len(acked) + w..Len(acked) + w + broken
  BY <1>0, FS_CardinalityType DEF RowsAreCounted, TypeOK, Owed
<1>4. Writers' = Writers \cup {s} /\ s \notin Writers
  BY <1>0 DEF CloseWrites, Goto, TypeOK, Writers
<1>5. IsFiniteSet(Writers') /\ Cardinality(Writers') = w + 1
  BY <1>3, <1>4, FS_AddElement
<1>6. Len(acked') = Len(acked) /\ broken' = broken
  BY DEF CloseWrites
<1>7. RowCount' - base \in Owed'..(Owed' + broken')
  <2> HIDE DEF w, base
  <2>1. n + 1 \in Owed'..(Owed' + broken')
    BY <1>3, <1>5, <1>6 DEF Owed
  <2> QED  BY <1>2, <2>1
<1>8. \A i \in DOMAIN lines' : Readable(Schema, lines'[i])
  <2>1. Readable(Schema, Serialize(row[s]))
    BY <1>1, StoredRowIsRead
  <2>2. /\ lines \in Seq(Seq(Bytes)) /\ DOMAIN lines = 1..Len(lines) /\ Len(lines) \in Nat
        /\ DOMAIN lines' = 1..(Len(lines) + 1)
        /\ \A i \in 1..Len(lines) : lines'[i] = lines[i]
        /\ lines'[Len(lines) + 1] = Serialize(row[s])
    BY <1>0, <1>1 DEF TypeOK
  <2> QED  BY <2>1, <2>2 DEF RowsAreCounted
<1> QED  BY <1>5, <1>7, <1>8 DEF RowsAreCounted

LEMMA CountStep ==
    ASSUME Undisturbed, Legible, IInv, RowsAreCounted, [Next]_vars
    PROVE  RowsAreCounted'
<1>0. TypeOK
  BY DEF IInv
<1>1. CASE UNCHANGED vars
  BY <1>1 DEF vars, RowsAreCounted, RowCount, Owed, Writers
<1>2. ASSUME NEW s \in Sessions,
             BeginAppend(s) \/ BeginRead(s) \/ OpenAppend(s) \/ FgetsLine(s)
      PROVE  RowsAreCounted'
  <2>1. UNCHANGED <<lines, acked, broken>>
    BY <1>2 DEF BeginAppend, BeginRead, OpenAppend, FgetsLine
  <2>2. Writers' = Writers
    BY <1>0, <1>2 DEF BeginAppend, BeginRead, OpenAppend, FgetsLine, Begin, Goto, TypeOK, Writers
  <2> QED  BY <2>1, <2>2 DEF RowsAreCounted, RowCount, Owed
<1>3. ASSUME NEW s \in Sessions, CloseWrites(s) PROVE RowsAreCounted'
  BY <1>3, CountAtClose
<1>4. ASSUME NEW s \in Sessions, FgetsEof(s) PROVE RowsAreCounted'
  <2>1. PICK result : result = Found(lines) /\ Return(s, result)
    BY <1>4, EofAnswer
  <2>2. result.status # "ok"
    BY <2>1 DEF Found
  <2> QED  BY <1>0, <1>4, <2>1, <2>2, CountAtReturn DEF FgetsEof
<1>5. ASSUME NEW s \in Sessions, AppendOk(s) PROVE RowsAreCounted'
  BY <1>0, <1>5, CountAtReturn DEF AppendOk
<1>6. ASSUME NEW s \in Sessions,
             \/ RefuseAppend(s) \/ FgetsBadLine(s) \/ OpenFails(s) \/ CloseFails(s)
             \/ ReadFails(s) \/ Crash(s)
      PROVE  RowsAreCounted'
  <2>1. (Return(s, Error) \/ Return(s, NoAnswer)) /\ UNCHANGED lines
    BY <1>6 DEF RefuseAppend, FgetsBadLine, OpenFails, CloseFails, ReadFails, Crash
  <2>2. Error.status # "ok" /\ NoAnswer.status # "ok"
    BY DEF Error, NoAnswer
  <2> QED  BY <1>0, <2>1, <2>2, CountAtReturn
<1>7. ASSUME NEW s \in Sessions PROVE ~WriteBuffer(s) /\ ~PrintFails(s)
                                       /\ ~FlushFails(s) /\ ~CloseAfterError(s)
  BY NoPieces
<1> QED  BY <1>1, <1>2, <1>3, <1>4, <1>5, <1>6, <1>7 DEF Next, Works, Breaks, Finished

\* No row appears twice or is lost: with no operation in progress the file has the
\* rows it had, one for each INSERT that returned success, and at most one for each
\* that was cut short.
THEOREM InsertsAddOneRow ==
    ASSUME Undisturbed, Legible, LegibleStart PROVE Spec => []InsertAddsOneRow
<1>1. Init => IInv /\ RowsAreCounted
  BY InvInit, CountInit
<1>2. IInv /\ RowsAreCounted /\ [Next]_vars => IInv' /\ RowsAreCounted'
  BY InvStep, CountStep
<1>3. IInv /\ RowsAreCounted => InsertAddsOneRow
  <2> SUFFICES ASSUME IInv, RowsAreCounted, AllIdle
               PROVE  /\ \A i \in DOMAIN FileLines : Readable(Schema, FileLines[i])
                      /\ Len(RowsOf(Schema, FileLines)) - Len(RowsOf(Schema, InitFile))
                            \in Len(acked)..(Len(acked) + broken)
    BY DEF InsertAddsOneRow
  <2>1. FileLines = lines /\ InitFile = InitLines
    BY DEF IInv, WholeLines, FileLines, InitFile, Undisturbed
  <2>2. Writers = {}
    BY DEF AllIdle, Writers
  <2>3. Owed = Len(acked)
    BY <2>2, FS_EmptySet DEF Owed, IInv, TypeOK
  <2> QED  BY <2>1, <2>3 DEF RowsAreCounted, RowCount
<1> QED  BY <1>1, <1>2, <1>3, PTL DEF Spec
-----------------------------------------------------------------------------
(* No byte is lost or overwritten.  Sent(s) counts the bytes of its line that  *)
(* process s has in the file and no success has been reported for.             *)

Sent(s) == CASE pc[s] = "print"   -> Len(Serialize(row[s])) + 1 - Len(stream[s])
             [] pc[s] = "written" -> Len(Serialize(row[s]))
             [] OTHER             -> 0
sent == [s \in Sessions |-> Sent(s)]

\* The pairs <<s, i>> with i up to f[s]: as many as the values of f have together.
Units(f) == {u \in Sessions \X Nat : u[2] \in 1..f[u[1]]}

LEMMA UnitsOfOne ==
    ASSUME NEW s, NEW n \in Nat
    PROVE  LET units == {<<s, i>> : i \in 1..n}
           IN  IsFiniteSet(units) /\ Cardinality(units) = n
<1> DEFINE units == {<<s, i>> : i \in 1..n}
           f == [i \in 1..n |-> <<s, i>>]
<1>1. IsFiniteSet(1..n) /\ Cardinality(1..n) = n
  BY FS_Interval
<1>2. f \in Bijection(1..n, units)
  <2>1. f \in [1..n -> units] /\ \A i \in 1..n : f[i] = <<s, i>>
    OBVIOUS
  <2>2. \A i, j \in 1..n : f[i] = f[j] => i = j
    BY <2>1
  <2>3. \A u \in units : \E i \in 1..n : f[i] = u
    BY <2>1
  <2> HIDE DEF f, units
  <2> QED  BY <2>1, <2>2, <2>3 DEF Bijection, Injection, Surjection, IsInjective
<1>3. ExistsBijection(1..n, units)
  BY <1>2 DEF ExistsBijection
<1> QED  BY <1>1, <1>3, FS_Bijection

\* One value changes, and the count by as much.
LEMMA UnitsChange ==
    ASSUME NEW f \in [Sessions -> Nat], NEW s \in Sessions, NEW n \in Nat, IsFiniteSet(Units(f))
    PROVE  LET g == [f EXCEPT ![s] = n]
           IN  /\ IsFiniteSet(Units(g))
               /\ Cardinality(Units(g)) = Cardinality(Units(f)) - f[s] + n
<1> DEFINE g == [f EXCEPT ![s] = n]
           old == {<<s, i>> : i \in 1..f[s]}
           new == {<<s, i>> : i \in 1..n}
           rest == Units(f) \ old
<1>0. f[s] \in Nat
  OBVIOUS
<1>1. /\ IsFiniteSet(old) /\ Cardinality(old) = f[s]
      /\ IsFiniteSet(new) /\ Cardinality(new) = n
  BY <1>0, UnitsOfOne
<1>2. old \subseteq Units(f)
  BY <1>0 DEF Units
<1>3. Units(g) = rest \cup new /\ rest \cap new = {}
  <2>1. ASSUME NEW u \in Sessions \X Nat PROVE u \in Units(g) <=> u \in rest \cup new
    <3>1. PICK z \in Sessions, i \in Nat : u = <<z, i>>
      OBVIOUS
    <3>2. CASE z = s
      <4>1. u \in new <=> i \in 1..n
        BY <3>1, <3>2
      <4>2. u \in Units(g) <=> i \in 1..n
        BY <3>1, <3>2 DEF Units
      <4>3. u \notin rest
        BY <3>1, <3>2 DEF Units
      <4> QED  BY <4>1, <4>2, <4>3
    <3>3. CASE z # s
      <4>1. u \notin new /\ u \notin old
        BY <3>1, <3>3
      <4>2. u \in Units(g) <=> u \in Units(f)
        BY <3>1, <3>3 DEF Units
      <4> QED  BY <4>1, <4>2
    <3> QED  BY <3>2, <3>3
  <2>2. Units(g) \subseteq Sessions \X Nat /\ Units(f) \subseteq Sessions \X Nat
        /\ new \subseteq Sessions \X Nat
    BY DEF Units
  <2>3. ASSUME NEW u \in rest PROVE u \notin new
    <3>1. PICK z \in Sessions, i \in Nat : u = <<z, i>>
      BY <2>2
    <3>2. z # s
      BY <3>1 DEF Units
    <3> QED  BY <3>1, <3>2
  <2> QED  BY <2>1, <2>2, <2>3
<1> HIDE DEF old, new, g
<1>4. Units(f) \cap old = old
  BY <1>2
<1>5. IsFiniteSet(rest) /\ Cardinality(rest) = Cardinality(Units(f)) - f[s]
  <2>1. PICK all : all = Units(f)
    OBVIOUS
  <2>2. IsFiniteSet(all \ old) /\ Cardinality(all \ old) = Cardinality(all) - Cardinality(all \cap old)
    BY <2>1, FS_Difference, Zenon
  <2> QED  BY <1>1, <1>4, <2>1, <2>2 DEF rest
<1> HIDE DEF rest
<1>6. IsFiniteSet(Units(g)) /\ Cardinality(Units(g)) = Cardinality(rest) + n - Cardinality({})
  BY <1>1, <1>3, <1>5, FS_Union
<1>7. Cardinality({}) = 0 /\ Cardinality(Units(f)) \in Nat /\ Cardinality(Units(g)) \in Nat
  BY <1>6, FS_EmptySet, FS_CardinalityType
<1> QED  BY <1>0, <1>5, <1>6, <1>7 DEF g

-----------------------------------------------------------------------------
Lengths == INSTANCE FoldFacts WITH
    Op <- LAMBDA p, n, t : n + Len(t), Base <- LAMBDA p : 0

LEMMA LengthIsFold == \A texts : TextLength(texts) = Lengths!Fold(0, texts)
BY DEF TextLength, Lengths!Fold, FoldLeft, Lengths!FoldLeft, MapThenFoldSet,
       Lengths!MapThenFoldSet, Max, Lengths!Max

LEMMA LengthOfMore ==
    ASSUME NEW texts \in Seq(Seq(Bytes)), NEW t \in Seq(Bytes)
    PROVE  /\ TextLength(<<>>) = 0
           /\ TextLength(texts) \in Nat
           /\ TextLength(Append(texts, t)) = TextLength(texts) + Len(t)
<1>1. TextLength(<<>>) = 0
  BY LengthIsFold, Lengths!FoldOfNone
<1>2. Lengths!Fold(0, texts) \in Nat
  <2>1. \A n \in Nat, u \in Seq(Bytes) : n + Len(u) \in Nat
    OBVIOUS
  <2> QED  BY <2>1, Lengths!FoldHasType
<1>3. Lengths!Fold(0, Append(texts, t)) = Lengths!Fold(0, texts) + Len(t)
  BY Lengths!FoldOfMore
<1> QED  BY <1>1, <1>2, <1>3, LengthIsFold

LEMMA LengthType ==
    ASSUME NEW texts \in Seq(Seq(Bytes))
    PROVE  TextLength(texts) \in Nat
BY LengthOfMore, EmptySeq

\* The bytes of the file, its last line included.
Size == TextLength(lines) + Len(tail)

LEMMA SizeOfFile == TypeOK => TextLength(FileLines) = Size /\ Size \in Nat
BY LengthOfMore DEF TypeOK, FileLines, Size

\* The lines of a sequence of rows.
LinesOfRows(rows) == [i \in DOMAIN rows |-> Serialize(rows[i])]

LEMMA LinesOfMore ==
    ASSUME NEW rows \in Seq(StorableRows), NEW r \in StorableRows
    PROVE  /\ LinesOfRows(rows) \in Seq(Seq(Bytes))
           /\ LinesOfRows(Append(rows, r)) = Append(LinesOfRows(rows), Serialize(r))
<1> DEFINE n == Len(rows)
           more == Append(rows, r)
           g == LinesOfRows(rows)
<1>0. \A x \in StorableRows : Serialize(x) \in Seq(Bytes)
  BY DEF StorableRows, Storable, Line
<1>1. /\ n \in Nat /\ DOMAIN rows = 1..n /\ \A i \in 1..n : rows[i] \in StorableRows
      /\ DOMAIN more = 1..n + 1 /\ (\A i \in 1..n : more[i] = rows[i]) /\ more[n + 1] = r
  OBVIOUS
<1>2. g = [i \in 1..n |-> g[i]] /\ \A i \in 1..n : g[i] = Serialize(rows[i]) /\ g[i] \in Seq(Bytes)
  BY <1>0, <1>1 DEF LinesOfRows
<1>3. PICK h : h = g
  OBVIOUS
<1> HIDE DEF g
<1>4. h \in Seq(Seq(Bytes)) /\ Len(h) = n
  BY <1>1, <1>2, <1>3, MappedSeq, Zenon
<1>5. Append(h, Serialize(r)) =
            [i \in 1..(n + 1) |-> IF i = n + 1 THEN Serialize(r) ELSE h[i]]
  BY <1>0, <1>4, AppendIs
<1>6. LinesOfRows(more) = [i \in 1..(n + 1) |-> IF i = n + 1 THEN Serialize(r) ELSE h[i]]
  <2> HIDE DEF more
  <2>1. LinesOfRows(more) = [i \in 1..(n + 1) |-> Serialize(more[i])]
    BY <1>1 DEF LinesOfRows
  <2>2. \A i \in 1..(n + 1) : i # n + 1 => i \in 1..n
    BY <1>1
  <2>3. \A i \in 1..(n + 1) : Serialize(more[i]) = IF i = n + 1 THEN Serialize(r) ELSE h[i]
    BY <1>1, <1>2, <1>3, <2>2
  <2> QED  BY <2>1, <2>3
<1> QED  BY <1>3, <1>4, <1>5, <1>6 DEF g

LEMMA LinesAreTexts ==
    ASSUME NEW rows \in Seq(StorableRows)
    PROVE  LinesOfRows(rows) \in Seq(Seq(Bytes))
<1> DEFINE n == Len(rows)
           g == LinesOfRows(rows)
<1>1. \A x \in StorableRows : Serialize(x) \in Seq(Bytes)
  BY DEF StorableRows, Storable, Line
<1>2. n \in Nat /\ DOMAIN rows = 1..n /\ \A i \in 1..n : rows[i] \in StorableRows
  OBVIOUS
<1>3. g = [i \in 1..n |-> g[i]] /\ \A i \in 1..n : g[i] \in Seq(Bytes)
  BY <1>1, <1>2 DEF LinesOfRows
<1>4. PICK h : h = g
  OBVIOUS
<1> HIDE DEF g
<1> QED  BY <1>2, <1>3, <1>4, MappedSeq, Zenon DEF g

\* A write makes the file longer by what it writes.
LEMMA SizeAfterPiece ==
    ASSUME TypeOK, NEW t \in Stream, Written(t), t # <<>>, t[Len(t)] # NL
    PROVE  lines' = lines /\ Size' = Size + Len(t)
<1>1. t \in Seq(Bytes \cup {NL}) /\ tail \in Seq(Bytes)
  BY DEF TypeOK, Stream, Text
<1>2. lines' = lines /\ tail' = tail \o t
  BY DEF Written
<1>3. Len(tail \o t) = Len(tail) + Len(t)
  <2>1. tail \in Seq(Bytes \cup {NL})
    BY <1>1, SeqIsLarger
  <2> QED  BY <1>1, <2>1, ConcatProperties
<1> QED  BY <1>1, <1>2, <1>3, LengthOfMore DEF Size, TypeOK

LEMMA SizeAfterLine ==
    ASSUME TypeOK, NEW t \in Stream, Written(t), t # <<>>, t[Len(t)] = NL
    PROVE  Len(lines') = Len(lines) + 1 /\ Size' = Size + Len(t) - 1
<1> DEFINE u == SubSeq(t, 1, Len(t) - 1)
<1>1. t \in Seq(Bytes \cup {NL}) /\ tail \in Seq(Bytes) /\ Len(t) \in Nat /\ Len(t) >= 1
      /\ lines \in Seq(Seq(Bytes))
  BY DEF TypeOK, Stream, Text
<1>2. u \in Seq(Bytes) /\ Len(u) = Len(t) - 1
  <2>1. \A i \in 1..Len(t) - 1 : t[i] \in Bytes
    BY DEF Stream
  <2>2. 1 \in Nat /\ Len(t) - 1 \in Nat /\ Len(t) - 1 <= Len(t) /\ Len(t) - 1 - 1 + 1 = Len(t) - 1
    BY <1>1
  <2> QED  BY <1>1, <2>1, <2>2
<1>3. lines' = Append(lines, tail \o u) /\ tail' = <<>>
  BY DEF Written
<1> HIDE DEF u
<1>4. tail \o u \in Seq(Bytes) /\ Len(tail \o u) = Len(tail) + Len(u)
  BY <1>1, <1>2, ConcatProperties
<1>5. TextLength(lines') = TextLength(lines) + Len(tail \o u) /\ TextLength(lines) \in Nat
  BY <1>1, <1>3, <1>4, LengthOfMore
<1>6. Len(lines') = Len(lines) + 1
  BY <1>1, <1>3, <1>4
<1> QED  BY <1>1, <1>2, <1>3, <1>4, <1>5, <1>6 DEF Size

-----------------------------------------------------------------------------
\* The rows are rows of the table's columns, as the executor makes them.
RowsAreTyped == Schema \in Seq(ColumnTypes) /\ \A r \in StorableRows : r \in Seq(Cells)

Prints(s) ==
    LET t == stream[s]
    IN  /\ t # <<>> /\ t[Len(t)] = NL
        /\ \A i \in 1..Len(t) - 1 : t[i] # NL
        /\ Len(t) <= Len(Serialize(row[s])) + 1
Printing == \A s \in Sessions : pc[s] = "print" => Prints(s)
Intact == broken = 0 /\ \A s \in Sessions : pc[s] # "failed"

BytesAreKept ==
    /\ Printing
    /\ IsFiniteSet(Writers) /\ IsFiniteSet(Units(sent))
    /\ Intact =>
        /\ Len(lines) = Len(InitLines) + Len(acked) + Cardinality(Writers)
        /\ Size = TextLength(InitFile) + TextLength(LinesOfRows(acked)) + Cardinality(Units(sent))

\* A stored line has no newline inside.
LEMMA LineHasNoNewline ==
    ASSUME RowsAreTyped, NEW r \in StorableRows
    PROVE  /\ Serialize(r) \in Line /\ Len(Serialize(r)) \in Nat
           /\ \A i \in 1..Len(Serialize(r)) : Serialize(r)[i] # NL
<1>1. r \in Seq(Cells) /\ ValidRow(Schema, r) /\ Serialize(r) \in Line
  BY DEF RowsAreTyped, StorableRows, Storable
<1>2. r # <<>> /\ \A i \in 1..Len(r) : r[i] \in Writable
  <2>1. Len(r) = Len(Schema) /\ DOMAIN Schema = 1..Len(Schema) /\ Len(Schema) >= 1
    BY <1>1 DEF ValidRow, RowsAreTyped
  <2>2. \A i \in 1..Len(r) : r[i] \in Cells
    BY <1>1
  <2> QED  BY <1>1, <2>1, <2>2 DEF ValidRow, Writable
<1>3. r \in Seq(Writable)
  BY <1>1, <1>2, SeqElements
<1>4. Serialize(r) \in Seq(LineBytes)
  BY <1>2, <1>3, FieldsAreRead
<1>5. \A i \in 1..Len(Serialize(r)) : Serialize(r)[i] \in LineBytes
  BY <1>4
<1>6. NL \notin LineBytes
  BY DEF LineBytes, FieldBytes, NL
<1> QED  BY <1>1, <1>4, <1>5, <1>6

LEMMA SentType == TypeOK /\ Printing => sent \in [Sessions -> Nat]
<1> SUFFICES ASSUME TypeOK, Printing, NEW s \in Sessions PROVE Sent(s) \in Nat
  BY DEF sent
<1>1. pc[s] \in {"print", "written"} => Len(Serialize(row[s])) \in Nat
  BY DEF TypeOK, StorableRows, Storable, Line
<1>2. Len(stream[s]) \in Nat
  BY DEF TypeOK, Stream, Text
<1> QED  BY <1>1, <1>2 DEF Sent, Prints, Printing

LEMMA SentTypeNext == TypeOK' /\ Printing' => sent' \in [Sessions -> Nat]
<1> SUFFICES ASSUME TypeOK', Printing', NEW s \in Sessions PROVE Sent(s)' \in Nat
  BY DEF sent
<1>1. pc'[s] \in {"print", "written"} => Len(Serialize(row'[s])) \in Nat
  BY DEF TypeOK, StorableRows, Storable, Line
<1>2. Len(stream'[s]) \in Nat
  BY DEF TypeOK, Stream, Text
<1> QED  BY <1>1, <1>2 DEF Sent, Prints, Printing

LEMMA CountsType ==
    ASSUME TypeOK
    PROVE  /\ Size \in Nat /\ TextLength(InitFile) \in Nat
           /\ TextLength(LinesOfRows(acked)) \in Nat
<1>1. InitFile \in Seq(Seq(Bytes))
  BY StorageConstants DEF InitFile
<1>2. acked \in Seq(StorableRows)
  BY DEF TypeOK
<1>3. LinesOfRows(acked) \in Seq(Seq(Bytes))
  BY <1>2, LinesAreTexts
<1> QED  BY <1>1, <1>3, SizeOfFile, LengthType

\* Only process s moves.
Moves(s) ==
    /\ \A z \in Sessions \ {s} :
        pc'[z] = pc[z] /\ row'[z] = row[z] /\ stream'[z] = stream[z]
    /\ pc'[s] = "print" => Prints(s)'

LEMMA MoveIsCounted ==
    ASSUME TypeOK, TypeOK', BytesAreKept, NEW s \in Sessions, Moves(s)
    PROVE  /\ Printing'
           /\ IsFiniteSet(Writers') /\ IsFiniteSet(Units(sent'))
           /\ Cardinality(Writers) \in Nat
           /\ pc[s] # "written" /\ pc'[s] # "written" => Cardinality(Writers') = Cardinality(Writers)
           /\ pc[s] # "written" /\ pc'[s] = "written" => Cardinality(Writers') = Cardinality(Writers) + 1
           /\ pc[s] = "written" /\ pc'[s] # "written" => Cardinality(Writers') = Cardinality(Writers) - 1
           /\ Cardinality(Units(sent)) \in Nat /\ Sent(s) \in Nat /\ Sent(s)' \in Nat
           /\ Cardinality(Units(sent')) = Cardinality(Units(sent)) - Sent(s) + Sent(s)'
<1>1. Printing'
  BY DEF Moves, BytesAreKept, Printing, Prints
<1>2. sent \in [Sessions -> Nat] /\ sent' \in [Sessions -> Nat]
  BY <1>1, SentType, SentTypeNext DEF BytesAreKept
<1>3. sent[s] = Sent(s) /\ sent'[s] = Sent(s)' /\ Sent(s) \in Nat /\ Sent(s)' \in Nat
  BY <1>2 DEF sent
<1>4. \A z \in Sessions : z # s => sent'[z] = sent[z]
  BY DEF sent, Sent, Moves
<1>5. sent' = [sent EXCEPT ![s] = Sent(s)']
  BY <1>2, <1>3, <1>4
<1>6. /\ IsFiniteSet(Units(sent')) /\ Cardinality(Units(sent)) \in Nat
      /\ Cardinality(Units(sent')) = Cardinality(Units(sent)) - Sent(s) + Sent(s)'
  <2>1. PICK f, n : f = sent /\ n = Sent(s)'
    OBVIOUS
  <2>2. PICK g : g = [f EXCEPT ![s] = n]
    OBVIOUS
  <2>3. /\ f \in [Sessions -> Nat] /\ n \in Nat /\ IsFiniteSet(Units(f))
        /\ sent' = g /\ f[s] = Sent(s)
    BY <1>2, <1>3, <1>5, <2>1, <2>2 DEF BytesAreKept
  <2>4. IsFiniteSet(Units(g)) /\ Cardinality(Units(g)) = Cardinality(Units(f)) - f[s] + n
    BY <2>2, <2>3, UnitsChange
  <2>5. Cardinality(Units(f)) \in Nat
    BY <2>3, FS_CardinalityType
  <2> QED  BY <2>1, <2>3, <2>4, <2>5
<1>7. /\ IsFiniteSet(Writers) /\ Cardinality(Writers) \in Nat
      /\ s \in Writers <=> pc[s] = "written"
  BY FS_CardinalityType DEF BytesAreKept, Writers
<1>8. CASE pc'[s] = "written"
  <2>1. Writers' = Writers \cup {s}
    BY <1>8 DEF Moves, Writers
  <2> QED  BY <1>1, <1>3, <1>6, <1>7, <1>8, <2>1, FS_AddElement
<1>9. CASE pc'[s] # "written"
  <2>1. Writers' = Writers \ {s}
    BY <1>9 DEF Moves, Writers
  <2> QED  BY <1>1, <1>3, <1>6, <1>7, <1>9, <2>1, FS_RemoveElement
<1> QED  BY <1>8, <1>9

\* A step that neither writes nor ends an INSERT that has begun to print.
LEMMA QuietMove ==
    ASSUME TypeOK, TypeOK', BytesAreKept, NEW s \in Sessions, Moves(s),
           UNCHANGED <<lines, tail, acked, broken>>,
           pc[s] \in {"idle", "open", "read"}, pc'[s] \in {"idle", "open", "read", "print"},
           Sent(s)' = 0
    PROVE  BytesAreKept'
<1>1. Sent(s) = 0
  BY DEF Sent
<1>2. /\ Cardinality(Writers') = Cardinality(Writers)
      /\ Cardinality(Units(sent')) = Cardinality(Units(sent))
  BY <1>1, MoveIsCounted
<1>3. Intact' => Intact
  BY DEF Intact, Moves
<1>4. Size' = Size
  BY DEF Size
<1> QED  BY <1>2, <1>3, <1>4, MoveIsCounted DEF BytesAreKept

\* A step after which some INSERT has failed.
LEMMA FailureMove ==
    ASSUME TypeOK, TypeOK', BytesAreKept, NEW s \in Sessions, Moves(s), ~Intact'
    PROVE  BytesAreKept'
BY MoveIsCounted DEF BytesAreKept

LEMMA ReturnMoves ==
    ASSUME TypeOK, NEW s \in Sessions, NEW result, Return(s, result)
    PROVE  Moves(s) /\ pc'[s] = "idle" /\ Sent(s)' = 0
BY DEF Return, Goto, Moves, TypeOK, Sent

LEMMA CutInTwo ==
    ASSUME NEW S, NEW t \in Seq(S), NEW b \in Nat, 1 <= b, b < Len(t)
    PROVE  /\ Len(SubSeq(t, 1, b)) = b /\ SubSeq(t, 1, b)[b] = t[b]
           /\ Len(SubSeq(t, b + 1, Len(t))) = Len(t) - b
           /\ \A i \in 1..Len(t) - b : SubSeq(t, b + 1, Len(t))[i] = t[b + i]
OBVIOUS

LEMMA PieceMove ==
    ASSUME RowsAreTyped, TypeOK, TypeOK', BytesAreKept, NEW s \in Sessions, WriteBuffer(s)
    PROVE  BytesAreKept'
<1> DEFINE t == stream[s]
           l == Serialize(row[s])
           b == STDIO_BUFFER
           out == SubSeq(t, 1, b)
           rest == SubSeq(t, b + 1, Len(t))
<1>0. pc[s] = "print" /\ b < Len(t) /\ b \in Nat /\ 1 <= b
  BY StorageConstants DEF WriteBuffer
<1>1. Prints(s)
  BY <1>0 DEF BytesAreKept, Printing
<1>a. t \in Stream /\ t \in Seq(Bytes \cup {NL}) /\ Len(t) \in Nat
  BY DEF TypeOK, Stream, Text
<1>2. Written(out) /\ stream' = [stream EXCEPT ![s] = rest]
      /\ UNCHANGED <<pc, row, acked, broken>>
  BY DEF WriteBuffer
<1>b. /\ Len(out) = b /\ out[b] = t[b] /\ Len(rest) = Len(t) - b
      /\ \A i \in 1..Len(t) - b : rest[i] = t[b + i]
  BY <1>0, <1>a, CutInTwo
<1>c. out \in Stream
  BY <1>0, <1>a, StreamPart
<1>5. stream'[s] = rest /\ row'[s] = row[s] /\ pc'[s] = "print"
  BY <1>0, <1>2 DEF TypeOK
<1>d. row[s] \in StorableRows
  BY <1>0 DEF TypeOK
<1>6. Len(l) \in Nat
  BY <1>d, LineHasNoNewline
<1>f. t # <<>> /\ t[Len(t)] = NL /\ (\A i \in 1..Len(t) - 1 : t[i] # NL)
      /\ Len(t) <= Len(l) + 1
  BY <1>1 DEF Prints
<1> HIDE DEF out, rest, t, l
<1>3. out # <<>> /\ out[Len(out)] # NL
  <2>1. b \in 1..Len(t) - 1
    BY <1>0, <1>a
  <2> QED  BY <1>0, <1>b, <1>f, <2>1
<1>4. /\ rest # <<>> /\ rest[Len(rest)] = NL
      /\ \A i \in 1..Len(rest) - 1 : rest[i] # NL
  <2>1. Len(t) - b \in 1..Len(t) - b /\ b + (Len(t) - b) = Len(t)
    BY <1>0, <1>a
  <2>2. rest[Len(t) - b] = t[Len(t)]
    BY <1>b, <2>1
  <2>3. ASSUME NEW i \in 1..Len(rest) - 1 PROVE rest[i] # NL
    <3>1. b + i \in 1..Len(t) - 1 /\ i \in 1..Len(t) - b
      BY <1>0, <1>a, <1>b
    <3> QED  BY <1>b, <1>f, <3>1
  <2>4. rest # <<>>
    BY <1>0, <1>a, <1>b
  <2> QED  BY <1>b, <1>f, <2>2, <2>3, <2>4
<1>7. Prints(s)'
  <2>1. Len(rest) <= Len(l) + 1
    BY <1>0, <1>a, <1>b, <1>f, <1>6
  <2>2. Serialize(row'[s]) = l
    BY <1>5 DEF l
  <2> QED  BY <1>4, <1>5, <2>1, <2>2 DEF Prints
<1>8. Moves(s)
  BY <1>2, <1>7 DEF Moves, TypeOK
<1>9. Sent(s)' = Sent(s) + b
  <2>1. Sent(s) = Len(l) + 1 - Len(t)
    BY <1>0 DEF Sent, l, t
  <2>2. Serialize(row'[s]) = l
    BY <1>5 DEF l
  <2>3. Sent(s)' = Len(l) + 1 - Len(rest)
    BY <1>5, <2>2 DEF Sent
  <2> QED  BY <1>0, <1>a, <1>b, <1>6, <2>1, <2>3
<1>10. lines' = lines /\ Size' = Size + b
  BY <1>2, <1>3, <1>b, <1>c, SizeAfterPiece
<1>11. /\ Cardinality(Writers') = Cardinality(Writers)
       /\ Cardinality(Units(sent')) = Cardinality(Units(sent)) + b
       /\ Cardinality(Units(sent)) \in Nat
       /\ Printing' /\ IsFiniteSet(Writers') /\ IsFiniteSet(Units(sent'))
  <2>1. Sent(s) \in Nat /\ Cardinality(Units(sent)) \in Nat
        /\ Cardinality(Units(sent')) = Cardinality(Units(sent)) - Sent(s) + Sent(s)'
    BY <1>8, MoveIsCounted
  <2>2. Cardinality(Units(sent')) = Cardinality(Units(sent)) + b
    BY <1>0, <1>9, <2>1
  <2>3. pc[s] # "written" /\ pc'[s] # "written"
    BY <1>0, <1>5
  <2>4. /\ Cardinality(Writers') = Cardinality(Writers)
        /\ Printing' /\ IsFiniteSet(Writers') /\ IsFiniteSet(Units(sent'))
    BY <1>8, <2>3, MoveIsCounted
  <2> QED  BY <2>1, <2>2, <2>4
<1>12. Intact' => Intact
  BY <1>2 DEF Intact
<1>13. TextLength(InitFile) \in Nat /\ TextLength(LinesOfRows(acked)) \in Nat /\ Size \in Nat
  BY CountsType
<1>14. CASE Intact'
  <2>1. /\ Len(lines') = Len(InitLines) + Len(acked') + Cardinality(Writers')
        /\ Size' = TextLength(InitFile) + TextLength(LinesOfRows(acked')) + Cardinality(Units(sent'))
    BY <1>0, <1>2, <1>10, <1>11, <1>12, <1>13, <1>14 DEF BytesAreKept
  <2> QED  BY <1>11, <2>1 DEF BytesAreKept
<1>15. CASE ~Intact'
  BY <1>11, <1>15 DEF BytesAreKept
<1> QED  BY <1>14, <1>15

LEMMA LineMove ==
    ASSUME RowsAreTyped, TypeOK, TypeOK', BytesAreKept, NEW s \in Sessions, CloseWrites(s)
    PROVE  BytesAreKept'
<1> DEFINE t == stream[s]
           l == Serialize(row[s])
<1>1. /\ pc[s] = "print" /\ Written(t) /\ pc' = [pc EXCEPT ![s] = "written"]
      /\ stream' = [stream EXCEPT ![s] = <<>>] /\ UNCHANGED <<row, acked, broken>>
  BY DEF CloseWrites, Goto
<1>2. Prints(s)
  BY <1>1 DEF BytesAreKept, Printing
<1>3. t \in Stream /\ t \in Seq(Bytes \cup {NL}) /\ Len(t) \in Nat
  BY DEF TypeOK, Stream, Text
<1>4. row[s] \in StorableRows
  BY <1>1 DEF TypeOK
<1>5. Len(l) \in Nat
  BY <1>4, LineHasNoNewline
<1>6. t # <<>> /\ t[Len(t)] = NL
  BY <1>2 DEF Prints
<1>7. pc'[s] = "written" /\ row'[s] = row[s]
  BY <1>1 DEF TypeOK
<1> HIDE DEF t, l
<1>8. Moves(s)
  BY <1>1, <1>7 DEF Moves, TypeOK
<1>9. Sent(s) = Len(l) + 1 - Len(t) /\ Sent(s)' = Len(l)
  <2>1. Serialize(row'[s]) = l
    BY <1>7 DEF l
  <2> QED  BY <1>1, <1>7, <2>1 DEF Sent, l, t
<1>10. Len(lines') = Len(lines) + 1 /\ Size' = Size + Len(t) - 1
  BY <1>1, <1>3, <1>6, SizeAfterLine
<1>11. /\ Cardinality(Writers') = Cardinality(Writers) + 1
       /\ Cardinality(Units(sent)) \in Nat /\ Cardinality(Writers) \in Nat
       /\ Cardinality(Units(sent')) = Cardinality(Units(sent)) - Sent(s) + Sent(s)'
       /\ Printing' /\ IsFiniteSet(Writers') /\ IsFiniteSet(Units(sent'))
  <2>1. pc[s] # "written"
    BY <1>1
  <2> QED  BY <1>7, <1>8, <2>1, MoveIsCounted
<1>12. Cardinality(Units(sent')) = Cardinality(Units(sent)) + Len(t) - 1
  BY <1>3, <1>5, <1>9, <1>11
<1>13. Intact' => Intact
  BY <1>1 DEF Intact, TypeOK
<1>14. TextLength(InitFile) \in Nat /\ TextLength(LinesOfRows(acked)) \in Nat /\ Size \in Nat
  BY CountsType
<1>15. Len(InitLines) \in Nat /\ Len(acked) \in Nat
  BY StorageConstants DEF TypeOK
<1>16. CASE Intact'
  <2>1. /\ Len(lines) = Len(InitLines) + Len(acked) + Cardinality(Writers)
        /\ Size = TextLength(InitFile) + TextLength(LinesOfRows(acked)) + Cardinality(Units(sent))
    BY <1>13, <1>16 DEF BytesAreKept
  <2>2. /\ Len(lines') = Len(InitLines) + Len(acked) + Cardinality(Writers')
        /\ Size' = TextLength(InitFile) + TextLength(LinesOfRows(acked)) + Cardinality(Units(sent'))
    <3>1. Len(lines') = Len(InitLines) + Len(acked) + Cardinality(Writers')
      BY <1>10, <1>11, <1>15, <2>1
    <3>2. Size' = Size + Len(t) - 1
      BY <1>10
    <3>3. Cardinality(Units(sent)) \in Nat
      BY <1>11
    <3> QED  BY <1>3, <1>12, <1>14, <2>1, <3>1, <3>2, <3>3
  <2>3. acked' = acked
    BY <1>1
  <2> QED  BY <1>11, <2>2, <2>3 DEF BytesAreKept
<1>17. CASE ~Intact'
  BY <1>11, <1>17 DEF BytesAreKept
<1> QED  BY <1>16, <1>17

LEMMA OkMove ==
    ASSUME RowsAreTyped, TypeOK, TypeOK', BytesAreKept, NEW s \in Sessions, AppendOk(s)
    PROVE  BytesAreKept'
<1> DEFINE l == Serialize(row[s])
<1>1. /\ pc[s] = "written" /\ UNCHANGED <<lines, tail, broken>>
      /\ acked' = Append(acked, row[s])
  BY DEF AppendOk, Return, Ok
<1>2. Moves(s) /\ pc'[s] = "idle" /\ Sent(s)' = 0
  BY ReturnMoves DEF AppendOk
<1>3. row[s] \in StorableRows /\ acked \in Seq(StorableRows)
  BY <1>1 DEF TypeOK
<1>4. Len(l) \in Nat /\ l \in Seq(Bytes)
  BY <1>3, LineHasNoNewline DEF Line
<1>5. Sent(s) = Len(l)
  BY <1>1 DEF Sent
<1>6. /\ Cardinality(Writers') = Cardinality(Writers) - 1
      /\ Cardinality(Units(sent)) \in Nat /\ Cardinality(Writers) \in Nat
      /\ Cardinality(Units(sent')) = Cardinality(Units(sent)) - Sent(s) + Sent(s)'
      /\ Printing' /\ IsFiniteSet(Writers') /\ IsFiniteSet(Units(sent'))
  <2>1. pc'[s] # "written"
    BY <1>2
  <2> QED  BY <1>1, <1>2, <2>1, MoveIsCounted
<1>7. TextLength(LinesOfRows(acked')) = TextLength(LinesOfRows(acked)) + Len(l)
  <2>1. /\ LinesOfRows(acked) \in Seq(Seq(Bytes))
        /\ LinesOfRows(acked') = Append(LinesOfRows(acked), l)
    BY <1>1, <1>3, LinesOfMore
  <2> HIDE DEF l
  <2> QED  BY <1>4, <2>1, LengthOfMore
<1>8. Len(acked') = Len(acked) + 1 /\ Len(acked) \in Nat /\ Len(InitLines) \in Nat
  BY <1>1, <1>3, StorageConstants
<1>9. Size' = Size
  BY <1>1 DEF Size
<1>10. Intact' => Intact
  BY <1>1, <1>2 DEF Intact, Moves
<1>11. TextLength(InitFile) \in Nat /\ TextLength(LinesOfRows(acked)) \in Nat /\ Size \in Nat
  BY CountsType
<1> HIDE DEF l
<1>12. CASE Intact'
  <2>1. /\ Len(lines) = Len(InitLines) + Len(acked) + Cardinality(Writers)
        /\ Size = TextLength(InitFile) + TextLength(LinesOfRows(acked)) + Cardinality(Units(sent))
    BY <1>10, <1>12 DEF BytesAreKept
  <2>2. lines' = lines
    BY <1>1
  <2>3. /\ Len(lines') = Len(InitLines) + Len(acked') + Cardinality(Writers')
        /\ Size' = TextLength(InitFile) + TextLength(LinesOfRows(acked')) + Cardinality(Units(sent'))
    <3>1. Len(lines') = Len(InitLines) + Len(acked') + Cardinality(Writers')
      BY <1>6, <1>8, <2>1, <2>2
    <3>2. Cardinality(Units(sent')) = Cardinality(Units(sent)) - Len(l)
      BY <1>2, <1>4, <1>5, <1>6
    <3>3. Cardinality(Units(sent)) \in Nat
      BY <1>6
    <3>4. Size' = TextLength(InitFile) + TextLength(LinesOfRows(acked')) + Cardinality(Units(sent'))
      BY <1>4, <1>7, <1>9, <1>11, <2>1, <3>2, <3>3
    <3> QED  BY <3>1, <3>4
  <2> QED  BY <1>6, <2>3 DEF BytesAreKept
<1>13. CASE ~Intact'
  BY <1>6, <1>13 DEF BytesAreKept
<1> QED  BY <1>12, <1>13

LEMMA AppendedLast ==
    ASSUME NEW S, NEW t \in Seq(S), NEW x
    PROVE  /\ Append(t, x) # <<>> /\ Len(Append(t, x)) = Len(t) + 1
           /\ Append(t, x)[Len(t) + 1] = x /\ \A i \in 1..Len(t) : Append(t, x)[i] = t[i]
<1>1. t \in Seq(S \cup {x}) /\ x \in S \cup {x}
  BY SeqIsLarger
<1>2. PICK A : A = S \cup {x}
  OBVIOUS
<1>3. t \in Seq(A) /\ x \in A
  BY <1>1, <1>2
<1> QED  BY <1>3

LEMMA NoUnits ==
    ASSUME \A s \in Sessions : pc[s] = "idle"
    PROVE  Writers = {} /\ Units(sent) = {}
<1>1. \A s \in Sessions : sent[s] = 0
  BY DEF sent, Sent
<1>2. \A n \in Nat : n \notin 1..0
  OBVIOUS
<1> QED  BY <1>1, <1>2 DEF Writers, Units

LEMMA BytesInit == Init => BytesAreKept
<1> SUFFICES ASSUME Init PROVE BytesAreKept
  OBVIOUS
<1>1. Writers = {} /\ Units(sent) = {} /\ Printing
  BY NoUnits DEF Init, Printing
<1>2. IsFiniteSet({}) /\ Cardinality({}) = 0
  BY FS_EmptySet
<1>3. TypeOK /\ lines = InitLines /\ acked = <<>> /\ FileLines = InitFile
  BY TypeInit DEF Init, FileLines, InitFile
<1>4. TextLength(LinesOfRows(acked)) = 0
  <2>1. LinesOfRows(<<>>) = <<>>
    BY DEF LinesOfRows
  <2> QED  BY <1>3, <2>1, LengthIsFold, Lengths!FoldOfNone
<1>5. Size = TextLength(InitFile) /\ Size \in Nat
  BY <1>3, SizeOfFile
<1>6. Len(InitLines) \in Nat /\ Len(acked) = 0
  BY <1>3, StorageConstants
<1> QED  BY <1>1, <1>2, <1>3, <1>4, <1>5, <1>6 DEF BytesAreKept

LEMMA BytesStep ==
    ASSUME RowsAreTyped, TypeOK, TypeOK', BytesAreKept, [Next]_vars
    PROVE  BytesAreKept'
<1>1. CASE UNCHANGED vars
  <2>1. Writers' = Writers /\ sent' = sent /\ Size' = Size /\ (Printing' <=> Printing)
    BY <1>1 DEF vars, Writers, sent, Sent, Size, Printing, Prints
  <2>2. (Intact' <=> Intact) /\ lines' = lines /\ acked' = acked
    BY <1>1 DEF vars, Intact
  <2> QED  BY <2>1, <2>2 DEF BytesAreKept
<1>2. ASSUME NEW s \in Sessions, BeginAppend(s) \/ BeginRead(s) PROVE BytesAreKept'
  <2>1. /\ pc[s] = "idle" /\ pc' = [pc EXCEPT ![s] = pc'[s]] /\ pc'[s] \in {"open", "read"}
        /\ UNCHANGED <<lines, tail, stream, acked, broken>>
        /\ \A z \in Sessions \ {s} : row'[z] = row[z]
    BY <1>2 DEF BeginAppend, BeginRead, Begin, Goto, TypeOK
  <2>2. Moves(s) /\ Sent(s)' = 0
    BY <2>1 DEF Moves, Sent, TypeOK
  <2> QED  BY <2>1, <2>2, QuietMove
<1>3. ASSUME NEW s \in Sessions, NEW result, Return(s, result), result.status # "ok",
             UNCHANGED <<lines, tail>>, pc[s] \in {"idle", "open", "read"}
      PROVE  BytesAreKept'
  <2>1. Moves(s) /\ pc'[s] = "idle" /\ Sent(s)' = 0
    BY <1>3, ReturnMoves
  <2>2. UNCHANGED <<acked, broken>>
    BY <1>3 DEF Return
  <2> QED  BY <1>3, <2>1, <2>2, QuietMove
<1>4. ASSUME NEW s \in Sessions, NEW result, Return(s, result), result.status # "ok",
             pc[s] \in {"print", "failed", "written"}
      PROVE  BytesAreKept'
  <2>1. Moves(s)
    BY <1>4, ReturnMoves
  <2>2. broken' = broken + 1 /\ broken \in Nat
    BY <1>4 DEF Return, TypeOK
  <2> QED  BY <2>1, <2>2, FailureMove DEF Intact
<1>5. NoAnswer.status # "ok" /\ Error.status # "ok" /\ \A items : Found(items).status # "ok"
  BY DEF NoAnswer, Error, Found
<1>6. ASSUME NEW s \in Sessions,
             RefuseAppend(s) \/ OpenFails(s) \/ FgetsBadLine(s) \/ ReadFails(s)
      PROVE  BytesAreKept'
  BY <1>3, <1>5, <1>6 DEF RefuseAppend, Begin, OpenFails, FgetsBadLine, ReadFails
<1>7. ASSUME NEW s \in Sessions, FgetsEof(s) PROVE BytesAreKept'
  <2>1. PICK result : Return(s, result) /\ result.status # "ok"
    BY <1>5, <1>7 DEF FgetsEof
  <2> QED  BY <1>3, <1>7, <2>1 DEF FgetsEof
<1>8. ASSUME NEW s \in Sessions, CloseAfterError(s) \/ FlushFails(s) \/ CloseFails(s)
      PROVE  BytesAreKept'
  BY <1>4, <1>5, <1>8 DEF CloseAfterError, FlushFails, CloseFails
<1>9. ASSUME NEW s \in Sessions, Crash(s) PROVE BytesAreKept'
  <2>1. pc[s] \in {"idle", "open", "read"} \/ pc[s] \in {"print", "failed", "written"}
    BY DEF TypeOK, Places
  <2> QED  BY <1>3, <1>4, <1>5, <1>9, <2>1 DEF Crash
<1>10. ASSUME NEW s \in Sessions, PrintFails(s) PROVE BytesAreKept'
  <2>1. pc' = [pc EXCEPT ![s] = "failed"] /\ row' = row
        /\ \A z \in Sessions \ {s} : stream'[z] = stream[z]
    BY <1>10 DEF PrintFails, Goto, TypeOK
  <2>2. Moves(s) /\ ~Intact'
    BY <2>1 DEF Moves, Intact, TypeOK
  <2> QED  BY <2>2, FailureMove
<1>11. ASSUME NEW s \in Sessions, FgetsLine(s) PROVE BytesAreKept'
  <2>1. UNCHANGED <<lines, tail, pc, row, stream, acked, broken>> /\ pc[s] = "read"
    BY <1>11 DEF FgetsLine
  <2>2. Moves(s) /\ Sent(s)' = 0
    BY <2>1 DEF Moves, Sent
  <2> QED  BY <2>1, <2>2, QuietMove
<1>12. ASSUME NEW s \in Sessions, OpenAppend(s) PROVE BytesAreKept'
  <2> DEFINE l == Serialize(row[s])
  <2>1. /\ pc[s] = "open" /\ pc' = [pc EXCEPT ![s] = "print"]
        /\ stream' = [stream EXCEPT ![s] = Append(l, NL)]
        /\ UNCHANGED <<lines, tail, row, acked, broken>>
    BY <1>12 DEF OpenAppend, Goto
  <2>2. row[s] \in StorableRows
    BY <2>1 DEF TypeOK
  <2>3. l \in Seq(Bytes) /\ Len(l) \in Nat /\ \A i \in 1..Len(l) : l[i] # NL
    BY <2>2, LineHasNoNewline DEF Line
  <2>4. pc'[s] = "print" /\ stream'[s] = Append(l, NL) /\ Serialize(row'[s]) = l
    BY <2>1 DEF TypeOK
  <2> HIDE DEF l
  <2>5. /\ Append(l, NL) # <<>> /\ Len(Append(l, NL)) = Len(l) + 1
        /\ Append(l, NL)[Len(l) + 1] = NL /\ \A i \in 1..Len(l) : Append(l, NL)[i] = l[i]
    BY <2>3, AppendedLast
  <2>6. \A i \in 1..(Len(l) + 1) - 1 : Append(l, NL)[i] # NL
    <3>1. (Len(l) + 1) - 1 = Len(l)
      BY <2>3
    <3> QED  BY <2>3, <2>5, <3>1
  <2>7. Prints(s)'
    BY <2>3, <2>4, <2>5, <2>6 DEF Prints
  <2>8. Sent(s)' = 0
    BY <2>3, <2>4, <2>5 DEF Sent
  <2>9. Moves(s)
    BY <2>1, <2>7 DEF Moves, TypeOK
  <2> QED  BY <2>1, <2>4, <2>8, <2>9, QuietMove
<1>13. ASSUME NEW s \in Sessions,
              \/ BeginAppend(s) \/ RefuseAppend(s) \/ BeginRead(s) \/ Works(s) \/ Breaks(s)
       PROVE  BytesAreKept'
  BY <1>2, <1>6, <1>7, <1>8, <1>9, <1>10, <1>11, <1>12, <1>13, PieceMove, LineMove, OkMove
     DEF Works, Breaks
<1> QED  BY <1>1, <1>13 DEF Next, Finished

LEMMA KeptIsEnough == TypeOK /\ BytesAreKept => NothingIsOverwritten
<1> SUFFICES ASSUME TypeOK, BytesAreKept, AllIdle, broken = 0
             PROVE  /\ Len(lines) = Len(InitLines) + Len(acked)
                    /\ TextLength(FileLines) = TextLength(InitFile) + TextLength(AckedLines)
  BY DEF NothingIsOverwritten
<1>1. Writers = {} /\ Units(sent) = {} /\ Intact
  BY NoUnits DEF AllIdle, Intact
<1>2. Cardinality({}) = 0
  BY FS_EmptySet
<1>3. AckedLines = LinesOfRows(acked)
  BY DEF AckedLines, LinesOfRows
<1>4. TextLength(FileLines) = Size /\ Size \in Nat
  BY SizeOfFile
<1>5. TextLength(InitFile) \in Nat /\ TextLength(LinesOfRows(acked)) \in Nat
  BY CountsType
<1>6. Len(InitLines) \in Nat /\ Len(acked) \in Nat
  BY StorageConstants DEF TypeOK
<1> QED  BY <1>1, <1>2, <1>3, <1>4, <1>5, <1>6 DEF BytesAreKept

\* However the pieces of long lines mix, the file grows by exactly the lines of the
\* INSERTs that returned success, as long as none fails: append_row opens the file in
\* append mode, so no write lands on bytes another process has written.
THEOREM NoByteIsLost == ASSUME RowsAreTyped PROVE Spec => []NothingIsOverwritten
<1>1. Init => TypeOK /\ BytesAreKept
  BY TypeInit, BytesInit
<1>2. TypeOK /\ BytesAreKept /\ [Next]_vars => (TypeOK /\ BytesAreKept)'
  BY TypeStep, BytesStep
<1>3. TypeOK /\ BytesAreKept => NothingIsOverwritten
  BY KeptIsEnough
<1> QED  BY <1>1, <1>2, <1>3, PTL DEF Spec

-----------------------------------------------------------------------------
(* What failures and overlaps spoil.  A row is owed while it is acknowledged or *)
(* about to be, and no line of the file is it.  Each lost row is paid for by a  *)
(* failure or by an overlap; Reserve is what the appends that are printing may  *)
(* still cost: nothing when one alone has all of its line in the file so far.   *)

WrittenAs(r) == {s \in Sessions : pc[s] = "written" /\ row[s] = r}
Debt(r) ==
    LET missing == Occurs(r, acked) + Cardinality(WrittenAs(r))
                   + Occurs(Serialize(r), InitLines) - Occurs(Serialize(r), lines)
    IN  IF missing > 0 THEN missing ELSE 0
debts == [r \in StorableRows |-> Debt(r)]

\* The pairs <<r, i>> with i up to f[r].
Copies(f) == {copy \in StorableRows \X Nat : copy[2] \in 1..f[copy[1]]}

Printers == {s \in Sessions : pc[s] = "print"}
Busy == {s \in Sessions : pc[s] \in {"print", "failed"}}
Clean(s) ==
    /\ Busy = {s} /\ pc[s] = "print"
    /\ tail \o stream[s] = Append(Serialize(row[s]), NL)
Reserve ==
    IF \E s \in Sessions : Clean(s) THEN 0
    ELSE IF Busy = {} THEN IF tail = <<>> THEN 0 ELSE 1
    ELSE Cardinality(Printers)

Paid ==
    /\ IsFiniteSet(Printers) /\ IsFiniteSet(Copies(debts))
    /\ Cardinality(Copies(debts)) + Reserve <= broken + 2 * overlaps

LEMMA CopiesGrow ==
    ASSUME NEW f \in [StorableRows -> Nat], NEW g \in [StorableRows -> Nat],
           IsFiniteSet(Copies(f)), NEW r \in StorableRows, g[r] <= f[r] + 1,
           \A x \in StorableRows \ {r} : g[x] <= f[x]
    PROVE  IsFiniteSet(Copies(g)) /\ Cardinality(Copies(g)) <= Cardinality(Copies(f)) + 1
<1> DEFINE last == <<r, f[r] + 1>>
<1>1. ASSUME NEW c \in Copies(g), c \notin Copies(f) PROVE c = last
  <2>1. PICK x \in StorableRows, i \in Nat : c = <<x, i>>
    BY DEF Copies
  <2>2. i \in 1..g[x] /\ i \notin 1..f[x] /\ f[x] \in Nat /\ g[x] \in Nat
    BY <1>1, <2>1 DEF Copies
  <2>3. x = r
    BY <2>2
  <2> QED  BY <2>1, <2>2, <2>3
<1> HIDE DEF last
<1>2. Copies(g) \subseteq Copies(f) \cup {last}
  BY <1>1
<1>3. PICK A, B : A = Copies(f) /\ B = Copies(g)
  OBVIOUS
<1>4. /\ IsFiniteSet(A \cup {last}) /\ Cardinality(A) \in Nat
      /\ Cardinality(A \cup {last}) <= Cardinality(A) + 1
  <2>1. IsFiniteSet(A)
    BY <1>3
  <2>2. Cardinality(A) \in Nat
    BY <2>1, FS_CardinalityType
  <2>3. /\ IsFiniteSet(A \cup {last})
        /\ Cardinality(A \cup {last}) = Cardinality(A) \/ Cardinality(A \cup {last}) = Cardinality(A) + 1
    BY <2>1, FS_AddElement, Zenon
  <2> QED  BY <2>2, <2>3
<1>5. IsFiniteSet(B) /\ Cardinality(B) <= Cardinality(A \cup {last})
  BY <1>2, <1>3, <1>4, FS_Subset
<1>6. Cardinality(B) \in Nat /\ Cardinality(A \cup {last}) \in Nat
  BY <1>4, <1>5, FS_CardinalityType
<1> QED  BY <1>3, <1>4, <1>5, <1>6

LEMMA CopiesShrink ==
    ASSUME NEW f \in [StorableRows -> Nat], NEW g \in [StorableRows -> Nat],
           IsFiniteSet(Copies(f)), \A x \in StorableRows : g[x] <= f[x]
    PROVE  IsFiniteSet(Copies(g)) /\ Cardinality(Copies(g)) <= Cardinality(Copies(f))
<1>1. Copies(g) \subseteq Copies(f)
  <2> SUFFICES ASSUME NEW c \in Copies(g) PROVE c \in Copies(f)
    OBVIOUS
  <2>1. PICK x \in StorableRows, i \in Nat : c = <<x, i>>
    BY DEF Copies
  <2>2. i \in 1..g[x] /\ f[x] \in Nat /\ g[x] \in Nat /\ g[x] <= f[x]
    BY <2>1 DEF Copies
  <2>3. i \in 1..f[x]
    BY <2>2
  <2> QED  BY <2>1, <2>3 DEF Copies
<1> QED  BY <1>1, FS_Subset

LEMMA OccursType ==
    ASSUME NEW S, NEW seq \in Seq(S), NEW x
    PROVE  Occurs(x, seq) \in Nat
<1>1. DOMAIN seq = 1..Len(seq) /\ Len(seq) \in Nat
  OBVIOUS
<1>2. IsFiniteSet(1..Len(seq))
  BY <1>1, FS_Interval
<1>3. {i \in DOMAIN seq : seq[i] = x} \subseteq 1..Len(seq)
  BY <1>1
<1> QED  BY <1>2, <1>3, FS_Subset, FS_CardinalityType DEF Occurs

LEMMA OccursOfMore ==
    ASSUME NEW S, NEW seq \in Seq(S), NEW x, NEW y
    PROVE  /\ x = y => Occurs(x, Append(seq, y)) = Occurs(x, seq) + 1
           /\ x # y => Occurs(x, Append(seq, y)) = Occurs(x, seq)
<1> DEFINE more == Append(seq, y)
           n == Len(seq)
           places == {i \in DOMAIN seq : seq[i] = x}
           morePlaces == {i \in DOMAIN more : more[i] = x}
<1>1. /\ DOMAIN seq = 1..n /\ n \in Nat
      /\ Len(more) = n + 1 /\ more[n + 1] = y /\ \A i \in 1..n : more[i] = seq[i]
  BY AppendedLast
<1>2. DOMAIN more = 1..n + 1
  <2>1. seq \in Seq(S \cup {y})
    BY SeqIsLarger
  <2>2. PICK A : A = S \cup {y}
    OBVIOUS
  <2>3. more \in Seq(A)
    BY <2>1, <2>2
  <2> HIDE DEF more
  <2> QED  BY <1>1, <2>3
<1> HIDE DEF more
<1>3. IsFiniteSet(places) /\ n + 1 \notin places
  <2>1. IsFiniteSet(1..n) /\ places \subseteq 1..n
    BY <1>1, FS_Interval
  <2> QED  BY <1>1, <2>1, FS_Subset
<1>4. CASE x = y
  <2>1. morePlaces = places \cup {n + 1}
    BY <1>1, <1>2, <1>4
  <2>2. Cardinality(places \cup {n + 1}) = Cardinality(places) + 1
    <3> HIDE DEF places
    <3> QED  BY <1>3, FS_AddElement
  <2> QED  BY <1>4, <2>1, <2>2 DEF Occurs, more
<1>5. CASE x # y
  <2>1. morePlaces = places
    BY <1>1, <1>2, <1>5
  <2> QED  BY <1>5, <2>1 DEF Occurs, more
<1> QED  BY <1>4, <1>5

LEMMA WritersOf ==
    ASSUME IsFiniteSet(Writers), NEW r
    PROVE  IsFiniteSet(WrittenAs(r)) /\ Cardinality(WrittenAs(r)) \in Nat
<1>1. WrittenAs(r) \subseteq Writers
  BY DEF WrittenAs, Writers
<1> QED  BY <1>1, FS_Subset, FS_CardinalityType

LEMMA WritersOfNext ==
    ASSUME IsFiniteSet(Writers'), NEW r
    PROVE  IsFiniteSet(WrittenAs(r)') /\ Cardinality(WrittenAs(r)') \in Nat
<1>1. WrittenAs(r)' \subseteq Writers'
  BY DEF WrittenAs, Writers
<1> QED  BY <1>1, FS_Subset, FS_CardinalityType

LEMMA DebtType ==
    ASSUME TypeOK, IsFiniteSet(Writers)
    PROVE  debts \in [StorableRows -> Nat]
<1> SUFFICES ASSUME NEW r \in StorableRows PROVE Debt(r) \in Nat
  BY DEF debts
<1>1. /\ Occurs(r, acked) \in Nat /\ Occurs(Serialize(r), InitLines) \in Nat
      /\ Occurs(Serialize(r), lines) \in Nat
  BY OccursType, StorageConstants DEF TypeOK
<1>2. Cardinality(WrittenAs(r)) \in Nat
  BY WritersOf
<1> QED  BY <1>1, <1>2 DEF Debt

LEMMA DebtTypeNext ==
    ASSUME TypeOK', IsFiniteSet(Writers')
    PROVE  debts' \in [StorableRows -> Nat]
<1> SUFFICES ASSUME NEW r \in StorableRows PROVE Debt(r)' \in Nat
  BY DEF debts
<1>1. /\ Occurs(r, acked') \in Nat /\ Occurs(Serialize(r), InitLines) \in Nat
      /\ Occurs(Serialize(r), lines') \in Nat
  BY OccursType, StorageConstants DEF TypeOK
<1>2. Cardinality(WrittenAs(r)') \in Nat
  BY WritersOfNext
<1> QED  BY <1>1, <1>2 DEF Debt

\* More lines and fewer processes that have written: no more is owed.
LEMMA DebtShrinks ==
    ASSUME TypeOK, TypeOK', IsFiniteSet(Writers), acked' = acked, NEW r \in StorableRows,
           WrittenAs(r)' \subseteq WrittenAs(r),
           lines' = lines \/ \E x : lines' = Append(lines, x)
    PROVE  Debt(r)' <= Debt(r)
<1>1. /\ Occurs(r, acked) \in Nat /\ Occurs(Serialize(r), InitLines) \in Nat
      /\ Occurs(Serialize(r), lines) \in Nat /\ Occurs(Serialize(r), lines') \in Nat
  BY OccursType, StorageConstants DEF TypeOK
<1>2. /\ Cardinality(WrittenAs(r)) \in Nat /\ Cardinality(WrittenAs(r)') \in Nat
      /\ Cardinality(WrittenAs(r)') <= Cardinality(WrittenAs(r))
  <2>1. PICK A, B : A = WrittenAs(r) /\ B = WrittenAs(r)'
    OBVIOUS
  <2>2. IsFiniteSet(A) /\ Cardinality(A) \in Nat /\ B \subseteq A
    BY <2>1, WritersOf
  <2> QED  BY <2>1, <2>2, FS_Subset, FS_CardinalityType
<1>3. Occurs(Serialize(r), lines') >= Occurs(Serialize(r), lines)
  <2>1. CASE lines' = lines
    BY <1>1, <2>1
  <2>2. ASSUME NEW x, lines' = Append(lines, x)
        PROVE  Occurs(Serialize(r), lines') >= Occurs(Serialize(r), lines)
    <3>1. lines \in Seq(Seq(Bytes))
      BY DEF TypeOK
    <3>2. PICK l : l = Serialize(r)
      OBVIOUS
    <3>3. Occurs(l, Append(lines, x)) = Occurs(l, lines) + 1 \/ Occurs(l, Append(lines, x)) = Occurs(l, lines)
      BY <3>1, OccursOfMore
    <3> QED  BY <1>1, <2>2, <3>2, <3>3
  <2> QED  BY <2>1, <2>2
<1> DEFINE a == Occurs(r, acked)
           i == Occurs(Serialize(r), InitLines)
           l == Occurs(Serialize(r), lines)
           m == Occurs(Serialize(r), lines')
           w == Cardinality(WrittenAs(r))
           v == Cardinality(WrittenAs(r)')
<1>4. /\ Debt(r) = IF a + w + i - l > 0 THEN a + w + i - l ELSE 0
      /\ Debt(r)' = IF a + v + i - m > 0 THEN a + v + i - m ELSE 0
  BY DEF Debt
<1>5. a \in Nat /\ i \in Nat /\ l \in Nat /\ m \in Nat /\ w \in Nat /\ v \in Nat /\ v <= w /\ l <= m
  BY <1>1, <1>2, <1>3
<1> HIDE DEF a, i, l, m, w, v
<1> QED  BY <1>4, <1>5

LEMMA CreditType == \A b, o \in Nat : b + 2 * o \in Nat
OBVIOUS

LEMMA CreditGrows ==
    \A b, c, o, e, h \in Nat :
        /\ h <= e /\ b <= c => h - e <= (c + 2 * o) - (b + 2 * o)
        /\ h <= e + 1 /\ c = b + 1 => h - e <= (c + 2 * o) - (b + 2 * o)
        /\ h <= e + 2 => h - e <= (b + 2 * (o + 1)) - (b + 2 * o)
OBVIOUS

\* What a step may change so that the account stays good.
LEMMA PaidStep ==
    ASSUME TypeOK, TypeOK', IsFiniteSet(Writers), IsFiniteSet(Writers'), Paid,
           IsFiniteSet(Printers'), Reserve \in Nat, Reserve' \in Nat,
           \A r \in StorableRows : Debt(r)' <= Debt(r),
           Reserve' - Reserve <= (broken' + 2 * overlaps') - (broken + 2 * overlaps)
    PROVE  Paid'
<1>1. debts \in [StorableRows -> Nat] /\ debts' \in [StorableRows -> Nat]
  BY DebtType, DebtTypeNext
<1>2. \A r \in StorableRows : debts'[r] <= debts[r]
  BY DEF debts
<1>3. PICK f, g : f = debts /\ g = debts'
  OBVIOUS
<1>4. /\ IsFiniteSet(Copies(g)) /\ Cardinality(Copies(g)) <= Cardinality(Copies(f))
      /\ Cardinality(Copies(f)) \in Nat /\ Cardinality(Copies(g)) \in Nat
  <2>1. IsFiniteSet(Copies(f))
    BY <1>3 DEF Paid
  <2>2. IsFiniteSet(Copies(g)) /\ Cardinality(Copies(g)) <= Cardinality(Copies(f))
    BY <1>1, <1>2, <1>3, <2>1, CopiesShrink
  <2> QED  BY <2>1, <2>2, FS_CardinalityType
<1>5. Copies(debts)' = Copies(g) /\ Copies(debts) = Copies(f)
  BY <1>3 DEF Copies
<1>6. broken \in Nat /\ overlaps \in Nat /\ broken' \in Nat /\ overlaps' \in Nat
  BY DEF TypeOK
<1>7. Cardinality(Copies(debts)') + Reserve' <= broken' + 2 * overlaps'
  <2>1. Cardinality(Copies(f)) + Reserve <= broken + 2 * overlaps
    BY <1>5 DEF Paid
  <2>2. PICK c, d, e, h, x, y :
            /\ c = Cardinality(Copies(f)) /\ d = Cardinality(Copies(g))
            /\ e = Reserve /\ h = Reserve'
            /\ x = broken + 2 * overlaps /\ y = broken' + 2 * overlaps'
    OBVIOUS
  <2>3. x \in Nat /\ y \in Nat
    BY <1>6, <2>2, CreditType
  <2>4. c \in Nat /\ d \in Nat /\ e \in Nat /\ h \in Nat /\ d <= c /\ c + e <= x /\ h - e <= y - x
    BY <1>4, <2>1, <2>2
  <2>5. d + h <= y
    BY <2>3, <2>4
  <2> QED  BY <1>5, <2>2, <2>5
<1> QED  BY <1>4, <1>5, <1>7 DEF Paid

-----------------------------------------------------------------------------
LEMMA ReserveBounds ==
    ASSUME IsFiniteSet(Printers)
    PROVE  /\ Reserve \in Nat /\ Cardinality(Printers) \in Nat
           /\ Busy # {} => Reserve <= Cardinality(Printers)
           /\ Busy = {} => Reserve <= 1
           /\ Busy = {} /\ tail = <<>> => Reserve = 0
           /\ Busy = {} /\ tail # <<>> => Reserve = 1
           /\ \A s \in Sessions : Clean(s) => Reserve = 0
           /\ Busy # {} /\ (\A s \in Sessions : ~Clean(s)) => Reserve = Cardinality(Printers)
           /\ Cardinality(Printers) <= Reserve + 1 \/ \A s \in Sessions : ~Clean(s)
<1>1. Cardinality(Printers) \in Nat
  BY FS_CardinalityType
<1>2. \A s \in Sessions : Clean(s) => Busy = {s}
  BY DEF Clean
<1>3. ASSUME NEW s \in Sessions, Clean(s) PROVE Cardinality(Printers) <= 1
  <2>1. Printers \subseteq {s}
    BY <1>2, <1>3 DEF Printers, Busy
  <2>2. IsFiniteSet({s}) /\ Cardinality({s}) = 1
    BY FS_Singleton
  <2> QED  BY <2>1, <2>2, FS_Subset
<1> QED  BY <1>1, <1>2, <1>3 DEF Reserve

LEMMA ReserveBoundsNext ==
    ASSUME IsFiniteSet(Printers')
    PROVE  /\ Reserve' \in Nat
           /\ Busy' # {} => Reserve' <= Cardinality(Printers')
           /\ Busy' = {} => Reserve' <= 1
           /\ Busy' = {} /\ tail' = <<>> => Reserve' = 0
           /\ \A s \in Sessions : Clean(s)' => Reserve' = 0
<1>1. Cardinality(Printers') \in Nat
  BY FS_CardinalityType
<1>2. \A s \in Sessions : Clean(s)' => Busy' = {s}
  BY DEF Clean
<1> QED  BY <1>1, <1>2 DEF Reserve

\* A process that is not printing, and will not be, moves.
LEMMA ReserveKept ==
    ASSUME NEW s \in Sessions, pc[s] \notin {"print", "failed"}, pc'[s] \notin {"print", "failed"},
           \A z \in Sessions \ {s} :
                pc'[z] = pc[z] /\ row'[z] = row[z] /\ stream'[z] = stream[z],
           tail' = tail
    PROVE  Reserve' = Reserve /\ Printers' = Printers
<1>1. Printers' = Printers /\ Busy' = Busy
  BY DEF Printers, Busy
<1>2. \A z \in Sessions : Clean(z)' <=> Clean(z)
  <2> TAKE z \in Sessions
  <2>1. CASE z = s
    BY <2>1 DEF Clean
  <2>2. CASE z # s
    BY <1>1, <2>2 DEF Clean
  <2> QED  BY <2>1, <2>2
<1> QED  BY <1>1, <1>2 DEF Reserve

\* A process that is not printing ends or goes on reading, or begins.
LEMMA PaidQuietly ==
    ASSUME TypeOK, TypeOK', IsFiniteSet(Writers), IsFiniteSet(Writers'), Paid,
           NEW s \in Sessions, pc[s] \notin {"print", "failed"},
           pc'[s] \notin {"print", "failed", "written"},
           \A z \in Sessions \ {s} :
                pc'[z] = pc[z] /\ row'[z] = row[z] /\ stream'[z] = stream[z],
           UNCHANGED <<lines, tail, acked, overlaps>>, broken' >= broken
    PROVE  Paid'
<1>1. Reserve' = Reserve /\ Printers' = Printers
  BY ReserveKept
<1>2. Reserve \in Nat
  BY ReserveBounds DEF Paid
<1>3. ASSUME NEW r \in StorableRows PROVE Debt(r)' <= Debt(r)
  <2>1. WrittenAs(r)' \subseteq WrittenAs(r)
    BY DEF WrittenAs
  <2> QED  BY <2>1, DebtShrinks
<1>4. Reserve' - Reserve <= (broken' + 2 * overlaps') - (broken + 2 * overlaps)
  <2>1. /\ broken \in Nat /\ overlaps \in Nat /\ broken' \in Nat /\ overlaps' = overlaps
        /\ Reserve' \in Nat /\ Reserve' <= Reserve
    BY <1>1, <1>2 DEF TypeOK
  <2> QED  BY <1>1, <1>2, <2>1, CreditGrows
<1>5. IsFiniteSet(Printers') /\ Reserve' \in Nat
  BY <1>1, <1>2 DEF Paid
<1> QED  BY <1>2, <1>3, <1>4, <1>5, PaidStep

\* A process that prints gives up.
LEMMA PaidFailure ==
    ASSUME TypeOK, TypeOK', IsFiniteSet(Writers), IsFiniteSet(Writers'), Paid,
           NEW s \in Sessions, pc[s] \in {"print", "failed"}, pc'[s] = "idle",
           \A z \in Sessions \ {s} :
                pc'[z] = pc[z] /\ row'[z] = row[z] /\ stream'[z] = stream[z],
           lines' = lines \/ \E x : lines' = Append(lines, x),
           UNCHANGED <<acked, overlaps>>, broken' = broken + 1
    PROVE  Paid'
<1>1. Busy' = Busy \ {s} /\ Printers' = Printers \ {s} /\ s \in Busy
  BY DEF Busy, Printers
<1>2. /\ IsFiniteSet(Printers) /\ IsFiniteSet(Printers')
      /\ Cardinality(Printers') <= Cardinality(Printers)
      /\ Cardinality(Printers) \in Nat /\ Cardinality(Printers') \in Nat
  <2>1. PICK A, B : A = Printers /\ B = Printers'
    OBVIOUS
  <2>2. IsFiniteSet(A) /\ B \subseteq A
    BY <1>1, <2>1 DEF Paid
  <2> QED  BY <2>1, <2>2, FS_Subset, FS_CardinalityType
<1>3. Reserve \in Nat /\ Reserve' \in Nat /\ Reserve' <= Reserve + 1
  <2>1. CASE Busy' = {}
    BY <1>2, <2>1, ReserveBounds, ReserveBoundsNext
  <2>2. CASE Busy' # {}
    <3>1. \A z \in Sessions : ~Clean(z)
      BY <1>1, <2>2 DEF Clean
    <3>2. Reserve = Cardinality(Printers) /\ Reserve' <= Cardinality(Printers') /\ Reserve' \in Nat
      BY <1>1, <1>2, <2>2, <3>1, ReserveBounds, ReserveBoundsNext
    <3> QED  BY <1>2, <3>2
  <2> QED  BY <2>1, <2>2
<1>4. ASSUME NEW r \in StorableRows PROVE Debt(r)' <= Debt(r)
  <2>1. WrittenAs(r)' \subseteq WrittenAs(r)
    BY DEF WrittenAs
  <2> QED  BY <2>1, DebtShrinks
<1>5. Reserve' - Reserve <= (broken' + 2 * overlaps') - (broken + 2 * overlaps)
  <2>1. broken \in Nat /\ overlaps \in Nat /\ broken' \in Nat /\ overlaps' = overlaps
    BY DEF TypeOK
  <2> QED  BY <1>3, <2>1, CreditGrows
<1> QED  BY <1>2, <1>3, <1>4, <1>5, PaidStep

LEMMA PaidPrintFails ==
    ASSUME TypeOK, TypeOK', IsFiniteSet(Writers), IsFiniteSet(Writers'), Paid,
           NEW s \in Sessions, PrintFails(s)
    PROVE  Paid'
<1>0. /\ pc[s] = "print" /\ pc' = [pc EXCEPT ![s] = "failed"]
      /\ UNCHANGED <<row, acked, broken, overlaps>>
      /\ lines' = lines \/ \E x : lines' = Append(lines, x)
  BY DEF PrintFails, Goto, Written
<1>1. Busy' = Busy /\ Printers' = Printers \ {s} /\ s \in Busy
  BY <1>0 DEF Busy, Printers, TypeOK
<1>2. /\ IsFiniteSet(Printers) /\ IsFiniteSet(Printers')
      /\ Cardinality(Printers') <= Cardinality(Printers)
      /\ Cardinality(Printers) \in Nat /\ Cardinality(Printers') \in Nat
  <2>1. PICK A, B : A = Printers /\ B = Printers'
    OBVIOUS
  <2>2. IsFiniteSet(A) /\ B \subseteq A
    BY <1>1, <2>1 DEF Paid
  <2> QED  BY <2>1, <2>2, FS_Subset, FS_CardinalityType
<1>3. Reserve \in Nat /\ Reserve' \in Nat /\ Reserve' <= Reserve
  <2>0. Reserve \in Nat /\ Reserve' \in Nat /\ Reserve' <= Cardinality(Printers')
    BY <1>1, <1>2, ReserveBounds, ReserveBoundsNext
  <2>1. CASE \E z \in Sessions : Clean(z)
    <3>1. Printers \subseteq {s}
      BY <1>1, <2>1 DEF Clean, Printers, Busy
    <3>2. Printers' = {}
      BY <1>1, <3>1
    <3> QED  BY <2>0, <3>2, FS_EmptySet
  <2>2. CASE \A z \in Sessions : ~Clean(z)
    BY <1>1, <1>2, <2>0, <2>2, ReserveBounds
  <2> QED  BY <2>0, <2>1, <2>2
<1>4. ASSUME NEW r \in StorableRows PROVE Debt(r)' <= Debt(r)
  <2>1. WrittenAs(r)' \subseteq WrittenAs(r)
    BY <1>0 DEF WrittenAs, TypeOK
  <2> QED  BY <1>0, <2>1, DebtShrinks
<1>5. Reserve' - Reserve <= (broken' + 2 * overlaps') - (broken + 2 * overlaps)
  <2>1. broken \in Nat /\ overlaps \in Nat /\ broken' \in Nat /\ overlaps' = overlaps
        /\ broken <= broken'
    BY <1>0 DEF TypeOK
  <2> QED  BY <1>3, <2>1, CreditGrows
<1> QED  BY <1>0, <1>2, <1>3, <1>4, <1>5, PaidStep

LEMMA PartsRegroup ==
    ASSUME NEW S
    PROVE  \A a, p, q \in Seq(S) : (a \o p) \o q = a \o (p \o q)
OBVIOUS

LEMMA PiecesJoin ==
    ASSUME NEW S, NEW a \in Seq(S), NEW t \in Seq(S), NEW b \in Nat, 1 <= b, b < Len(t)
    PROVE  (a \o SubSeq(t, 1, b)) \o SubSeq(t, b + 1, Len(t)) = a \o t
<1>1. PICK p, q : p = SubSeq(t, 1, b) /\ q = SubSeq(t, b + 1, Len(t))
  OBVIOUS
<1>2. p \in Seq(S) /\ q \in Seq(S)
  BY <1>1
<1>3. (a \o p) \o q = a \o (p \o q)
  BY <1>2, PartsRegroup
<1>4. p \o q = t
  BY <1>1
<1> QED  BY <1>1, <1>3, <1>4

LEMMA EndIsCut ==
    ASSUME NEW S, NEW a \in Seq(S), NEW t \in Seq(S), t # <<>>,
           NEW l \in Seq(S), NEW x \in S, a \o t = Append(l, x)
    PROVE  a \o SubSeq(t, 1, Len(t) - 1) = l
<1>1. PICK u, y : u = SubSeq(t, 1, Len(t) - 1) /\ y = t[Len(t)]
  OBVIOUS
<1>2. u \in Seq(S) /\ y \in S /\ t = u \o <<y>>
  BY <1>1
<1>3. <<y>> \in Seq(S)
  BY <1>2
<1>4. (a \o u) \o <<y>> = a \o (u \o <<y>>)
  BY <1>2, <1>3, PartsRegroup
<1>5. PICK c : c = a \o u
  OBVIOUS
<1>6. c \in Seq(S)
  BY <1>2, <1>5, ConcatProperties
<1>a. c \o <<y>> = Append(l, x)
  BY <1>2, <1>4, <1>5
<1>7. c \o <<y>> = Append(c, y)
  BY <1>2, <1>6
<1>8. c = l
  BY <1>2, <1>6, <1>7, <1>a, AppendInjective
<1> QED  BY <1>1, <1>5, <1>8

\* What is owed of a row grows by what was acknowledged or written beyond the lines.
LEMMA DebtChange ==
    ASSUME TypeOK, TypeOK', IsFiniteSet(Writers), IsFiniteSet(Writers'),
           NEW r \in StorableRows, NEW n \in Nat,
           Occurs(r, acked') + Cardinality(WrittenAs(r)') + Occurs(Serialize(r), lines)
             <= Occurs(r, acked) + Cardinality(WrittenAs(r)) + Occurs(Serialize(r), lines') + n
    PROVE  Debt(r)' <= Debt(r) + n
<1> DEFINE a == Occurs(r, acked)
           b == Occurs(r, acked')
           i == Occurs(Serialize(r), InitLines)
           l == Occurs(Serialize(r), lines)
           m == Occurs(Serialize(r), lines')
           w == Cardinality(WrittenAs(r))
           v == Cardinality(WrittenAs(r)')
<1>1. a \in Nat /\ b \in Nat /\ i \in Nat /\ l \in Nat /\ m \in Nat
  BY OccursType, StorageConstants DEF TypeOK
<1>2. w \in Nat /\ v \in Nat
  BY WritersOf, WritersOfNext
<1>3. /\ Debt(r) = IF a + w + i - l > 0 THEN a + w + i - l ELSE 0
      /\ Debt(r)' = IF b + v + i - m > 0 THEN b + v + i - m ELSE 0
  BY DEF Debt
<1>4. b + v + l <= a + w + m + n
  OBVIOUS
<1> HIDE DEF a, b, i, l, m, w, v
<1> QED  BY <1>1, <1>2, <1>3, <1>4

-----------------------------------------------------------------------------
LEMMA PaidOpen ==
    ASSUME TypeOK, TypeOK', IsFiniteSet(Writers), IsFiniteSet(Writers'), Paid,
           NEW s \in Sessions, OpenAppend(s)
    PROVE  Paid'
<1>0. /\ pc[s] = "open" /\ pc' = [pc EXCEPT ![s] = "print"]
      /\ stream' = [stream EXCEPT ![s] = Append(Serialize(row[s]), NL)]
      /\ Overlaps(s) /\ UNCHANGED <<lines, tail, row, acked, broken>>
  BY DEF OpenAppend, Goto
<1>1. Busy' = Busy \cup {s} /\ Printers' = Printers \cup {s} /\ s \notin Busy /\ s \notin Printers
  BY <1>0 DEF Busy, Printers, TypeOK
<1>2. /\ IsFiniteSet(Printers) /\ IsFiniteSet(Printers')
      /\ Cardinality(Printers) \in Nat /\ Cardinality(Printers') = Cardinality(Printers) + 1
  <2>1. PICK A, B : A = Printers /\ B = Printers'
    OBVIOUS
  <2>2. IsFiniteSet(A) /\ s \notin A /\ B = A \cup {s}
    BY <1>1, <2>1 DEF Paid
  <2>3. IsFiniteSet(B) /\ Cardinality(B) = Cardinality(A) + 1 /\ Cardinality(A) \in Nat
    BY <2>2, FS_AddElement, FS_CardinalityType
  <2> QED  BY <2>1, <2>2, <2>3
<1>3. Reserve \in Nat /\ Reserve' \in Nat
  BY <1>2, ReserveBounds, ReserveBoundsNext
<1>4. broken \in Nat /\ overlaps \in Nat /\ broken' = broken /\ broken <= broken'
  BY <1>0 DEF TypeOK
<1>5. \A r \in StorableRows : Debt(r)' <= Debt(r)
  <2> TAKE r \in StorableRows
  <2>1. WrittenAs(r)' \subseteq WrittenAs(r)
    BY <1>0 DEF WrittenAs, TypeOK
  <2> QED  BY <1>0, <2>1, DebtShrinks
<1>6. CASE Busy = {}
  <2>1. overlaps' = overlaps
    BY <1>0, <1>6 DEF Overlaps, Busy
  <2>2. Reserve' <= Reserve
    <3>1. CASE tail = <<>>
      <4>1. Append(Serialize(row[s]), NL) \in Seq(Bytes \cup {NL})
        BY <1>0 DEF TypeOK, Stream, Text
      <4>2. <<>> \o Append(Serialize(row[s]), NL) = Append(Serialize(row[s]), NL)
        BY <4>1, ConcatEmptySeq
      <4>3. Clean(s)'
        BY <1>0, <1>1, <1>6, <3>1, <4>2 DEF Clean, TypeOK
      <4> QED  BY <1>2, <1>3, <4>3, ReserveBoundsNext
    <3>2. CASE tail # <<>>
      <4>1. Printers = {} /\ Busy' # {}
        BY <1>1, <1>6 DEF Busy, Printers
      <4>2. Cardinality(Printers') = 1
        BY <1>2, <4>1, FS_EmptySet
      <4>3. Reserve = 1 /\ Reserve' <= Cardinality(Printers')
        BY <1>2, <1>6, <3>2, <4>1, ReserveBounds, ReserveBoundsNext
      <4> QED  BY <1>3, <4>2, <4>3
    <3> QED  BY <3>1, <3>2
  <2>3. Reserve' - Reserve <= (broken' + 2 * overlaps') - (broken + 2 * overlaps)
    BY <1>3, <1>4, <2>1, <2>2, CreditGrows
  <2> QED  BY <1>2, <1>3, <1>5, <2>3, PaidStep
<1>7. CASE Busy # {}
  <2>1. overlaps' = overlaps + 1
    BY <1>0, <1>1, <1>7 DEF Overlaps, Busy
  <2>2. Reserve' <= Reserve + 2
    <3>1. Cardinality(Printers) <= Reserve + 1
      BY <1>2, <1>3, <1>7, ReserveBounds
    <3>2. Reserve' <= Cardinality(Printers')
      BY <1>1, <1>2, ReserveBoundsNext
    <3> QED  BY <1>2, <1>3, <3>1, <3>2
  <2>3. Reserve' - Reserve <= (broken' + 2 * overlaps') - (broken + 2 * overlaps)
    BY <1>3, <1>4, <2>1, <2>2, CreditGrows
  <2> QED  BY <1>2, <1>3, <1>5, <2>3, PaidStep
<1> QED  BY <1>6, <1>7

LEMMA PaidPiece ==
    ASSUME TypeOK, TypeOK', IsFiniteSet(Writers), IsFiniteSet(Writers'), Paid,
           Printing, NEW s \in Sessions, WriteBuffer(s)
    PROVE  Paid'
<1> DEFINE t == stream[s]
           b == STDIO_BUFFER
           out == SubSeq(t, 1, b)
           rest == SubSeq(t, b + 1, Len(t))
<1>0. /\ pc[s] = "print" /\ b < Len(t) /\ b \in Nat /\ 1 <= b
      /\ Written(out) /\ stream' = [stream EXCEPT ![s] = rest]
      /\ UNCHANGED <<pc, row, acked, broken, overlaps>>
  BY StorageConstants DEF WriteBuffer
<1>1. Prints(s) /\ t \in Stream /\ t \in Seq(Bytes \cup {NL}) /\ Len(t) \in Nat
  BY <1>0 DEF Printing, TypeOK, Stream, Text
<1>2. Len(out) = b /\ out[b] = t[b]
  BY <1>0, <1>1, CutInTwo
<1>3. out # <<>> /\ out[Len(out)] # NL
  <2>1. b \in 1..Len(t) - 1
    BY <1>0, <1>1
  <2>2. t[b] # NL
    BY <1>1, <2>1 DEF Prints
  <2> HIDE DEF out, t
  <2> QED  BY <1>0, <1>2, <2>2
<1>4. lines' = lines /\ tail' = tail \o out
  BY <1>0, <1>3 DEF Written
<1>5. Clean(s) => Clean(s)'
  <2>1. tail \in Seq(Bytes \cup {NL})
    BY SeqIsLarger DEF TypeOK
  <2>2. (tail \o out) \o rest = tail \o t
    BY <1>0, <1>1, <2>1, PiecesJoin
  <2>3. stream'[s] = rest
    BY <1>0 DEF TypeOK
  <2> HIDE DEF out, rest, t
  <2>4. Clean(s) => tail \o t = Append(Serialize(row[s]), NL)
    BY DEF Clean, t
  <2> QED  BY <1>0, <1>4, <2>2, <2>3, <2>4 DEF Clean, Busy
<1> HIDE DEF out, rest, t
<1>6. Busy' = Busy /\ Printers' = Printers /\ s \in Busy
  BY <1>0 DEF Busy, Printers
<1>7. IsFiniteSet(Printers) /\ IsFiniteSet(Printers')
  BY <1>6 DEF Paid
<1>8. Reserve \in Nat /\ Reserve' \in Nat /\ Reserve' <= Reserve
  <2>1. CASE Clean(s)
    BY <1>5, <1>7, <2>1, ReserveBounds, ReserveBoundsNext
  <2>2. CASE ~Clean(s)
    <3>1. \A z \in Sessions : Clean(z) => Busy = {z}
      BY DEF Clean
    <3>2. \A z \in Sessions : ~Clean(z)
      BY <1>6, <2>2, <3>1
    <3> QED  BY <1>6, <1>7, <3>2, ReserveBounds, ReserveBoundsNext
  <2> QED  BY <2>1, <2>2
<1>9. \A r \in StorableRows : Debt(r)' <= Debt(r)
  <2> TAKE r \in StorableRows
  <2>1. WrittenAs(r)' \subseteq WrittenAs(r)
    BY <1>0 DEF WrittenAs
  <2> QED  BY <1>0, <1>4, <2>1, DebtShrinks
<1>10. Reserve' - Reserve <= (broken' + 2 * overlaps') - (broken + 2 * overlaps)
  <2>1. /\ broken \in Nat /\ overlaps \in Nat /\ broken' \in Nat /\ overlaps' = overlaps
        /\ broken <= broken'
    BY <1>0 DEF TypeOK
  <2> QED  BY <1>8, <2>1, CreditGrows
<1> QED  BY <1>7, <1>8, <1>9, <1>10, PaidStep

LEMMA PaidOk ==
    ASSUME TypeOK, TypeOK', IsFiniteSet(Writers), IsFiniteSet(Writers'), Paid,
           NEW s \in Sessions, AppendOk(s)
    PROVE  Paid'
<1>0. /\ pc[s] = "written" /\ pc' = [pc EXCEPT ![s] = "idle"]
      /\ row' = [row EXCEPT ![s] = <<>>] /\ stream' = [stream EXCEPT ![s] = <<>>]
      /\ acked' = Append(acked, row[s]) /\ row[s] \in StorableRows
      /\ UNCHANGED <<lines, tail, broken, overlaps>>
  BY DEF AppendOk, Return, Goto, Ok, TypeOK
<1>1. Reserve' = Reserve /\ Printers' = Printers
  <2>1. \A z \in Sessions \ {s} : pc'[z] = pc[z] /\ row'[z] = row[z] /\ stream'[z] = stream[z]
    BY <1>0 DEF TypeOK
  <2>2. pc'[s] = "idle"
    BY <1>0 DEF TypeOK
  <2> QED  BY <1>0, <2>1, <2>2, ReserveKept
<1>2. Reserve \in Nat /\ IsFiniteSet(Printers')
  BY <1>1, ReserveBounds DEF Paid
<1>3. \A r \in StorableRows : Debt(r)' <= Debt(r)
  <2> TAKE r \in StorableRows
  <2>1. acked \in Seq(StorableRows) /\ Occurs(r, acked) \in Nat
    BY OccursType DEF TypeOK
  <2>2. Cardinality(WrittenAs(r)) \in Nat /\ IsFiniteSet(WrittenAs(r))
    BY WritersOf
  <2>3. Occurs(r, acked') + Cardinality(WrittenAs(r)') = Occurs(r, acked) + Cardinality(WrittenAs(r))
    <3>1. CASE row[s] = r
      <4>1. WrittenAs(r)' = WrittenAs(r) \ {s} /\ s \in WrittenAs(r)
        BY <1>0, <3>1 DEF WrittenAs, TypeOK
      <4>2. PICK A, B : A = WrittenAs(r) /\ B = WrittenAs(r)'
        OBVIOUS
      <4>3. Cardinality(B) = Cardinality(A) - 1
        BY <2>2, <4>1, <4>2, FS_RemoveElement
      <4>4. Occurs(r, acked') = Occurs(r, acked) + 1
        BY <1>0, <2>1, <3>1, OccursOfMore
      <4> QED  BY <2>1, <2>2, <4>2, <4>3, <4>4
    <3>2. CASE row[s] # r
      <4>1. WrittenAs(r)' = WrittenAs(r)
        BY <1>0, <3>2 DEF WrittenAs, TypeOK
      <4>2. Occurs(r, acked') = Occurs(r, acked)
        BY <1>0, <2>1, <3>2, OccursOfMore
      <4> QED  BY <4>1, <4>2
    <3> QED  BY <3>1, <3>2
  <2>4. Occurs(Serialize(r), lines) \in Nat /\ lines' = lines
    BY <1>0, OccursType DEF TypeOK
  <2>5. Debt(r)' <= Debt(r) + 0
    BY <2>1, <2>2, <2>3, <2>4, DebtChange
  <2> QED  BY <2>5, DebtType DEF debts
<1>4. Reserve' - Reserve <= (broken' + 2 * overlaps') - (broken + 2 * overlaps)
  <2>1. /\ broken \in Nat /\ overlaps \in Nat /\ broken' \in Nat /\ overlaps' = overlaps
        /\ broken <= broken' /\ Reserve' \in Nat /\ Reserve' <= Reserve
    BY <1>0, <1>1, <1>2 DEF TypeOK
  <2> QED  BY <1>2, <2>1, CreditGrows
<1> QED  BY <1>1, <1>2, <1>3, <1>4, PaidStep

LEMMA NoMoreIsOwed ==
    \A a, v, w, l, m \in Nat :
        \/ v = w /\ m >= l
        \/ v = w + 1 /\ m = l + 1
        => a + v + l <= a + w + m + 0
OBVIOUS

LEMMA PaidLine ==
    ASSUME TypeOK, TypeOK', IsFiniteSet(Writers), IsFiniteSet(Writers'), Paid,
           Printing, NEW s \in Sessions, CloseWrites(s)
    PROVE  Paid'
<1> DEFINE t == stream[s]
           u == SubSeq(t, 1, Len(t) - 1)
<1>0. /\ pc[s] = "print" /\ pc' = [pc EXCEPT ![s] = "written"]
      /\ stream' = [stream EXCEPT ![s] = <<>>] /\ Written(t)
      /\ row[s] \in StorableRows
      /\ UNCHANGED <<row, acked, broken, overlaps>>
  BY DEF CloseWrites, Goto, TypeOK
<1>1. Prints(s) /\ t \in Seq(Bytes \cup {NL})
  BY <1>0 DEF Printing, TypeOK, Stream, Text
<1>2. lines' = Append(lines, tail \o u) /\ tail' = <<>>
  BY <1>0, <1>1 DEF Prints, Written
<1>3. Clean(s) => tail \o u = Serialize(row[s])
  <2>1. tail \in Seq(Bytes \cup {NL}) /\ NL \in Bytes \cup {NL}
    BY SeqIsLarger DEF TypeOK
  <2>2. Serialize(row[s]) \in Seq(Bytes \cup {NL})
    BY <1>0, SeqIsLarger DEF StorableRows, Storable, Line
  <2>3. t # <<>>
    BY <1>1 DEF Prints
  <2>4. ASSUME tail \o t = Append(Serialize(row[s]), NL) PROVE tail \o u = Serialize(row[s])
    BY <1>1, <2>1, <2>2, <2>3, <2>4, EndIsCut
  <2> QED  BY <2>4 DEF Clean
<1> HIDE DEF t, u
<1>4. Busy' = Busy \ {s} /\ Printers' = Printers \ {s} /\ s \in Busy /\ s \in Printers
  BY <1>0 DEF Busy, Printers, TypeOK
<1>5. /\ IsFiniteSet(Printers) /\ IsFiniteSet(Printers')
      /\ Cardinality(Printers) \in Nat /\ Cardinality(Printers') \in Nat
      /\ Cardinality(Printers) = Cardinality(Printers') + 1
  <2>1. PICK A, B : A = Printers /\ B = Printers'
    OBVIOUS
  <2>2. IsFiniteSet(A) /\ s \in A /\ B = A \ {s}
    BY <1>4, <2>1 DEF Paid
  <2>3. IsFiniteSet(B) /\ Cardinality(B) = Cardinality(A) - 1 /\ Cardinality(A) \in Nat /\ Cardinality(B) \in Nat
    BY <2>2, FS_RemoveElement, FS_CardinalityType
  <2>4. Cardinality(A) = Cardinality(B) + 1
    BY <2>3
  <2> QED  BY <2>1, <2>2, <2>3, <2>4
<1>6. Reserve \in Nat /\ Reserve' \in Nat
  BY <1>5, ReserveBounds, ReserveBoundsNext
<1>7. ASSUME NEW r \in StorableRows
      PROVE  /\ Occurs(r, acked') = Occurs(r, acked) /\ Occurs(r, acked) \in Nat
             /\ Cardinality(WrittenAs(r)) \in Nat /\ Cardinality(WrittenAs(r)') \in Nat
             /\ r = row[s] => Cardinality(WrittenAs(r)') = Cardinality(WrittenAs(r)) + 1
             /\ r # row[s] => Cardinality(WrittenAs(r)') = Cardinality(WrittenAs(r))
             /\ Occurs(Serialize(r), lines) \in Nat
             /\ tail \o u = Serialize(r) => Occurs(Serialize(r), lines') = Occurs(Serialize(r), lines) + 1
             /\ tail \o u # Serialize(r) => Occurs(Serialize(r), lines') = Occurs(Serialize(r), lines)
  <2>1. Occurs(r, acked) \in Nat /\ Occurs(Serialize(r), lines) \in Nat
    BY OccursType DEF TypeOK
  <2>2. IsFiniteSet(WrittenAs(r)) /\ Cardinality(WrittenAs(r)) \in Nat /\ Cardinality(WrittenAs(r)') \in Nat
    BY WritersOf, WritersOfNext
  <2>3. ASSUME r = row[s] PROVE Cardinality(WrittenAs(r)') = Cardinality(WrittenAs(r)) + 1
    <3>1. WrittenAs(r)' = WrittenAs(r) \cup {s} /\ s \notin WrittenAs(r)
      BY <1>0, <2>3 DEF WrittenAs, TypeOK
    <3>2. PICK A, B : A = WrittenAs(r) /\ B = WrittenAs(r)'
      OBVIOUS
    <3> QED  BY <2>2, <3>1, <3>2, FS_AddElement
  <2>4. ASSUME r # row[s] PROVE WrittenAs(r)' = WrittenAs(r)
    BY <1>0, <2>4 DEF WrittenAs, TypeOK
  <2>5. /\ tail \o u = Serialize(r) => Occurs(Serialize(r), lines') = Occurs(Serialize(r), lines) + 1
        /\ tail \o u # Serialize(r) => Occurs(Serialize(r), lines') = Occurs(Serialize(r), lines)
    <3>1. PICK x, y : x = tail \o u /\ y = Serialize(r)
      OBVIOUS
    <3>2. lines \in Seq(Seq(Bytes))
      BY DEF TypeOK
    <3>3. /\ y = x => Occurs(y, Append(lines, x)) = Occurs(y, lines) + 1
          /\ y # x => Occurs(y, Append(lines, x)) = Occurs(y, lines)
      BY <3>2, OccursOfMore
    <3> QED  BY <1>2, <3>1, <3>3
  <2>6. acked' = acked
    BY <1>0
  <2> QED  BY <2>1, <2>2, <2>3, <2>4, <2>5, <2>6
<1>8. CASE Clean(s)
  <2>1. \A r \in StorableRows : Debt(r)' <= Debt(r)
    <3> TAKE r \in StorableRows
    <3>1. Occurs(r, acked') + Cardinality(WrittenAs(r)') + Occurs(Serialize(r), lines)
            <= Occurs(r, acked) + Cardinality(WrittenAs(r)) + Occurs(Serialize(r), lines') + 0
      <4>1. r = row[s] => tail \o u = Serialize(r)
        BY <1>3, <1>8
      <4>2. CASE r = row[s]
        <5>1. /\ Occurs(r, acked') = Occurs(r, acked) /\ Occurs(r, acked) \in Nat
              /\ Cardinality(WrittenAs(r)) \in Nat /\ Cardinality(WrittenAs(r)') \in Nat
              /\ Cardinality(WrittenAs(r)') = Cardinality(WrittenAs(r)) + 1
          BY <1>7, <4>2
        <5>2. /\ Occurs(Serialize(r), lines) \in Nat /\ Occurs(Serialize(r), lines') \in Nat
              /\ Occurs(Serialize(r), lines') = Occurs(Serialize(r), lines) + 1
          <6>1. tail \o u = Serialize(r)
            BY <4>1, <4>2
          <6>2. Occurs(Serialize(r), lines) \in Nat /\ Occurs(Serialize(r), lines') = Occurs(Serialize(r), lines) + 1
            BY <1>7, <6>1
          <6> QED  BY <6>2
        <5> QED  BY <5>1, <5>2, NoMoreIsOwed
      <4>3. CASE r # row[s]
        <5>1. /\ Occurs(r, acked') = Occurs(r, acked) /\ Occurs(r, acked) \in Nat
              /\ Cardinality(WrittenAs(r)) \in Nat /\ Cardinality(WrittenAs(r)') \in Nat
              /\ Cardinality(WrittenAs(r)') = Cardinality(WrittenAs(r))
          BY <1>7, <4>3
        <5>2. /\ Occurs(Serialize(r), lines) \in Nat /\ Occurs(Serialize(r), lines') \in Nat
              /\ Occurs(Serialize(r), lines') >= Occurs(Serialize(r), lines)
          BY <1>7
        <5> QED  BY <5>1, <5>2, NoMoreIsOwed
      <4> QED  BY <4>2, <4>3
    <3>2. Debt(r)' <= Debt(r) + 0
      BY <3>1, DebtChange
    <3> QED  BY <3>2, DebtType DEF debts
  <2>2. Reserve' <= Reserve
    <3>1. Busy' = {}
      BY <1>4, <1>8 DEF Clean
    <3> QED  BY <1>2, <1>5, <1>6, <3>1, ReserveBoundsNext
  <2>3. Reserve' - Reserve <= (broken' + 2 * overlaps') - (broken + 2 * overlaps)
    <3>1. /\ broken \in Nat /\ overlaps \in Nat /\ broken' \in Nat /\ overlaps' = overlaps
          /\ broken <= broken'
      BY <1>0 DEF TypeOK
    <3> QED  BY <1>6, <2>2, <3>1, CreditGrows
  <2> QED  BY <1>5, <1>6, <2>1, <2>3, PaidStep
<1>9. CASE ~Clean(s)
  <2>1. Reserve = Cardinality(Printers) /\ Reserve' <= Cardinality(Printers')
    <3>1. \A z \in Sessions : Clean(z) => Busy = {z}
      BY DEF Clean
    <3>2. \A z \in Sessions : ~Clean(z)
      BY <1>4, <1>9, <3>1
    <3>3. Busy' = {} => Reserve' = 0
      BY <1>2, <1>5, ReserveBoundsNext
    <3> QED  BY <1>4, <1>5, <3>2, <3>3, ReserveBounds, ReserveBoundsNext
  <2>2. ASSUME NEW r \in StorableRows
        PROVE  Debt(r)' <= Debt(r) + 1 /\ (r # row[s] => Debt(r)' <= Debt(r))
    <3>1. Occurs(r, acked') + Cardinality(WrittenAs(r)') + Occurs(Serialize(r), lines)
            <= Occurs(r, acked) + Cardinality(WrittenAs(r)) + Occurs(Serialize(r), lines') + 1
      BY <1>7
    <3>2. Debt(r)' <= Debt(r) + 1
      BY <3>1, DebtChange
    <3>3. ASSUME r # row[s] PROVE Debt(r)' <= Debt(r)
      <4>1. Occurs(r, acked') + Cardinality(WrittenAs(r)') + Occurs(Serialize(r), lines)
              <= Occurs(r, acked) + Cardinality(WrittenAs(r)) + Occurs(Serialize(r), lines') + 0
        BY <1>7, <3>3
      <4>2. Debt(r)' <= Debt(r) + 0
        BY <4>1, DebtChange
      <4> QED  BY <4>2, DebtType DEF debts
    <3> QED  BY <3>2, <3>3
  <2>3. PICK f, g : f = debts /\ g = debts'
    OBVIOUS
  <2>4. /\ f \in [StorableRows -> Nat] /\ g \in [StorableRows -> Nat]
        /\ IsFiniteSet(Copies(f)) /\ g[row[s]] <= f[row[s]] + 1
        /\ \A x \in StorableRows \ {row[s]} : g[x] <= f[x]
    <3>1. f \in [StorableRows -> Nat] /\ g \in [StorableRows -> Nat] /\ IsFiniteSet(Copies(f))
      BY <2>3, DebtType, DebtTypeNext DEF Paid
    <3>2. \A x \in StorableRows : f[x] = Debt(x) /\ g[x] = Debt(x)'
      BY <2>3 DEF debts
    <3> QED  BY <1>0, <2>2, <3>1, <3>2
  <2>5. IsFiniteSet(Copies(g)) /\ Cardinality(Copies(g)) <= Cardinality(Copies(f)) + 1
    BY <1>0, <2>4, CopiesGrow
  <2>6. Cardinality(Copies(g)) \in Nat /\ Cardinality(Copies(f)) \in Nat
    BY <2>4, <2>5, FS_CardinalityType
  <2>7. Copies(debts)' = Copies(g) /\ Copies(debts) = Copies(f)
    BY <2>3 DEF Copies
  <2>8. broken \in Nat /\ overlaps \in Nat /\ broken' = broken /\ overlaps' = overlaps
    BY <1>0 DEF TypeOK
  <2>9. PICK c, d, e, h, x : /\ c = Cardinality(Copies(f)) /\ d = Cardinality(Copies(g))
                             /\ e = Reserve /\ h = Reserve' /\ x = broken + 2 * overlaps
    OBVIOUS
  <2>10. /\ c \in Nat /\ d \in Nat /\ e \in Nat /\ h \in Nat /\ x \in Nat
         /\ d <= c + 1 /\ c + e <= x
    <3>1. x \in Nat
      BY <2>8, <2>9, CreditType
    <3>2. c + e <= x
      BY <2>7, <2>9 DEF Paid
    <3> QED  BY <1>6, <2>5, <2>6, <2>9, <3>1, <3>2
  <2>11. h <= e - 1
    BY <1>5, <2>1, <2>9
  <2>12. d + h <= x
    BY <2>10, <2>11
  <2>13. Cardinality(Copies(debts)') + Reserve' <= broken' + 2 * overlaps'
    BY <2>7, <2>8, <2>9, <2>12
  <2> QED  BY <1>5, <2>5, <2>7, <2>13 DEF Paid
<1> QED  BY <1>8, <1>9

LEMMA WrittenGrows ==
    ASSUME NEW t, Written(t)
    PROVE  lines' = lines \/ \E x : lines' = Append(lines, x)
BY DEF Written

LEMMA PaidInit == InitTail = <<>> /\ Init => Paid
<1> SUFFICES ASSUME InitTail = <<>>, Init PROVE Paid
  OBVIOUS
<1>1. Printers = {} /\ Busy = {} /\ tail = <<>> /\ (\A s \in Sessions : ~Clean(s))
  BY DEF Init, Printers, Busy, Clean
<1>2. Reserve = 0
  BY <1>1 DEF Reserve
<1>3. ASSUME NEW r \in StorableRows PROVE debts[r] = 0
  <2>1. acked = <<>> /\ lines = InitLines /\ WrittenAs(r) = {}
    BY DEF Init, WrittenAs
  <2>2. Occurs(r, <<>>) = 0
    <3>1. {i \in DOMAIN <<>> : <<>>[i] = r} = {}
      OBVIOUS
    <3> QED  BY <3>1, FS_EmptySet DEF Occurs
  <2>3. Occurs(Serialize(r), InitLines) \in Nat
    BY OccursType, StorageConstants
  <2> QED  BY <2>1, <2>2, <2>3, FS_EmptySet DEF debts, Debt
<1>4. Copies(debts) = {}
  BY <1>3 DEF Copies
<1>5. broken = 0 /\ overlaps = 0
  BY DEF Init
<1> QED  BY <1>1, <1>2, <1>4, <1>5, FS_EmptySet DEF Paid

LEMMA PaidNext ==
    ASSUME TypeOK, TypeOK', BytesAreKept, BytesAreKept', Paid, [Next]_vars
    PROVE  Paid'
<1>0. IsFiniteSet(Writers) /\ IsFiniteSet(Writers') /\ Printing
  BY DEF BytesAreKept
<1>1. CASE UNCHANGED vars
  BY <1>1 DEF vars, Paid, Printers, Busy, Clean, Reserve, debts, Debt, Copies, WrittenAs
<1>2. ASSUME NEW s \in Sessions, NEW result, Return(s, result), UNCHANGED <<lines, tail>>,
             pc[s] \notin {"print", "failed"}, result.status # "ok"
      PROVE  Paid'
  <2>1. Moves(s) /\ pc'[s] = "idle"
    BY <1>2, ReturnMoves
  <2>2. acked' = acked /\ overlaps' = overlaps /\ broken' >= broken
    BY <1>2 DEF Return, TypeOK
  <2> QED  BY <1>0, <1>2, <2>1, <2>2, PaidQuietly DEF Moves
<1>3. ASSUME NEW s \in Sessions, NEW result, Return(s, result),
             lines' = lines \/ \E x : lines' = Append(lines, x),
             pc[s] \in {"print", "failed"}, result.status # "ok"
      PROVE  Paid'
  <2>1. Moves(s) /\ pc'[s] = "idle"
    BY <1>3, ReturnMoves
  <2>2. acked' = acked /\ overlaps' = overlaps /\ broken' = broken + 1
    BY <1>3 DEF Return
  <2> QED  BY <1>0, <1>3, <2>1, <2>2, PaidFailure DEF Moves
<1>4. ASSUME NEW s \in Sessions, BeginAppend(s) \/ BeginRead(s) \/ FgetsLine(s)
      PROVE  Paid'
  <2>1. /\ pc[s] \notin {"print", "failed"}
        /\ pc'[s] \notin {"print", "failed", "written"}
        /\ \A z \in Sessions \ {s} :
                pc'[z] = pc[z] /\ row'[z] = row[z] /\ stream'[z] = stream[z]
        /\ UNCHANGED <<lines, tail, acked, overlaps, broken>>
    <3>1. CASE BeginAppend(s)
      BY <3>1 DEF BeginAppend, Begin, Goto, TypeOK
    <3>2. CASE BeginRead(s)
      BY <3>2 DEF BeginRead, Begin, Goto, TypeOK
    <3>3. CASE FgetsLine(s)
      BY <3>3 DEF FgetsLine
    <3> QED  BY <1>4, <3>1, <3>2, <3>3
  <2>2. broken' >= broken
    BY <2>1 DEF TypeOK
  <2> QED  BY <1>0, <2>1, <2>2, PaidQuietly
<1>5. \A items : Found(items).status # "ok"
  BY DEF Found
<1>6. ASSUME NEW s \in Sessions, Works(s) PROVE Paid'
  <2>1. CASE OpenAppend(s)
    BY <1>0, <2>1, PaidOpen
  <2>2. CASE WriteBuffer(s)
    BY <1>0, <2>2, PaidPiece
  <2>3. CASE CloseWrites(s)
    BY <1>0, <2>3, PaidLine
  <2>4. CASE CloseAfterError(s)
    <3>1. PICK n : Written(SubSeq(stream[s], 1, n))
      BY <2>4 DEF CloseAfterError
    <3> QED  BY <1>3, <2>4, <3>1, WrittenGrows, AnswerTypes DEF CloseAfterError
  <2>5. CASE AppendOk(s)
    BY <1>0, <2>5, PaidOk
  <2>6. CASE FgetsLine(s)
    BY <1>4, <2>6
  <2>7. CASE FgetsBadLine(s)
    BY <1>2, <2>7, AnswerTypes DEF FgetsBadLine
  <2>8. CASE FgetsEof(s)
    <3>1. PICK result : /\ Return(s, result) /\ pc[s] = "read" /\ UNCHANGED <<lines, tail>>
                        /\ result.status # "ok"
      BY <1>5, <2>8, AnswerTypes DEF FgetsEof
    <3> QED  BY <1>2, <3>1
  <2> QED  BY <1>6, <2>1, <2>2, <2>3, <2>4, <2>5, <2>6, <2>7, <2>8 DEF Works
<1>7. ASSUME NEW s \in Sessions, Breaks(s) PROVE Paid'
  <2>1. CASE OpenFails(s)
    BY <1>2, <2>1, AnswerTypes DEF OpenFails
  <2>2. CASE PrintFails(s)
    BY <1>0, <2>2, PaidPrintFails
  <2>3. CASE FlushFails(s)
    <3>1. PICK n : Written(SubSeq(stream[s], 1, n))
      BY <2>3 DEF FlushFails
    <3> QED  BY <1>3, <2>3, <3>1, WrittenGrows, AnswerTypes DEF FlushFails
  <2>4. CASE CloseFails(s)
    BY <1>2, <2>4, AnswerTypes DEF CloseFails
  <2>5. CASE ReadFails(s)
    BY <1>2, <2>5, AnswerTypes DEF ReadFails
  <2>6. CASE Crash(s)
    <3>1. CASE pc[s] \in {"print", "failed"}
      BY <1>3, <2>6, <3>1, AnswerTypes DEF Crash
    <3>2. CASE pc[s] \notin {"print", "failed"}
      BY <1>2, <2>6, <3>2, AnswerTypes DEF Crash
    <3> QED  BY <3>1, <3>2
  <2> QED  BY <1>7, <2>1, <2>2, <2>3, <2>4, <2>5, <2>6 DEF Breaks
<1>8. ASSUME NEW s \in Sessions, RefuseAppend(s) PROVE Paid'
  BY <1>2, <1>8, AnswerTypes DEF RefuseAppend, Begin
<1> QED  BY <1>1, <1>4, <1>6, <1>7, <1>8 DEF Next, Finished

LEMMA PaidIsEnough == TypeOK /\ BytesAreKept /\ Paid => FailureSpoilsOneRow
<1> SUFFICES ASSUME TypeOK, BytesAreKept, Paid
             PROVE  Cardinality(LostRows) <= broken + 2 * overlaps
  BY DEF FailureSpoilsOneRow
<1>1. ASSUME NEW r \in StorableRows PROVE Lost(r) \in Nat /\ Lost(r) <= debts[r] /\ debts[r] \in Nat
  <2>1. /\ Occurs(r, acked) \in Nat /\ Occurs(Serialize(r), InitLines) \in Nat
        /\ Occurs(Serialize(r), lines) \in Nat
    BY OccursType, StorageConstants DEF TypeOK
  <2>2. Cardinality(WrittenAs(r)) \in Nat
    BY WritersOf DEF BytesAreKept
  <2>3. PICK a, i, l, w : /\ a = Occurs(r, acked) /\ i = Occurs(Serialize(r), InitLines)
                          /\ l = Occurs(Serialize(r), lines) /\ w = Cardinality(WrittenAs(r))
    OBVIOUS
  <2>4. /\ Lost(r) = IF a + i - l > 0 THEN a + i - l ELSE 0
        /\ debts[r] = IF a + w + i - l > 0 THEN a + w + i - l ELSE 0
    BY <2>3 DEF Lost, debts, Debt
  <2>5. a \in Nat /\ i \in Nat /\ l \in Nat /\ w \in Nat
    BY <2>1, <2>2, <2>3
  <2> QED  BY <2>4, <2>5
<1>2. LostRows \subseteq Copies(debts)
  <2> SUFFICES ASSUME NEW c \in LostRows PROVE c \in Copies(debts)
    OBVIOUS
  <2>0. Len(acked) \in Nat /\ Len(InitLines) \in Nat
    BY StorageConstants DEF TypeOK
  <2>1. PICK r \in StorableRows, i \in 1..(Len(acked) + Len(InitLines)) : c = <<r, i>> /\ i <= Lost(r)
    BY DEF LostRows
  <2>2. i \in Nat /\ i >= 1
    BY <2>0
  <2>3. i \in 1..debts[r]
    BY <1>1, <2>1, <2>2
  <2> QED  BY <2>1, <2>2, <2>3 DEF Copies
<1>3. PICK A, B : A = LostRows /\ B = Copies(debts)
  OBVIOUS
<1>4. IsFiniteSet(B) /\ A \subseteq B
  BY <1>2, <1>3 DEF Paid
<1>5. Cardinality(A) <= Cardinality(B) /\ Cardinality(A) \in Nat /\ Cardinality(B) \in Nat
  BY <1>4, FS_Subset, FS_CardinalityType
<1>6. Reserve \in Nat
  BY ReserveBounds DEF Paid
<1>7. PICK c, d, e, x : /\ c = Cardinality(A) /\ d = Cardinality(B) /\ e = Reserve
                        /\ x = broken + 2 * overlaps
  OBVIOUS
<1>8. d + e <= x /\ x \in Nat
  BY <1>3, <1>7, CreditType DEF Paid, TypeOK
<1> QED  BY <1>3, <1>5, <1>6, <1>7, <1>8

\* Storage as a whole: whatever fails and whoever prints at once, each failure
\* costs at most one acknowledged row and each overlap at most two, for any number
\* of processes, any buffer size and any file that ends with a newline.
THEOREM FailuresSpoilFewRows ==
    ASSUME RowsAreTyped, InitTail = <<>> PROVE Spec => []FailureSpoilsOneRow
<1> DEFINE Account == TypeOK /\ BytesAreKept /\ Paid
<1>1. Init => Account
  BY TypeInit, BytesInit, PaidInit
<1>2. Account /\ [Next]_vars => Account'
  BY TypeStep, BytesStep, PaidNext
<1>3. Account => FailureSpoilsOneRow
  BY PaidIsEnough
<1> QED  BY <1>1, <1>2, <1>3, PTL DEF Spec
=============================================================================
