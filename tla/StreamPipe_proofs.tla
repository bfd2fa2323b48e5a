-------------------------- MODULE StreamPipe_proofs --------------------------
(***************************************************************************)
(* The safety properties of StreamPipe, for every capacity of the channels *)
(* and every length of the message.                                        *)
(***************************************************************************)
EXTENDS StreamPipe, SequenceTheorems, TLAPS

Chunks == Seq(ChunkType)

\* The chunk in the hands of a goroutine that is about to send it.
InHand(sending, c) == IF sending THEN <<c>> ELSE <<>>
InForwarder == InHand(fwd = "send", fitem)
InWrap == InHand(wrap = "send", witem)

\* The chunks that wrapStream has taken, those that are still to reach it, and
\* all of them from the consumer back to the parser.
Taken == got \o (out \o InWrap)
Coming == in \o (InForwarder \o (ch \o todo))
Line == Taken \o Coming
LineOf(a, i, f, c, t) == a \o (i \o (f \o (c \o t)))
LineBefore(a, i, f, c) == a \o (i \o (f \o c))
Then(a, b) == a \o b

\* Numbers go up along a line, none is above the count, and all are there if
\* the line is whole.
Numbered(line, count, whole) ==
    /\ \A i, j \in 1..Len(line) : i < j => line[i].n < line[j].n
    /\ \A i \in 1..Len(line) : line[i].n <= count
    /\ whole => Len(line) = count /\ \A i \in 1..Len(line) : line[i].n = i

HasError(s) == \E i \in 1..Len(s) : s[i].kind = "error"
\* The last chunk that was marked Done was the final one, not an error.
HasUsage(s) ==
    \E i \in 1..Len(s) : s[i].kind = "done" /\ \A j \in (i + 1)..Len(s) : s[j].kind = "text"

\* No call is there in part.
NoHalf(calls) == \A i \in 1..MaxCalls : calls \cap Call(i) \in {{}, Call(i)}

\* What the calls of a final chunk may be: before the finishing event there is
\* one at the end of the body only.
Finals ==
    {calls \in SUBSET Parts :
        /\ finish = "no" => ends
        /\ format \in Assembling /\ finish # "no" => calls = sent
        /\ (format = "responses" /\ finish = "no") \/ NoHalf(calls)}

ChunksAreRight(line, finals) ==
    \A i \in 1..Len(line) :
        line[i].calls \in (IF line[i].kind = "done" THEN finals ELSE {{}})

ParserInv ==
    /\ parser = "scan" => todo = <<>> /\ ~ ends
    /\ parser = "send" => todo # <<>>
    /\ format \in Assembling => assembled = sent
    /\ format \notin Assembling => assembled = {}
    /\ format \in Assembling /\ finish # "no" => NoHalf(sent)
    /\ finish = "pending" => format \in Holding

PipeInv ==
    /\ ~ Forwarded => fwd = "none" /\ ch = <<>>
    /\ Unbuffered => in = <<>>

\* wrapStream's locals tell of the chunks that it has taken, unless it dropped
\* one as the context ended; it records when it ends.
Stats ==
    /\ ~ cancelled \/ wrap # "closed" =>
          (success <=> ~ HasError(Taken)) /\ (usage <=> HasUsage(Taken))
    /\ wrap # "closed" => recorded = <<>>
    /\ wrap = "closed" => Len(recorded) = 1
    /\ wrap = "closed" /\ ~ cancelled => recorded = <<[ok |-> success, usage |-> usage]>>

\* The accumulator tells of the chunks that the consumer has received.
Accumulated ==
    /\ result.err <=> HasError(got)
    /\ result.usage <=> HasUsage(got)
    /\ result.finished => result.calls \in Finals
    /\ ~ result.finished => result.calls = {}
    /\ consumer = "ended" => wrap = "closed" /\ out = <<>>

\* The line, from the consumer back to the parser, lacks none of the chunks
\* that the parser has made as long as the context lives.
Order ==
    /\ Numbered(Line, produced, ~ cancelled)
    /\ ChunksAreRight(Line, Finals)

IInv == TypeOK /\ Order /\ ParserInv /\ PipeInv /\ Stats /\ Accumulated
-----------------------------------------------------------------------------
(* Lines of chunks *)

LEMMA Singleton ==
    ASSUME NEW x \in ChunkType
    PROVE  <<x>> \in Chunks
BY DEF Chunks

\* Lines are put together and taken apart at their ends.
LEMMA Put ==
    ASSUME NEW a \in Chunks, NEW x \in ChunkType, NEW r \in Chunks
    PROVE  Append(a, x) \in Chunks /\ Append(a, x) \o r = a \o (<<x>> \o r)
<1>1. <<x>> \in Chunks
  BY Singleton
<1>2. Append(a, x) = a \o <<x>> /\ Append(a, x) \in Chunks
  BY AppendIsConcat DEF Chunks
<1>3. (a \o <<x>>) \o r = a \o (<<x>> \o r)
  BY <1>1, ConcatAssociative DEF Chunks
<1> QED
  BY <1>2, <1>3

LEMMA HeadOff ==
    ASSUME NEW b \in Chunks, b # <<>>
    PROVE  Head(b) \in ChunkType /\ Tail(b) \in Chunks /\ b = <<Head(b)>> \o Tail(b)
<1>1. Head(b) \in ChunkType /\ Tail(b) \in Chunks
  BY HeadTailProperties DEF Chunks
<1>2. <<Head(b)>> \in Chunks /\ Len(<<Head(b)>>) = 1 /\ <<Head(b)>>[1] = Head(b)
  BY <1>1, Singleton
<1>3. /\ <<Head(b)>> \o Tail(b) \in Chunks
      /\ Len(<<Head(b)>> \o Tail(b)) = 1 + Len(Tail(b))
      /\ \A i \in 1..1 + Len(Tail(b)) : (<<Head(b)>> \o Tail(b))[i]
            = IF i <= 1 THEN <<Head(b)>>[i] ELSE Tail(b)[i - 1]
  BY <1>1, <1>2, ConcatProperties DEF Chunks
<1>4. /\ Len(b) \in Nat /\ Len(b) # 0 /\ Len(Tail(b)) = Len(b) - 1 /\ Head(b) = b[1]
      /\ \A i \in 1..Len(Tail(b)) : Tail(b)[i] = b[i + 1]
  BY HeadTailProperties DEF Chunks
<1>5. \A i \in 1..Len(b) : b[i] = (<<Head(b)>> \o Tail(b))[i]
  <2> SUFFICES ASSUME NEW i \in 1..Len(b)
               PROVE  b[i] = (<<Head(b)>> \o Tail(b))[i]
    OBVIOUS
  <2>1. CASE i = 1
    BY <1>2, <1>3, <1>4, <2>1
  <2>2. CASE i # 1
    <3>1. i - 1 \in 1..Len(Tail(b)) /\ (i - 1) + 1 = i
      BY <1>4, <2>2
    <3>2. Tail(b)[i - 1] = b[i]
      BY <1>4, <3>1
    <3>3. (<<Head(b)>> \o Tail(b))[i] = Tail(b)[i - 1]
      BY <1>3, <1>4, <2>2
    <3> QED
      BY <3>2, <3>3
  <2> QED
    BY <2>1, <2>2
<1>6. Len(b) = Len(<<Head(b)>> \o Tail(b))
  BY <1>3, <1>4
<1> QED
  BY <1>1, <1>3, <1>5, <1>6, SeqEqual DEF Chunks

\* The head of a part, moved to the end of the part before it.
LEMMA Shift ==
    ASSUME NEW a \in Chunks, NEW b \in Chunks, NEW r \in Chunks, b # <<>>
    PROVE  Append(a, Head(b)) \o (Tail(b) \o r) = a \o (b \o r)
<1> DEFINE h == <<Head(b)>>
           t == Tail(b)
<1>1. Head(b) \in ChunkType /\ t \in Chunks /\ b = h \o t /\ h \in Chunks
  BY HeadOff, Singleton
<1>2. t \o r \in Chunks
  BY <1>1, ConcatProperties DEF Chunks
<1>3. Append(a, Head(b)) \o (t \o r) = a \o (h \o (t \o r))
  BY <1>1, <1>2, Put
<1> HIDE DEF h, t
<1>4. h \o (t \o r) = (h \o t) \o r
  <2>1. h \in Chunks /\ t \in Chunks
    BY <1>1
  <2> QED
    BY <2>1, ConcatAssociative DEF Chunks
<1> QED
  BY <1>1, <1>3, <1>4 DEF t

\* A part without its head, and the head before it.
LEMMA Pick ==
    ASSUME NEW b \in Chunks, NEW r \in Chunks, b # <<>>
    PROVE  <<Head(b)>> \o (Tail(b) \o r) = b \o r
<1> DEFINE h == <<Head(b)>>
           t == Tail(b)
<1>1. t \in Chunks /\ b = h \o t /\ h \in Chunks
  BY HeadOff, Singleton
<1> HIDE DEF h, t
<1>2. h \o (t \o r) = (h \o t) \o r
  <2>1. h \in Chunks /\ t \in Chunks
    BY <1>1
  <2> QED
    BY <2>1, ConcatAssociative DEF Chunks
<1> QED
  BY <1>1, <1>2 DEF h, t

LEMMA Join ==
    ASSUME NEW a \in Chunks, NEW b \in Chunks
    PROVE  /\ a \o b \in Chunks /\ Len(a \o b) = Len(a) + Len(b)
           /\ Len(a) \in Nat /\ Len(b) \in Nat
           /\ \A i \in 1..Len(a) : (a \o b)[i] = a[i]
           /\ \A i \in 1..Len(b) : (a \o b)[Len(a) + i] = b[i]
           /\ \A i \in 1..Len(a) + Len(b) :
                 i \in 1..Len(a) \/ (i - Len(a) \in 1..Len(b) /\ (a \o b)[i] = b[i - Len(a)])
<1>1. Len(a) \in Nat /\ Len(b) \in Nat
  BY DEF Chunks
<1>2. /\ a \o b \in Chunks /\ Len(a \o b) = Len(a) + Len(b)
      /\ \A i \in 1..Len(a) + Len(b) :
            (a \o b)[i] = IF i <= Len(a) THEN a[i] ELSE b[i - Len(a)]
  BY ConcatProperties DEF Chunks
<1>3. \A i \in 1..Len(a) : i \in 1..Len(a) + Len(b) /\ i <= Len(a)
  BY <1>1
<1>4. \A i \in 1..Len(b) : /\ Len(a) + i \in 1..Len(a) + Len(b)
                           /\ ~ (Len(a) + i <= Len(a)) /\ (Len(a) + i) - Len(a) = i
  BY <1>1
<1>5. \A i \in 1..Len(a) + Len(b) :
         i \in 1..Len(a) \/ (i - Len(a) \in 1..Len(b) /\ ~ (i <= Len(a)))
  BY <1>1
<1> QED
  BY <1>1, <1>2, <1>3, <1>4, <1>5

\* A line that grows at its end, and one that loses a chunk.
LEMMA NumberedJoin ==
    ASSUME NEW s \in Chunks, NEW new \in Chunks, NEW count \in Nat, NEW whole,
           Numbered(s, count, whole), \A k \in 1..Len(new) : new[k].n = count + k
    PROVE  Numbered(s \o new, count + Len(new), whole)
<1> DEFINE line == s \o new
<1>1. /\ line \in Chunks /\ Len(line) = Len(s) + Len(new)
      /\ Len(s) \in Nat /\ Len(new) \in Nat
      /\ \A i \in 1..Len(s) : line[i] = s[i]
      /\ \A i \in 1..Len(s) + Len(new) :
            i \in 1..Len(s) \/ (i - Len(s) \in 1..Len(new) /\ line[i] = new[i - Len(s)])
  BY Join
<1> HIDE DEF line
<1>2. /\ \A i, j \in 1..Len(s) : i < j => s[i].n < s[j].n
      /\ \A i \in 1..Len(s) : s[i].n <= count
      /\ whole => Len(s) = count /\ \A i \in 1..Len(s) : s[i].n = i
  BY DEF Numbered
<1>3. \A i \in 1..Len(s) : s[i].n \in Nat /\ line[i].n = s[i].n /\ s[i].n <= count
  <2>1. \A i \in 1..Len(s) : s[i] \in ChunkType
    BY ElementOfSeq DEF Chunks
  <2>2. \A i \in 1..Len(s) : s[i].n \in Nat
    BY <2>1 DEF ChunkType
  <2> QED
    BY <1>1, <1>2, <2>2
<1>4. \A i \in 1..Len(line) : i \notin 1..Len(s) =>
         i - Len(s) \in 1..Len(new) /\ line[i].n = count + (i - Len(s)) /\ i > Len(s)
  BY <1>1
<1>5. \A i, j \in 1..Len(line) : i < j => line[i].n < line[j].n
  <2> SUFFICES ASSUME NEW i \in 1..Len(line), NEW j \in 1..Len(line), i < j
               PROVE  line[i].n < line[j].n
    OBVIOUS
  <2>1. CASE j \in 1..Len(s)
    <3>1. i \in 1..Len(s)
      BY <1>1, <2>1
    <3> QED
      BY <1>2, <1>3, <2>1, <3>1
  <2>2. CASE j \notin 1..Len(s) /\ i \in 1..Len(s)
    <3>1. line[j].n = count + (j - Len(s)) /\ j - Len(s) \in 1..Len(new)
      BY <1>4, <2>2
    <3>2. line[i].n \in Nat /\ line[i].n <= count
      BY <1>3, <2>2
    <3> QED
      BY <1>1, <3>1, <3>2
  <2>3. CASE j \notin 1..Len(s) /\ i \notin 1..Len(s)
    <3>1. /\ line[j].n = count + (j - Len(s))
          /\ line[i].n = count + (i - Len(s))
      BY <1>4, <2>3
    <3> QED
      BY <1>1, <3>1
  <2> QED
    BY <2>1, <2>2, <2>3
<1>6. \A i \in 1..Len(line) : line[i].n <= count + Len(new)
  <2> SUFFICES ASSUME NEW i \in 1..Len(line)
               PROVE  line[i].n <= count + Len(new)
    OBVIOUS
  <2>1. CASE i \in 1..Len(s)
    BY <1>1, <1>3, <2>1
  <2>2. CASE i \notin 1..Len(s)
    <3>1. line[i].n = count + (i - Len(s)) /\ i - Len(s) \in 1..Len(new)
      BY <1>4, <2>2
    <3> QED
      BY <1>1, <3>1
  <2> QED
    BY <2>1, <2>2
<1>7. whole => Len(line) = count + Len(new) /\ \A i \in 1..Len(line) : line[i].n = i
  <2> SUFFICES ASSUME whole
               PROVE  Len(line) = count + Len(new) /\ \A i \in 1..Len(line) : line[i].n = i
    OBVIOUS
  <2>1. Len(s) = count /\ \A i \in 1..Len(s) : s[i].n = i
    BY <1>2
  <2>2. ASSUME NEW i \in 1..Len(line)
        PROVE  line[i].n = i
    <3>1. CASE i \in 1..Len(s)
      BY <1>3, <2>1, <3>1
    <3>2. CASE i \notin 1..Len(s)
      <4>1. line[i].n = count + (i - Len(s))
        BY <1>4, <3>2
      <4> QED
        BY <1>1, <2>1, <4>1
    <3> QED
      BY <3>1, <3>2
  <2> QED
    BY <1>1, <2>1, <2>2
<1> QED
  BY <1>5, <1>6, <1>7 DEF Numbered, line

\* Where the chunks of a line were that has lost one.
LEMMA Drop ==
    ASSUME NEW a \in Chunks, NEW x \in ChunkType, NEW r \in Chunks
    PROVE  /\ a \o r \in Chunks /\ a \o (<<x>> \o r) \in Chunks
           /\ Len(a) \in Nat /\ Len(a \o r) \in Nat /\ Len(a \o (<<x>> \o r)) = Len(a \o r) + 1
           /\ \A i \in 1..Len(a \o r) :
                 (a \o r)[i] = (a \o (<<x>> \o r))[IF i <= Len(a) THEN i ELSE i + 1]
<1> DEFINE b == <<x>> \o r
           old == a \o b
           line == a \o r
<1>0. <<x>> \in Chunks /\ Len(<<x>>) = 1
  BY Singleton
<1>1. /\ b \in Chunks /\ Len(b) = 1 + Len(r) /\ Len(r) \in Nat
      /\ \A i \in 1..Len(r) : b[1 + i] = r[i]
  BY <1>0, Join
<1> HIDE DEF b
<1>2. /\ old \in Chunks /\ Len(old) = Len(a) + Len(b) /\ Len(a) \in Nat
      /\ \A i \in 1..Len(a) : old[i] = a[i]
      /\ \A i \in 1..Len(b) : old[Len(a) + i] = b[i]
  BY <1>1, Join
<1>3. /\ line \in Chunks /\ Len(line) = Len(a) + Len(r)
      /\ \A i \in 1..Len(a) : line[i] = a[i]
      /\ \A i \in 1..Len(r) : line[Len(a) + i] = r[i]
  BY Join
<1> HIDE DEF old, line
<1>4. ASSUME NEW i \in 1..Len(line)
      PROVE  line[i] = old[IF i <= Len(a) THEN i ELSE i + 1]
  <2>1. CASE i <= Len(a)
    BY <1>1, <1>2, <1>3, <2>1
  <2>2. CASE ~ (i <= Len(a))
    <3>1. PICK k \in 1..Len(r) : i = Len(a) + k
      <4>1. i - Len(a) \in 1..Len(r) /\ i = Len(a) + (i - Len(a))
        BY <1>1, <1>2, <1>3, <2>2
      <4> QED
        BY <4>1
    <3>2. line[i] = r[k] /\ b[1 + k] = r[k]
      BY <1>1, <1>3, <3>1
    <3>3. 1 + k \in 1..Len(b) /\ Len(a) + (1 + k) = i + 1
      BY <1>1, <1>2, <3>1
    <3>4. old[Len(a) + (1 + k)] = b[1 + k]
      BY <1>2, <3>3
    <3>5. old[i + 1] = line[i]
      BY <3>2, <3>3, <3>4
    <3> QED
      BY <2>2, <3>5
  <2> QED
    BY <2>1, <2>2
<1>5. Len(line) \in Nat /\ Len(old) = Len(line) + 1
  BY <1>1, <1>2, <1>3
<1> QED
  BY <1>2, <1>3, <1>4, <1>5 DEF old, line, b

LEMMA NumberedDrop ==
    ASSUME NEW a \in Chunks, NEW x \in ChunkType, NEW r \in Chunks, NEW count, NEW whole,
           Numbered(a \o (<<x>> \o r), count, whole)
    PROVE  Numbered(a \o r, count, FALSE)
<1> DEFINE old == a \o (<<x>> \o r)
           line == a \o r
           at(i) == IF i <= Len(a) THEN i ELSE i + 1
<1>1. /\ Len(a) \in Nat /\ Len(line) \in Nat /\ Len(old) = Len(line) + 1
      /\ \A i \in 1..Len(line) : line[i] = old[at(i)]
  BY Drop
<1>2. /\ \A i, j \in 1..Len(old) : i < j => old[i].n < old[j].n
      /\ \A i \in 1..Len(old) : old[i].n <= count
  BY DEF Numbered
<1> HIDE DEF old, line
<1>3. /\ \A i \in 1..Len(line) : at(i) \in 1..Len(old)
      /\ \A i, j \in 1..Len(line) : i < j => at(i) < at(j)
  BY <1>1
<1> HIDE DEF at
<1>4. /\ \A i, j \in 1..Len(line) : i < j => line[i].n < line[j].n
      /\ \A i \in 1..Len(line) : line[i].n <= count
  BY <1>1, <1>2, <1>3
<1> QED
  BY <1>4 DEF Numbered, line

LEMMA RightJoin ==
    ASSUME NEW s \in Chunks, NEW new \in Chunks, NEW finals, NEW more, finals \subseteq more,
           ChunksAreRight(s, finals), ChunksAreRight(new, more)
    PROVE  ChunksAreRight(s \o new, more)
<1> DEFINE line == s \o new
<1>1. /\ Len(line) = Len(s) + Len(new)
      /\ \A i \in 1..Len(s) : line[i] = s[i]
      /\ \A i \in 1..Len(s) + Len(new) :
            i \in 1..Len(s) \/ (i - Len(s) \in 1..Len(new) /\ line[i] = new[i - Len(s)])
  BY Join
<1> HIDE DEF line
<1>2. ASSUME NEW i \in 1..Len(line)
      PROVE  line[i].calls \in (IF line[i].kind = "done" THEN more ELSE {{}})
  <2>1. CASE i \in 1..Len(s)
    <3>1. s[i].calls \in (IF s[i].kind = "done" THEN finals ELSE {{}}) /\ line[i] = s[i]
      BY <1>1, <2>1 DEF ChunksAreRight
    <3> QED
      BY <3>1
  <2>2. CASE i \notin 1..Len(s)
    <3>1. i - Len(s) \in 1..Len(new) /\ line[i] = new[i - Len(s)]
      BY <1>1, <2>2
    <3> QED
      BY <3>1 DEF ChunksAreRight
  <2> QED
    BY <2>1, <2>2
<1> QED
  BY <1>2 DEF ChunksAreRight, line

LEMMA RightDrop ==
    ASSUME NEW a \in Chunks, NEW x \in ChunkType, NEW r \in Chunks, NEW finals,
           ChunksAreRight(a \o (<<x>> \o r), finals)
    PROVE  ChunksAreRight(a \o r, finals)
<1> DEFINE old == a \o (<<x>> \o r)
           line == a \o r
           at(i) == IF i <= Len(a) THEN i ELSE i + 1
<1>1. /\ Len(a) \in Nat /\ Len(line) \in Nat /\ Len(old) = Len(line) + 1
      /\ \A i \in 1..Len(line) : line[i] = old[at(i)]
  BY Drop
<1> HIDE DEF old, line
<1>2. \A i \in 1..Len(line) : at(i) \in 1..Len(old)
  BY <1>1
<1> HIDE DEF at
<1> QED
  BY <1>1, <1>2 DEF ChunksAreRight, old, line

\* What one more chunk makes of the facts that Stats and the result tell.
LEMMA OneMore ==
    ASSUME NEW s \in Chunks, NEW c \in ChunkType
    PROVE  /\ HasError(Append(s, c)) <=> HasError(s) \/ c.kind = "error"
           /\ HasUsage(Append(s, c)) <=> IF c.kind = "text" THEN HasUsage(s) ELSE c.kind = "done"
<1> DEFINE t == Append(s, c)
           last == Len(s) + 1
<1>1. /\ Len(s) \in Nat /\ Len(t) = last /\ t[last] = c
      /\ \A i \in 1..Len(s) : t[i] = s[i]
  BY AppendProperties DEF Chunks
<1> HIDE DEF t
<1>2. /\ \A i \in 1..last : i \in 1..Len(s) \/ i = last
      /\ 1..Len(s) \subseteq 1..last /\ last \in 1..last /\ last \notin 1..Len(s)
  BY <1>1
<1>3. HasError(t) <=> HasError(s) \/ c.kind = "error"
  BY <1>1, <1>2 DEF HasError
<1>4. \A i \in 1..Len(s) :
         (\A j \in (i + 1)..last : t[j].kind = "text")
            <=> (\A j \in (i + 1)..Len(s) : s[j].kind = "text") /\ c.kind = "text"
  <2> SUFFICES ASSUME NEW i \in 1..Len(s)
               PROVE  (\A j \in (i + 1)..last : t[j].kind = "text")
                         <=> (\A j \in (i + 1)..Len(s) : s[j].kind = "text") /\ c.kind = "text"
    OBVIOUS
  <2>1. /\ \A j \in (i + 1)..last : j \in (i + 1)..Len(s) \/ j = last
        /\ \A j \in (i + 1)..Len(s) : j \in (i + 1)..last /\ t[j] = s[j]
        /\ last \in (i + 1)..last
    BY <1>1
  <2> QED
    BY <1>1, <2>1
<1>5. \A j \in (last + 1)..last : FALSE
  BY <1>1
<1> DEFINE Now == IF c.kind = "text" THEN HasUsage(s) ELSE c.kind = "done"
<1>6. ASSUME c.kind = "text"
      PROVE  HasUsage(t) <=> HasUsage(s)
  BY <1>1, <1>2, <1>4, <1>6 DEF HasUsage
<1>7. ASSUME c.kind = "done"
      PROVE  HasUsage(t)
  BY <1>1, <1>2, <1>5, <1>7 DEF HasUsage
<1>8. ASSUME c.kind = "error"
      PROVE  ~ HasUsage(t)
  BY <1>1, <1>2, <1>4, <1>8 DEF HasUsage
<1>9. c.kind \in {"text", "done", "error"}
  BY DEF ChunkType, Kinds
<1>10. HasUsage(t) <=> Now
  BY <1>6, <1>7, <1>8, <1>9
<1> QED
  BY <1>3, <1>10 DEF t
-----------------------------------------------------------------------------
(* The parser *)

LEMMA Emitted ==
    ASSUME ParserTypeOK, NEW kinds \in Seq(Kinds), NEW calls \in SUBSET Parts,
           NEW last \in BOOLEAN, Emit(kinds, calls, last)
    PROVE  /\ todo' \in Chunks /\ produced' \in Nat /\ produced' = produced + Len(todo')
           /\ Len(todo') = Len(kinds)
           /\ \A k \in 1..Len(todo') :
                 /\ todo'[k].n = produced + k
                 /\ todo'[k].kind = kinds[k]
                 /\ todo'[k].calls = IF kinds[k] = "done" THEN calls ELSE {}
           /\ ends' = last
           /\ parser' \in {"scan", "send", "closed"}
           /\ parser' = "scan" => todo' = <<>> /\ ~ last
           /\ parser' = "send" => todo' # <<>>
<1> DEFINE item(k) == [n |-> produced + k, kind |-> kinds[k],
                       calls |-> IF kinds[k] = "done" THEN calls ELSE {}]
<1>1. /\ DOMAIN kinds = 1..Len(kinds) /\ Len(kinds) \in Nat
      /\ \A k \in 1..Len(kinds) : kinds[k] \in Kinds
      /\ produced \in Nat
  BY ElementOfSeq DEF ParserTypeOK
<1>2. /\ todo' = [k \in 1..Len(kinds) |-> item(k)]
      /\ produced' = produced + Len(kinds) /\ ends' = last
      /\ parser' = IF kinds # <<>> THEN "send" ELSE IF last THEN "closed" ELSE "scan"
  BY <1>1 DEF Emit
<1>3. \A k \in 1..Len(kinds) : item(k) \in ChunkType
  BY <1>1 DEF ChunkType
<1>4. \A k \in 1..Len(kinds) :
         /\ item(k).n = produced + k /\ item(k).kind = kinds[k]
         /\ item(k).calls = IF kinds[k] = "done" THEN calls ELSE {}
  OBVIOUS
<1> HIDE DEF item
<1>5. todo' \in Chunks /\ Len(todo') = Len(kinds)
  BY <1>1, <1>2, <1>3 DEF Chunks
<1>6. \A k \in 1..Len(kinds) : todo'[k] = item(k)
  BY <1>2
<1>7. todo' = <<>> <=> kinds = <<>>
  <2>1. kinds = <<>> <=> Len(kinds) = 0
    BY EmptySeq
  <2>2. todo' = <<>> <=> Len(todo') = 0
    BY <1>5, EmptySeq DEF Chunks
  <2> QED
    BY <1>5, <2>1, <2>2
<1> QED
  BY <1>1, <1>2, <1>4, <1>5, <1>6, <1>7

\* What the chunks of an event have to be.
EventIsRight(kinds, calls, finals) ==
    \A k \in 1..Len(kinds) : kinds[k] = "done" => calls \in finals

LEMMA EmittedRight ==
    ASSUME ParserTypeOK, NEW kinds \in Seq(Kinds), NEW calls \in SUBSET Parts,
           NEW last \in BOOLEAN, Emit(kinds, calls, last),
           NEW finals, EventIsRight(kinds, calls, finals)
    PROVE  ChunksAreRight(todo', finals)
<1>1. /\ Len(todo') = Len(kinds)
      /\ \A k \in 1..Len(todo') :
            /\ todo'[k].kind = kinds[k]
            /\ todo'[k].calls = IF kinds[k] = "done" THEN calls ELSE {}
  BY Emitted
<1> QED
  BY <1>1 DEF ChunksAreRight, EventIsRight

\* A set of finals in terms of what it depends on.
FinalsOf(f, s, fin, e) ==
    {calls \in SUBSET Parts :
        /\ fin = "no" => e
        /\ f \in Assembling /\ fin # "no" => calls = s
        /\ (f = "responses" /\ fin = "no") \/ NoHalf(calls)}

\* What a step of the parser that scans has to do.
Scanned ==
    /\ ParserTypeOK' /\ ParserInv'
    /\ todo' \in Chunks /\ produced' = produced + Len(todo')
    /\ \A k \in 1..Len(todo') : todo'[k].n = produced + k
    /\ Finals \subseteq Finals' /\ ChunksAreRight(todo', Finals')

LEMMA ScannedBy ==
    ASSUME ParserTypeOK, NEW kinds \in Seq(Kinds), NEW calls \in SUBSET Parts,
           NEW last \in BOOLEAN, Emit(kinds, calls, last),
           format' = format, sent' \subseteq Parts, assembled' \subseteq Parts,
           texts' \in 0..MaxTexts, finish' \in {"no", "pending", "emitted"},
           format \in Assembling => assembled' = sent',
           format \notin Assembling => assembled' = {},
           format \in Assembling /\ finish' # "no" => NoHalf(sent'),
           finish' = "pending" => format \in Holding,
           Finals \subseteq Finals', EventIsRight(kinds, calls, Finals')
    PROVE  Scanned
<1>1. ParserTypeOK'
  BY Emitted DEF ParserTypeOK, Chunks
<1>2. ParserInv'
  BY Emitted DEF ParserInv
<1>3. ChunksAreRight(todo', Finals')
  BY EmittedRight
<1> QED
  BY <1>1, <1>2, <1>3, Emitted DEF Scanned

\* Before the finishing event there is no final chunk, unless the body has ended.
LEMMA NoFinals ==
    ASSUME finish = "no", ~ ends
    PROVE  Finals = {}
BY DEF Finals

LEMMA KindSeqs ==
    /\ <<>> \in Seq(Kinds) /\ <<"text">> \in Seq(Kinds) /\ <<"done">> \in Seq(Kinds)
    /\ <<"error">> \in Seq(Kinds) /\ <<"text", "done">> \in Seq(Kinds)
    /\ Append(<<"done">>, "error") \in Seq(Kinds)
    /\ \A calls, finals :
          /\ EventIsRight(<<>>, calls, finals)
          /\ EventIsRight(<<"text">>, calls, finals)
          /\ EventIsRight(<<"error">>, calls, finals)
<1>1. /\ <<>> \in Seq(Kinds) /\ <<"text">> \in Seq(Kinds) /\ <<"done">> \in Seq(Kinds)
      /\ <<"error">> \in Seq(Kinds) /\ <<"text", "done">> \in Seq(Kinds)
      /\ "error" \in Kinds
  BY DEF Kinds
<1>2. Append(<<"done">>, "error") \in Seq(Kinds)
  BY <1>1, AppendProperties
<1> QED
  BY <1>1, <1>2 DEF EventIsRight

LEMMA CallFacts ==
    /\ {} \subseteq Parts /\ NoHalf({})
    /\ \A i \in 1..MaxCalls : Call(i) \subseteq Parts /\ NoHalf(Call(i))
                              /\ <<i, "name">> \in Parts
<1>1. {} \subseteq Parts /\ NoHalf({})
  BY DEF NoHalf
<1>2. ASSUME NEW i \in 1..MaxCalls
      PROVE  Call(i) \subseteq Parts /\ <<i, "name">> \in Parts
  BY DEF Call, Parts
<1>3. ASSUME NEW i \in 1..MaxCalls, NEW j \in 1..MaxCalls
      PROVE  Call(i) \cap Call(j) \in {{}, Call(j)}
  <2>1. CASE i = j
    BY <2>1
  <2>2. CASE i # j
    BY <2>2 DEF Call
  <2> QED
    BY <2>1, <2>2
<1> QED
  BY <1>1, <1>2, <1>3 DEF NoHalf

LEMMA TextScanned ==
    ASSUME ParserTypeOK, ParserInv, parser = "scan", ScanText
    PROVE  Scanned
<1>1. /\ finish = "no" /\ texts < MaxTexts /\ texts' = texts + 1
      /\ Emit(<<"text">>, {}, FALSE)
      /\ format' = format /\ sent' = sent /\ assembled' = assembled /\ finish' = finish
  BY DEF ScanText
<1>2. Finals = {}
  BY <1>1, NoFinals DEF ParserInv
<1>3. texts' \in 0..MaxTexts
  BY <1>1, ParserAssumption DEF ParserTypeOK
<1>4. Finals \subseteq Finals'
  BY <1>2
<1>5. <<"text">> \in Seq(Kinds) /\ EventIsRight(<<"text">>, {}, Finals') /\ {} \in SUBSET Parts
  BY KindSeqs
<1> QED
  BY <1>1, <1>3, <1>4, <1>5, ScannedBy DEF ParserTypeOK, ParserInv

LEMMA CallScanned ==
    ASSUME ParserTypeOK, ParserInv, parser = "scan", ScanCall
    PROVE  Scanned
<1>1. PICK i \in 1..MaxCalls :
         \E now \in SUBSET Call(i) : sent' = sent \cup now /\ assembled' = Assemble(now)
  <2>1. PICK i \in 1..MaxCalls :
           LET left == Call(i) \ sent
               now == IF format \in Whole \/ <<i, "name">> \notin left THEN left ELSE {<<i, "name">>}
           IN  sent' = sent \cup now /\ assembled' = Assemble(now)
    BY DEF ScanCall
  <2> DEFINE left == Call(i) \ sent
             now == IF format \in Whole \/ <<i, "name">> \notin left THEN left ELSE {<<i, "name">>}
  <2>2. now \in SUBSET Call(i)
    BY DEF Call
  <2> QED
    BY <2>1, <2>2
<1>2. PICK now \in SUBSET Call(i) : sent' = sent \cup now /\ assembled' = Assemble(now)
  BY <1>1
<1>3. now \subseteq Parts
  BY CallFacts
<1>4. /\ finish = "no" /\ Emit(<<>>, {}, FALSE)
      /\ format' = format /\ texts' = texts /\ finish' = finish
  BY DEF ScanCall
<1>5. /\ sent' \subseteq Parts /\ assembled' \subseteq Parts
      /\ format \in Assembling => assembled' = sent'
      /\ format \notin Assembling => assembled' = {}
  BY <1>2, <1>3 DEF Assemble, ParserTypeOK, ParserInv
<1>6. Finals \subseteq Finals'
  BY <1>4, NoFinals DEF ParserInv
<1>7. <<>> \in Seq(Kinds) /\ EventIsRight(<<>>, {}, Finals') /\ {} \in SUBSET Parts
  BY KindSeqs
<1> QED
  BY <1>4, <1>5, <1>6, <1>7, ScannedBy DEF ParserTypeOK, ParserInv

LEMMA FinishScanned ==
    ASSUME ParserTypeOK, ParserInv, parser = "scan", ScanFinish
    PROVE  Scanned
<1>1. /\ finish = "no" /\ NoHalf(sent) /\ format' = format /\ assembled' = assembled
  BY DEF ScanFinish, NoHalf
<1>2. PICK kinds \in {<<>>, <<"text">>}, last \in SUBSET Parts :
         /\ last = {} \/ (format \in Whole /\ \E i \in 1..MaxCalls : last = Call(i))
         /\ kinds = <<"text">> => texts < MaxTexts
         /\ texts' = texts + Len(kinds)
         /\ sent' = sent \cup last
         /\ \/ /\ format \in Holding
               /\ finish' = "pending" /\ Emit(kinds, {}, FALSE)
            \/ /\ format # "responses"
               /\ finish' = "emitted"
               /\ Emit(Append(kinds, "done"), IF format \in Whole THEN last ELSE assembled,
                       format \notin Holding)
  BY CallFacts DEF ScanFinish
<1>3. NoHalf(last)
  BY <1>2, CallFacts
<1>4. texts' \in 0..MaxTexts
  <2>1. texts \in 0..MaxTexts /\ MaxTexts \in Nat
    BY ParserAssumption DEF ParserTypeOK
  <2>2. CASE kinds = <<>>
    BY <1>2, <2>1, <2>2
  <2>3. CASE kinds = <<"text">>
    BY <1>2, <2>1, <2>3
  <2> QED
    BY <2>2, <2>3
<1>5. format \in Assembling => format \notin Whole
  BY DEF Assembling, Whole
<1>6. /\ sent' \subseteq Parts /\ assembled' \subseteq Parts
      /\ format \in Assembling => assembled' = sent' /\ sent' = sent
      /\ format \notin Assembling => assembled' = {}
  BY <1>1, <1>2, <1>5 DEF ParserTypeOK, ParserInv
<1>7. format \in Assembling => NoHalf(sent')
  BY <1>1, <1>6
<1>8. Finals \subseteq Finals'
  BY <1>1, NoFinals DEF ParserInv
<1>9. CASE format \in Holding /\ finish' = "pending" /\ Emit(kinds, {}, FALSE)
  <2>1. kinds \in Seq(Kinds) /\ EventIsRight(kinds, {}, Finals') /\ {} \in SUBSET Parts
    BY KindSeqs
  <2> QED
    BY <1>1, <1>4, <1>6, <1>7, <1>8, <1>9, <2>1, ScannedBy
<1>10. CASE /\ finish' = "emitted"
            /\ Emit(Append(kinds, "done"), IF format \in Whole THEN last ELSE assembled,
                    format \notin Holding)
  <2>1. PICK calls : calls = IF format \in Whole THEN last ELSE assembled
    OBVIOUS
  <2>2. PICK all : all = Append(kinds, "done")
    OBVIOUS
  <2>3. PICK ended \in BOOLEAN : ended = (format \notin Holding)
    OBVIOUS
  <2>4. /\ calls \in SUBSET Parts /\ NoHalf(calls)
        /\ format \in Assembling => calls = sent'
    BY <1>1, <1>3, <1>5, <1>6, <1>7, <2>1, CallFacts
  <2>5. calls \in Finals'
    BY <1>1, <1>10, <2>4 DEF Finals
  <2>6. all \in Seq(Kinds)
    <3>1. kinds \in Seq(Kinds) /\ "done" \in Kinds
      BY KindSeqs DEF Kinds
    <3> QED
      BY <2>2, <3>1, AppendProperties
  <2>7. EventIsRight(all, calls, Finals')
    BY <2>5 DEF EventIsRight
  <2>8. Emit(all, calls, ended)
    BY <1>10, <2>1, <2>2, <2>3
  <2> QED
    BY <1>1, <1>4, <1>6, <1>7, <1>8, <1>10, <2>4, <2>6, <2>7, <2>8, ScannedBy
<1> QED
  BY <1>2, <1>9, <1>10

LEMMA UsageScanned ==
    ASSUME ParserTypeOK, ParserInv, parser = "scan", ScanUsage
    PROVE  Scanned
<1>1. /\ finish = "pending" /\ format = "openai" /\ finish' = "emitted"
      /\ Emit(<<"done">>, assembled, FALSE)
      /\ format' = format /\ sent' = sent /\ texts' = texts /\ assembled' = assembled
  BY DEF ScanUsage, serverVars
<1>2. format \in Assembling /\ NoHalf(sent) /\ assembled = sent /\ assembled \in SUBSET Parts
  BY <1>1 DEF Assembling, ParserInv, ParserTypeOK
<1>3. Finals \subseteq Finals' /\ assembled \in Finals'
  BY <1>1, <1>2 DEF Finals
<1>4. EventIsRight(<<"done">>, assembled, Finals') /\ <<"done">> \in Seq(Kinds)
  BY <1>3, KindSeqs DEF EventIsRight
<1> QED
  BY <1>1, <1>2, <1>3, <1>4, ScannedBy DEF ParserTypeOK

LEMMA BadLineScanned ==
    ASSUME ParserTypeOK, ParserInv, parser = "scan", ScanBadLine
    PROVE  Scanned
<1>1. /\ finish' = IF finish = "pending" THEN "emitted" ELSE finish
      /\ Emit(<<"error">>, {}, TRUE)
      /\ format' = format /\ sent' = sent /\ texts' = texts /\ assembled' = assembled
  BY DEF ScanBadLine, serverVars
<1>2. Finals \subseteq Finals'
  <2>1. CASE finish = "no"
    BY <2>1, NoFinals DEF ParserInv
  <2>2. CASE finish # "no"
    BY <1>1, <2>2 DEF Finals
  <2> QED
    BY <2>1, <2>2
<1>3. <<"error">> \in Seq(Kinds) /\ EventIsRight(<<"error">>, {}, Finals') /\ {} \in SUBSET Parts
  BY KindSeqs
<1>4. finish' \in {"no", "pending", "emitted"} /\ finish' # "pending" /\ (finish' # "no" => finish # "no")
  BY <1>1 DEF ParserTypeOK
<1> QED
  BY <1>1, <1>2, <1>3, <1>4, ScannedBy DEF ParserTypeOK, ParserInv

LEMMA EndScanned ==
    ASSUME ParserTypeOK, ParserInv, parser = "scan", ScanEnd
    PROVE  Scanned
<1>1. PICK broken \in BOOLEAN : Emit(EndKinds(broken), assembled, TRUE)
  BY DEF ScanEnd
<1>2. /\ finish' = IF finish = "pending" THEN "emitted" ELSE finish
      /\ format' = format /\ sent' = sent /\ texts' = texts /\ assembled' = assembled
  BY DEF ScanEnd, serverVars
<1>3. ends' = TRUE
  BY <1>1 DEF Emit
<1>4. Finals \subseteq Finals'
  <2>1. CASE finish = "no"
    BY <2>1, NoFinals DEF ParserInv
  <2>2. CASE finish # "no"
    BY <1>2, <2>2 DEF Finals
  <2> QED
    BY <2>1, <2>2
<1>5. Owed(broken) = <<"done">> => assembled \in Finals'
  <2> SUFFICES ASSUME Owed(broken) = <<"done">>
               PROVE  assembled \in Finals'
    OBVIOUS
  <2>1. assembled \in SUBSET Parts
    BY DEF ParserTypeOK
  <2>2. <<"done">> # <<>>
    OBVIOUS
  <2>3. finish = "pending" \/ (finish = "no" /\ format \in Forgiving)
    BY <2>2 DEF Owed
  <2>4. CASE finish = "pending"
    <3>1. format \in Holding /\ format \in Assembling /\ assembled = sent /\ NoHalf(sent)
      BY <2>4 DEF ParserInv, Holding, Assembling
    <3> QED
      BY <1>2, <2>1, <2>4, <3>1 DEF Finals
  <2>5. CASE finish = "no" /\ format = "responses"
    BY <1>2, <1>3, <2>1, <2>5 DEF Finals
  <2>6. CASE finish = "no" /\ format = "hunyuan"
    <3>1. assembled = {} /\ format \notin Assembling
      BY <2>6 DEF ParserInv, Assembling
    <3> QED
      BY <1>2, <1>3, <2>1, <2>6, <3>1, CallFacts DEF Finals
  <2> QED
    BY <2>3, <2>4, <2>5, <2>6 DEF Forgiving
<1>6. PICK kinds : kinds = EndKinds(broken)
  OBVIOUS
<1>7. /\ kinds \in {<<>>, <<"error">>, <<"done">>, Append(<<"done">>, "error")}
      /\ kinds \in {<<"done">>, Append(<<"done">>, "error")} => Owed(broken) = <<"done">>
  <2>1. Owed(broken) \in {<<>>, <<"done">>}
    BY DEF Owed
  <2>2. <<>> \o <<>> = <<>> /\ <<>> \o <<"error">> = <<"error">> /\ <<"done">> \o <<>> = <<"done">>
    <3>1. <<"done">> \in Seq(Kinds) /\ <<"error">> \in Seq(Kinds) /\ <<>> \in Seq(Kinds)
      BY KindSeqs
    <3> QED
      BY <3>1, ConcatEmptySeq
  <2>3. <<"done">> \o <<"error">> = Append(<<"done">>, "error")
    <3>1. <<"done">> \in Seq(Kinds) /\ "error" \in Kinds
      BY KindSeqs DEF Kinds
    <3> QED
      BY <3>1, AppendIsConcat
  <2>4. kinds = Owed(broken) \o (IF broken THEN <<"error">> ELSE <<>>)
    BY <1>6 DEF EndKinds
  <2>5. CASE Owed(broken) = <<>>
    <3>1. kinds = <<>> \/ kinds = <<"error">>
      BY <2>2, <2>4, <2>5
    <3> QED
      BY <3>1, <2>5
  <2>6. CASE Owed(broken) = <<"done">>
    <3>1. kinds = <<"done">> \/ kinds = Append(<<"done">>, "error")
      BY <2>2, <2>3, <2>4, <2>6
    <3> QED
      BY <3>1, <2>6
  <2> QED
    BY <2>1, <2>5, <2>6
<1>8. kinds \in Seq(Kinds)
  BY <1>7, KindSeqs
<1>9. EventIsRight(kinds, assembled, Finals')
  <2>1. CASE kinds \in {<<>>, <<"error">>}
    BY <2>1, KindSeqs
  <2>2. CASE kinds \in {<<"done">>, Append(<<"done">>, "error")}
    BY <1>5, <1>7, <2>2 DEF EventIsRight
  <2> QED
    BY <1>7, <2>1, <2>2
<1>10. finish' \in {"no", "pending", "emitted"} /\ finish' # "pending" /\ (finish' # "no" => finish # "no")
  BY <1>2 DEF ParserTypeOK
<1>11. Emit(kinds, assembled, TRUE) /\ assembled \in SUBSET Parts
  BY <1>1, <1>6 DEF ParserTypeOK
<1> QED
  BY <1>2, <1>4, <1>8, <1>9, <1>10, <1>11, ScannedBy DEF ParserTypeOK, ParserInv

LEMMA ScanStepScans ==
    ASSUME ParserTypeOK, ParserInv, ScanStep
    PROVE  Scanned
BY TextScanned, CallScanned, FinishScanned, UsageScanned, BadLineScanned, EndScanned
   DEF ScanStep

\* After a send the parser is at the next chunk, or scans, or is done.
LEMMA Sent ==
    ASSUME ParserTypeOK, ParserInv, parser = "send", NEW gaveUp \in BOOLEAN, AfterSend(gaveUp)
    PROVE  /\ ParserTypeOK' /\ ParserInv'
           /\ todo # <<>> /\ Head(todo) \in ChunkType /\ todo' = Tail(todo) /\ todo' \in Chunks
           /\ produced' = produced /\ Finals' = Finals /\ format' = format
<1>1. todo # <<>> /\ todo \in Chunks
  BY DEF ParserInv, ParserTypeOK, Chunks
<1>2. Head(todo) \in ChunkType /\ Tail(todo) \in Chunks
  BY <1>1, HeadOff
<1>3. /\ todo' = Tail(todo) /\ format' = format /\ sent' = sent /\ texts' = texts
      /\ assembled' = assembled /\ finish' = finish /\ produced' = produced /\ ends' = ends
      /\ parser' \in {"closed", "send", "scan"}
      /\ parser' = "send" => todo' # <<>>
      /\ parser' = "scan" => todo' = <<>> /\ ~ ends
  BY DEF AfterSend, serverVars
<1>4. ParserTypeOK'
  BY <1>2, <1>3 DEF ParserTypeOK, Chunks
<1>5. ParserInv'
  BY <1>3 DEF ParserInv
<1>6. Finals' = Finals
  BY <1>3 DEF Finals
<1> QED
  BY <1>1, <1>2, <1>3, <1>4, <1>5, <1>6
-----------------------------------------------------------------------------
(* The line as its parts *)

LEMMA Cat ==
    ASSUME NEW a \in Chunks, NEW b \in Chunks, NEW r \in Chunks
    PROVE  (a \o b) \o r = a \o (b \o r)
BY ConcatAssociative DEF Chunks

LEMMA CatTyped ==
    ASSUME NEW a \in Chunks, NEW b \in Chunks
    PROVE  a \o b \in Chunks /\ <<>> \in Chunks /\ a \o <<>> = a /\ <<>> \o a = a
BY ConcatProperties, ConcatEmptySeq DEF Chunks

LEMMA PartsTyped ==
    ASSUME TypeOK
    PROVE  /\ got \in Chunks /\ out \in Chunks /\ InWrap \in Chunks
           /\ in \in Chunks /\ InForwarder \in Chunks /\ ch \in Chunks /\ todo \in Chunks
           /\ out \o InWrap \in Chunks /\ ch \o todo \in Chunks
           /\ InForwarder \o (ch \o todo) \in Chunks
           /\ Taken \in Chunks /\ Coming \in Chunks /\ Line \in Chunks
<1>1. /\ got \in Chunks /\ out \in Chunks /\ in \in Chunks /\ ch \in Chunks /\ todo \in Chunks
      /\ fitem \in ChunkType /\ witem \in ChunkType
  BY DEF TypeOK, ParserTypeOK, Chunks
<1>2. InWrap \in Chunks /\ InForwarder \in Chunks
  BY <1>1, Singleton, CatTyped DEF InWrap, InForwarder, InHand
<1>3. out \o InWrap \in Chunks /\ ch \o todo \in Chunks
  BY <1>1, <1>2, CatTyped
<1>4. InForwarder \o (ch \o todo) \in Chunks /\ Taken \in Chunks
  BY <1>1, <1>2, <1>3, CatTyped DEF Taken
<1>5. Coming \in Chunks
  BY <1>1, <1>4, CatTyped DEF Coming
<1> QED
  BY <1>1, <1>2, <1>3, <1>4, <1>5, CatTyped DEF Line

\* What the parser has made comes at the end of the line.
LEMMA TodoIsLast ==
    ASSUME NEW a \in Chunks, NEW i \in Chunks, NEW f \in Chunks, NEW c \in Chunks,
           NEW t \in Chunks
    PROVE  LineOf(a, i, f, c, t) = Then(LineBefore(a, i, f, c), t)
<1>1. f \o c \in Chunks /\ (f \o c) \o t = f \o (c \o t)
  BY CatTyped, Cat
<1> DEFINE fc == f \o c
<1> HIDE DEF fc
<1>2. fc \in Chunks /\ i \o fc \in Chunks /\ (i \o fc) \o t = i \o (fc \o t)
  <2>1. fc \in Chunks
    BY <1>1 DEF fc
  <2> QED
    BY <2>1, CatTyped, Cat
<1> DEFINE ifc == i \o fc
<1> HIDE DEF ifc
<1>3. ifc \in Chunks
  BY <1>2 DEF ifc
<1>4. a \o ifc \in Chunks /\ (a \o ifc) \o t = a \o (ifc \o t)
  BY <1>3, CatTyped, Cat
<1> QED
  BY <1>1, <1>2, <1>4 DEF fc, ifc, LineOf, LineBefore, Then

LEMMA BeforeTodo ==
    ASSUME NEW a \in Chunks, NEW i \in Chunks, NEW f \in Chunks, NEW c \in Chunks
    PROVE  LineBefore(a, i, f, c) \in Chunks
<1>1. f \o c \in Chunks
  BY CatTyped
<1>2. i \o (f \o c) \in Chunks
  BY <1>1, CatTyped
<1> QED
  BY <1>2, CatTyped DEF LineBefore

\* The head of the last part, moved to the end of the part before it.
LEMMA ShiftLast ==
    ASSUME NEW a \in Chunks, NEW b \in Chunks, b # <<>>
    PROVE  Append(a, Head(b)) \o Tail(b) = a \o b
<1>1. /\ <<>> \in Chunks /\ Tail(b) \in Chunks
  BY HeadOff, CatTyped
<1>2. b \o <<>> = b /\ Tail(b) \o <<>> = Tail(b)
  BY <1>1, CatTyped
<1>3. Append(a, Head(b)) \o (Tail(b) \o <<>>) = a \o (b \o <<>>)
  BY <1>1, Shift
<1> QED
  BY <1>2, <1>3

\* wrapStream takes a chunk; the consumer, the one before it.
LEMMA TakeOne ==
    ASSUME NEW g \in Chunks, NEW o \in Chunks, NEW x \in ChunkType
    PROVE  g \o (o \o <<x>>) = Append(g \o (o \o <<>>), x)
<1>1. <<x>> \in Chunks /\ o \o <<>> = o /\ g \o o \in Chunks
  BY Singleton, CatTyped
<1>2. (g \o o) \o <<x>> = g \o (o \o <<x>>)
  <2>1. <<x>> \in Chunks
    BY <1>1
  <2> QED
    BY <2>1, Cat
<1>3. Append(g \o o, x) = (g \o o) \o <<x>>
  BY <1>1, AppendIsConcat DEF Chunks
<1> QED
  BY <1>1, <1>2, <1>3
-----------------------------------------------------------------------------
(* What a step leaves alone *)

LEMMA OrderKept ==
    ASSUME Order, Line' = Line, produced' = produced, Finals' = Finals,
           cancelled => cancelled'
    PROVE  Order'
<1>1. Numbered(Line', produced', ~ cancelled')
  BY DEF Order, Numbered
<1>2. ChunksAreRight(Line', Finals')
  BY DEF Order, ChunksAreRight
<1> QED
  BY <1>1, <1>2 DEF Order

LEMMA StatsKept ==
    ASSUME Stats, Taken' = Taken, success' = success, usage' = usage, recorded' = recorded,
           wrap' = "closed" <=> wrap = "closed", cancelled => cancelled'
    PROVE  Stats'
BY DEF Stats

LEMMA AccumulatedKept ==
    ASSUME Accumulated, got' = got, result' = result, Finals \subseteq Finals',
           consumer' = "ended" => wrap' = "closed" /\ out' = <<>>
    PROVE  Accumulated'
BY DEF Accumulated

\* The context only decides about what is still to happen.
LEMMA FinalsKept ==
    ASSUME UNCHANGED parserVars
    PROVE  /\ Finals' = Finals /\ format' = format /\ produced' = produced /\ todo' = todo
           /\ parser' = parser /\ finish' = finish /\ ends' = ends /\ sent' = sent
           /\ texts' = texts /\ assembled' = assembled
<1>1. /\ format' = format /\ produced' = produced /\ todo' = todo
      /\ parser' = parser /\ finish' = finish /\ ends' = ends /\ sent' = sent
      /\ texts' = texts /\ assembled' = assembled
  BY DEF parserVars
<1> QED
  BY <1>1 DEF Finals

LEMMA ParserKept ==
    ASSUME ParserTypeOK, ParserInv, UNCHANGED parserVars
    PROVE  ParserTypeOK' /\ ParserInv'
BY FinalsKept DEF ParserTypeOK, ParserInv

\* A channel with room for one more, and one that loses its head.
LEMMA Fits ==
    ASSUME NEW q \in Seq(ChunkType), Len(q) <= Buffer
    PROVE  /\ \A x \in ChunkType : ~ Full(q) => Append(q, x) \in Seq(ChunkType)
                                                 /\ Len(Append(q, x)) <= Buffer
           /\ q # <<>> => Tail(q) \in Seq(ChunkType) /\ Len(Tail(q)) <= Buffer
<1>1. Len(q) \in Nat /\ Buffer \in Nat
  BY PipeAssumption
<1>2. ASSUME NEW x \in ChunkType, ~ Full(q)
      PROVE  Append(q, x) \in Seq(ChunkType) /\ Len(Append(q, x)) <= Buffer
  <2>1. Append(q, x) \in Seq(ChunkType) /\ Len(Append(q, x)) = Len(q) + 1
    BY AppendProperties
  <2> QED
    BY <1>1, <1>2, <2>1 DEF Full
<1>3. ASSUME q # <<>>
      PROVE  Tail(q) \in Seq(ChunkType) /\ Len(Tail(q)) <= Buffer
  <2>1. Tail(q) \in Seq(ChunkType) /\ Len(Tail(q)) = Len(q) - 1
    BY <1>3, HeadTailProperties
  <2> QED
    BY <1>1, <2>1
<1> QED
  BY <1>2, <1>3

\* The end of the line, where the parser is.
LEMMA LineEnds ==
    ASSUME TypeOK, Taken' = Taken, in' = in, InForwarder' = InForwarder, ch' = ch,
           todo' \in Chunks
    PROVE  \E front \in Chunks : Line = front \o todo /\ Line' = front \o todo'
<1> DEFINE front == LineBefore(Taken, in, InForwarder, ch)
<1>1. /\ Taken \in Chunks /\ in \in Chunks /\ InForwarder \in Chunks /\ ch \in Chunks
      /\ todo \in Chunks
  BY PartsTyped
<1>2. front \in Chunks
  BY <1>1, BeforeTodo
<1>3. Line = front \o todo
  <2>1. LineOf(Taken, in, InForwarder, ch, todo) = Then(front, todo)
    BY <1>1, TodoIsLast
  <2> QED
    BY <2>1 DEF Line, Coming, LineOf, Then
<1>4. Line' = front \o todo'
  <2>1. PICK new \in Chunks : new = todo'
    OBVIOUS
  <2>2. LineOf(Taken, in, InForwarder, ch, new) = Then(front, new)
    BY <1>1, TodoIsLast
  <2>3. Line' = LineOf(Taken, in, InForwarder, ch, todo')
    BY DEF Line, Coming, LineOf
  <2> QED
    BY <2>1, <2>2, <2>3 DEF Then
<1> QED
  BY <1>2, <1>3, <1>4
-----------------------------------------------------------------------------
(* The steps *)

LEMMA InitIInv ==
    ASSUME Init
    PROVE  IInv
<1>1. /\ got = <<>> /\ out = <<>> /\ in = <<>> /\ ch = <<>> /\ todo = <<>>
      /\ InWrap = <<>> /\ InForwarder = <<>>
  BY DEF Init, ParserInit, InWrap, InForwarder, InHand
<1>2. <<>> \in Chunks /\ Len(<<>>) = 0 /\ <<>> \o <<>> = <<>>
  <2>1. <<>> \in Chunks
    BY DEF Chunks
  <2> QED
    BY <2>1, CatTyped
<1>3. Taken = <<>> /\ Line = <<>>
  BY <1>1, <1>2 DEF Line, Taken, Coming
<1>4. TypeOK
  <2>1. ParserTypeOK
    <3>1. texts = 0 /\ 0 \in 0..MaxTexts /\ produced = 0 /\ finish = "no" /\ parser = "scan"
      BY ParserAssumption DEF Init, ParserInit
    <3>2. /\ format \in Formats /\ sent = {} /\ assembled = {} /\ ends = FALSE
          /\ todo \in Seq(ChunkType)
      BY <1>1, <1>2 DEF Init, ParserInit, Chunks
    <3> QED
      BY <3>1, <3>2 DEF ParserTypeOK
  <2>2. \A c \in {ch, in, out} : c \in Seq(ChunkType) /\ Len(c) <= Buffer
    <3>1. 0 <= Buffer /\ <<>> \in Seq(ChunkType)
      BY <1>2, PipeAssumption DEF Chunks
    <3> QED
      BY <1>1, <1>2, <3>1
  <2>3. NoItem \in ChunkType
    BY DEF NoItem, ChunkType, Kinds
  <2>4. /\ success \in BOOLEAN /\ usage \in BOOLEAN /\ cancelled \in BOOLEAN
        /\ fwd \in {"receive", "send", "closed", "none"} /\ wrap \in {"select", "send", "closed"}
        /\ fitem \in ChunkType /\ witem \in ChunkType /\ got \in Seq(ChunkType)
        /\ consumer \in {"reading", "ended", "left"}
    BY <1>1, <1>2, <2>3 DEF Init, Chunks
  <2>5. /\ result \in [texts : Nat, calls : SUBSET Parts, usage : BOOLEAN,
                       err : BOOLEAN, finished : BOOLEAN]
        /\ recorded \in Seq([ok : BOOLEAN, usage : BOOLEAN])
    BY DEF Init
  <2> QED
    BY <2>1, <2>2, <2>4, <2>5 DEF TypeOK
<1>5. Order
  BY <1>2, <1>3 DEF Init, ParserInit, Order, Numbered, ChunksAreRight
<1>6. ParserInv /\ PipeInv
  BY DEF Init, ParserInit, ParserInv, PipeInv
<1>7. ~ HasError(<<>>) /\ ~ HasUsage(<<>>)
  BY <1>2 DEF HasError, HasUsage
<1> QED
  BY <1>3, <1>4, <1>5, <1>6, <1>7 DEF Init, IInv, Stats, Accumulated

LEMMA ScanKeeps ==
    ASSUME IInv, Scan
    PROVE  IInv'
<1>1. /\ fwd' = fwd /\ fitem' = fitem /\ ch' = ch /\ in' = in /\ out' = out
      /\ wrap' = wrap /\ witem' = witem /\ success' = success /\ usage' = usage
      /\ recorded' = recorded /\ consumer' = consumer /\ got' = got /\ result' = result
      /\ cancelled' = cancelled
      /\ parser = "scan" /\ ScanStep
  BY DEF Scan, ScanStep, fwdVars, wrapVars, consumerVars
<1>2. Scanned /\ todo = <<>> /\ format' = format
  <2>1. format' = format
    BY <1>1 DEF ScanStep, ScanText, ScanCall, ScanFinish, ScanUsage, ScanBadLine, ScanEnd, serverVars
  <2> QED
    BY <1>1, <2>1, ScanStepScans DEF IInv, TypeOK, ParserInv
<1>3. TypeOK'
  BY <1>1, <1>2 DEF Scanned, IInv, TypeOK
<1>4. Taken' = Taken /\ InForwarder' = InForwarder
  BY <1>1 DEF Taken, InWrap, InForwarder
<1>5. Line \in Chunks /\ Line' = Line \o todo'
  <2>1. /\ Line \in Chunks /\ todo' \in Chunks
    BY <1>2, PartsTyped DEF IInv, Scanned
  <2>2. PICK front \in Chunks : Line = front \o todo /\ Line' = front \o todo'
    BY <1>1, <1>4, <2>1, LineEnds DEF IInv
  <2>3. front \o <<>> = front
    BY CatTyped
  <2> QED
    BY <1>2, <2>1, <2>2, <2>3
<1>6. Order'
  <2>1. Numbered(Line', produced', ~ cancelled')
    <3>1. Numbered(Line, produced, ~ cancelled) /\ produced \in Nat
      BY DEF IInv, Order, TypeOK, ParserTypeOK
    <3>2. Numbered(Line \o todo', produced + Len(todo'), ~ cancelled)
      BY <1>2, <1>5, <3>1, NumberedJoin DEF Scanned
    <3> QED
      BY <1>1, <1>2, <1>5, <3>2 DEF Scanned
  <2>2. ChunksAreRight(Line', Finals')
    BY <1>2, <1>5, RightJoin DEF Scanned, IInv, Order
  <2> QED
    BY <2>1, <2>2 DEF Order
<1>7. PipeInv'
  BY <1>1, <1>2 DEF IInv, PipeInv, Forwarded, Unbuffered
<1>8. Stats' /\ Accumulated'
  BY <1>1, <1>2, <1>4, StatsKept, AccumulatedKept DEF IInv, Scanned, Accumulated
<1> QED
  BY <1>2, <1>3, <1>6, <1>7, <1>8 DEF IInv, Scanned

LEMMA ParserSendKeeps ==
    ASSUME IInv, ParserSend
    PROVE  IInv'
<1>1. /\ fwd' = fwd /\ fitem' = fitem /\ out' = out
      /\ wrap' = wrap /\ witem' = witem /\ success' = success /\ usage' = usage
      /\ recorded' = recorded /\ consumer' = consumer /\ got' = got /\ result' = result
      /\ cancelled' = cancelled
      /\ parser = "send" /\ ~ Unbuffered
  BY DEF ParserSend, wrapVars, consumerVars
<1>2. PICK gaveUp \in BOOLEAN :
         /\ AfterSend(gaveUp)
         /\ \/ /\ Forwarded /\ ~ Full(ch) /\ ch' = Append(ch, Head(todo)) /\ in' = in
            \/ /\ ~ Forwarded /\ ~ Full(in) /\ in' = Append(in, Head(todo)) /\ ch' = ch
            \/ cancelled /\ ch' = ch /\ in' = in
  BY DEF ParserSend
<1>3. /\ ParserTypeOK' /\ ParserInv'
      /\ todo # <<>> /\ Head(todo) \in ChunkType /\ todo' = Tail(todo) /\ todo' \in Chunks
      /\ produced' = produced /\ Finals' = Finals /\ format' = format
  BY <1>1, <1>2, Sent DEF IInv, TypeOK
<1>4. TypeOK'
  <2>1. \A c \in {ch, in, out} : c \in Seq(ChunkType) /\ Len(c) <= Buffer
    BY DEF IInv, TypeOK
  <2>2. /\ ch' \in Seq(ChunkType) /\ Len(ch') <= Buffer
        /\ in' \in Seq(ChunkType) /\ Len(in') <= Buffer
    BY <1>2, <1>3, <2>1, Fits
  <2>3. \A c \in {ch', in', out'} : c \in Seq(ChunkType) /\ Len(c) <= Buffer
    BY <1>1, <2>1, <2>2
  <2> QED
    BY <1>1, <1>3, <2>3 DEF IInv, TypeOK
<1>5. Taken' = Taken /\ InForwarder' = InForwarder
  BY <1>1 DEF Taken, InWrap, InForwarder
<1>6. /\ in \in Chunks /\ InForwarder \in Chunks /\ ch \in Chunks /\ todo \in Chunks
      /\ Tail(todo) \in Chunks
  BY <1>3, PartsTyped DEF IInv
<1>7. Order'
  <2>1. CASE Forwarded /\ ch' = Append(ch, Head(todo)) /\ in' = in
    <3>1. ch' \o todo' = ch \o todo
      BY <1>3, <1>6, <2>1, ShiftLast
    <3>2. Line' = Line
      BY <1>5, <2>1, <3>1 DEF Line, Coming
    <3> QED
      BY <1>1, <1>3, <3>2, OrderKept DEF IInv
  <2>2. CASE ~ Forwarded /\ in' = Append(in, Head(todo)) /\ ch' = ch
    <3>1. InForwarder = <<>> /\ ch = <<>>
      BY <2>2 DEF IInv, PipeInv, InForwarder, InHand
    <3>2. <<>> \o todo = todo /\ <<>> \o todo' = todo'
      BY <1>3, <1>6, CatTyped
    <3>3. in' \o todo' = in \o todo
      BY <1>3, <1>6, <2>2, ShiftLast
    <3>4. Line' = Line
      BY <1>5, <2>2, <3>1, <3>2, <3>3 DEF Line, Coming
    <3> QED
      BY <1>1, <1>3, <3>4, OrderKept DEF IInv
  <2>3. CASE cancelled /\ ch' = ch /\ in' = in
    <3>1. PICK front \in Chunks : Line = front \o todo /\ Line' = front \o todo'
      BY <1>3, <1>5, <2>3, LineEnds DEF IInv
    <3>2. Line = front \o (<<Head(todo)>> \o Tail(todo)) /\ Line' = front \o Tail(todo)
      BY <1>3, <1>6, <3>1, HeadOff
    <3>3. Numbered(Line', produced, FALSE)
      BY <1>3, <1>6, <3>2, NumberedDrop DEF IInv, Order
    <3>4. ChunksAreRight(Line', Finals)
      BY <1>3, <1>6, <3>2, RightDrop DEF IInv, Order
    <3> QED
      BY <1>1, <1>3, <2>3, <3>3, <3>4 DEF Order, Numbered
  <2> QED
    BY <1>2, <2>1, <2>2, <2>3
<1>8. PipeInv'
  BY <1>1, <1>2, <1>3 DEF IInv, PipeInv, Forwarded, Unbuffered
<1>9. Stats' /\ Accumulated'
  BY <1>1, <1>3, <1>5, StatsKept, AccumulatedKept DEF IInv, Accumulated
<1> QED
  BY <1>3, <1>4, <1>7, <1>8, <1>9 DEF IInv

LEMMA ForwardKeeps ==
    ASSUME IInv, Forward
    PROVE  IInv'
<1>1. /\ out' = out
      /\ wrap' = wrap /\ witem' = witem /\ success' = success /\ usage' = usage
      /\ recorded' = recorded /\ consumer' = consumer /\ got' = got /\ result' = result
      /\ cancelled' = cancelled /\ UNCHANGED parserVars
  BY DEF Forward, wrapVars, consumerVars
<1>2. /\ ParserTypeOK' /\ ParserInv'
      /\ Finals' = Finals /\ format' = format /\ produced' = produced /\ todo' = todo
  BY <1>1, FinalsKept, ParserKept DEF IInv, TypeOK
<1>3. Taken' = Taken
  BY <1>1 DEF Taken, InWrap
<1>4. /\ in \in Chunks /\ InForwarder \in Chunks /\ ch \in Chunks /\ todo \in Chunks
      /\ ch \o todo \in Chunks
  BY PartsTyped DEF IInv
<1>5. \A c \in {ch, in, out} : c \in Seq(ChunkType) /\ Len(c) <= Buffer
  BY DEF IInv, TypeOK
<1>6. /\ fwd' \in {"receive", "send", "closed", "none"} /\ fitem' \in ChunkType
      /\ ch' \in Seq(ChunkType) /\ Len(ch') <= Buffer
      /\ in' \in Seq(ChunkType) /\ Len(in') <= Buffer
      /\ Line' = Line /\ fwd # "none" /\ fwd' # "none"
  <2>1. CASE /\ fwd = "receive" /\ ch # <<>>
             /\ fitem' = Head(ch) /\ ch' = Tail(ch)
             /\ fwd' = "send" /\ in' = in
    <3>1. Head(ch) \in ChunkType
      BY <1>4, <2>1, HeadOff
    <3>2. ch' \in Seq(ChunkType) /\ Len(ch') <= Buffer
      BY <1>5, <2>1, Fits
    <3>3. InForwarder' \o (ch' \o todo) = InForwarder \o (ch \o todo)
      <4>1. InForwarder = <<>> /\ InForwarder' = <<Head(ch)>>
        BY <2>1 DEF InForwarder, InHand
      <4>2. <<Head(ch)>> \o (Tail(ch) \o todo) = ch \o todo
        BY <1>4, <2>1, Pick
      <4>3. <<>> \o (ch \o todo) = ch \o todo
        BY <1>4, CatTyped
      <4> QED
        BY <2>1, <4>1, <4>2, <4>3
    <3>4. Line' = Line
      BY <1>2, <1>3, <2>1, <3>3 DEF Line, Coming
    <3> QED
      BY <1>5, <2>1, <3>1, <3>2, <3>4
  <2>2. CASE /\ fwd = "receive" /\ fwd' = "closed"
             /\ ch' = ch /\ fitem' = fitem /\ in' = in
    <3>1. InForwarder' = InForwarder
      BY <2>2 DEF InForwarder, InHand
    <3>2. Line' = Line
      BY <1>2, <1>3, <2>2, <3>1 DEF Line, Coming
    <3> QED
      BY <1>5, <2>2, <3>2 DEF IInv, TypeOK
  <2>3. CASE /\ fwd = "send" /\ ~ Full(in) /\ in' = Append(in, fitem)
             /\ fwd' = "receive" /\ ch' = ch /\ fitem' = fitem
    <3>1. fitem \in ChunkType
      BY DEF IInv, TypeOK
    <3>2. in' \in Seq(ChunkType) /\ Len(in') <= Buffer
      BY <1>5, <2>3, <3>1, Fits
    <3>3. in' \o (InForwarder' \o (ch' \o todo)) = in \o (InForwarder \o (ch \o todo))
      <4>1. InForwarder = <<fitem>> /\ InForwarder' = <<>>
        BY <2>3 DEF InForwarder, InHand
      <4>2. Append(in, fitem) \o (ch \o todo) = in \o (<<fitem>> \o (ch \o todo))
        BY <1>4, <3>1, Put
      <4>3. <<>> \o (ch \o todo) = ch \o todo
        BY <1>4, CatTyped
      <4> QED
        BY <2>3, <4>1, <4>2, <4>3
    <3>4. Line' = Line
      BY <1>2, <1>3, <2>3, <3>3 DEF Line, Coming
    <3> QED
      BY <1>5, <2>3, <3>1, <3>2, <3>4
  <2> QED
    BY <2>1, <2>2, <2>3 DEF Forward
<1>7. TypeOK'
  <2>1. \A c \in {ch', in', out'} : c \in Seq(ChunkType) /\ Len(c) <= Buffer
    BY <1>1, <1>5, <1>6
  <2> QED
    BY <1>1, <1>2, <1>6, <2>1 DEF IInv, TypeOK
<1>8. Order'
  BY <1>1, <1>2, <1>6, OrderKept DEF IInv
<1>9. Forwarded /\ ~ Unbuffered
  BY <1>6 DEF IInv, PipeInv, Forwarded, Unbuffered, Holding
<1>10. PipeInv'
  BY <1>2, <1>9 DEF PipeInv, Forwarded, Unbuffered
<1>11. Stats' /\ Accumulated'
  BY <1>1, <1>2, <1>3, StatsKept, AccumulatedKept DEF IInv, Accumulated
<1> QED
  BY <1>2, <1>7, <1>8, <1>10, <1>11 DEF IInv

LEMMA WrapReceiveKeeps ==
    ASSUME IInv, WrapReceive
    PROVE  IInv'
<1>1. /\ fwd' = fwd /\ fitem' = fitem /\ ch' = ch /\ out' = out
      /\ recorded' = recorded /\ consumer' = consumer /\ got' = got /\ result' = result
      /\ cancelled' = cancelled /\ wrap = "select" /\ wrap' = "send"
  BY DEF WrapReceive, fwdVars, consumerVars
<1>2. PICK c : /\ Take(c) /\ witem' = c
               /\ success' = (success /\ c.kind # "error")
               /\ usage' = IF c.kind = "text" THEN usage ELSE c.kind = "done"
  BY DEF WrapReceive
<1>3. /\ in \in Chunks /\ InForwarder \in Chunks /\ ch \in Chunks /\ todo \in Chunks
      /\ InForwarder \o (ch \o todo) \in Chunks /\ got \in Chunks /\ out \in Chunks
      /\ Taken \in Chunks
  BY PartsTyped DEF IInv
<1>4. \A q \in {ch, in, out} : q \in Seq(ChunkType) /\ Len(q) <= Buffer
  BY DEF IInv, TypeOK
<1>5. InForwarder' = InForwarder
  BY <1>1 DEF InForwarder
<1>6. /\ ParserTypeOK' /\ ParserInv' /\ c \in ChunkType
      /\ Finals' = Finals /\ format' = format /\ produced' = produced
      /\ in' \in Seq(ChunkType) /\ Len(in') <= Buffer
      /\ in = <<>> => in' = <<>>
      /\ Coming = <<c>> \o Coming' /\ Coming' \in Chunks
  <2>1. CASE in # <<>> /\ c = Head(in) /\ in' = Tail(in) /\ UNCHANGED parserVars
    <3>1. c \in ChunkType /\ Tail(in) \in Chunks
      BY <1>3, <2>1, HeadOff
    <3>2. /\ ParserTypeOK' /\ ParserInv' /\ todo' = todo
          /\ Finals' = Finals /\ format' = format /\ produced' = produced
      BY <2>1, FinalsKept, ParserKept DEF IInv, TypeOK
    <3>3. Coming' = Tail(in) \o (InForwarder \o (ch \o todo))
      BY <1>1, <1>5, <2>1, <3>2 DEF Coming
    <3>4. Coming' \in Chunks
      BY <1>3, <3>1, <3>3, CatTyped
    <3>5. Coming = <<c>> \o Coming'
      <4>1. PICK r \in Chunks : r = InForwarder \o (ch \o todo)
        BY <1>3
      <4>2. <<Head(in)>> \o (Tail(in) \o r) = in \o r
        BY <1>3, <2>1, Pick
      <4> QED
        BY <2>1, <3>3, <4>1, <4>2 DEF Coming
    <3>6. in' \in Seq(ChunkType) /\ Len(in') <= Buffer
      BY <1>4, <2>1, Fits
    <3> QED
      BY <2>1, <3>1, <3>2, <3>4, <3>5, <3>6
  <2>2. CASE Unbuffered /\ parser = "send" /\ c = Head(todo) /\ AfterSend(FALSE) /\ in' = in
    <3>1. /\ ParserTypeOK' /\ ParserInv'
          /\ todo # <<>> /\ Head(todo) \in ChunkType /\ todo' = Tail(todo) /\ todo' \in Chunks
          /\ produced' = produced /\ Finals' = Finals /\ format' = format
      BY <2>2, Sent DEF IInv, TypeOK
    <3>2. in = <<>> /\ ch = <<>> /\ InForwarder = <<>>
      BY <2>2 DEF IInv, PipeInv, Forwarded, Unbuffered, Holding, InForwarder, InHand
    <3>3. <<>> \o todo = todo /\ <<>> \o todo' = todo'
      BY <1>3, <3>1, CatTyped
    <3>4. Coming = todo /\ Coming' = todo'
      BY <1>1, <1>5, <2>2, <3>2, <3>3 DEF Coming
    <3>5. todo = <<Head(todo)>> \o Tail(todo)
      BY <1>3, <3>1, HeadOff
    <3> QED
      BY <1>4, <2>2, <3>1, <3>4, <3>5
  <2> QED
    BY <1>2, <2>1, <2>2 DEF Take
<1>7. Taken' = Append(Taken, c)
  <2>1. InWrap = <<>> /\ InWrap' = <<c>>
    BY <1>1, <1>2 DEF InWrap, InHand
  <2>2. got \o (out \o <<c>>) = Append(got \o (out \o <<>>), c)
    BY <1>3, <1>6, TakeOne
  <2> QED
    BY <1>1, <2>1, <2>2 DEF Taken
<1>8. TypeOK'
  <2>1. \A q \in {ch', in', out'} : q \in Seq(ChunkType) /\ Len(q) <= Buffer
    BY <1>1, <1>4, <1>6
  <2>2. success' \in BOOLEAN /\ usage' \in BOOLEAN
    BY <1>2 DEF IInv, TypeOK
  <2> QED
    BY <1>1, <1>2, <1>6, <2>1, <2>2 DEF IInv, TypeOK
<1>9. Order'
  <2>1. Append(Taken, c) \o Coming' = Taken \o (<<c>> \o Coming')
    <3>1. PICK r \in Chunks : r = Coming'
      BY <1>6
    <3>2. Append(Taken, c) \o r = Taken \o (<<c>> \o r)
      BY <1>3, <1>6, Put
    <3> QED
      BY <3>1, <3>2
  <2>2. Line' = Line
    BY <1>6, <1>7, <2>1 DEF Line
  <2> QED
    BY <1>1, <1>6, <2>2, OrderKept DEF IInv
<1>10. PipeInv'
  BY <1>1, <1>6 DEF IInv, PipeInv, Forwarded, Unbuffered
<1>11. Stats'
  <2>1. /\ HasError(Append(Taken, c)) <=> HasError(Taken) \/ c.kind = "error"
        /\ HasUsage(Append(Taken, c)) <=> IF c.kind = "text" THEN HasUsage(Taken) ELSE c.kind = "done"
    BY <1>3, <1>6, OneMore
  <2>2. (success <=> ~ HasError(Taken)) /\ (usage <=> HasUsage(Taken)) /\ recorded = <<>>
    <3>1. Stats /\ wrap # "closed"
      BY <1>1 DEF IInv
    <3> QED
      BY <3>1 DEF Stats
  <2>3. success' <=> ~ HasError(Taken')
    BY <1>2, <1>7, <2>1, <2>2
  <2>4. usage' <=> HasUsage(Taken')
    BY <1>2, <1>7, <2>1, <2>2
  <2> QED
    BY <1>1, <2>2, <2>3, <2>4 DEF Stats
<1>12. Accumulated'
  BY <1>1, <1>6, AccumulatedKept DEF IInv, Accumulated
<1> QED
  BY <1>6, <1>8, <1>9, <1>10, <1>11, <1>12 DEF IInv

LEMMA WrapSendKeeps ==
    ASSUME IInv, WrapSend
    PROVE  IInv'
<1>1. /\ fwd' = fwd /\ fitem' = fitem /\ ch' = ch /\ in' = in
      /\ recorded' = recorded /\ consumer' = consumer /\ got' = got /\ result' = result
      /\ success' = success /\ usage' = usage /\ witem' = witem
      /\ cancelled' = cancelled /\ wrap = "send" /\ wrap' = "select"
      /\ ~ Full(out) /\ out' = Append(out, witem) /\ UNCHANGED parserVars
  BY DEF WrapSend, fwdVars, consumerVars
<1>2. /\ ParserTypeOK' /\ ParserInv'
      /\ Finals' = Finals /\ format' = format /\ produced' = produced /\ todo' = todo
  BY <1>1, FinalsKept, ParserKept DEF IInv, TypeOK
<1>3. \A q \in {ch, in, out} : q \in Seq(ChunkType) /\ Len(q) <= Buffer
  BY DEF IInv, TypeOK
<1>4. witem \in ChunkType
  BY DEF IInv, TypeOK
<1>5. out' \in Seq(ChunkType) /\ Len(out') <= Buffer
  BY <1>1, <1>3, <1>4, Fits
<1>6. TypeOK'
  <2>1. \A q \in {ch', in', out'} : q \in Seq(ChunkType) /\ Len(q) <= Buffer
    BY <1>1, <1>3, <1>5
  <2> QED
    BY <1>1, <1>2, <2>1 DEF IInv, TypeOK
<1>7. Taken' = Taken
  <2>1. InWrap = <<witem>> /\ InWrap' = <<>>
    BY <1>1 DEF InWrap, InHand
  <2>2. Append(out, witem) = out \o <<witem>> /\ Append(out, witem) \in Chunks
    <3>1. out \in Chunks
      BY <1>3 DEF Chunks
    <3> QED
      BY <1>4, <3>1, AppendIsConcat, AppendProperties DEF Chunks
  <2>3. Append(out, witem) \o <<>> = Append(out, witem)
    BY <2>2, CatTyped
  <2> QED
    BY <1>1, <2>1, <2>2, <2>3 DEF Taken
<1>8. Line' = Line
  <2>1. Coming' = Coming
    BY <1>1, <1>2 DEF Coming, InForwarder
  <2> QED
    BY <1>7, <2>1 DEF Line
<1>9. Order' /\ PipeInv'
  BY <1>1, <1>2, <1>8, OrderKept DEF IInv, PipeInv, Forwarded, Unbuffered
<1>10. Stats' /\ Accumulated'
  BY <1>1, <1>2, <1>7, StatsKept, AccumulatedKept DEF IInv, Accumulated
<1> QED
  BY <1>2, <1>6, <1>9, <1>10 DEF IInv

\* wrapStream ends, at the end of the channel or with the context.
LEMMA WrapExits ==
    ASSUME IInv, wrap # "closed", NEW ok \in BOOLEAN, NEW tokens \in BOOLEAN,
           WrapExit(ok, tokens)
    PROVE  /\ TypeOK' /\ ParserInv' /\ PipeInv' /\ Accumulated'
           /\ recorded' = <<[ok |-> ok, usage |-> tokens]>> /\ wrap' = "closed"
           /\ success' = success /\ usage' = usage /\ cancelled' = cancelled
           /\ Finals' = Finals /\ produced' = produced
           /\ Coming' = Coming /\ got' = got /\ out' = out
<1>1. /\ fwd' = fwd /\ fitem' = fitem /\ ch' = ch /\ in' = in /\ out' = out
      /\ consumer' = consumer /\ got' = got /\ result' = result
      /\ success' = success /\ usage' = usage /\ witem' = witem
      /\ cancelled' = cancelled /\ wrap' = "closed"
      /\ recorded' = Append(recorded, [ok |-> ok, usage |-> tokens]) /\ UNCHANGED parserVars
  BY DEF WrapExit, fwdVars, consumerVars
<1>2. /\ ParserTypeOK' /\ ParserInv'
      /\ Finals' = Finals /\ format' = format /\ produced' = produced /\ todo' = todo
  BY <1>1, FinalsKept, ParserKept DEF IInv, TypeOK
<1>3. recorded = <<>>
  BY DEF IInv, Stats
<1>4. recorded' = <<[ok |-> ok, usage |-> tokens]>>
  BY <1>1, <1>3
<1>5. TypeOK'
  <2>1. \A q \in {ch', in', out'} : q \in Seq(ChunkType) /\ Len(q) <= Buffer
    BY <1>1 DEF IInv, TypeOK
  <2>2. recorded' \in Seq([ok : BOOLEAN, usage : BOOLEAN])
    BY <1>4
  <2> QED
    BY <1>1, <1>2, <2>1, <2>2 DEF IInv, TypeOK
<1>6. Coming' = Coming
  BY <1>1, <1>2 DEF Coming, InForwarder
<1>7. PipeInv'
  BY <1>1, <1>2 DEF IInv, PipeInv, Forwarded, Unbuffered
<1>8. Accumulated'
  BY <1>1, <1>2, AccumulatedKept DEF IInv, Accumulated
<1> QED
  BY <1>1, <1>2, <1>4, <1>5, <1>6, <1>7, <1>8

LEMMA WrapEndKeeps ==
    ASSUME IInv, WrapEnd
    PROVE  IInv'
<1>1. wrap = "select" /\ wrap # "closed" /\ WrapExit(success, usage)
  BY DEF WrapEnd
<1>2. success \in BOOLEAN /\ usage \in BOOLEAN
  BY DEF IInv, TypeOK
<1>3. /\ TypeOK' /\ ParserInv' /\ PipeInv' /\ Accumulated'
      /\ recorded' = <<[ok |-> success, usage |-> usage]>> /\ wrap' = "closed"
      /\ success' = success /\ usage' = usage /\ cancelled' = cancelled
      /\ Finals' = Finals /\ produced' = produced
      /\ Coming' = Coming /\ got' = got /\ out' = out
  BY <1>1, <1>2, WrapExits
<1>4. Taken' = Taken
  BY <1>1, <1>3 DEF Taken, InWrap, InHand
<1>5. Order'
  <2>1. Line' = Line
    BY <1>3, <1>4 DEF Line
  <2> QED
    BY <1>3, <2>1, OrderKept DEF IInv
<1>6. Stats'
  <2>1. (success <=> ~ HasError(Taken)) /\ (usage <=> HasUsage(Taken))
    <3>1. Stats
      BY DEF IInv
    <3> QED
      BY <1>1, <3>1 DEF Stats
  <2>2. Len(recorded') = 1 /\ recorded' = <<[ok |-> success', usage |-> usage']>>
    BY <1>3
  <2>3. (success' <=> ~ HasError(Taken')) /\ (usage' <=> HasUsage(Taken'))
    BY <1>3, <1>4, <2>1
  <2> QED
    BY <1>3, <2>2, <2>3 DEF Stats
<1> QED
  BY <1>3, <1>5, <1>6 DEF IInv

LEMMA WrapCancelledKeeps ==
    ASSUME IInv, WrapCancelled
    PROVE  IInv'
<1>1. wrap # "closed" /\ cancelled /\ WrapExit(FALSE, FALSE)
  BY DEF WrapCancelled
<1>2. /\ TypeOK' /\ ParserInv' /\ PipeInv' /\ Accumulated'
      /\ recorded' = <<[ok |-> FALSE, usage |-> FALSE]>> /\ wrap' = "closed"
      /\ cancelled' = cancelled
      /\ Finals' = Finals /\ produced' = produced
      /\ Coming' = Coming /\ got' = got /\ out' = out
  BY <1>1, WrapExits
<1>3. /\ got \in Chunks /\ out \in Chunks /\ Coming \in Chunks /\ witem \in ChunkType
      /\ <<>> \in Chunks
  BY PartsTyped, CatTyped DEF IInv, TypeOK
<1>4. InWrap' = <<>>
  BY <1>2 DEF InWrap, InHand
<1>5. Order'
  <2>1. CASE wrap = "send"
    <3> DEFINE front == got \o out
    <3>1. InWrap = <<witem>> /\ <<witem>> \in Chunks
      BY <1>3, <2>1, Singleton DEF InWrap, InHand
    <3>2. front \in Chunks /\ out \o <<>> = out
      BY <1>3, CatTyped
    <3>3. front \o <<witem>> = got \o (out \o <<witem>>)
      <4>1. <<witem>> \in Chunks
        BY <3>1
      <4> QED
        BY <1>3, <4>1, Cat
    <3> HIDE DEF front
    <3>4. (front \o <<witem>>) \o Coming = front \o (<<witem>> \o Coming)
      <4>1. <<witem>> \in Chunks
        BY <3>1
      <4> QED
        BY <1>3, <3>2, <4>1, Cat
    <3>5. Line = front \o (<<witem>> \o Coming)
      BY <3>1, <3>3, <3>4 DEF Line, Taken
    <3>6. Line' = front \o Coming
      BY <1>2, <1>4, <3>2 DEF Line, Taken, front
    <3>7. Numbered(front \o Coming, produced, FALSE) /\ ChunksAreRight(front \o Coming, Finals)
      BY <1>3, <3>2, <3>5, NumberedDrop, RightDrop DEF IInv, Order
    <3>8. Numbered(Line', produced', ~ cancelled')
      BY <1>1, <1>2, <3>6, <3>7 DEF Numbered
    <3> QED
      BY <1>2, <3>6, <3>7, <3>8 DEF Order
  <2>2. CASE wrap # "send"
    <3>1. InWrap = <<>>
      BY <2>2 DEF InWrap, InHand
    <3>2. Line' = Line
      BY <1>2, <1>4, <3>1 DEF Line, Taken
    <3> QED
      BY <1>2, <3>2, OrderKept DEF IInv
  <2> QED
    BY <2>1, <2>2
<1>6. Stats'
  <2>1. Len(recorded') = 1 /\ cancelled' /\ wrap' = "closed"
    BY <1>1, <1>2
  <2> QED
    BY <2>1 DEF Stats
<1> QED
  BY <1>2, <1>5, <1>6 DEF IInv

\* The head of a channel is in the line, and has the calls that it may have.
LEMMA HeadIsRight ==
    ASSUME NEW g \in Chunks, NEW o \in Chunks, NEW w \in Chunks, NEW r \in Chunks,
           NEW finals, o # <<>>, ChunksAreRight((g \o (o \o w)) \o r, finals)
    PROVE  /\ Head(o) \in ChunkType
           /\ Head(o).calls \in (IF Head(o).kind = "done" THEN finals ELSE {{}})
<1> DEFINE a == Append(g, Head(o))
           b == Tail(o) \o w
           last == Len(g) + 1
<1>1. Head(o) \in ChunkType /\ Tail(o) \in Chunks
  BY HeadOff
<1>2. a \in Chunks /\ Len(a) = last /\ a[last] = Head(o) /\ Len(g) \in Nat
  BY <1>1, AppendProperties DEF Chunks
<1>3. b \in Chunks
  BY <1>1, CatTyped
<1>4. a \o b = g \o (o \o w)
  BY <1>1, Shift
<1> HIDE DEF a, b
<1> DEFINE t == a \o b
<1>5. t \in Chunks /\ last \in 1..Len(t) /\ t[last] = Head(o)
  <2>1. /\ t \in Chunks /\ Len(t) = Len(a) + Len(b) /\ Len(a) \in Nat /\ Len(b) \in Nat
        /\ \A i \in 1..Len(a) : t[i] = a[i]
    BY <1>2, <1>3, Join
  <2>2. last \in 1..Len(a)
    BY <1>2
  <2> QED
    BY <1>2, <2>1, <2>2
<1> HIDE DEF t
<1>6. last \in 1..Len(t \o r) /\ (t \o r)[last] = Head(o)
  BY <1>5, Join
<1>7. ChunksAreRight(t \o r, finals)
  BY <1>4 DEF t
<1> QED
  BY <1>1, <1>6, <1>7 DEF ChunksAreRight

LEMMA ReceiveKeeps ==
    ASSUME IInv, Receive
    PROVE  IInv'
<1>1. /\ fwd' = fwd /\ fitem' = fitem /\ ch' = ch /\ in' = in
      /\ recorded' = recorded /\ wrap' = wrap /\ witem' = witem
      /\ success' = success /\ usage' = usage /\ cancelled' = cancelled
      /\ consumer = "reading" /\ out # <<>> /\ UNCHANGED parserVars
      /\ got' = Append(got, Head(out)) /\ out' = Tail(out) /\ result' = Add(Head(out))
      /\ consumer' \in {"left", "reading"}
  BY DEF Receive, fwdVars, wrapVars
<1>2. /\ ParserTypeOK' /\ ParserInv'
      /\ Finals' = Finals /\ format' = format /\ produced' = produced /\ todo' = todo
  BY <1>1, FinalsKept, ParserKept DEF IInv, TypeOK
<1>3. /\ got \in Chunks /\ out \in Chunks /\ InWrap \in Chunks /\ Coming \in Chunks
  BY PartsTyped DEF IInv
<1>4. \A q \in {ch, in, out} : q \in Seq(ChunkType) /\ Len(q) <= Buffer
  BY DEF IInv, TypeOK
<1>5. PICK c \in ChunkType :
         /\ c = Head(out)
         /\ c.calls \in (IF c.kind = "done" THEN Finals ELSE {{}})
  <2>1. ChunksAreRight((got \o (out \o InWrap)) \o Coming, Finals)
    BY DEF IInv, Order, Line, Taken
  <2> QED
    BY <1>1, <1>3, <2>1, HeadIsRight
<1>6. /\ got' \in Seq(ChunkType) /\ out' \in Seq(ChunkType) /\ Len(out') <= Buffer
  <2>1. got' \in Seq(ChunkType)
    BY <1>1, <1>3, <1>5, AppendProperties DEF Chunks
  <2> QED
    BY <1>1, <1>4, <2>1, Fits
<1>7. /\ result'.texts \in Nat /\ result'.calls \in SUBSET Parts
      /\ result'.usage = (IF c.kind = "text" THEN result.usage ELSE c.kind = "done")
      /\ result'.err = (result.err \/ c.kind = "error")
      /\ result'.finished = (result.finished \/ c.kind = "done")
      /\ result'.calls = (IF c.calls # {} THEN c.calls ELSE result.calls)
      /\ result' \in [texts : Nat, calls : SUBSET Parts, usage : BOOLEAN,
                      err : BOOLEAN, finished : BOOLEAN]
  <2>1. /\ result.texts \in Nat /\ result.calls \in SUBSET Parts /\ result.usage \in BOOLEAN
        /\ result.err \in BOOLEAN /\ result.finished \in BOOLEAN
    BY DEF IInv, TypeOK
  <2>2. PICK texts1, calls1, usage1, err1, finished1 :
           /\ texts1 = IF c.kind = "text" THEN result.texts + 1 ELSE result.texts
           /\ calls1 = IF c.calls # {} THEN c.calls ELSE result.calls
           /\ usage1 = IF c.kind = "text" THEN result.usage ELSE c.kind = "done"
           /\ err1 = (result.err \/ c.kind = "error")
           /\ finished1 = (result.finished \/ c.kind = "done")
    OBVIOUS
  <2>3. result' = [texts |-> texts1, calls |-> calls1, usage |-> usage1, err |-> err1,
                   finished |-> finished1]
    BY <1>1, <1>5, <2>2 DEF Add
  <2>4. /\ texts1 \in Nat /\ calls1 \in SUBSET Parts /\ usage1 \in BOOLEAN
        /\ err1 \in BOOLEAN /\ finished1 \in BOOLEAN
    <3>1. c.calls \in SUBSET Parts /\ result.texts + 1 \in Nat
      BY <2>1 DEF ChunkType
    <3>2. texts1 \in Nat /\ calls1 \in SUBSET Parts
      BY <2>1, <2>2, <3>1
    <3>3. usage1 \in BOOLEAN
      BY <2>1, <2>2
    <3>4. err1 \in BOOLEAN /\ finished1 \in BOOLEAN
      BY <2>1, <2>2
    <3> QED
      BY <3>2, <3>3, <3>4
  <2> QED
    BY <2>2, <2>3, <2>4
<1>8. TypeOK'
  <2>1. \A q \in {ch', in', out'} : q \in Seq(ChunkType) /\ Len(q) <= Buffer
    BY <1>1, <1>4, <1>6
  <2> QED
    BY <1>1, <1>2, <1>6, <1>7, <2>1 DEF IInv, TypeOK
<1>9. Taken' = Taken
  <2>1. InWrap' = InWrap
    BY <1>1 DEF InWrap
  <2>2. Append(got, Head(out)) \o (Tail(out) \o InWrap) = got \o (out \o InWrap)
    BY <1>1, <1>3, Shift
  <2> QED
    BY <1>1, <2>1, <2>2 DEF Taken
<1>10. Order' /\ PipeInv'
  <2>1. Coming' = Coming
    BY <1>1, <1>2 DEF Coming, InForwarder
  <2>2. Line' = Line
    BY <1>9, <2>1 DEF Line
  <2> QED
    BY <1>1, <1>2, <2>2, OrderKept DEF IInv, PipeInv, Forwarded, Unbuffered
<1>11. Stats'
  BY <1>1, <1>9, StatsKept DEF IInv
<1>12. Accumulated'
  <2>1. /\ HasError(Append(got, c)) <=> HasError(got) \/ c.kind = "error"
        /\ HasUsage(Append(got, c)) <=> IF c.kind = "text" THEN HasUsage(got) ELSE c.kind = "done"
    BY <1>3, OneMore
  <2>2. /\ result.err <=> HasError(got)
        /\ result.usage <=> HasUsage(got)
        /\ result.finished => result.calls \in Finals
        /\ ~ result.finished => result.calls = {}
    BY DEF IInv, Accumulated
  <2>3. result'.err <=> HasError(got')
    BY <1>1, <1>5, <1>7, <2>1, <2>2
  <2>4. result'.usage <=> HasUsage(got')
    BY <1>1, <1>5, <1>7, <2>1, <2>2
  <2>5. /\ result'.finished => result'.calls \in Finals'
        /\ ~ result'.finished => result'.calls = {}
    <3>1. CASE c.kind = "done"
      <4>1. c.calls \in Finals
        BY <1>5, <3>1
      <4>2. CASE c.calls # {}
        BY <1>2, <1>7, <3>1, <4>1, <4>2
      <4>3. CASE c.calls = {}
        BY <1>2, <1>7, <2>2, <3>1, <4>1, <4>3
      <4> QED
        BY <4>2, <4>3
    <3>2. CASE c.kind # "done"
      <4>1. c.calls = {}
        BY <1>5, <3>2
      <4> QED
        BY <1>2, <1>7, <2>2, <3>2, <4>1
    <3> QED
      BY <3>1, <3>2
  <2> QED
    BY <1>1, <2>3, <2>4, <2>5 DEF Accumulated
<1> QED
  BY <1>2, <1>8, <1>10, <1>11, <1>12 DEF IInv

\* The steps that move no chunk: the consumer stops, or the caller ends the context.
LEMMA NothingMoves ==
    ASSUME IInv, UNCHANGED <<parserVars, fwdVars, in, wrapVars, out, got, result>>,
           cancelled' \in BOOLEAN, cancelled => cancelled',
           consumer' \in {"reading", "ended", "left"},
           consumer' = "ended" => wrap = "closed" /\ out = <<>>
    PROVE  IInv'
<1>1. /\ fwd' = fwd /\ fitem' = fitem /\ ch' = ch /\ in' = in /\ out' = out
      /\ recorded' = recorded /\ wrap' = wrap /\ witem' = witem
      /\ success' = success /\ usage' = usage /\ got' = got /\ result' = result
      /\ UNCHANGED parserVars
  BY DEF fwdVars, wrapVars
<1>2. /\ ParserTypeOK' /\ ParserInv'
      /\ Finals' = Finals /\ format' = format /\ produced' = produced /\ todo' = todo
  BY <1>1, FinalsKept, ParserKept DEF IInv, TypeOK
<1>3. TypeOK'
  <2>1. \A q \in {ch', in', out'} : q \in Seq(ChunkType) /\ Len(q) <= Buffer
    BY <1>1 DEF IInv, TypeOK
  <2> QED
    BY <1>1, <1>2, <2>1 DEF IInv, TypeOK
<1>4. Taken' = Taken /\ Line' = Line
  BY <1>1, <1>2 DEF Taken, InWrap, Line, Coming, InForwarder
<1>5. Order' /\ PipeInv'
  BY <1>1, <1>2, <1>4, OrderKept DEF IInv, PipeInv, Forwarded, Unbuffered
<1>6. Stats' /\ Accumulated'
  BY <1>1, <1>2, <1>4, StatsKept, AccumulatedKept DEF IInv
<1> QED
  BY <1>2, <1>3, <1>5, <1>6 DEF IInv

LEMMA ConsumerEndKeeps ==
    ASSUME IInv, ReceiveEnd \/ Leave \/ Cancel
    PROVE  IInv'
<1>1. CASE ReceiveEnd
  <2>1. /\ UNCHANGED <<parserVars, fwdVars, in, wrapVars, out, got, result>>
        /\ cancelled' = cancelled /\ consumer' = "ended" /\ wrap = "closed" /\ out = <<>>
    BY <1>1 DEF ReceiveEnd
  <2> QED
    BY <2>1, NothingMoves DEF IInv, TypeOK
<1>2. CASE Leave
  <2>1. /\ UNCHANGED <<parserVars, fwdVars, in, wrapVars, out, got, result>>
        /\ cancelled' = cancelled /\ consumer' = "left"
    BY <1>2 DEF Leave
  <2> QED
    BY <2>1, NothingMoves DEF IInv, TypeOK
<1>3. CASE Cancel
  <2>1. /\ UNCHANGED <<parserVars, fwdVars, in, wrapVars, out, got, result>>
        /\ cancelled' = TRUE /\ consumer' = consumer
    BY <1>3 DEF Cancel, consumerVars
  <2>2. consumer' = "ended" => wrap = "closed" /\ out = <<>>
    BY <2>1 DEF IInv, Accumulated
  <2> QED
    BY <2>1, <2>2, NothingMoves DEF IInv, TypeOK
<1> QED
  BY <1>1, <1>2, <1>3

LEMMA NextIInv ==
    ASSUME IInv, [Next]_vars
    PROVE  IInv'
<1>1. CASE UNCHANGED vars
  <2>1. /\ UNCHANGED <<parserVars, fwdVars, in, wrapVars, out, got, result>>
        /\ cancelled' = cancelled /\ consumer' = consumer
    BY <1>1 DEF vars, consumerVars
  <2>2. consumer' = "ended" => wrap = "closed" /\ out = <<>>
    BY <2>1 DEF IInv, Accumulated
  <2> QED
    BY <2>1, <2>2, NothingMoves DEF IInv, TypeOK
<1>2. CASE Next
  BY <1>2, ScanKeeps, ParserSendKeeps, ForwardKeeps, WrapReceiveKeeps, WrapSendKeeps,
     WrapEndKeeps, WrapCancelledKeeps, ReceiveKeeps, ConsumerEndKeeps
     DEF Next, ParserStep, WrapStep
<1> QED
  BY <1>1, <1>2

\* The invariant of a stream.
THEOREM Invariance == Spec => []IInv
BY InitIInv, NextIInv, PTL DEF Spec

\* Every channel keeps within its capacity, and every value has its type.
THEOREM TypeCorrect == Spec => []TypeOK
<1>1. IInv => TypeOK
  BY DEF IInv
<1> QED
  BY <1>1, Invariance, PTL

\* The consumer gets the chunks in the order they were parsed, none twice, and
\* none missing while the context lives: what it has is the front of the line.
THEOREM Ordered == Spec => []InOrder
<1>1. IInv => InOrder
  <2> SUFFICES ASSUME IInv
               PROVE  InOrder
    OBVIOUS
  <2>1. /\ got \in Chunks /\ out \o InWrap \in Chunks /\ Taken \in Chunks /\ Coming \in Chunks
    BY PartsTyped DEF IInv
  <2>2. /\ Len(got) \in Nat /\ DOMAIN got = 1..Len(got)
        /\ \A i \in 1..Len(got) : i \in 1..Len(Taken) /\ Taken[i] = got[i]
    <3>1. PICK t \in Chunks : t = out \o InWrap
      BY <2>1
    <3>2. /\ Len(got \o t) = Len(got) + Len(t) /\ Len(got) \in Nat /\ Len(t) \in Nat
          /\ \A i \in 1..Len(got) : (got \o t)[i] = got[i]
      BY <2>1, Join
    <3> QED
      BY <2>1, <3>1, <3>2 DEF Taken, Chunks
  <2>3. \A i \in 1..Len(Taken) : i \in 1..Len(Line) /\ Line[i] = Taken[i]
    <3>1. /\ Len(Taken \o Coming) = Len(Taken) + Len(Coming)
          /\ Len(Taken) \in Nat /\ Len(Coming) \in Nat
          /\ \A i \in 1..Len(Taken) : (Taken \o Coming)[i] = Taken[i]
      BY <2>1, Join
    <3> QED
      BY <3>1 DEF Line
  <2>4. \A i \in 1..Len(got) : i \in 1..Len(Line) /\ Line[i] = got[i]
    BY <2>2, <2>3
  <2>5. /\ \A i, j \in 1..Len(Line) : i < j => Line[i].n < Line[j].n
        /\ ~ cancelled => \A i \in 1..Len(Line) : Line[i].n = i
    BY DEF IInv, Order, Numbered
  <2>6. \A k \in 1..(Len(got) - 1) : got[k].n < got[k + 1].n
    <3> SUFFICES ASSUME NEW k \in 1..(Len(got) - 1)
                 PROVE  got[k].n < got[k + 1].n
      OBVIOUS
    <3>1. k \in 1..Len(got) /\ k + 1 \in 1..Len(got) /\ k < k + 1
      BY <2>2
    <3> QED
      BY <2>4, <2>5, <3>1
  <2> QED
    BY <2>2, <2>4, <2>5, <2>6 DEF InOrder
<1> QED
  BY <1>1, Invariance, PTL

\* Stats have a stream once, with the outcome and the tokens that the
\* consumer's accumulator has: both tell of the same chunks, since all that
\* wrapStream has taken has arrived when the consumer sees the end.
THEOREM StatsAgree == Spec => []StatsTellTheTruth
<1>1. IInv => StatsTellTheTruth
  <2> SUFFICES ASSUME IInv
               PROVE  StatsTellTheTruth
    OBVIOUS
  <2>1. Stats /\ Accumulated /\ TypeOK
    BY DEF IInv
  <2>2. Len(recorded) <= 1
    <3>1. CASE wrap = "closed"
      <4>1. Len(recorded) = 1
        BY <2>1, <3>1 DEF Stats
      <4> QED
        BY <4>1
    <3>2. CASE wrap # "closed"
      <4>1. recorded = <<>> /\ Len(<<>>) = 0
        BY <2>1, <3>2 DEF Stats
      <4> QED
        BY <4>1
    <3> QED
      BY <3>1, <3>2
  <2>3. consumer = "ended" => wrap = "closed" /\ out = <<>> /\ Len(recorded) = 1
    BY <2>1 DEF Stats, Accumulated
  <2>4. ASSUME consumer = "ended", ~ cancelled
        PROVE  recorded = <<[ok |-> ~ result.err, usage |-> result.usage]>>
    <3>1. recorded = <<[ok |-> success, usage |-> usage]>>
      BY <2>1, <2>3, <2>4 DEF Stats
    <3>2. Taken = got
      <4>1. InWrap = <<>> /\ out = <<>> /\ got \in Chunks /\ <<>> \in Chunks
        BY <2>1, <2>3, <2>4, PartsTyped, CatTyped DEF InWrap, InHand
      <4>2. <<>> \o <<>> = <<>> /\ got \o <<>> = got
        BY <4>1, CatTyped
      <4> QED
        BY <4>1, <4>2 DEF Taken
    <3>3. (success <=> ~ HasError(got)) /\ (usage <=> HasUsage(got))
      BY <2>1, <2>4, <3>2 DEF Stats
    <3>4. (result.err <=> HasError(got)) /\ (result.usage <=> HasUsage(got))
      BY <2>1 DEF Accumulated
    <3>5. /\ success \in BOOLEAN /\ usage \in BOOLEAN
          /\ result.err \in BOOLEAN /\ result.usage \in BOOLEAN
      BY <2>1 DEF TypeOK
    <3>6. success = (~ result.err) /\ usage = result.usage
      BY <3>3, <3>4, <3>5
    <3> QED
      BY <3>1, <3>6
  <2> QED
    BY <2>2, <2>3, <2>4 DEF StatsTellTheTruth
<1> QED
  BY <1>1, Invariance, PTL

\* A finished result has the calls of a final chunk: all that the server has
\* sent where fragments are assembled, and never half a call.
THEOREM CallsAreWhole == Spec => []CallsArrive
<1>1. IInv => CallsArrive
  BY DEF IInv, Accumulated, Finals, NoHalf, CallsArrive
<1> QED
  BY <1>1, Invariance, PTL
=============================================================================
