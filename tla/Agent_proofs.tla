---------------------------- MODULE Agent_proofs ----------------------------
(***************************************************************************)
(* The safety properties of Agent, for every configuration, every history  *)
(* a caller may hand in, every number of tool calls in a turn and every    *)
(* order in which the tools return.                                        *)
(***************************************************************************)
EXTENDS Agent, SequenceTheorems, WellFoundedInduction, TLAPS

\* Before the model is asked, the conversation is one a provider accepts;
\* during a tool turn it ends with a call that lacks its results.
ConversationOpen ==
    /\ pc \in {"ask", "model"} => WellFormed(msgs)
    /\ pc = "tools" =>
          /\ answer \in Calls
          /\ \E before \in Seq(Message) :
                WellFormed(before) /\ msgs = Append(before, AssistantMessage(iteration, answer))

\* Only the calls of the turn have tools.
OnlyStartedRun == pc = "tools" => \A i \in Calls \ Started : tool[i] = "idle"

\* One tool after the other: a tool runs only after those before it returned
\* a result.
InSequence ==
    pc = "tools" /\ config.disableParallel =>
        \A i \in Calls : tool[i] # "idle" => \A j \in 1..(i - 1) : tool[j] = "ok"

\* The first error is that of a tool that has ended, and no context ended
\* before there was one.
ErrorIsRecorded ==
    /\ firstErr # 0 => tool[firstErr] = "over"
    /\ firstErr = 0 /\ ~ cancelled => \A i \in Calls : ~ aborted[i]

IInv ==
    /\ TypeOK
    /\ ConversationOpen
    /\ OnlyStartedRun
    /\ InSequence
    /\ ErrorIsRecorded
    /\ NoToolLeftRunning
    /\ FirstErrorIsTheCause
-----------------------------------------------------------------------------
(* Induction over the positions of a conversation *)

\* A set of natural numbers has a least element: what stands for induction
\* here.
LEMMA LeastNatural ==
    ASSUME NEW S, S \subseteq Nat, S # {}
    PROVE  \E least \in S : \A k \in S : least <= k
<1>1. PICK least \in S : \A k \in S : ~ (<<k, least>> \in OpToRel(<, Nat))
  <2>1. IsWellFoundedOn(OpToRel(<, Nat), Nat)
    BY NatLessThanWellFounded
  <2> HIDE DEF OpToRel
  <2> QED
    BY <2>1, WFMin
<1>2. \A k \in S : least <= k
  <2> SUFFICES ASSUME NEW k \in S, k < least
               PROVE  FALSE
    OBVIOUS
  <2>1. <<k, least>> \in OpToRel(<, Nat)
    BY DEF OpToRel
  <2> QED
    BY <1>1, <2>1
<1> QED
  BY <1>2

\* What holds at 0 and passes from each position to the next holds at all.
LEMMA UpTo ==
    ASSUME NEW n \in Nat, NEW Good, 0 \in Good,
           \A k \in 1..n : k - 1 \in Good => k \in Good
    PROVE  \A k \in 0..n : k \in Good
<1> DEFINE Bad == {k \in 0..n : k \notin Good}
<1> SUFFICES ASSUME Bad # {}
             PROVE  FALSE
  OBVIOUS
<1>1. PICK least \in Bad : \A k \in Bad : least <= k
  BY LeastNatural, Bad \subseteq Nat
<1>2. least \in 1..n /\ least - 1 \notin Bad
  BY <1>1
<1>3. least - 1 \in Good
  BY <1>2
<1> QED
  BY <1>1, <1>2, <1>3

\* A nonempty set of numbers up to n has a greatest element.
LEMMA GreatestUpTo ==
    ASSUME NEW n \in Nat, NEW S, S \subseteq 0..n, S # {}
    PROVE  \E great \in S : \A k \in S : great >= k
<1> DEFINE D == {j \in Nat : n - j \in S}
<1>1. PICK k \in S : TRUE
  OBVIOUS
<1>2. n - k \in Nat /\ n - (n - k) = k
  BY <1>1
<1>3. D # {} /\ D \subseteq Nat
  BY <1>1, <1>2
<1>4. PICK least \in D : \A j \in D : least <= j
  BY <1>3, LeastNatural
<1>5. ASSUME NEW i \in S
      PROVE  n - least >= i
  <2>1. n - i \in Nat /\ n - (n - i) = i
    OBVIOUS
  <2>2. least <= n - i
    BY <1>4, <2>1
  <2> QED
    BY <1>4, <2>1, <2>2
<1> QED
  BY <1>4, <1>5
-----------------------------------------------------------------------------
(* The loop of trimHistory *)

\* upTo is what the loop has appended after each position.
IsLoop(T, q, P, upTo) ==
    /\ upTo \in [0..Len(q) -> Seq(T)]
    /\ upTo[0] = <<>>
    /\ \A k \in 1..Len(q) :
          upTo[k] = IF k \in P THEN Append(upTo[k - 1], q[k]) ELSE upTo[k - 1]

\* The loop that picks messages has a result, message after message
\* (agent.go:376-382).
LEMMA LoopExists ==
    ASSUME NEW T, NEW q \in Seq(T), NEW P
    PROVE  \E upTo : IsLoop(T, q, P, upTo) /\ Picked(q, P) = upTo[Len(q)]
<1> DEFINE Step(before, k) == IF k \in P THEN Append(before, q[k]) ELSE before
           Loop(n, g) == /\ g \in [0..n -> Seq(T)]
                         /\ g[0] = <<>>
                         /\ \A k \in 1..n : g[k] = Step(g[k - 1], k)
           Reached == {n \in 0..Len(q) : \E g : Loop(n, g)}
           Body(f) == [k \in 0..Len(q) |-> IF k = 0 THEN <<>> ELSE Step(f[k - 1], k)]
<1>1. Len(q) \in Nat /\ \A k \in 1..Len(q) : q[k] \in T
  OBVIOUS
<1>2. 0 \in Reached
  <2>1. Loop(0, [k \in 0..0 |-> <<>>])
    OBVIOUS
  <2> HIDE DEF Loop
  <2> QED
    BY <1>1, <2>1
<1>3. ASSUME NEW k \in 1..Len(q), k - 1 \in Reached
      PROVE  k \in Reached
  <2> HIDE DEF Loop
  <2>1. PICK g : Loop(k - 1, g)
    BY <1>3
  <2> DEFINE h == [i \in 0..k |-> IF i = k THEN Step(g[k - 1], k) ELSE g[i]]
  <2>2. /\ g \in [0..(k - 1) -> Seq(T)]
        /\ g[0] = <<>>
        /\ \A i \in 1..(k - 1) : g[i] = Step(g[i - 1], i)
    BY <2>1 DEF Loop
  <2>3. g[k - 1] \in Seq(T) /\ q[k] \in T
    BY <1>1, <2>2
  <2>4. Step(g[k - 1], k) \in Seq(T)
    BY <2>3
  <2> HIDE DEF Step
  <2>5. h \in [0..k -> Seq(T)] /\ h[0] = <<>>
    BY <2>2, <2>4
  <2>6. ASSUME NEW i \in 1..k
        PROVE  h[i] = Step(h[i - 1], i)
    <3>1. CASE i = k
      <4>1. h[k] = Step(g[k - 1], k) /\ h[k - 1] = g[k - 1]
        OBVIOUS
      <4> QED
        BY <3>1, <4>1
    <3>2. CASE i # k
      <4>1. i \in 1..(k - 1) /\ h[i] = g[i] /\ h[i - 1] = g[i - 1]
        BY <3>2
      <4> QED
        BY <2>2, <4>1
    <3> QED
      BY <3>1, <3>2
  <2>7. Loop(k, h)
    BY <2>5, <2>6 DEF Loop
  <2> QED
    BY <2>7
<1>4. Len(q) \in Reached
  <2> HIDE DEF Reached
  <2>1. \A k \in 0..Len(q) : k \in Reached
    BY <1>1, <1>2, <1>3, UpTo
  <2> QED
    BY <1>1, <2>1
<1>5. PICK g : Loop(Len(q), g)
  BY <1>4
<1>6. g = Body(g)
  <2> HIDE DEF Step
  <2>1. \A k \in 0..Len(q) : g[k] = IF k = 0 THEN <<>> ELSE Step(g[k - 1], k)
    BY <1>5
  <2>2. g \in [0..Len(q) -> Seq(T)]
    BY <1>5
  <2> QED
    BY <2>1, <2>2
<1> DEFINE f == CHOOSE f : f = Body(f)
<1>7. f = Body(f)
  <2> HIDE DEF Body
  <2> QED
    BY <1>6
<1>8. Picked(q, P) = f[Len(q)]
  BY DEF Picked
<1> HIDE DEF f
<1>9. /\ f[0] = <<>>
      /\ \A k \in 1..Len(q) : f[k] = Step(f[k - 1], k)
  <2> HIDE DEF Step
  <2> QED
    BY <1>1, <1>7
<1>10. f \in [0..Len(q) -> Seq(T)]
  <2> DEFINE Good == {k \in 0..Len(q) : f[k] \in Seq(T)}
  <2>1. 0 \in Good
    <3>1. 0 \in 0..Len(q) /\ <<>> \in Seq(T)
      BY <1>1
    <3>2. f[0] = <<>>
      BY <1>9
    <3> QED
      BY <3>1, <3>2
  <2>2. ASSUME NEW k \in 1..Len(q), k - 1 \in Good
        PROVE  k \in Good
    <3>1. f[k - 1] \in Seq(T) /\ q[k] \in T
      BY <1>1, <2>2
    <3>2. Step(f[k - 1], k) \in Seq(T)
      BY <3>1
    <3> HIDE DEF Step
    <3> QED
      BY <1>9, <3>2
  <2>3. \A k \in 0..Len(q) : k \in Good
    <3> HIDE DEF Good
    <3> QED
      BY <1>1, <2>1, <2>2, UpTo
  <2>4. f = [k \in 0..Len(q) |-> f[k]]
    <3> HIDE DEF Step
    <3> QED
      BY <1>7
  <2> QED
    BY <2>3, <2>4
<1>11. IsLoop(T, q, P, f)
  BY <1>9, <1>10 DEF IsLoop
<1> QED
  BY <1>8, <1>11

\* What the loop goes over and what it appends.
LEMMA LoopTypes ==
    ASSUME NEW T, NEW q \in Seq(T), NEW P, NEW upTo, IsLoop(T, q, P, upTo)
    PROVE  /\ Len(q) \in Nat
           /\ \A n \in 0..Len(q) : upTo[n] \in Seq(T) /\ Len(upTo[n]) \in Nat
           /\ upTo[0] = <<>>
           /\ \A n \in 1..Len(q) : q[n] \in T
BY DEF IsLoop

\* Every message picked stands where the loop put it, and nothing else is
\* there (agent.go:376-382).
LEMMA PickedPlaces ==
    ASSUME NEW T, NEW q \in Seq(T), NEW P, NEW upTo, IsLoop(T, q, P, upTo)
    PROVE  \A n \in 0..Len(q) :
              /\ \A k \in 1..n : k \in P =>
                    Len(upTo[k]) \in 1..Len(upTo[n]) /\ upTo[n][Len(upTo[k])] = q[k]
              /\ \A i \in 1..Len(upTo[n]) : \E k \in 1..n : k \in P /\ Len(upTo[k]) = i
<1> DEFINE Good == {n \in 0..Len(q) :
              /\ \A k \in 1..n : k \in P =>
                    Len(upTo[k]) \in 1..Len(upTo[n]) /\ upTo[n][Len(upTo[k])] = q[k]
              /\ \A i \in 1..Len(upTo[n]) : \E k \in 1..n : k \in P /\ Len(upTo[k]) = i}
<1>1. /\ Len(q) \in Nat
      /\ \A n \in 0..Len(q) : upTo[n] \in Seq(T) /\ Len(upTo[n]) \in Nat
      /\ upTo[0] = <<>>
      /\ \A k \in 1..Len(q) : q[k] \in T
  BY LoopTypes
<1>2. 0 \in Good
  BY <1>1
<1>3. ASSUME NEW n \in 1..Len(q), n - 1 \in Good
      PROVE  n \in Good
  <2>1. n - 1 \in 0..Len(q)
    BY <1>1
  <2>2. CASE n \notin P
    <3>1. upTo[n] = upTo[n - 1]
      BY <2>2 DEF IsLoop
    <3> QED
      BY <1>1, <1>3, <2>1, <2>2, <3>1
  <2>3. CASE n \in P
    <3>1. upTo[n] = Append(upTo[n - 1], q[n])
      BY <2>3 DEF IsLoop
    <3>2. /\ Len(upTo[n]) = Len(upTo[n - 1]) + 1
          /\ upTo[n][Len(upTo[n])] = q[n]
          /\ \A i \in 1..Len(upTo[n - 1]) : upTo[n][i] = upTo[n - 1][i]
      BY <1>1, <2>1, <3>1
    <3>3. ASSUME NEW k \in 1..n, k \in P
          PROVE  Len(upTo[k]) \in 1..Len(upTo[n]) /\ upTo[n][Len(upTo[k])] = q[k]
      <4>1. CASE k = n
        BY <1>1, <2>1, <3>2, <4>1
      <4>2. CASE k # n
        <5>1. k \in 1..(n - 1)
          BY <4>2
        <5>2. Len(upTo[k]) \in 1..Len(upTo[n - 1]) /\ upTo[n - 1][Len(upTo[k])] = q[k]
          BY <1>3, <3>3, <5>1
        <5> QED
          BY <1>1, <2>1, <3>2, <5>2
      <4> QED
        BY <4>1, <4>2
    <3>4. ASSUME NEW i \in 1..Len(upTo[n])
          PROVE  \E k \in 1..n : k \in P /\ Len(upTo[k]) = i
      <4>1. CASE i = Len(upTo[n])
        BY <2>3, <4>1
      <4>2. CASE i # Len(upTo[n])
        <5>1. i \in 1..Len(upTo[n - 1])
          BY <1>1, <2>1, <3>2, <4>2
        <5>2. PICK k \in 1..(n - 1) : k \in P /\ Len(upTo[k]) = i
          BY <1>3, <5>1
        <5> QED
          BY <5>2
      <4> QED
        BY <4>1, <4>2
    <3> QED
      BY <3>3, <3>4
  <2> QED
    BY <2>2, <2>3
<1>4. \A n \in 0..Len(q) : n \in Good
  <2> HIDE DEF Good
  <2> QED
    BY <1>1, <1>2, <1>3, UpTo
<1> QED
  BY <1>4

\* Neighbours that are both picked stay neighbours.
LEMMA PickedRuns ==
    ASSUME NEW T, NEW q \in Seq(T), NEW P, NEW upTo, IsLoop(T, q, P, upTo),
           NEW k \in 0..Len(q), NEW j \in Nat, k + j <= Len(q),
           \A i \in (k + 1)..(k + j) : i \in P
    PROVE  Len(upTo[k + j]) = Len(upTo[k]) + j
<1> DEFINE Good == {i \in 0..j : Len(upTo[k + i]) = Len(upTo[k]) + i}
<1>1. /\ Len(q) \in Nat
      /\ \A n \in 0..Len(q) : upTo[n] \in Seq(T) /\ Len(upTo[n]) \in Nat
      /\ upTo[0] = <<>>
      /\ \A n \in 1..Len(q) : q[n] \in T
  BY LoopTypes
<1>2. 0 \in Good
  BY <1>1
<1>3. ASSUME NEW i \in 1..j, i - 1 \in Good
      PROVE  i \in Good
  <2>1. k + i \in 1..Len(q) /\ k + i \in P /\ (k + i) - 1 = k + (i - 1)
    BY <1>1
  <2>2. upTo[k + i] = Append(upTo[k + (i - 1)], q[k + i])
    BY <2>1 DEF IsLoop
  <2>3. Len(upTo[k + i]) = Len(upTo[k + (i - 1)]) + 1
    BY <1>1, <2>1, <2>2
  <2>4. Len(upTo[k + (i - 1)]) = Len(upTo[k]) + (i - 1) /\ Len(upTo[k]) \in Nat
    BY <1>1, <1>3
  <2> QED
    BY <2>3, <2>4
<1>4. \A i \in 0..j : i \in Good
  <2> HIDE DEF Good
  <2> QED
    BY <1>2, <1>3, UpTo
<1> QED
  BY <1>4

\* The loop appends one message or none (agent.go:376-382).
LEMMA LoopSteps ==
    ASSUME NEW T, NEW q \in Seq(T), NEW P, NEW upTo, IsLoop(T, q, P, upTo)
    PROVE  /\ \A n \in 0..Len(q) : Len(upTo[n]) \in Nat
           /\ Len(upTo[0]) = 0
           /\ \A k \in 1..Len(q) :
                 Len(upTo[k]) = IF k \in P THEN Len(upTo[k - 1]) + 1 ELSE Len(upTo[k - 1])
<1>1. /\ Len(q) \in Nat
      /\ \A n \in 0..Len(q) : upTo[n] \in Seq(T) /\ Len(upTo[n]) \in Nat
      /\ upTo[0] = <<>>
      /\ \A k \in 1..Len(q) : q[k] \in T
  BY LoopTypes
<1>2. ASSUME NEW k \in 1..Len(q)
      PROVE  Len(upTo[k]) = IF k \in P THEN Len(upTo[k - 1]) + 1 ELSE Len(upTo[k - 1])
  <2>1. upTo[k] = IF k \in P THEN Append(upTo[k - 1], q[k]) ELSE upTo[k - 1]
    BY DEF IsLoop
  <2>2. k - 1 \in 0..Len(q) /\ upTo[k - 1] \in Seq(T) /\ q[k] \in T
    BY <1>1
  <2> QED
    BY <2>1, <2>2
<1> QED
  BY <1>1, <1>2

\* Every message is either picked or left.
LEMMA PickedOrLeft ==
    ASSUME NEW q \in Seq(Message), NEW P, NEW Rest,
           \A k \in 1..Len(q) : k \in Rest <=> k \notin P
    PROVE  Len(Picked(q, P)) + Len(Picked(q, Rest)) = Len(q)
<1>1. PICK taken : IsLoop(Message, q, P, taken) /\ Picked(q, P) = taken[Len(q)]
  BY LoopExists
<1>2. PICK left : IsLoop(Message, q, Rest, left) /\ Picked(q, Rest) = left[Len(q)]
  BY LoopExists
<1> DEFINE Good == {n \in 0..Len(q) : Len(taken[n]) + Len(left[n]) = n}
<1>3. Len(q) \in Nat
  OBVIOUS
<1>4. /\ \A n \in 0..Len(q) : Len(taken[n]) \in Nat /\ Len(left[n]) \in Nat
      /\ Len(taken[0]) = 0 /\ Len(left[0]) = 0
  BY <1>1, <1>2, LoopSteps
<1>5. 0 \in Good
  <2>1. 0 \in 0..Len(q) /\ Len(taken[0]) + Len(left[0]) = 0
    BY <1>3, <1>4
  <2> QED
    BY <2>1
<1>6. ASSUME NEW n \in 1..Len(q), n - 1 \in Good
      PROVE  n \in Good
  <2> DEFINE Taken(k) == Len(taken[k])
             Left(k) == Len(left[k])
  <2>1. n \in 0..Len(q) /\ n - 1 \in 0..Len(q) /\ n \in Int
    BY <1>3
  <2>2. Taken(n - 1) \in Nat /\ Left(n - 1) \in Nat
    BY <1>4, <2>1
  <2>3. Taken(n - 1) + Left(n - 1) = n - 1
    BY <1>6
  <2>4. Taken(n) = IF n \in P THEN Taken(n - 1) + 1 ELSE Taken(n - 1)
    BY <1>1, LoopSteps
  <2>5. Left(n) = IF n \in Rest THEN Left(n - 1) + 1 ELSE Left(n - 1)
    BY <1>2, LoopSteps
  <2>6. n \in Rest <=> n \notin P
    OBVIOUS
  <2>7. Taken(n) + Left(n) = n
    <3> HIDE DEF Taken, Left
    <3> QED
      BY <2>1, <2>2, <2>3, <2>4, <2>5, <2>6
  <2> QED
    BY <2>1, <2>7
<1>7. \A n \in 0..Len(q) : n \in Good
  <2> HIDE DEF Good
  <2> QED
    BY <1>3, <1>5, <1>6, UpTo
<1>8. Len(taken[Len(q)]) + Len(left[Len(q)]) = Len(q)
  <2>1. Len(q) \in Good
    <3> HIDE DEF Good
    <3> QED
      BY <1>3, <1>7
  <2> QED
    BY <2>1
<1> QED
  BY <1>1, <1>2, <1>8
-----------------------------------------------------------------------------
(* What a provider accepts *)

\* WellFormed by the positions of the messages.
LEMMA WellFormedByPlace ==
    ASSUME NEW q \in Seq(Message)
    PROVE  WellFormed(q) <=>
              \A k \in 1..Len(q) :
                 /\ IsToolTurn(q[k]) =>
                       \A i \in 1..q[k].calls :
                          k + i \in 1..Len(q) /\ q[k + i] = ToolResultMessage(q[k].turn, i)
                 /\ q[k].role = "tool" =>
                       \E j \in 1..(k - 1) : IsToolTurn(q[j]) /\ k <= j + q[j].calls
<1>1. DOMAIN q = 1..Len(q)
  OBVIOUS
<1> QED
  BY <1>1 DEF WellFormed

\* A tool turn holds its results, one after the other.
LEMMA TurnHoldsResults ==
    ASSUME NEW q \in Seq(Message), WellFormed(q), NEW j \in 1..Len(q), IsToolTurn(q[j]),
           NEW k \in Int, j < k, k <= j + q[j].calls
    PROVE  k \in 1..Len(q) /\ q[k].role = "tool"
<1>1. q[j].calls \in Nat
  <2>1. q[j] \in Message
    OBVIOUS
  <2> QED
    BY <2>1 DEF Message
<1>2. k - j \in 1..q[j].calls /\ j + (k - j) = k
  BY <1>1
<1>3. k \in 1..Len(q) /\ q[k] = ToolResultMessage(q[j].turn, k - j)
  BY <1>2, WellFormedByPlace
<1> QED
  BY <1>3 DEF ToolResultMessage

\* Leaving out messages that are neither a tool turn nor a result leaves a
\* conversation that a provider accepts (agent.go:376-382).
LEMMA PickedIsWellFormed ==
    ASSUME NEW q \in Seq(Message), WellFormed(q), NEW P,
           \A k \in 1..Len(q) : IsToolTurn(q[k]) \/ q[k].role = "tool" => k \in P
    PROVE  WellFormed(Picked(q, P))
<1>1. PICK upTo : IsLoop(Message, q, P, upTo) /\ Picked(q, P) = upTo[Len(q)]
  BY LoopExists
<1> DEFINE r == upTo[Len(q)]
           At(k) == Len(upTo[k])
<1>2. /\ Len(q) \in Nat /\ r \in Seq(Message)
      /\ \A k \in 0..Len(q) : At(k) \in Nat
      /\ \A k \in 1..Len(q) : q[k] \in Message /\ q[k].calls \in Nat
  <2>1. \A k \in 1..Len(q) : q[k] \in Message
    OBVIOUS
  <2> QED
    BY <1>1, <2>1 DEF IsLoop, Message
<1>3. \A k \in 1..Len(q) : k \in P => At(k) \in 1..Len(r) /\ r[At(k)] = q[k]
  BY <1>1, <1>2, PickedPlaces
<1>4. \A x \in 1..Len(r) : \E k \in 1..Len(q) : k \in P /\ At(k) = x
  BY <1>1, <1>2, PickedPlaces
<1>5. \A k \in 0..Len(q) : \A j \in Nat :
         k + j <= Len(q) /\ (\A i \in (k + 1)..(k + j) : i \in P) => At(k + j) = At(k) + j
  <2> SUFFICES ASSUME NEW k \in 0..Len(q), NEW j \in Nat, k + j <= Len(q),
                      \A i \in (k + 1)..(k + j) : i \in P
               PROVE  At(k + j) = At(k) + j
    OBVIOUS
  <2> QED
    BY <1>1, PickedRuns
<1> HIDE DEF r, At
<1>6. ASSUME NEW k \in 1..Len(q), IsToolTurn(q[k]), NEW i \in 0..q[k].calls
      PROVE  k + i \in 1..Len(q) /\ k + i \in P /\ At(k + i) = At(k) + i
  <2>1. ASSUME NEW x \in Int, k < x, x <= k + i
        PROVE  x \in 1..Len(q) /\ x \in P
    <3>1. x <= k + q[k].calls
      BY <1>2, <2>1
    <3>2. x \in 1..Len(q) /\ q[x].role = "tool"
      BY <1>6, <2>1, <3>1, TurnHoldsResults
    <3> QED
      BY <3>2
  <2>2. k + i \in 1..Len(q) /\ k + i \in P
    <3>1. CASE i = 0
      BY <1>2, <1>6, <3>1
    <3>2. CASE i # 0
      BY <1>2, <2>1, <3>2
    <3> QED
      BY <3>1, <3>2
  <2>3. \A x \in (k + 1)..(k + i) : x \in P
    BY <1>2, <2>1
  <2>4. k \in 0..Len(q) /\ i \in Nat /\ k + i <= Len(q)
    BY <1>2, <2>2
  <2> QED
    BY <1>5, <2>2, <2>3, <2>4
<1>7. ASSUME NEW x \in 1..Len(r), IsToolTurn(r[x]), NEW i \in 1..r[x].calls
      PROVE  x + i \in 1..Len(r) /\ r[x + i] = ToolResultMessage(r[x].turn, i)
  <2>1. PICK k \in 1..Len(q) : k \in P /\ At(k) = x
    BY <1>4
  <2>2. r[x] = q[k]
    BY <1>3, <2>1
  <2>3. i \in 1..q[k].calls /\ i \in 0..q[k].calls /\ IsToolTurn(q[k])
    BY <1>2, <1>7, <2>2
  <2>4. k + i \in 1..Len(q) /\ k + i \in P /\ At(k + i) = x + i
    BY <1>6, <2>1, <2>3
  <2>5. q[k + i] = ToolResultMessage(q[k].turn, i)
    BY <2>3, WellFormedByPlace
  <2> QED
    BY <1>3, <2>2, <2>4, <2>5
<1>8. ASSUME NEW x \in 1..Len(r), r[x].role = "tool"
      PROVE  \E y \in 1..(x - 1) : IsToolTurn(r[y]) /\ x <= y + r[y].calls
  <2>1. PICK k \in 1..Len(q) : k \in P /\ At(k) = x
    BY <1>4
  <2>2. q[k].role = "tool"
    BY <1>3, <1>8, <2>1
  <2>3. PICK j \in 1..(k - 1) : IsToolTurn(q[j]) /\ k <= j + q[j].calls
    BY <2>2, WellFormedByPlace
  <2>4. j \in 1..Len(q) /\ k - j \in 0..q[j].calls /\ j + (k - j) = k /\ k - j > 0
    <3>1. j \in 1..Len(q) /\ q[j].calls \in Nat
      BY <1>2, <2>3
    <3> QED
      BY <2>3, <3>1
  <2>5. At(k) = At(j) + (k - j) /\ j \in P
    <3>1. At(j + (k - j)) = At(j) + (k - j)
      BY <1>6, <2>3, <2>4
    <3> QED
      BY <2>3, <2>4, <3>1
  <2>6. At(j) \in 1..Len(r) /\ r[At(j)] = q[j]
    BY <1>3, <2>4, <2>5
  <2>7. At(j) \in 1..(x - 1) /\ x <= At(j) + q[j].calls
    BY <1>2, <2>1, <2>4, <2>5, <2>6
  <2> QED
    BY <2>3, <2>6, <2>7
<1>9. WellFormed(r)
  BY <1>2, <1>7, <1>8, WellFormedByPlace
<1> QED
  BY <1>1, <1>9 DEF r

\* Only system messages: there is nothing a provider could refuse.
LEMMA SystemIsWellFormed ==
    ASSUME NEW q \in Seq(Message), \A k \in 1..Len(q) : q[k].role = "system"
    PROVE  WellFormed(q)
BY WellFormedByPlace DEF IsToolTurn

\* From the first message of a group on, the conversation stands by itself:
\* no result is cut off from its call (agent.go:389-407).
LEMMA TailIsWellFormed ==
    ASSUME NEW q \in Seq(Message), WellFormed(q), NEW from \in groupTurns(q)
    PROVE  /\ SubSeq(q, from, Len(q)) \in Seq(Message)
           /\ WellFormed(SubSeq(q, from, Len(q)))
<1> DEFINE r == SubSeq(q, from, Len(q))
<1>1. from \in 1..Len(q) /\ ~ Attached(q, from) /\ Len(q) \in Nat
  BY DEF groupTurns
<1>2. /\ r \in Seq(Message) /\ Len(r) = Len(q) - from + 1
      /\ \A x \in 1..Len(r) : r[x] = q[from + x - 1]
  BY <1>1
<1> HIDE DEF r
<1>3. ASSUME NEW x \in 1..Len(r)
      PROVE  from + x - 1 \in 1..Len(q) /\ q[from + x - 1].calls \in Nat
  <2>1. from + x - 1 \in 1..Len(q)
    BY <1>1, <1>2
  <2>2. q[from + x - 1] \in Message
    BY <2>1
  <2> QED
    BY <2>1, <2>2 DEF Message
<1>4. ASSUME NEW x \in 1..Len(r), IsToolTurn(r[x]), NEW i \in 1..r[x].calls
      PROVE  x + i \in 1..Len(r) /\ r[x + i] = ToolResultMessage(r[x].turn, i)
  <2> DEFINE k == from + x - 1
  <2>1. k \in 1..Len(q) /\ r[x] = q[k]
    BY <1>2, <1>3
  <2>2. k + i \in 1..Len(q) /\ q[k + i] = ToolResultMessage(q[k].turn, i)
    BY <1>4, <2>1, WellFormedByPlace
  <2>3. x + i \in 1..Len(r) /\ from + (x + i) - 1 = k + i
    BY <1>1, <1>2, <1>3, <2>1, <2>2
  <2> QED
    BY <1>2, <2>1, <2>2, <2>3
<1>5. ASSUME NEW x \in 1..Len(r), r[x].role = "tool"
      PROVE  \E y \in 1..(x - 1) : IsToolTurn(r[y]) /\ x <= y + r[y].calls
  <2> DEFINE k == from + x - 1
  <2>1. k \in 1..Len(q) /\ r[x] = q[k]
    BY <1>2, <1>3
  <2>2. PICK j \in 1..(k - 1) : IsToolTurn(q[j]) /\ k <= j + q[j].calls
    BY <1>5, <2>1, WellFormedByPlace
  <2>3. j >= from
    <3> SUFFICES ASSUME j < from
                 PROVE  FALSE
      BY <1>1
    <3>1. ASSUME NEW i \in (j + 1)..from
          PROVE  q[i].role = "tool"
      <4>1. j \in 1..Len(q) /\ i \in Int /\ j < i
        BY <1>1, <2>1, <2>2
      <4>2. q[j].calls \in Nat
        <5>1. q[j] \in Message
          BY <4>1
        <5> QED
          BY <5>1 DEF Message
      <4>3. from <= k /\ i <= j + q[j].calls
        BY <1>1, <2>1, <2>2, <4>1, <4>2
      <4> QED
        BY <2>2, <4>1, <4>3, TurnHoldsResults
    <3>2. j \in 1..(from - 1) /\ q[from].role = "tool"
      BY <1>1, <2>2, <3>1
    <3> QED
      BY <1>1, <2>2, <3>1, <3>2 DEF Attached
  <2>4. /\ j - from + 1 \in 1..(x - 1) /\ j - from + 1 \in 1..Len(r)
        /\ from + (j - from + 1) - 1 = j
    BY <1>1, <1>2, <2>1, <2>2, <2>3
  <2>5. r[j - from + 1] = q[j]
    BY <1>2, <2>4
  <2>6. x <= (j - from + 1) + r[j - from + 1].calls
    <3>1. q[j].calls \in Nat
      BY <1>3, <2>4
    <3>2. x <= (j - from + 1) + q[j].calls
      BY <1>1, <2>1, <2>2, <3>1
    <3> QED
      BY <2>5, <3>2
  <2> QED
    BY <2>2, <2>4, <2>5, <2>6
<1>6. WellFormed(r)
  BY <1>2, <1>4, <1>5, WellFormedByPlace
<1> QED
  BY <1>2, <1>6 DEF r

\* System messages in front change nothing.
LEMMA SystemInFront ==
    ASSUME NEW q \in Seq(Message), \A k \in 1..Len(q) : q[k].role = "system",
           NEW s \in Seq(Message), WellFormed(s)
    PROVE  WellFormed(q \o s)
<1> DEFINE r == q \o s
           n == Len(q)
<1>1. /\ r \in Seq(Message) /\ n \in Nat /\ Len(s) \in Nat /\ Len(r) = n + Len(s)
      /\ \A k \in 1..n : r[k] = q[k]
      /\ \A x \in 1..Len(s) : r[n + x] = s[x]
  BY ConcatProperties
<1>2. \A x \in 1..Len(s) : s[x].calls \in Nat
  <2>1. \A x \in 1..Len(s) : s[x] \in Message
    OBVIOUS
  <2> QED
    BY <2>1 DEF Message
<1> HIDE DEF r
<1>3. \A k \in 1..Len(r) : k > n => k - n \in 1..Len(s) /\ r[k] = s[k - n] /\ n + (k - n) = k
  BY <1>1
<1>4. \A k \in 1..Len(r) : k <= n => ~ IsToolTurn(r[k]) /\ r[k].role # "tool"
  BY <1>1 DEF IsToolTurn
<1> HIDE DEF n
<1>5. ASSUME NEW k \in 1..Len(r), IsToolTurn(r[k]), NEW i \in 1..r[k].calls
      PROVE  k + i \in 1..Len(r) /\ r[k + i] = ToolResultMessage(r[k].turn, i)
  <2>1. k - n \in 1..Len(s) /\ r[k] = s[k - n] /\ k > n
    BY <1>1, <1>3, <1>4, <1>5
  <2>2. (k - n) + i \in 1..Len(s) /\ s[(k - n) + i] = ToolResultMessage(s[k - n].turn, i)
    BY <1>5, <2>1, WellFormedByPlace
  <2>3. n + ((k - n) + i) = k + i /\ k + i \in 1..Len(r)
    BY <1>1, <1>2, <2>1, <2>2
  <2> QED
    BY <1>1, <2>1, <2>2, <2>3
<1>6. ASSUME NEW k \in 1..Len(r), r[k].role = "tool"
      PROVE  \E j \in 1..(k - 1) : IsToolTurn(r[j]) /\ k <= j + r[j].calls
  <2>1. k - n \in 1..Len(s) /\ r[k] = s[k - n] /\ k > n
    BY <1>1, <1>3, <1>4, <1>6
  <2>2. PICK j \in 1..((k - n) - 1) : IsToolTurn(s[j]) /\ k - n <= j + s[j].calls
    BY <1>6, <2>1, WellFormedByPlace
  <2>3. n + j \in 1..(k - 1) /\ j \in 1..Len(s) /\ r[n + j] = s[j]
    <3>1. j \in 1..Len(s) /\ n + j \in 1..(k - 1)
      BY <1>1, <2>1, <2>2
    <3> QED
      BY <1>1, <3>1
  <2>4. k <= (n + j) + s[j].calls
    BY <1>1, <1>2, <2>2, <2>3
  <2> QED
    BY <2>2, <2>3, <2>4
<1>7. WellFormed(r)
  BY <1>1, <1>5, <1>6, WellFormedByPlace
<1> QED
  BY <1>7 DEF r

\* The kept part starts with the first message of a group (agent.go:389-403).
LEMMA KeptFromGroup ==
    ASSUME NEW q \in Seq(Message), q # <<>>, NEW keep
    PROVE  KeptFrom(q, keep) \in groupTurns(q)
<1> DEFINE fits == {k \in groupTurns(q) : Len(q) - k + 1 <= keep}
<1>1. Len(q) \in Nat /\ 1 \in 1..Len(q) /\ DOMAIN q = 1..Len(q)
  OBVIOUS
<1>2. groupTurns(q) \subseteq 0..Len(q) /\ groupTurns(q) \subseteq Nat
  BY <1>1 DEF groupTurns
<1>3. 1 \in groupTurns(q)
  BY <1>1 DEF groupTurns, Attached
<1>4. CASE fits # {}
  <2>1. fits \subseteq Nat /\ fits \subseteq groupTurns(q)
    BY <1>2
  <2> HIDE DEF fits
  <2>2. \E k \in fits : \A i \in fits : k <= i
    BY <1>4, <2>1, LeastNatural
  <2>3. Min(fits) \in fits
    BY <2>2 DEF Min
  <2>4. KeptFrom(q, keep) = Min(fits)
    BY <1>4 DEF KeptFrom, fits
  <2> QED
    BY <2>1, <2>3, <2>4
<1>5. CASE fits = {}
  <2>1. \E k \in groupTurns(q) : \A i \in groupTurns(q) : k >= i
    BY <1>1, <1>2, <1>3, GreatestUpTo
  <2>2. Max(groupTurns(q)) \in groupTurns(q)
    BY <2>1 DEF Max
  <2>3. KeptFrom(q, keep) = Max(groupTurns(q))
    BY <1>5 DEF KeptFrom
  <2> QED
    BY <2>2, <2>3
<1> QED
  BY <1>4, <1>5

\* The loop only picks messages of the conversation.
LEMMA PickedTyping ==
    ASSUME NEW q \in Seq(Message), NEW P
    PROVE  /\ Picked(q, P) \in Seq(Message)
           /\ \A x \in 1..Len(Picked(q, P)) : \E k \in 1..Len(q) : k \in P /\ Picked(q, P)[x] = q[k]
<1>1. PICK upTo : IsLoop(Message, q, P, upTo) /\ Picked(q, P) = upTo[Len(q)]
  BY LoopExists
<1>2. Len(q) \in 0..Len(q)
  OBVIOUS
<1>3. upTo[Len(q)] \in Seq(Message)
  BY <1>1, <1>2 DEF IsLoop
<1>4. ASSUME NEW x \in 1..Len(upTo[Len(q)])
      PROVE  \E k \in 1..Len(q) : k \in P /\ upTo[Len(q)][x] = q[k]
  <2>1. PICK k \in 1..Len(q) : k \in P /\ Len(upTo[k]) = x
    BY <1>1, <1>2, PickedPlaces
  <2>2. upTo[Len(q)][Len(upTo[k])] = q[k]
    BY <1>1, <1>2, <2>1, PickedPlaces
  <2> QED
    BY <2>1, <2>2
<1> QED
  BY <1>1, <1>3, <1>4

\* Trimming never breaks a conversation: what is left of one that a provider
\* accepts is one that a provider accepts (agent.go:366-408).
THEOREM TrimmedIsWellFormed ==
    ASSUME NEW q \in Seq(Message), WellFormed(q), NEW max \in Nat
    PROVE  trimHistory(q, max) \in Seq(Message) /\ WellFormed(trimHistory(q, max))
<1> DEFINE system == Picked(q, SystemAt(q))
           Others == DOMAIN q \ SystemAt(q)
           rest == Picked(q, Others)
           keep == max - Len(system)
<1>1. /\ DOMAIN q = 1..Len(q)
      /\ \A k \in 1..Len(q) : k \in SystemAt(q) <=> q[k].role = "system"
      /\ \A k \in 1..Len(q) : k \in Others <=> k \notin SystemAt(q)
  BY DEF SystemAt
<1>2. system \in Seq(Message) /\ \A x \in 1..Len(system) : system[x].role = "system"
  <2> HIDE DEF system
  <2>1. system = Picked(q, SystemAt(q))
    BY DEF system
  <2>2. system \in Seq(Message)
    BY <2>1, PickedTyping
  <2>3. \A x \in 1..Len(system) : \E k \in 1..Len(q) : k \in SystemAt(q) /\ system[x] = q[k]
    BY <2>1, PickedTyping
  <2> QED
    BY <1>1, <2>2, <2>3
<1>3. WellFormed(system)
  BY <1>2, SystemIsWellFormed
<1>4. rest \in Seq(Message) /\ WellFormed(rest)
  <2>1. \A k \in 1..Len(q) : IsToolTurn(q[k]) \/ q[k].role = "tool" => k \in Others
    BY <1>1 DEF IsToolTurn
  <2> HIDE DEF Others
  <2> QED
    BY <2>1, PickedTyping, PickedIsWellFormed
<1>5. Len(system) + Len(rest) = Len(q)
  <2> HIDE DEF Others
  <2> QED
    BY <1>1, PickedOrLeft
<1>6. CASE max <= 0 \/ Len(q) <= max
  BY <1>6 DEF trimHistory
<1>7. CASE ~ (max <= 0 \/ Len(q) <= max) /\ keep <= 0
  <2>1. trimHistory(q, max) = system
    BY <1>7 DEF trimHistory
  <2> QED
    BY <1>2, <1>3, <2>1
<1>8. CASE ~ (max <= 0 \/ Len(q) <= max) /\ ~ (keep <= 0)
  <2> DEFINE from == KeptFrom(rest, keep)
  <2>1. trimHistory(q, max) = system \o SubSeq(rest, from, Len(rest))
    BY <1>8 DEF trimHistory
  <2>2. rest # <<>>
    <3>1. Len(system) \in Nat /\ Len(rest) \in Nat /\ Len(q) \in Nat
      BY <1>2, <1>4
    <3> HIDE DEF system, rest
    <3>2. Len(rest) # 0
      BY <1>5, <1>8, <3>1
    <3> QED
      BY <3>2
  <2> HIDE DEF system, rest, keep
  <2>3. from \in groupTurns(rest)
    BY <1>4, <2>2, KeptFromGroup
  <2> HIDE DEF from
  <2> DEFINE kept == SubSeq(rest, from, Len(rest))
  <2>4. kept \in Seq(Message) /\ WellFormed(kept)
    BY <1>4, <2>3, TailIsWellFormed
  <2> HIDE DEF kept
  <2>5. system \o kept \in Seq(Message)
    BY <1>2, <2>4, ConcatProperties
  <2>6. WellFormed(system \o kept)
    BY <1>2, <2>4, SystemInFront
  <2>7. trimHistory(q, max) = system \o kept
    BY <2>1 DEF kept
  <2> QED
    BY <2>5, <2>6, <2>7
<1> QED
  BY <1>6, <1>7, <1>8

\* An answer of n calls and its n results, in order, make a conversation
\* complete again (agent.go:129-140).
LEMMA ResultsComplete ==
    ASSUME NEW before \in Seq(Message), WellFormed(before), NEW turn \in Nat, NEW n \in Nat \ {0}
    PROVE  LET r == Append(before, AssistantMessage(turn, n))
                        \o [i \in 1..n |-> ToolResultMessage(turn, i)]
           IN  r \in Seq(Message) /\ WellFormed(r)
<1> DEFINE results == [i \in 1..n |-> ToolResultMessage(turn, i)]
           asked == Append(before, AssistantMessage(turn, n))
           r == asked \o results
           m == Len(before)
<1>1. AssistantMessage(turn, n) \in Message /\ IsToolTurn(AssistantMessage(turn, n))
  BY DEF AssistantMessage, Message, IsToolTurn
<1>2. \A i \in 1..n : ToolResultMessage(turn, i) \in Message
  BY DEF ToolResultMessage, Message
<1>3. results \in Seq(Message) /\ Len(results) = n
  <2> HIDE DEF Message, ToolResultMessage
  <2> QED
    BY <1>2
<1>4. /\ m \in Nat /\ asked \in Seq(Message) /\ Len(asked) = m + 1
      /\ asked[m + 1] = AssistantMessage(turn, n)
      /\ \A k \in 1..m : asked[k] = before[k]
  BY <1>1
<1>5. /\ r \in Seq(Message) /\ Len(r) = m + 1 + n
      /\ \A k \in 1..(m + 1) : r[k] = asked[k]
      /\ \A k \in 1..Len(r) : k > m + 1 => r[k] = results[k - (m + 1)]
  <2> HIDE DEF asked, results, m
  <2>1. /\ r \in Seq(Message) /\ Len(r) = Len(asked) + Len(results)
        /\ \A k \in 1..(Len(asked) + Len(results)) :
              r[k] = IF k <= Len(asked) THEN asked[k] ELSE results[k - Len(asked)]
    BY <1>3, <1>4, ConcatProperties
  <2> HIDE DEF r
  <2> QED
    BY <1>3, <1>4, <2>1
<1>6. /\ \A k \in 1..m : r[k] = before[k]
      /\ r[m + 1] = AssistantMessage(turn, n)
      /\ \A i \in 1..n : r[m + 1 + i] = ToolResultMessage(turn, i)
  <2>1. \A i \in 1..n : results[i] = ToolResultMessage(turn, i)
    OBVIOUS
  <2> HIDE DEF asked, results, m, r
  <2>2. \A k \in 1..m : r[k] = before[k]
    BY <1>4, <1>5
  <2>3. r[m + 1] = AssistantMessage(turn, n)
    BY <1>4, <1>5
  <2>4. ASSUME NEW i \in 1..n
        PROVE  r[m + 1 + i] = ToolResultMessage(turn, i)
    <3>1. m + 1 + i \in 1..Len(r) /\ m + 1 + i > m + 1 /\ (m + 1 + i) - (m + 1) = i
      BY <1>4, <1>5
    <3> QED
      BY <1>5, <2>1, <3>1
  <2> QED
    BY <2>2, <2>3, <2>4
<1> HIDE DEF asked, results, m, r
<1>7. ASSUME NEW k \in 1..m
      PROVE  /\ IsToolTurn(r[k]) =>
                   \A i \in 1..r[k].calls :
                      k + i \in 1..Len(r) /\ r[k + i] = ToolResultMessage(r[k].turn, i)
             /\ r[k].role = "tool" =>
                   \E j \in 1..(k - 1) : IsToolTurn(r[j]) /\ k <= j + r[j].calls
  <2>1. r[k] = before[k]
    BY <1>6
  <2>2. ASSUME IsToolTurn(r[k]), NEW i \in 1..r[k].calls
        PROVE  k + i \in 1..Len(r) /\ r[k + i] = ToolResultMessage(r[k].turn, i)
    <3>1. k + i \in 1..m /\ before[k + i] = ToolResultMessage(before[k].turn, i)
      BY <2>1, <2>2, WellFormedByPlace DEF m
    <3> QED
      BY <1>4, <1>5, <1>6, <2>1, <3>1
  <2>3. ASSUME r[k].role = "tool"
        PROVE  \E j \in 1..(k - 1) : IsToolTurn(r[j]) /\ k <= j + r[j].calls
    <3>1. PICK j \in 1..(k - 1) : IsToolTurn(before[j]) /\ k <= j + before[j].calls
      BY <2>1, <2>3, WellFormedByPlace DEF m
    <3>2. j \in 1..m
      BY <1>4, <3>1
    <3> QED
      BY <1>6, <3>1, <3>2
  <2> QED
    BY <2>2, <2>3
<1>8. /\ IsToolTurn(r[m + 1]) /\ r[m + 1].calls = n /\ r[m + 1].turn = turn
      /\ r[m + 1].role # "tool"
  BY <1>6 DEF AssistantMessage, IsToolTurn
<1>9. ASSUME NEW i \in 1..r[m + 1].calls
      PROVE  (m + 1) + i \in 1..Len(r) /\ r[(m + 1) + i] = ToolResultMessage(r[m + 1].turn, i)
  BY <1>4, <1>5, <1>6, <1>8
<1>10. ASSUME NEW k \in 1..Len(r), k > m + 1
       PROVE  ~ IsToolTurn(r[k]) /\ \E j \in 1..(k - 1) : IsToolTurn(r[j]) /\ k <= j + r[j].calls
  <2>1. k - (m + 1) \in 1..n /\ (m + 1) + (k - (m + 1)) = k
    BY <1>4, <1>5, <1>10
  <2>2. r[k] = ToolResultMessage(turn, k - (m + 1))
    BY <1>6, <2>1
  <2>3. ~ IsToolTurn(r[k])
    BY <2>2 DEF ToolResultMessage, IsToolTurn
  <2>4. m + 1 \in 1..(k - 1) /\ k <= (m + 1) + r[m + 1].calls
    BY <1>4, <1>5, <1>8, <1>10
  <2> QED
    BY <1>8, <2>3, <2>4
<1>11. \A k \in 1..Len(r) : k \in 1..m \/ k = m + 1 \/ k > m + 1
  BY <1>4, <1>5
<1>12. WellFormed(r)
  BY <1>5, <1>7, <1>8, <1>9, <1>10, <1>11, WellFormedByPlace
<1> QED
  BY <1>5, <1>12 DEF r, asked, results
-----------------------------------------------------------------------------
(* The wire *)

\* whole is first followed by second.
Joined(first, second, whole) == whole = first \o second

\* An element appended to the second part is appended to the whole.
LEMMA JoinedAppend ==
    ASSUME NEW T, NEW a \in Seq(T), NEW b \in Seq(T), NEW e \in T, NEW w, Joined(a, b, w)
    PROVE  Joined(a, Append(b, e), Append(w, e))
<1>1. a \o b \in Seq(T) /\ <<e>> \in Seq(T)
  BY ConcatProperties
<1>2. Append(a \o b, e) = (a \o b) \o <<e>> /\ Append(b, e) = b \o <<e>>
  BY <1>1, AppendIsConcat
<1>3. (a \o b) \o <<e>> = a \o (b \o <<e>>)
  BY <1>1, ConcatAssociative
<1>4. w = a \o b
  BY DEF Joined
<1> QED
  BY <1>2, <1>3, <1>4 DEF Joined

\* P picks from a \o b what PA picks from a and PB from b.
PicksFromBoth(P, a, PA, b, PB) ==
    /\ \A k \in 1..Len(a) : k \in P <=> k \in PA
    /\ \A k \in 1..Len(b) : Len(a) + k \in P <=> k \in PB

\* What one loop appends to another's: it goes on where that one ended.
LEMMA LoopGoesOn ==
    ASSUME NEW T, NEW a \in Seq(T), NEW b \in Seq(T), NEW PA, NEW PB, NEW P,
           PicksFromBoth(P, a, PA, b, PB)
    PROVE  /\ Picked(a, PA) \in Seq(T) /\ Picked(b, PB) \in Seq(T)
           /\ Picked(a \o b, P) = Picked(a, PA) \o Picked(b, PB)
<1> DEFINE w == a \o b
           n == Len(a)
<1>1. /\ n = Len(a) /\ n \in Nat /\ Len(b) \in Nat /\ w \in Seq(T) /\ Len(w) = n + Len(b)
      /\ \A k \in 1..n : w[k] = a[k]
      /\ \A k \in 1..Len(b) : w[n + k] = b[k]
  BY ConcatProperties
<1>9. /\ \A k \in 1..n : k \in P <=> k \in PA
      /\ \A k \in 1..Len(b) : n + k \in P <=> k \in PB
  BY DEF PicksFromBoth
<1> HIDE DEF w, n
<1>10. w \in Seq(T)
  BY <1>1
<1>2. PICK first : IsLoop(T, a, PA, first) /\ Picked(a, PA) = first[Len(a)]
  BY LoopExists
<1>3. PICK second : IsLoop(T, b, PB, second) /\ Picked(b, PB) = second[Len(b)]
  BY LoopExists
<1>4. PICK both : IsLoop(T, w, P, both) /\ Picked(w, P) = both[Len(w)]
  BY <1>10, LoopExists
<1>5. /\ first[0] = <<>> /\ second[0] = <<>> /\ both[0] = <<>>
      /\ \A k \in 0..n : first[k] \in Seq(T)
      /\ \A k \in 0..Len(b) : second[k] \in Seq(T)
      /\ \A k \in 1..Len(b) : b[k] \in T
  <2>1. first[0] = <<>> /\ \A k \in 0..n : first[k] \in Seq(T)
    BY <1>1, <1>2, LoopTypes
  <2>2. second[0] = <<>> /\ \A k \in 0..Len(b) : second[k] \in Seq(T)
    BY <1>3, LoopTypes
  <2>3. both[0] = <<>>
    BY <1>1, <1>4, LoopTypes
  <2> QED
    BY <2>1, <2>2, <2>3
<1>6. both[n] = first[n]
  <2> DEFINE Good == {k \in 0..n : both[k] = first[k]}
  <2>1. 0 \in Good
    BY <1>1, <1>5
  <2>2. ASSUME NEW k \in 1..n, k - 1 \in Good
        PROVE  k \in Good
    <3>1. both[k - 1] = first[k - 1] /\ w[k] = a[k] /\ (k \in P <=> k \in PA)
          /\ k \in 1..Len(w) /\ k \in 1..Len(a)
      BY <1>1, <1>9, <2>2
    <3>2. both[k] = IF k \in P THEN Append(both[k - 1], w[k]) ELSE both[k - 1]
      BY <1>4, <3>1 DEF IsLoop
    <3>3. first[k] = IF k \in PA THEN Append(first[k - 1], a[k]) ELSE first[k - 1]
      BY <1>2, <3>1 DEF IsLoop
    <3> QED
      BY <3>1, <3>2, <3>3
  <2>3. \A k \in 0..n : k \in Good
    <3> HIDE DEF Good
    <3> QED
      BY <1>1, <2>1, <2>2, UpTo
  <2> QED
    BY <1>1, <2>3
<1>7. Joined(first[n], second[Len(b)], both[n + Len(b)])
  <2> DEFINE Good == {k \in 0..Len(b) : Joined(first[n], second[k], both[n + k])}
  <2>1. first[n] \in Seq(T)
    BY <1>1, <1>5
  <2>2. 0 \in Good
    <3>1. n + 0 = n /\ 0 \in 0..Len(b)
      BY <1>1
    <3>2. first[n] \o <<>> = first[n]
      BY <2>1, ConcatEmptySeq
    <3> QED
      BY <1>5, <1>6, <3>1, <3>2 DEF Joined
  <2>3. ASSUME NEW k \in 1..Len(b), k - 1 \in Good
        PROVE  k \in Good
    <3>1. /\ w[n + k] = b[k] /\ (n + k \in P <=> k \in PB) /\ n + k \in 1..Len(w)
          /\ (n + k) - 1 = n + (k - 1) /\ k - 1 \in 0..Len(b) /\ k \in 0..Len(b) /\ b[k] \in T
      BY <1>1, <1>5, <1>9
    <3>2. Joined(first[n], second[k - 1], both[n + (k - 1)])
      BY <2>3
    <3>3. both[n + k] = IF n + k \in P THEN Append(both[n + (k - 1)], w[n + k])
                        ELSE both[n + (k - 1)]
      BY <1>4, <3>1 DEF IsLoop
    <3>4. second[k] = IF k \in PB THEN Append(second[k - 1], b[k]) ELSE second[k - 1]
      BY <1>3 DEF IsLoop
    <3>5. second[k - 1] \in Seq(T)
      BY <1>5, <3>1
    <3>6. Joined(first[n], Append(second[k - 1], b[k]), Append(both[n + (k - 1)], b[k]))
      BY <2>1, <3>1, <3>2, <3>5, JoinedAppend
    <3>7. Joined(first[n], second[k], both[n + k])
      BY <3>1, <3>2, <3>3, <3>4, <3>6
    <3> QED
      BY <3>1, <3>7
  <2>4. Len(b) \in Good
    <3> HIDE DEF Good
    <3>1. \A k \in 0..Len(b) : k \in Good
      BY <1>1, <2>2, <2>3, UpTo
    <3> QED
      BY <1>1, <3>1
  <2> QED
    BY <2>4
<1>8. first[n] \in Seq(T) /\ second[Len(b)] \in Seq(T)
  BY <1>1, <1>5
<1> QED
  BY <1>1, <1>2, <1>3, <1>4, <1>7, <1>8 DEF w, Joined

\* A loop that picks everything copies, one that picks nothing leaves nothing.
LEMMA LoopOfAll ==
    ASSUME NEW T, NEW q \in Seq(T), NEW P
    PROVE  /\ (\A k \in 1..Len(q) : k \in P) => Picked(q, P) = q
           /\ (\A k \in 1..Len(q) : k \notin P) => Picked(q, P) = <<>>
<1>1. PICK upTo : IsLoop(T, q, P, upTo) /\ Picked(q, P) = upTo[Len(q)]
  BY LoopExists
<1>2. /\ Len(q) \in Nat
      /\ \A n \in 0..Len(q) : upTo[n] \in Seq(T) /\ Len(upTo[n]) \in Nat
      /\ upTo[0] = <<>>
      /\ \A k \in 1..Len(q) : q[k] \in T
  BY <1>1, LoopTypes
<1>3. ASSUME \A k \in 1..Len(q) : k \in P
      PROVE  Picked(q, P) = q
  <2>1. \A n \in 0..Len(q) :
           /\ \A k \in 1..n : k \in P =>
                 Len(upTo[k]) \in 1..Len(upTo[n]) /\ upTo[n][Len(upTo[k])] = q[k]
           /\ \A i \in 1..Len(upTo[n]) : \E k \in 1..n : k \in P /\ Len(upTo[k]) = i
    BY <1>1, PickedPlaces
  <2>2. \A k \in 1..Len(q) : upTo[Len(q)][Len(upTo[k])] = q[k]
    BY <1>2, <1>3, <2>1
  <2>3. ASSUME NEW k \in 0..Len(q)
        PROVE  Len(upTo[k]) = k
    <3> DEFINE Good == {j \in 0..Len(q) : Len(upTo[j]) = j}
    <3>1. 0 \in Good
      BY <1>2
    <3>2. ASSUME NEW j \in 1..Len(q), j - 1 \in Good
          PROVE  j \in Good
      BY <1>1, <1>2, <1>3, <3>2, LoopSteps
    <3> HIDE DEF Good
    <3>3. k \in Good
      BY <1>2, <3>1, <3>2, UpTo
    <3> QED
      BY <3>3 DEF Good
  <2>4. /\ upTo[Len(q)] \in Seq(T) /\ Len(upTo[Len(q)]) = Len(q)
        /\ \A k \in 1..Len(q) : upTo[Len(q)][k] = q[k]
    BY <1>2, <2>2, <2>3
  <2> QED
    BY <1>1, <2>4
<1>4. ASSUME \A k \in 1..Len(q) : k \notin P
      PROVE  Picked(q, P) = <<>>
  <2>1. \A i \in 1..Len(upTo[Len(q)]) : \E k \in 1..Len(q) : k \in P /\ Len(upTo[k]) = i
    BY <1>1, <1>2, PickedPlaces
  <2>2. upTo[Len(q)] \in Seq(T) /\ Len(upTo[Len(q)]) \in Nat
    BY <1>2
  <2>3. Len(upTo[Len(q)]) = 0
    BY <1>4, <2>1, <2>2
  <2> QED
    BY <1>1, <2>2, <2>3
<1> QED
  BY <1>3, <1>4

\* The items of one kind, of two parts of a wire.
LEMMA OfConcat ==
    ASSUME NEW T, NEW a \in Seq(T), NEW b \in Seq(T), NEW w, Joined(a, b, w), NEW kind
    PROVE  /\ Of(kind, a) \in Seq(T) /\ Of(kind, b) \in Seq(T)
           /\ Joined(Of(kind, a), Of(kind, b), Of(kind, w))
<1> DEFINE InA == {k \in DOMAIN a : a[k].kind = kind}
           InB == {k \in DOMAIN b : b[k].kind = kind}
           InBoth == {k \in DOMAIN (a \o b) : (a \o b)[k].kind = kind}
<1>1. /\ Len(a) \in Nat /\ Len(b) \in Nat /\ a \o b \in Seq(T) /\ Len(a \o b) = Len(a) + Len(b)
      /\ \A k \in 1..Len(a) : (a \o b)[k] = a[k]
      /\ \A k \in 1..Len(b) : (a \o b)[Len(a) + k] = b[k]
  BY ConcatProperties
<1>2. DOMAIN a = 1..Len(a) /\ DOMAIN b = 1..Len(b) /\ DOMAIN (a \o b) = 1..Len(a \o b)
  BY <1>1
<1>3. \A k \in 1..Len(a) : k \in InBoth <=> k \in InA
  BY <1>1, <1>2
<1>4. \A k \in 1..Len(b) : Len(a) + k \in InBoth <=> k \in InB
  BY <1>1, <1>2
<1>5. /\ Picked(a, InA) \in Seq(T) /\ Picked(b, InB) \in Seq(T)
      /\ Picked(a \o b, InBoth) = Picked(a, InA) \o Picked(b, InB)
  <2>1. PicksFromBoth(InBoth, a, InA, b, InB)
    BY <1>3, <1>4 DEF PicksFromBoth
  <2> HIDE DEF InA, InB, InBoth
  <2> QED
    BY <2>1, LoopGoesOn
<1>6. w = a \o b
  BY DEF Joined
<1> QED
  BY <1>5, <1>6 DEF Of, Joined

\* A part of a wire that is all of one kind.
LEMMA OfOneKind ==
    ASSUME NEW T, NEW s \in Seq(T), NEW kind
    PROVE  /\ (\A k \in 1..Len(s) : s[k].kind = kind) => Of(kind, s) = s
           /\ (\A k \in 1..Len(s) : s[k].kind # kind) => Of(kind, s) = <<>>
<1> DEFINE At == {k \in DOMAIN s : s[k].kind = kind}
<1>1. \A k \in 1..Len(s) : k \in At <=> s[k].kind = kind
  OBVIOUS
<1>2. /\ (\A k \in 1..Len(s) : k \in At) => Picked(s, At) = s
      /\ (\A k \in 1..Len(s) : k \notin At) => Picked(s, At) = <<>>
  <2> HIDE DEF At
  <2> QED
    BY LoopOfAll
<1> QED
  BY <1>1, <1>2 DEF Of

\* flat is what the concatenation of the parts has reached after each of them.
IsFlat(T, parts, flat) ==
    /\ flat \in [0..Len(parts) -> Seq(T)]
    /\ flat[0] = <<>>
    /\ \A k \in 1..Len(parts) : flat[k] = flat[k - 1] \o parts[k]

\* FlattenSeq concatenates one part after the other.
LEMMA FlattenSteps ==
    ASSUME NEW T, NEW parts \in Seq(Seq(T))
    PROVE  \E flat : IsFlat(T, parts, flat) /\ FlattenSeq(parts) = flat[Len(parts)]
<1> DEFINE Loop(n, g) == /\ g \in [0..n -> Seq(T)]
                         /\ g[0] = <<>>
                         /\ \A k \in 1..n : g[k] = g[k - 1] \o parts[k]
           Reached == {n \in 0..Len(parts) : \E g : Loop(n, g)}
           Body(f) == [i \in 1..Len(parts) |-> IF i = 1 THEN parts[i] ELSE f[i - 1] \o parts[i]]
<1>1. Len(parts) \in Nat /\ \A k \in 1..Len(parts) : parts[k] \in Seq(T)
  OBVIOUS
<1>2. 0 \in Reached
  <2>1. Loop(0, [k \in 0..0 |-> <<>>])
    OBVIOUS
  <2> HIDE DEF Loop
  <2> QED
    BY <1>1, <2>1
<1>3. ASSUME NEW k \in 1..Len(parts), k - 1 \in Reached
      PROVE  k \in Reached
  <2> HIDE DEF Loop
  <2>1. PICK g : Loop(k - 1, g)
    BY <1>3
  <2>2. /\ g \in [0..(k - 1) -> Seq(T)]
        /\ g[0] = <<>>
        /\ \A i \in 1..(k - 1) : g[i] = g[i - 1] \o parts[i]
    BY <2>1 DEF Loop
  <2> DEFINE more == g[k - 1] \o parts[k]
             h == [i \in 0..k |-> IF i = k THEN more ELSE g[i]]
  <2>3. more \in Seq(T)
    <3>1. g[k - 1] \in Seq(T) /\ parts[k] \in Seq(T)
      BY <1>1, <2>2
    <3> QED
      BY <3>1, ConcatProperties
  <2>3a. more = g[k - 1] \o parts[k]
    OBVIOUS
  <2> HIDE DEF more
  <2>4. h[k - 1] = g[k - 1] /\ h[k] = more
    OBVIOUS
  <2>5. h \in [0..k -> Seq(T)] /\ h[0] = <<>>
    BY <2>2, <2>3
  <2>6. ASSUME NEW i \in 1..k
        PROVE  h[i] = h[i - 1] \o parts[i]
    <3>1. CASE i = k
      BY <2>4, <2>3a, <3>1
    <3>2. CASE i # k
      <4>1. i \in 1..(k - 1) /\ h[i] = g[i] /\ h[i - 1] = g[i - 1]
        BY <3>2
      <4> QED
        BY <2>2, <4>1
    <3> QED
      BY <3>1, <3>2
  <2>7. Loop(k, h)
    BY <2>5, <2>6 DEF Loop
  <2> QED
    BY <2>7
<1>4. Len(parts) \in Reached
  <2> HIDE DEF Reached
  <2>1. \A k \in 0..Len(parts) : k \in Reached
    BY <1>1, <1>2, <1>3, UpTo
  <2> QED
    BY <1>1, <2>1
<1>5. PICK g : Loop(Len(parts), g)
  BY <1>4
<1>6. IsFlat(T, parts, g)
  BY <1>5 DEF IsFlat
<1>7. FlattenSeq(parts) = g[Len(parts)]
  <2>1. CASE Len(parts) = 0
    <3>1. FlattenSeq(parts) = parts /\ parts = <<>>
      BY <2>1 DEF FlattenSeq
    <3> QED
      BY <1>5, <2>1, <3>1
  <2>2. CASE Len(parts) # 0
    <3> DEFINE f == CHOOSE f : f = Body(f)
               h == [i \in 1..Len(parts) |-> g[i]]
    <3>1. FlattenSeq(parts) = f[Len(parts)]
      BY <2>2 DEF FlattenSeq
    <3>2. g[1] = parts[1]
      <4>1. 1 \in 1..Len(parts) /\ parts[1] \in Seq(T)
        BY <1>1, <2>2
      <4>2. PICK k \in 1..Len(parts) : k = 1
        BY <4>1
      <4>3. g[k] = g[k - 1] \o parts[k]
        BY <1>5
      <4>4. g[k - 1] = <<>>
        BY <1>5, <4>2
      <4>5. <<>> \o parts[k] = parts[k]
        BY <4>1, <4>2, ConcatEmptySeq
      <4> QED
        BY <4>2, <4>3, <4>4, <4>5
    <3>3. ASSUME NEW i \in 1..Len(parts)
          PROVE  h[i] = IF i = 1 THEN parts[i] ELSE h[i - 1] \o parts[i]
      <4>1. CASE i = 1
        BY <3>2, <4>1
      <4>2. CASE i # 1
        <5>1. i - 1 \in 1..Len(parts)
          BY <1>1, <4>2
        <5>2. h[i] = g[i] /\ h[i - 1] = g[i - 1]
          BY <5>1
        <5>3. g[i] = g[i - 1] \o parts[i]
          BY <1>5
        <5> QED
          BY <4>2, <5>2, <5>3
      <4> QED
        BY <4>1, <4>2
    <3>4. h = Body(h)
      BY <3>3
    <3>5. f = Body(f)
      <4> HIDE DEF Body, h
      <4> QED
        BY <3>4
    <3> HIDE DEF f, h
    <3> DEFINE Good == {k \in 0..Len(parts) : k # 0 => f[k] = g[k]}
    <3>6. 0 \in Good
      BY <1>1
    <3>7. ASSUME NEW k \in 1..Len(parts), k - 1 \in Good
          PROVE  k \in Good
      <4>1. f[k] = IF k = 1 THEN parts[k] ELSE f[k - 1] \o parts[k]
        BY <3>5
      <4>2. k # 1 => f[k - 1] = g[k - 1]
        BY <3>7
      <4>3. g[k] = g[k - 1] \o parts[k]
        BY <1>5
      <4>4. f[k] = g[k]
        <5>1. CASE k = 1
          BY <3>2, <4>1, <5>1
        <5>2. CASE k # 1
          BY <4>1, <4>2, <4>3, <5>2
        <5> QED
          BY <5>1, <5>2
      <4> QED
        BY <1>1, <4>4
    <3>8. Len(parts) \in Good
      <4> HIDE DEF Good
      <4>1. \A k \in 0..Len(parts) : k \in Good
        BY <1>1, <3>6, <3>7, UpTo
      <4> QED
        BY <1>1, <4>1
    <3> QED
      BY <2>2, <3>1, <3>8
  <2> QED
    BY <2>1, <2>2
<1> QED
  BY <1>6, <1>7

Ids == {NoID} \cup (Int \X Nat)
Item == [kind : {"text", "call", "result"}, id : Ids, of : Ids,
         role : {"system", "user", "assistant", "tool", "model", "none"}]

\* The calls and the results among the items of a message.
CallsOf(adapter, m) == IF IsToolTurn(m) THEN ToolTurn(adapter, m) ELSE <<>>
ResultsOf(adapter, m) == IF m.role = "tool" THEN ToolResult(adapter, adapter, m) ELSE <<>>

LEMMA ItemsOfMessage ==
    ASSUME NEW adapter, NEW m \in Message
    PROVE  /\ Items(adapter, adapter, m) \in Seq(Item)
           /\ Of("call", Items(adapter, adapter, m)) = CallsOf(adapter, m)
           /\ Of("result", Items(adapter, adapter, m)) = ResultsOf(adapter, m)
<1> DEFINE s == Items(adapter, adapter, m)
<1>1. m.role \in {"system", "user", "assistant", "tool"} /\ m.calls \in Nat /\ m.turn \in Int
  BY DEF Message
<1>2. \A i \in Nat : Id(adapter, m.turn, i) \in Ids /\ <<m.turn, i>> \in Ids
  BY <1>1 DEF Id, Ids
<1>3. NoID \in Ids /\ <<>> \in Ids
  BY DEF Ids, NoID
<1>4. CASE m.role = "tool"
  <2> DEFINE role == IF adapter \in {"anthropic", "gemini"} THEN "user"
                     ELSE IF adapter = "responses" THEN "none" ELSE "tool"
             id == IF adapter = "gemini" THEN NoID ELSE Id(adapter, m.turn, m.calls)
  <2>1. /\ s = ToolResult(adapter, adapter, m)
        /\ ToolResult(adapter, adapter, m) = <<ResultItem(role, id, m)>>
    BY <1>4 DEF Items, ToolResult
  <2>2. id \in Ids /\ role \in {"user", "none", "tool"}
    BY <1>1, <1>2, <1>3
  <2> HIDE DEF role, id
  <2>3. ResultItem(role, id, m) \in Item /\ ResultItem(role, id, m).kind = "result"
    BY <1>1, <1>2, <2>2 DEF ResultItem, Item
  <2> HIDE DEF s, Item
  <2>4. s \in Seq(Item) /\ \A k \in 1..Len(s) : s[k].kind = "result"
    BY <2>1, <2>3
  <2>5. \A k \in 1..Len(s) : s[k].kind # "call"
    BY <2>4
  <2>6. Of("result", s) = s /\ Of("call", s) = <<>>
    BY <2>4, <2>5, OfOneKind
  <2>7. CallsOf(adapter, m) = <<>> /\ ResultsOf(adapter, m) = ToolResult(adapter, adapter, m)
    BY <1>4 DEF CallsOf, ResultsOf, IsToolTurn
  <2> QED
    BY <2>1, <2>4, <2>6, <2>7 DEF s
<1>5. CASE IsToolTurn(m)
  <2>1. s = ToolTurn(adapter, m) /\ m.role # "tool"
    BY <1>5 DEF Items, IsToolTurn
  <2>2. ASSUME NEW i \in 1..m.calls
        PROVE  CallItem(adapter, m.turn, i) \in Item /\ CallItem(adapter, m.turn, i).kind = "call"
    BY <1>1, <1>2 DEF CallItem, Item
  <2> HIDE DEF s, Item
  <2>3. /\ ToolTurn(adapter, m) \in Seq(Item)
        /\ \A k \in 1..Len(ToolTurn(adapter, m)) : ToolTurn(adapter, m)[k].kind = "call"
    BY <1>1, <2>2 DEF ToolTurn
  <2>4. s \in Seq(Item) /\ (\A k \in 1..Len(s) : s[k].kind = "call")
        /\ (\A k \in 1..Len(s) : s[k].kind # "result")
    BY <2>1, <2>3
  <2>5. Of("call", s) = s /\ Of("result", s) = <<>>
    BY <2>4, OfOneKind
  <2>6. CallsOf(adapter, m) = ToolTurn(adapter, m) /\ ResultsOf(adapter, m) = <<>>
    BY <1>5, <2>1 DEF CallsOf, ResultsOf
  <2> QED
    BY <2>1, <2>4, <2>5, <2>6 DEF s
<1>6. CASE m.role # "tool" /\ ~ IsToolTurn(m)
  <2> DEFINE role == IF m.role = "assistant" /\ adapter = "gemini" THEN "model" ELSE m.role
  <2>1. s = <<Text(role)>>
    BY <1>6 DEF Items
  <2>2. role \in {"system", "user", "assistant", "model"}
    BY <1>1, <1>6
  <2> HIDE DEF role
  <2>3. Text(role) \in Item /\ Text(role).kind = "text"
    BY <1>3, <2>2 DEF Text, Item
  <2> HIDE DEF s, Item
  <2>4. s \in Seq(Item) /\ (\A k \in 1..Len(s) : s[k].kind # "call")
        /\ (\A k \in 1..Len(s) : s[k].kind # "result")
    BY <2>1, <2>3
  <2>5. Of("call", s) = <<>> /\ Of("result", s) = <<>>
    BY <2>4, OfOneKind
  <2>6. CallsOf(adapter, m) = <<>> /\ ResultsOf(adapter, m) = <<>>
    BY <1>6 DEF CallsOf, ResultsOf
  <2> QED
    BY <2>4, <2>5, <2>6 DEF s
<1> QED
  BY <1>4, <1>5, <1>6

\* The calls and the results that have gone out after each message.
IsWire(adapter, q, calls, results) ==
    /\ calls \in [0..Len(q) -> Seq(Item)] /\ results \in [0..Len(q) -> Seq(Item)]
    /\ calls[0] = <<>> /\ results[0] = <<>>
    /\ \A k \in 1..Len(q) : Joined(calls[k - 1], CallsOf(adapter, q[k]), calls[k])
    /\ \A k \in 1..Len(q) : Joined(results[k - 1], ResultsOf(adapter, q[k]), results[k])

\* A wire is the conversion of one message after the other (helpers.go:231-265).
LEMMA WireByMessage ==
    ASSUME NEW adapter, NEW q \in Seq(Message)
    PROVE  LET w == FlattenSeq([k \in DOMAIN q |-> Items(adapter, adapter, q[k])])
           IN  \E calls, results :
                  /\ IsWire(adapter, q, calls, results)
                  /\ Of("call", w) = calls[Len(q)] /\ Of("result", w) = results[Len(q)]
<1> DEFINE parts == [k \in DOMAIN q |-> Items(adapter, adapter, q[k])]
           w == FlattenSeq(parts)
<1>1. Len(q) \in Nat /\ DOMAIN q = 1..Len(q) /\ \A k \in 1..Len(q) : q[k] \in Message
  OBVIOUS
<1>2. ASSUME NEW k \in 1..Len(q)
      PROVE  /\ Items(adapter, adapter, q[k]) \in Seq(Item)
             /\ Of("call", Items(adapter, adapter, q[k])) = CallsOf(adapter, q[k])
             /\ Of("result", Items(adapter, adapter, q[k])) = ResultsOf(adapter, q[k])
  <2>1. q[k] \in Message
    BY <1>1
  <2> QED
    BY <2>1, ItemsOfMessage
<1>3. /\ parts \in Seq(Seq(Item)) /\ Len(parts) = Len(q)
      /\ \A k \in 1..Len(q) : parts[k] = Items(adapter, adapter, q[k])
  <2>1. \A k \in 1..Len(q) : Items(adapter, adapter, q[k]) \in Seq(Item)
    BY <1>2
  <2> QED
    BY <1>1, <2>1
<1> HIDE DEF parts
<1>4. PICK flat : IsFlat(Item, parts, flat) /\ w = flat[Len(parts)]
  BY <1>3, FlattenSteps
<1> HIDE DEF w
<1>5. /\ flat \in [0..Len(q) -> Seq(Item)] /\ flat[0] = <<>>
      /\ \A k \in 1..Len(q) : Joined(flat[k - 1], parts[k], flat[k])
  BY <1>3, <1>4 DEF IsFlat, Joined
<1> DEFINE sent(kind) == [k \in 0..Len(q) |-> Of(kind, flat[k])]
<1>6. ASSUME NEW kind
      PROVE  /\ sent(kind) \in [0..Len(q) -> Seq(Item)] /\ sent(kind)[0] = <<>>
             /\ \A k \in 1..Len(q) : Joined(sent(kind)[k - 1], Of(kind, parts[k]), sent(kind)[k])
  <2>1. \A k \in 0..Len(q) : Of(kind, flat[k]) \in Seq(Item)
    <3> SUFFICES ASSUME NEW k \in 0..Len(q)
                 PROVE  Of(kind, flat[k]) \in Seq(Item)
      OBVIOUS
    <3>1. flat[k] \in Seq(Item) /\ <<>> \in Seq(Item)
      BY <1>5
    <3>2. Joined(flat[k], <<>>, flat[k])
      BY <3>1, ConcatEmptySeq DEF Joined
    <3> QED
      BY <3>1, <3>2, OfConcat
  <2>2. Of(kind, flat[0]) = <<>>
    <3>1. <<>> \in Seq(Item) /\ \A k \in 1..Len(<<>>) : <<>>[k].kind # kind
      OBVIOUS
    <3>2. Of(kind, <<>>) = <<>>
      BY <3>1, OfOneKind
    <3> QED
      BY <1>5, <3>2
  <2>3. ASSUME NEW k \in 1..Len(q)
        PROVE  Joined(Of(kind, flat[k - 1]), Of(kind, parts[k]), Of(kind, flat[k]))
    <3>1. k - 1 \in 0..Len(q) /\ k \in 0..Len(q)
      BY <1>1
    <3>2. flat[k - 1] \in Seq(Item)
      BY <1>5, <3>1
    <3>3. parts[k] \in Seq(Item)
      BY <1>2, <1>3
    <3>4. Joined(flat[k - 1], parts[k], flat[k])
      BY <1>5
    <3> QED
      BY <3>2, <3>3, <3>4, OfConcat
  <2>4. \A k \in 1..Len(q) : /\ sent(kind)[k - 1] = Of(kind, flat[k - 1])
                             /\ sent(kind)[k] = Of(kind, flat[k])
    BY <1>1
  <2>5. 0 \in 0..Len(q)
    BY <1>1
  <2> QED
    BY <2>1, <2>2, <2>3, <2>4, <2>5
<1>7. /\ \A k \in 1..Len(q) : Of("call", parts[k]) = CallsOf(adapter, q[k])
      /\ \A k \in 1..Len(q) : Of("result", parts[k]) = ResultsOf(adapter, q[k])
  BY <1>2, <1>3
<1>8. /\ sent("call")[Len(q)] = Of("call", w) /\ sent("result")[Len(q)] = Of("result", w)
  BY <1>1, <1>3, <1>4
<1> HIDE DEF sent
<1>9. IsWire(adapter, q, sent("call"), sent("result"))
  BY <1>6, <1>7 DEF IsWire
<1> QED
  BY <1>8, <1>9 DEF w, parts

\* The elements of two parts joined.
LEMMA JoinedPlaces ==
    ASSUME NEW T, NEW a \in Seq(T), NEW b \in Seq(T), NEW w, Joined(a, b, w)
    PROVE  /\ w \in Seq(T) /\ Len(a) \in Nat /\ Len(b) \in Nat /\ Len(w) = Len(a) + Len(b)
           /\ \A i \in 1..Len(a) : w[i] = a[i]
           /\ \A i \in 1..Len(b) : w[Len(a) + i] = b[i]
BY ConcatProperties DEF Joined

\* What goes out for one message.
LEMMA CallsAndResults ==
    ASSUME NEW adapter, NEW m \in Message
    PROVE  /\ CallsOf(adapter, m) \in Seq(Item) /\ ResultsOf(adapter, m) \in Seq(Item)
           /\ IsToolTurn(m) =>
                 /\ Len(CallsOf(adapter, m)) = m.calls
                 /\ \A i \in 1..m.calls : /\ CallsOf(adapter, m)[i].of = <<m.turn, i>>
                                          /\ CallsOf(adapter, m)[i].id = Id(adapter, m.turn, i)
                 /\ ResultsOf(adapter, m) = <<>>
           /\ ~ IsToolTurn(m) => CallsOf(adapter, m) = <<>>
           /\ m.role # "tool" => ResultsOf(adapter, m) = <<>>
<1>1. m.role \in {"system", "user", "assistant", "tool"} /\ m.calls \in Nat /\ m.turn \in Int
  BY DEF Message
<1>2. CallsOf(adapter, m) \in Seq(Item) /\ ResultsOf(adapter, m) \in Seq(Item)
  <2> DEFINE s == Items(adapter, adapter, m)
  <2>1. /\ s \in Seq(Item)
        /\ Of("call", s) = CallsOf(adapter, m) /\ Of("result", s) = ResultsOf(adapter, m)
    BY ItemsOfMessage
  <2> HIDE DEF s
  <2>2. <<>> \in Seq(Item) /\ Joined(s, <<>>, s)
    BY <2>1, ConcatEmptySeq DEF Joined
  <2>3. Of("call", s) \in Seq(Item) /\ Of("result", s) \in Seq(Item)
    BY <2>1, <2>2, OfConcat
  <2> QED
    BY <2>1, <2>3
<1>3. ASSUME IsToolTurn(m)
      PROVE  /\ Len(CallsOf(adapter, m)) = m.calls
             /\ \A i \in 1..m.calls : /\ CallsOf(adapter, m)[i].of = <<m.turn, i>>
                                      /\ CallsOf(adapter, m)[i].id = Id(adapter, m.turn, i)
             /\ ResultsOf(adapter, m) = <<>>
  <2>1. CallsOf(adapter, m) = [i \in 1..m.calls |-> CallItem(adapter, m.turn, i)]
    BY <1>3 DEF CallsOf, ToolTurn
  <2>2. ResultsOf(adapter, m) = <<>>
    BY <1>3 DEF ResultsOf, IsToolTurn
  <2>3. Len(CallsOf(adapter, m)) = m.calls
    BY <1>1, <2>1
  <2>4. ASSUME NEW i \in 1..m.calls
        PROVE  /\ CallsOf(adapter, m)[i].of = <<m.turn, i>>
               /\ CallsOf(adapter, m)[i].id = Id(adapter, m.turn, i)
    <3>1. CallsOf(adapter, m)[i] = CallItem(adapter, m.turn, i)
      BY <2>1
    <3> QED
      BY <3>1 DEF CallItem
  <2> QED
    BY <2>2, <2>3, <2>4
<1>5. ~ IsToolTurn(m) => CallsOf(adapter, m) = <<>>
  BY DEF CallsOf
<1>6. m.role # "tool" => ResultsOf(adapter, m) = <<>>
  BY DEF ResultsOf
<1> QED
  BY <1>2, <1>3, <1>5, <1>6

\* After k messages every result is of the call in its place, and what is left
\* of the last tool turn is about to come.
Answering(q, calls, results, k) ==
    LET sent == calls[k]
        answered == Len(results[k])
    IN  /\ answered <= Len(sent)
        /\ \A i \in 1..answered : sent[i].of = results[k][i].of
        /\ \/ /\ Len(sent) = answered
              /\ \A j \in 1..k : IsToolTurn(q[j]) => j + q[j].calls <= k
           \/ \E j \in 1..k :
                 LET left == j + q[j].calls - k
                 IN  /\ IsToolTurn(q[j]) /\ left > 0
                     /\ Len(sent) = answered + left
                     /\ \A i \in 1..left : sent[answered + i].of = <<q[j].turn, k - j + i>>

\* A tool turn ends before the next one begins.
LEMMA TurnsDoNotOverlap ==
    ASSUME NEW q \in Seq(Message), WellFormed(q), NEW i \in 1..Len(q), NEW j \in 1..Len(q),
           IsToolTurn(q[i]), IsToolTurn(q[j]), i < j
    PROVE  i + q[i].calls < j
<1> SUFFICES ASSUME j <= i + q[i].calls
             PROVE  FALSE
  <2>1. q[i] \in Message
    OBVIOUS
  <2> QED
    BY <2>1 DEF Message
<1>1. q[j].role = "tool"
  BY TurnHoldsResults
<1> QED
  BY <1>1 DEF IsToolTurn

\* The n-th result is of the n-th call, and each call has one.
InStep(sent, now) ==
    /\ Len(sent) = Len(now)
    /\ \A i \in 1..Len(now) : sent[i].of = now[i].of

\* Whatever an adapter makes of a conversation a provider accepts, the n-th
\* result is of the n-th call (helpers.go:231-265, 392-447, 492-549).
LEMMA ResultsFollowCalls ==
    ASSUME NEW adapter, NEW q \in Seq(Message), WellFormed(q), NEW calls, NEW results,
           IsWire(adapter, q, calls, results)
    PROVE  InStep(calls[Len(q)], results[Len(q)])
<1> DEFINE Good == {k \in 0..Len(q) : Answering(q, calls, results, k)}
<1>1. /\ Len(q) \in Nat
      /\ \A k \in 1..Len(q) : q[k] \in Message /\ q[k].calls \in Nat
      /\ \A k \in 0..Len(q) : calls[k] \in Seq(Item) /\ results[k] \in Seq(Item)
      /\ \A k \in 0..Len(q) : Len(calls[k]) \in Nat /\ Len(results[k]) \in Nat
  <2>1. \A k \in 1..Len(q) : q[k] \in Message
    OBVIOUS
  <2>2. \A k \in 0..Len(q) : calls[k] \in Seq(Item) /\ results[k] \in Seq(Item)
    BY DEF IsWire
  <2> QED
    BY <2>1, <2>2 DEF Message
<1>2. 0 \in Good
  <2>1. calls[0] = <<>> /\ results[0] = <<>>
    BY DEF IsWire
  <2>2. Len(calls[0]) = 0 /\ Len(results[0]) = 0
    BY <2>1
  <2>3. Answering(q, calls, results, 0)
    BY <2>2 DEF Answering
  <2> QED
    BY <1>1, <2>3
<1>3. ASSUME NEW k \in 1..Len(q), k - 1 \in Good
      PROVE  k \in Good
  <2> DEFINE m == q[k]
             before == calls[k - 1]
             answered == results[k - 1]
             moreCalls == CallsOf(adapter, m)
             moreResults == ResultsOf(adapter, m)
             sent == calls[k]
             now == results[k]
  <2>1. /\ m \in Message /\ m.calls \in Nat /\ k - 1 \in 0..Len(q) /\ k \in 0..Len(q)
        /\ before \in Seq(Item) /\ answered \in Seq(Item)
        /\ Len(before) \in Nat /\ Len(answered) \in Nat
    BY <1>1
  <2>2. moreCalls \in Seq(Item) /\ moreResults \in Seq(Item)
    BY <2>1, CallsAndResults
  <2>3. Joined(before, moreCalls, sent) /\ Joined(answered, moreResults, now)
    BY DEF IsWire
  <2>4. Answering(q, calls, results, k - 1)
    BY <1>3
  <2>5. /\ Len(answered) <= Len(before)
        /\ \A i \in 1..Len(answered) : before[i].of = answered[i].of
    BY <2>4 DEF Answering
  <2>6. /\ IsToolTurn(m) =>
                 /\ Len(moreCalls) = m.calls
                 /\ \A i \in 1..m.calls : moreCalls[i].of = <<m.turn, i>>
                 /\ moreResults = <<>>
        /\ ~ IsToolTurn(m) => moreCalls = <<>>
        /\ m.role = "tool" => Len(moreResults) = 1 /\ moreResults[1].of = <<m.turn, m.calls>>
        /\ m.role # "tool" => moreResults = <<>>
    <3> HIDE DEF m
    <3>1. IsToolTurn(m) =>
             /\ Len(CallsOf(adapter, m)) = m.calls
             /\ \A i \in 1..m.calls : CallsOf(adapter, m)[i].of = <<m.turn, i>>
             /\ ResultsOf(adapter, m) = <<>>
      BY <2>1, CallsAndResults
    <3>2. ~ IsToolTurn(m) => CallsOf(adapter, m) = <<>>
      BY <2>1, CallsAndResults
    <3>3. m.role = "tool" => /\ Len(ResultsOf(adapter, m)) = 1
                            /\ ResultsOf(adapter, m)[1].of = <<m.turn, m.calls>>
      BY DEF ResultsOf, ToolResult, ResultItem
    <3>4. m.role # "tool" => ResultsOf(adapter, m) = <<>>
      BY <2>1, CallsAndResults
    <3> QED
      BY <3>1, <3>2, <3>3, <3>4
  <2>7. /\ Len(sent) = Len(before) + Len(moreCalls)
        /\ \A i \in 1..Len(before) : sent[i] = before[i]
        /\ \A i \in 1..Len(moreCalls) : sent[Len(before) + i] = moreCalls[i]
    <3> HIDE DEF before, moreCalls, sent
    <3> QED
      BY <2>1, <2>2, <2>3, JoinedPlaces
  <2>8. /\ Len(now) = Len(answered) + Len(moreResults)
        /\ \A i \in 1..Len(answered) : now[i] = answered[i]
        /\ \A i \in 1..Len(moreResults) : now[Len(answered) + i] = moreResults[i]
    <3> HIDE DEF answered, moreResults, now
    <3> QED
      BY <2>1, <2>2, <2>3, JoinedPlaces
  <2>9. Len(<<>>) = 0
    OBVIOUS
  <2>0. m = q[k] /\ sent = calls[k] /\ now = results[k] /\ Len(sent) \in Nat /\ Len(now) \in Nat
    BY <1>1, <2>1
  <2> HIDE DEF m, before, answered, moreCalls, moreResults, sent, now
  <2>10. CASE /\ Len(before) = Len(answered)
              /\ \A j \in 1..(k - 1) : IsToolTurn(q[j]) => j + q[j].calls <= k - 1
    <3>1. m.role # "tool"
      <4> SUFFICES ASSUME m.role = "tool"
                   PROVE  FALSE
        OBVIOUS
      <4>1. PICK j \in 1..(k - 1) : IsToolTurn(q[j]) /\ k <= j + q[j].calls
        BY <2>0, WellFormedByPlace
      <4>2. j + q[j].calls <= k - 1 /\ q[j].calls \in Nat
        BY <1>1, <2>10, <4>1
      <4> QED
        BY <4>1, <4>2
    <3>2. CASE IsToolTurn(m)
      <4>1. Len(moreResults) = 0 /\ Len(moreCalls) = m.calls /\ m.calls > 0
        BY <2>1, <2>6, <2>9, <3>2 DEF IsToolTurn
      <4>2. /\ Len(now) = Len(answered) /\ Len(sent) = Len(now) + m.calls
            /\ \A i \in 1..Len(now) : sent[i].of = now[i].of
        BY <2>1, <2>5, <2>7, <2>8, <2>10, <4>1
      <4>3. \A i \in 1..m.calls : sent[Len(now) + i].of = <<m.turn, i>>
        <5> SUFFICES ASSUME NEW i \in 1..m.calls
                     PROVE  sent[Len(now) + i].of = <<m.turn, i>>
          OBVIOUS
        <5>1. moreCalls[i].of = <<m.turn, i>> /\ i \in 1..Len(moreCalls)
          BY <2>6, <3>2, <4>1
        <5>2. sent[Len(before) + i] = moreCalls[i]
          BY <2>7, <5>1
        <5> QED
          BY <2>10, <4>2, <5>1, <5>2
      <4>4. k \in 1..k /\ k + m.calls - k = m.calls /\ \A i \in 1..m.calls : k - k + i = i
        BY <2>1
      <4>5. Answering(q, calls, results, k)
        <5>1. /\ IsToolTurn(q[k]) /\ k + q[k].calls - k > 0
              /\ Len(calls[k]) = Len(results[k]) + (k + q[k].calls - k)
              /\ \A i \in 1..(k + q[k].calls - k) :
                    calls[k][Len(results[k]) + i].of = <<q[k].turn, k - k + i>>
          BY <2>0, <3>2, <4>1, <4>2, <4>3, <4>4
        <5>2. /\ Len(results[k]) <= Len(calls[k])
              /\ \A i \in 1..Len(results[k]) : calls[k][i].of = results[k][i].of
          BY <2>0, <2>1, <4>1, <4>2
        <5> QED
          BY <4>4, <5>1, <5>2 DEF Answering
      <4> QED
        BY <2>1, <4>5
    <3>3. CASE ~ IsToolTurn(m)
      <4>1. Len(moreResults) = 0 /\ Len(moreCalls) = 0
        BY <2>6, <2>9, <3>1, <3>3
      <4>2. /\ Len(now) = Len(answered) /\ Len(sent) = Len(now)
            /\ \A i \in 1..Len(now) : sent[i].of = now[i].of
        BY <2>1, <2>5, <2>7, <2>8, <2>10, <4>1
      <4>3. \A j \in 1..k : IsToolTurn(q[j]) => j + q[j].calls <= k
        <5> SUFFICES ASSUME NEW j \in 1..k, IsToolTurn(q[j])
                     PROVE  j + q[j].calls <= k
          OBVIOUS
        <5>1. j \in 1..(k - 1)
          BY <2>0, <3>3
        <5>2. j + q[j].calls <= k - 1 /\ q[j].calls \in Nat
          BY <1>1, <2>10, <5>1
        <5> QED
          BY <5>2
      <4>4. Answering(q, calls, results, k)
        <5>1. /\ Len(results[k]) <= Len(calls[k]) /\ Len(calls[k]) = Len(results[k])
              /\ \A i \in 1..Len(results[k]) : calls[k][i].of = results[k][i].of
          BY <2>0, <4>1, <4>2
        <5> QED
          BY <4>3, <5>1 DEF Answering
      <4> QED
        BY <2>1, <4>4
    <3> QED
      BY <3>2, <3>3
  <2>11. CASE \E j \in 1..(k - 1) :
                 LET left == j + q[j].calls - (k - 1)
                 IN  /\ IsToolTurn(q[j]) /\ left > 0
                     /\ Len(before) = Len(answered) + left
                     /\ \A i \in 1..left : before[Len(answered) + i].of = <<q[j].turn, (k - 1) - j + i>>
    <3>1. PICK j \in 1..(k - 1) :
             /\ IsToolTurn(q[j]) /\ j + q[j].calls - (k - 1) > 0
             /\ Len(before) = Len(answered) + (j + q[j].calls - (k - 1))
             /\ \A i \in 1..(j + q[j].calls - (k - 1)) :
                   before[Len(answered) + i].of = <<q[j].turn, (k - 1) - j + i>>
      BY <2>11
    <3>2. j \in 1..Len(q) /\ q[j].calls \in Nat /\ k - j \in 1..q[j].calls /\ j + (k - j) = k
      <4>1. j \in 1..Len(q) /\ j \in Nat /\ k \in Nat
        BY <1>1
      <4>2. q[j].calls \in Nat
        BY <1>1, <4>1
      <4>3. j + q[j].calls - (k - 1) > 0
        BY <3>1
      <4> QED
        BY <4>1, <4>2, <4>3
    <3>3. m = ToolResultMessage(q[j].turn, k - j)
      BY <2>0, <3>1, <3>2, WellFormedByPlace
    <3>4. m.role = "tool" /\ m.turn = q[j].turn /\ m.calls = k - j /\ ~ IsToolTurn(m)
      BY <3>3 DEF ToolResultMessage, IsToolTurn
    <3>5. Len(moreResults) = 1 /\ moreResults[1].of = <<q[j].turn, k - j>> /\ Len(moreCalls) = 0
      BY <2>6, <2>9, <3>4
    <3> DEFINE left == j + q[j].calls - k
    <3>11. /\ left \in Nat /\ j + q[j].calls - (k - 1) = left + 1 /\ j + q[j].calls - k = left
           /\ j + q[j].calls = k + left /\ j \in Nat /\ k \in Nat
      <4>1. j \in Nat /\ k \in Nat /\ q[j].calls \in Nat /\ k - j <= q[j].calls
        BY <1>1, <3>2
      <4> QED
        BY <4>1
    <3> HIDE DEF left
    <3>6. /\ Len(now) = Len(answered) + 1 /\ Len(sent) = Len(now) + left /\ left \in Nat
          /\ Len(now) \in Nat
      <4>1. Len(before) = Len(answered) + (left + 1)
        BY <3>1, <3>11
      <4> QED
        BY <2>1, <2>7, <2>8, <3>5, <3>11, <4>1
    <3>7. \A i \in 1..Len(now) : sent[i].of = now[i].of
      <4> SUFFICES ASSUME NEW i \in 1..Len(now)
                   PROVE  sent[i].of = now[i].of
        OBVIOUS
      <4>1. i \in 1..Len(before)
        BY <2>1, <2>7, <3>5, <3>6
      <4>2. CASE i \in 1..Len(answered)
        BY <2>5, <2>7, <2>8, <4>1, <4>2
      <4>3. CASE i = Len(answered) + 1
        <5>1. now[i].of = <<q[j].turn, k - j>>
          <6>1. 1 \in 1..Len(moreResults)
            BY <3>5
          <6>2. now[Len(answered) + 1] = moreResults[1]
            BY <2>8, <6>1
          <6> QED
            BY <3>5, <4>3, <6>2
        <5>2. before[Len(answered) + 1].of = <<q[j].turn, k - j>>
          <6>1. 1 \in 1..(j + q[j].calls - (k - 1)) /\ (k - 1) - j + 1 = k - j
            BY <3>1, <3>2
          <6>2. before[Len(answered) + 1].of = <<q[j].turn, (k - 1) - j + 1>>
            BY <3>1, <6>1
          <6> QED
            BY <6>1, <6>2
        <5> QED
          BY <2>7, <4>1, <4>3, <5>1, <5>2
      <4> QED
        BY <2>1, <3>6, <4>2, <4>3
    <3>8. \A i \in 1..left : sent[Len(now) + i].of = <<q[j].turn, k - j + i>>
      <4> SUFFICES ASSUME NEW i \in 1..left
                   PROVE  sent[Len(now) + i].of = <<q[j].turn, k - j + i>>
        OBVIOUS
      <4>1. /\ i + 1 \in 1..(j + q[j].calls - (k - 1)) /\ (k - 1) - j + (i + 1) = k - j + i
            /\ Len(now) + i = Len(answered) + (i + 1) /\ Len(now) + i \in 1..Len(before)
        <5>1. Len(before) = Len(answered) + (left + 1)
          BY <3>1, <3>11
        <5>2. /\ Len(now) = Len(answered) + 1 /\ Len(answered) \in Nat /\ left \in Nat
              /\ j \in Nat /\ k \in Nat
          BY <2>1, <3>6, <3>11
        <5>3. i + 1 \in 1..(left + 1) /\ (k - 1) - j + (i + 1) = k - j + i
          BY <5>2
        <5>4. Len(now) + i = Len(answered) + (i + 1) /\ Len(now) + i \in 1..Len(before)
          BY <5>1, <5>2
        <5> QED
          BY <3>11, <5>3, <5>4
      <4>2. before[Len(answered) + (i + 1)].of = <<q[j].turn, (k - 1) - j + (i + 1)>>
        BY <3>1, <4>1
      <4>3. sent[Len(now) + i] = before[Len(now) + i]
        BY <2>7, <4>1
      <4> QED
        BY <4>1, <4>2, <4>3
    <3>9. CASE left > 0
      <4>1. Answering(q, calls, results, k)
        <5>1. j \in 1..k
          BY <3>1
        <5>2. Len(results[k]) <= Len(calls[k])
          BY <2>0, <3>6
        <5>3. \A i \in 1..Len(results[k]) : calls[k][i].of = results[k][i].of
          BY <2>0, <3>7
        <5>4. /\ IsToolTurn(q[j]) /\ j + q[j].calls - k > 0
              /\ Len(calls[k]) = Len(results[k]) + (j + q[j].calls - k)
              /\ \A i \in 1..(j + q[j].calls - k) :
                    calls[k][Len(results[k]) + i].of = <<q[j].turn, k - j + i>>
          BY <2>0, <3>1, <3>6, <3>8, <3>9, <3>11
        <5> QED
          BY <5>1, <5>2, <5>3, <5>4 DEF Answering
      <4> QED
        BY <2>1, <4>1
    <3>10. CASE left = 0
      <4>1. \A i \in 1..k : IsToolTurn(q[i]) => i + q[i].calls <= k
        <5> SUFFICES ASSUME NEW i \in 1..k, IsToolTurn(q[i])
                     PROVE  i + q[i].calls <= k
          OBVIOUS
        <5>1. i \in 1..Len(q) /\ q[i].calls \in Nat
          BY <1>1
        <5>0. j + q[j].calls = k /\ j \in Nat /\ k \in Nat /\ i \in Nat
          BY <3>10, <3>11, <5>1
        <5>2. CASE i = j
          BY <5>0, <5>2
        <5>3. CASE i < j
          <6>1. i + q[i].calls < j
            BY <3>1, <3>2, <5>1, <5>3, TurnsDoNotOverlap
          <6> QED
            BY <5>0, <5>1, <6>1
        <5>4. CASE i > j
          <6>1. j + q[j].calls < i
            BY <3>1, <3>2, <5>1, <5>4, TurnsDoNotOverlap
          <6> QED
            BY <5>0, <5>4, <6>1
        <5> QED
          BY <5>0, <5>2, <5>3, <5>4
      <4>2. Answering(q, calls, results, k)
        <5>1. /\ Len(results[k]) <= Len(calls[k]) /\ Len(calls[k]) = Len(results[k])
          BY <2>0, <3>6, <3>10
        <5>2. \A i \in 1..Len(results[k]) : calls[k][i].of = results[k][i].of
          BY <2>0, <3>7
        <5> QED
          BY <4>1, <5>1, <5>2 DEF Answering
      <4> QED
        BY <2>1, <4>2
    <3> QED
      BY <3>6, <3>9, <3>10
  <2> QED
    BY <2>4, <2>10, <2>11 DEF Answering, before, answered
<1>4. Answering(q, calls, results, Len(q))
  <2>1. Len(q) \in Good
    <3> HIDE DEF Good
    <3>1. \A k \in 0..Len(q) : k \in Good
      BY <1>1, <1>2, <1>3, UpTo
    <3> QED
      BY <1>1, <3>1
  <2> QED
    BY <2>1
<1>5. \A j \in 1..Len(q) : IsToolTurn(q[j]) => ~ (j + q[j].calls - Len(q) > 0)
  <2> SUFFICES ASSUME NEW j \in 1..Len(q), IsToolTurn(q[j])
               PROVE  j + q[j].calls <= Len(q)
    BY <1>1
  <2>1. q[j].calls \in 1..q[j].calls
    BY <1>1 DEF IsToolTurn
  <2>2. j + q[j].calls \in 1..Len(q)
    BY <2>1, WellFormedByPlace
  <2> QED
    BY <1>1, <2>2
<1> QED
  BY <1>4, <1>5 DEF Answering, InStep

\* The x-th call of the wire is one of a tool turn of q, by its place in it.
OfTurn(adapter, q, calls, x) ==
    \E j \in 1..Len(q) :
       /\ IsToolTurn(q[j]) /\ Len(calls[j - 1]) \in Nat
       /\ calls[Len(q)][x].of = <<q[j].turn, x - Len(calls[j - 1])>>
       /\ calls[Len(q)][x].id = Id(adapter, q[j].turn, x - Len(calls[j - 1]))

\* Where each call comes from: no id of another tool turn, or place in it.
LEMMA CallsByTurn ==
    ASSUME NEW adapter, NEW q \in Seq(Message), NEW calls, NEW results,
           IsWire(adapter, q, calls, results), NEW x \in 1..Len(calls[Len(q)])
    PROVE  OfTurn(adapter, q, calls, x)
<1> DEFINE From(item, y, j) == /\ IsToolTurn(q[j])
                               /\ item.of = <<q[j].turn, y - Len(calls[j - 1])>>
                               /\ item.id = Id(adapter, q[j].turn, y - Len(calls[j - 1]))
           Good == {k \in 0..Len(q) : \A y \in 1..Len(calls[k]) :
                                         \E j \in 1..k : From(calls[k][y], y, j)}
<1>1. /\ Len(q) \in Nat
      /\ \A k \in 1..Len(q) : q[k] \in Message
      /\ \A k \in 0..Len(q) : calls[k] \in Seq(Item) /\ Len(calls[k]) \in Nat
  BY DEF IsWire
<1>2. 0 \in Good
  <2>1. Len(calls[0]) = 0
    BY DEF IsWire
  <2> QED
    BY <1>1, <2>1
<1>3. ASSUME NEW k \in 1..Len(q), k - 1 \in Good
      PROVE  k \in Good
  <2> SUFFICES ASSUME NEW y \in 1..Len(calls[k])
               PROVE  \E j \in 1..k : From(calls[k][y], y, j)
    BY <1>1
  <2>1. \A z \in 1..Len(calls[k - 1]) : \E j \in 1..(k - 1) : From(calls[k - 1][z], z, j)
    BY <1>3
  <2> DEFINE m == q[k]
             before == calls[k - 1]
             more == CallsOf(adapter, m)
             sent == calls[k]
  <2>2. m \in Message /\ before \in Seq(Item) /\ Len(before) \in Nat
    BY <1>1
  <2>3. Joined(before, more, sent)
    BY DEF IsWire
  <2>4. m = q[k] /\ sent = calls[k] /\ before = calls[k - 1]
    OBVIOUS
  <2>5. /\ more \in Seq(Item)
        /\ IsToolTurn(m) =>
              /\ Len(more) = m.calls
              /\ \A i \in 1..m.calls : more[i].of = <<m.turn, i>> /\ more[i].id = Id(adapter, m.turn, i)
        /\ ~ IsToolTurn(m) => Len(more) = 0
    <3> HIDE DEF m
    <3>1. CallsOf(adapter, m) \in Seq(Item)
      BY <2>2, CallsAndResults
    <3>2. IsToolTurn(m) =>
             /\ Len(CallsOf(adapter, m)) = m.calls
             /\ \A i \in 1..m.calls : /\ CallsOf(adapter, m)[i].of = <<m.turn, i>>
                                      /\ CallsOf(adapter, m)[i].id = Id(adapter, m.turn, i)
      BY <2>2, CallsAndResults
    <3>3. ~ IsToolTurn(m) => CallsOf(adapter, m) = <<>>
      BY <2>2, CallsAndResults
    <3> QED
      BY <3>1, <3>2, <3>3
  <2> HIDE DEF m, before, more, sent
  <2>6. /\ Len(sent) = Len(before) + Len(more) /\ Len(more) \in Nat
        /\ \A i \in 1..Len(before) : sent[i] = before[i]
        /\ \A i \in 1..Len(more) : sent[Len(before) + i] = more[i]
    <3>1. more \in Seq(Item)
      BY <2>5
    <3> QED
      BY <2>2, <2>3, <3>1, JoinedPlaces
  <2> HIDE DEF From
  <2>7. CASE y \in 1..Len(before)
    <3>1. PICK j \in 1..(k - 1) : From(before[y], y, j)
      BY <2>1, <2>4, <2>7
    <3>2. sent[y] = before[y] /\ j \in 1..k
      BY <2>6, <2>7
    <3> QED
      BY <2>4, <3>1, <3>2
  <2>8. CASE y \notin 1..Len(before)
    <3> DEFINE i == y - Len(before)
    <3>1. i \in 1..Len(more) /\ y = Len(before) + i /\ k \in 1..k
      BY <2>2, <2>4, <2>6, <2>8
    <3>2. IsToolTurn(m)
      BY <2>5, <2>6, <3>1
    <3>3. sent[y] = more[i] /\ i \in 1..m.calls
      BY <2>5, <2>6, <3>1, <3>2
    <3>4. more[i].of = <<m.turn, i>> /\ more[i].id = Id(adapter, m.turn, i)
      BY <2>5, <3>2, <3>3
    <3>5. From(calls[k][y], y, k)
      BY <2>4, <3>2, <3>3, <3>4 DEF From
    <3> QED
      BY <3>1, <3>5
  <2> QED
    BY <2>7, <2>8
<1>4. Len(q) \in Good
  <2> HIDE DEF Good
  <2>1. \A k \in 0..Len(q) : k \in Good
    BY <1>1, <1>2, <1>3, UpTo
  <2> QED
    BY <1>1, <2>1
<1>5. PICK j \in 1..Len(q) : From(calls[Len(q)][x], x, j)
  BY <1>4
<1>6. Len(calls[j - 1]) \in Nat
  BY <1>1
<1> QED
  BY <1>5, <1>6 DEF OfTurn

\* Providers that give ids: a result goes out with the id of its call.
LEMMA ResultsByID ==
    ASSUME NEW adapter \in GivesIDs, NEW q \in Seq(Message), NEW calls, NEW results,
           IsWire(adapter, q, calls, results)
    PROVE  \A x \in 1..Len(results[Len(q)]) : results[Len(q)][x].id = results[Len(q)][x].of
<1> DEFINE Good == {k \in 0..Len(q) : \A x \in 1..Len(results[k]) :
                                         results[k][x].id = results[k][x].of}
<1>1. /\ Len(q) \in Nat
      /\ \A k \in 1..Len(q) : q[k] \in Message
      /\ \A k \in 0..Len(q) : results[k] \in Seq(Item) /\ Len(results[k]) \in Nat
  BY DEF IsWire
<1>2. 0 \in Good
  <2>1. Len(results[0]) = 0
    BY DEF IsWire
  <2> QED
    BY <1>1, <2>1
<1>3. ASSUME NEW k \in 1..Len(q), k - 1 \in Good
      PROVE  k \in Good
  <2> DEFINE m == q[k]
             before == results[k - 1]
             more == ResultsOf(adapter, m)
             now == results[k]
  <2>1. m \in Message /\ before \in Seq(Item) /\ Len(before) \in Nat
    BY <1>1
  <2>2. Joined(before, more, now)
    BY DEF IsWire
  <2>3. \A x \in 1..Len(before) : before[x].id = before[x].of
    BY <1>3
  <2>4. /\ more \in Seq(Item)
        /\ \A i \in 1..Len(more) : more[i].id = more[i].of
    <3> HIDE DEF m
    <3>1. ResultsOf(adapter, m) \in Seq(Item)
      BY <2>1, CallsAndResults
    <3>2. CASE m.role = "tool"
      <4>1. adapter # "gemini" /\ Id(adapter, m.turn, m.calls) = <<m.turn, m.calls>>
        BY DEF Id, GivesIDs
      <4> QED
        BY <3>1, <3>2, <4>1 DEF ResultsOf, ToolResult, ResultItem
    <3>3. CASE m.role # "tool"
      BY <3>1, <3>3 DEF ResultsOf
    <3> QED
      BY <3>2, <3>3
  <2>5. \A x \in 1..Len(now) : now[x].id = now[x].of
    <3> HIDE DEF m, before, more, now
    <3>1. /\ Len(now) = Len(before) + Len(more) /\ Len(more) \in Nat
          /\ \A i \in 1..Len(before) : now[i] = before[i]
          /\ \A i \in 1..Len(more) : now[Len(before) + i] = more[i]
      BY <2>1, <2>2, <2>4, JoinedPlaces
    <3> SUFFICES ASSUME NEW x \in 1..Len(now)
                 PROVE  now[x].id = now[x].of
      OBVIOUS
    <3>2. CASE x \in 1..Len(before)
      BY <2>3, <3>1, <3>2
    <3>3. CASE x \notin 1..Len(before)
      <4>1. x - Len(before) \in 1..Len(more) /\ Len(before) + (x - Len(before)) = x
        BY <2>1, <3>1, <3>3
      <4> QED
        BY <2>4, <3>1, <4>1
    <3> QED
      BY <3>2, <3>3
  <2> QED
    BY <1>1, <2>5
<1>4. Len(q) \in Good
  <2> HIDE DEF Good
  <2>1. \A k \in 0..Len(q) : k \in Good
    BY <1>1, <1>2, <1>3, UpTo
  <2> QED
    BY <1>1, <2>1
<1> QED
  BY <1>4

\* Every adapter gives a provider each result with the call it is of.
LEMMA PairedInOrder ==
    ASSUME NEW adapter, NEW q \in Seq(Message), WellFormed(q), TurnsDiffer(q)
    PROVE  Paired(adapter, FlattenSeq([k \in DOMAIN q |-> Items(adapter, adapter, q[k])]))
<1> DEFINE w == FlattenSeq([k \in DOMAIN q |-> Items(adapter, adapter, q[k])])
<1>1. PICK calls, results : /\ IsWire(adapter, q, calls, results)
                            /\ Of("call", w) = calls[Len(q)] /\ Of("result", w) = results[Len(q)]
  BY WireByMessage
<1>10. IsWire(adapter, q, calls, results)
  BY <1>1
<1> SUFFICES Paired(adapter, w)
  OBVIOUS
<1> HIDE DEF w
<1> DEFINE sent == calls[Len(q)]
           now == results[Len(q)]
<1>2. /\ Len(sent) = Len(now)
      /\ \A i \in 1..Len(now) : sent[i].of = now[i].of
  <2>1. InStep(calls[Len(q)], results[Len(q)])
    BY <1>10, ResultsFollowCalls
  <2> QED
    BY <2>1 DEF InStep
<1>3. sent \in Seq(Item) /\ now \in Seq(Item) /\ Of("call", w) = sent /\ Of("result", w) = now
  BY <1>1 DEF IsWire
<1>4. ASSUME NEW x \in 1..Len(sent)
      PROVE  \E j \in 1..Len(q) :
                /\ IsToolTurn(q[j]) /\ Len(calls[j - 1]) \in Nat
                /\ sent[x].of = <<q[j].turn, x - Len(calls[j - 1])>>
                /\ sent[x].id = Id(adapter, q[j].turn, x - Len(calls[j - 1]))
  <2>1. x \in 1..Len(calls[Len(q)])
    OBVIOUS
  <2>2. OfTurn(adapter, q, calls, x)
    BY <1>10, <2>1, CallsByTurn
  <2> QED
    BY <2>2 DEF OfTurn
<1>5. adapter \in GivesIDs => \A x \in 1..Len(now) : now[x].id = now[x].of
  BY <1>10, ResultsByID
<1> HIDE DEF sent, now
<1>6. ASSUME NEW x \in 1..Len(sent), NEW y \in 1..Len(sent), sent[x].of = sent[y].of
      PROVE  x = y
  <2>1. PICK j \in 1..Len(q) : /\ IsToolTurn(q[j]) /\ Len(calls[j - 1]) \in Nat
                               /\ sent[x].of = <<q[j].turn, x - Len(calls[j - 1])>>
    BY <1>4
  <2>2. PICK i \in 1..Len(q) : /\ IsToolTurn(q[i]) /\ Len(calls[i - 1]) \in Nat
                               /\ sent[y].of = <<q[i].turn, y - Len(calls[i - 1])>>
    BY <1>4
  <2>3. q[j].turn = q[i].turn /\ x - Len(calls[j - 1]) = y - Len(calls[i - 1])
    <3>1. <<q[j].turn, x - Len(calls[j - 1])>> = <<q[i].turn, y - Len(calls[i - 1])>>
      BY <1>6, <2>1, <2>2
    <3> QED
      BY <3>1
  <2>4. i \in DOMAIN q /\ j \in DOMAIN q
    OBVIOUS
  <2>5. i = j
    BY <2>1, <2>2, <2>3, <2>4 DEF TurnsDiffer
  <2> QED
    BY <2>1, <2>2, <2>3, <2>5
<1>7. CASE adapter \in MatchesByID
  <2>1. adapter \in GivesIDs
    BY <1>7 DEF MatchesByID, GivesIDs
  <2>2. \A x \in 1..Len(sent) : sent[x].id = sent[x].of
    <3> SUFFICES ASSUME NEW x \in 1..Len(sent)
                 PROVE  sent[x].id = sent[x].of
      OBVIOUS
    <3>1. PICK j \in 1..Len(q) :
             /\ sent[x].of = <<q[j].turn, x - Len(calls[j - 1])>>
             /\ sent[x].id = Id(adapter, q[j].turn, x - Len(calls[j - 1]))
      BY <1>4
    <3> QED
      BY <2>1, <3>1 DEF Id
  <2>3. ASSUME NEW k \in DOMAIN now
        PROVE  \E i \in DOMAIN sent :
                  /\ sent[i].id = now[k].id /\ sent[i].of = now[k].of
                  /\ \A j \in DOMAIN sent \ {i} : sent[j].id # now[k].id
    <3>1. k \in 1..Len(now) /\ k \in 1..Len(sent) /\ k \in DOMAIN sent
      BY <1>2, <1>3
    <3>2. sent[k].of = now[k].of /\ sent[k].id = sent[k].of /\ now[k].id = now[k].of
      BY <1>2, <1>5, <2>1, <2>2, <3>1
    <3>3. ASSUME NEW j \in DOMAIN sent \ {k}
          PROVE  sent[j].id # now[k].id
      <4>1. j \in 1..Len(sent)
        BY <1>3
      <4> QED
        BY <1>6, <2>2, <3>1, <3>2, <4>1
    <3> QED
      BY <3>1, <3>2, <3>3
  <2> QED
    BY <1>3, <1>7, <2>3 DEF Paired
<1>8. CASE adapter \notin MatchesByID
  <2>1. DOMAIN sent = DOMAIN now /\ \A i \in DOMAIN sent : sent[i].of = now[i].of
    BY <1>2, <1>3
  <2>2. [i \in DOMAIN sent |-> sent[i].of] = [k \in DOMAIN now |-> now[k].of]
    BY <2>1
  <2> QED
    BY <1>3, <1>8, <2>2 DEF Paired
<1> QED
  BY <1>7, <1>8
-----------------------------------------------------------------------------
(* The turns of a conversation *)

\* The definition, with the positions as numbers.
LEMMA TurnsDifferByPlace ==
    ASSUME NEW q \in Seq(Message)
    PROVE  TurnsDiffer(q) <=>
              \A j, k \in 1..Len(q) :
                 IsToolTurn(q[j]) /\ IsToolTurn(q[k]) /\ q[j].turn = q[k].turn => j = k
BY DEF TurnsDiffer

\* What a loop picks are still different turns.
LEMMA PickedTurnsDiffer ==
    ASSUME NEW q \in Seq(Message), TurnsDiffer(q), NEW P
    PROVE  TurnsDiffer(Picked(q, P))
<1>1. PICK upTo : IsLoop(Message, q, P, upTo) /\ Picked(q, P) = upTo[Len(q)]
  BY LoopExists
<1> DEFINE r == upTo[Len(q)]
<1>2. Len(q) \in 0..Len(q) /\ r \in Seq(Message)
  <2>1. Len(q) \in 0..Len(q)
    OBVIOUS
  <2> QED
    BY <1>1, <2>1 DEF IsLoop
<1>3. ASSUME NEW x \in 1..Len(r)
      PROVE  \E k \in 1..Len(q) : Len(upTo[k]) = x /\ r[x] = q[k]
  <2>1. PICK k \in 1..Len(q) : k \in P /\ Len(upTo[k]) = x
    BY <1>1, <1>2, PickedPlaces
  <2>2. r[Len(upTo[k])] = q[k]
    BY <1>1, <1>2, <2>1, PickedPlaces
  <2> QED
    BY <2>1, <2>2
<1> HIDE DEF r
<1>4. ASSUME NEW x \in 1..Len(r), NEW y \in 1..Len(r),
             IsToolTurn(r[x]), IsToolTurn(r[y]), r[x].turn = r[y].turn
      PROVE  x = y
  <2>1. PICK k \in 1..Len(q) : Len(upTo[k]) = x /\ r[x] = q[k]
    BY <1>3
  <2>2. PICK j \in 1..Len(q) : Len(upTo[j]) = y /\ r[y] = q[j]
    BY <1>3
  <2>3. j = k
    BY <1>4, <2>1, <2>2, TurnsDifferByPlace
  <2> QED
    BY <2>1, <2>2, <2>3
<1>5. TurnsDiffer(r)
  BY <1>2, <1>4, TurnsDifferByPlace
<1> QED
  BY <1>1, <1>5 DEF r

\* So are those of the kept part.
LEMMA TailTurnsDiffer ==
    ASSUME NEW q \in Seq(Message), TurnsDiffer(q), NEW from \in 1..Len(q)
    PROVE  TurnsDiffer(SubSeq(q, from, Len(q)))
<1> DEFINE r == SubSeq(q, from, Len(q))
<1>1. /\ r \in Seq(Message) /\ Len(r) = Len(q) - from + 1
      /\ \A x \in 1..Len(r) : r[x] = q[from + x - 1] /\ from + x - 1 \in 1..Len(q)
  OBVIOUS
<1> HIDE DEF r
<1>2. ASSUME NEW x \in 1..Len(r), NEW y \in 1..Len(r),
             IsToolTurn(r[x]), IsToolTurn(r[y]), r[x].turn = r[y].turn
      PROVE  x = y
  <2>1. from + x - 1 = from + y - 1
    <3> DEFINE k == from + x - 1
               j == from + y - 1
    <3>1. r[x] = q[k] /\ r[y] = q[j] /\ k \in 1..Len(q) /\ j \in 1..Len(q)
      BY <1>1
    <3> HIDE DEF k, j
    <3>2. k = j
      BY <1>2, <3>1, TurnsDifferByPlace
    <3> QED
      BY <3>2 DEF k, j
  <2> QED
    BY <2>1
<1>3. TurnsDiffer(r)
  BY <1>1, <1>2, TurnsDifferByPlace
<1> QED
  BY <1>3 DEF r

\* System messages in front are no turns.
LEMMA FrontTurnsDiffer ==
    ASSUME NEW q \in Seq(Message), \A k \in 1..Len(q) : q[k].role = "system",
           NEW s \in Seq(Message), TurnsDiffer(s)
    PROVE  TurnsDiffer(q \o s)
<1> DEFINE r == q \o s
           n == Len(q)
<1>1. /\ r \in Seq(Message) /\ n \in Nat /\ Len(s) \in Nat /\ Len(r) = n + Len(s)
      /\ \A k \in 1..n : r[k] = q[k]
      /\ \A x \in 1..Len(s) : r[n + x] = s[x]
  BY ConcatProperties
<1> HIDE DEF r
<1>2. \A k \in 1..n : ~ IsToolTurn(r[k])
  BY <1>1 DEF IsToolTurn
<1> HIDE DEF n
<1>3. ASSUME NEW x \in 1..Len(r), IsToolTurn(r[x])
      PROVE  x - n \in 1..Len(s) /\ r[x] = s[x - n]
  <2>1. x \notin 1..n
    BY <1>2, <1>3
  <2>2. x - n \in 1..Len(s) /\ n + (x - n) = x
    BY <1>1, <2>1
  <2> QED
    BY <1>1, <2>2
<1>4. ASSUME NEW x \in 1..Len(r), NEW y \in 1..Len(r),
             IsToolTurn(r[x]), IsToolTurn(r[y]), r[x].turn = r[y].turn
      PROVE  x = y
  <2>1. x - n \in 1..Len(s) /\ r[x] = s[x - n] /\ y - n \in 1..Len(s) /\ r[y] = s[y - n]
    BY <1>3, <1>4
  <2>2. x - n = y - n
    BY <1>4, <2>1, TurnsDifferByPlace
  <2> QED
    BY <1>1, <2>2
<1>5. TurnsDiffer(r)
  BY <1>1, <1>4, TurnsDifferByPlace
<1> QED
  BY <1>5 DEF r

\* All the system messages are in front of what the loop picks of the others.
LEMMA SystemPicked ==
    ASSUME NEW q \in Seq(Message)
    PROVE  /\ Picked(q, SystemAt(q)) \in Seq(Message)
           /\ \A x \in 1..Len(Picked(q, SystemAt(q))) : Picked(q, SystemAt(q))[x].role = "system"
<1> DEFINE system == Picked(q, SystemAt(q))
<1>1. \A k \in 1..Len(q) : k \in SystemAt(q) <=> q[k].role = "system"
  BY DEF SystemAt
<1> HIDE DEF system
<1>2. system = Picked(q, SystemAt(q))
  BY DEF system
<1>3. system \in Seq(Message)
  BY <1>2, PickedTyping
<1>4. \A x \in 1..Len(system) : \E k \in 1..Len(q) : k \in SystemAt(q) /\ system[x] = q[k]
  BY <1>2, PickedTyping
<1> QED
  BY <1>1, <1>3, <1>4 DEF system

\* Turns that are told apart, and none of them later than last.
TurnsUpTo(q, last) == TurnsDiffer(q) /\ \A k \in 1..Len(q) : q[k].turn <= last

\* Trimming confuses no turns and brings none back (agent.go:366-408).
LEMMA TrimmedTurnsDiffer ==
    ASSUME NEW q \in Seq(Message), NEW last, TurnsUpTo(q, last), NEW max \in Nat
    PROVE  TurnsUpTo(trimHistory(q, max), last)
<1> DEFINE system == Picked(q, SystemAt(q))
           Others == DOMAIN q \ SystemAt(q)
           rest == Picked(q, Others)
           keep == max - Len(system)
<1>1. TurnsDiffer(q) /\ \A k \in 1..Len(q) : q[k].turn <= last
  BY DEF TurnsUpTo
<1>2. system \in Seq(Message) /\ \A x \in 1..Len(system) : system[x].role = "system"
  BY SystemPicked
<1>3. ASSUME NEW P
      PROVE  Picked(q, P) \in Seq(Message) /\ TurnsUpTo(Picked(q, P), last)
  <2>1. TurnsDiffer(Picked(q, P))
    BY <1>1, PickedTurnsDiffer
  <2>2. \A x \in 1..Len(Picked(q, P)) : \E k \in 1..Len(q) : Picked(q, P)[x] = q[k]
    BY PickedTyping
  <2>3. Picked(q, P) \in Seq(Message)
    BY PickedTyping
  <2> QED
    BY <1>1, <2>1, <2>2, <2>3 DEF TurnsUpTo
<1>4. TurnsUpTo(system, last)
  BY <1>3
<1>5. rest \in Seq(Message) /\ TurnsUpTo(rest, last)
  BY <1>3
<1>6. CASE max <= 0 \/ Len(q) <= max
  BY <1>6 DEF trimHistory
<1>7. CASE ~ (max <= 0 \/ Len(q) <= max) /\ keep <= 0
  <2>1. trimHistory(q, max) = system
    BY <1>7 DEF trimHistory
  <2> QED
    BY <1>4, <2>1
<1>8. CASE ~ (max <= 0 \/ Len(q) <= max) /\ ~ (keep <= 0)
  <2> DEFINE from == KeptFrom(rest, keep)
             kept == SubSeq(rest, from, Len(rest))
  <2>1. trimHistory(q, max) = system \o kept
    BY <1>8 DEF trimHistory
  <2>2. Len(rest) # 0
    <3>1. Len(system) \in Nat /\ Len(rest) \in Nat /\ Len(q) \in Nat
      BY <1>2, <1>5
    <3>2. Len(system) + Len(rest) = Len(q)
      <4>1. \A k \in 1..Len(q) : k \in Others <=> k \notin SystemAt(q)
        OBVIOUS
      <4> HIDE DEF Others
      <4> QED
        BY <4>1, PickedOrLeft
    <3>3. Len(system) < max /\ max < Len(q)
      <4> HIDE DEF system
      <4> QED
        BY <1>8, <3>1
    <3> HIDE DEF system, rest
    <3> QED
      BY <3>1, <3>2, <3>3
  <2> HIDE DEF system, rest, keep
  <2>3. from \in 1..Len(rest)
    <3>1. rest # <<>>
      BY <2>2
    <3>2. from \in groupTurns(rest)
      BY <1>5, <3>1, KeptFromGroup
    <3> QED
      BY <1>5, <3>2 DEF groupTurns
  <2> HIDE DEF from
  <2>4. /\ kept \in Seq(Message) /\ Len(kept) = Len(rest) - from + 1
        /\ \A x \in 1..Len(kept) : kept[x] = rest[from + x - 1] /\ from + x - 1 \in 1..Len(rest)
    BY <1>5, <2>3
  <2>5. TurnsDiffer(kept)
    BY <1>5, <2>3, TailTurnsDiffer DEF TurnsUpTo
  <2> HIDE DEF kept
  <2>6. TurnsDiffer(system \o kept)
    BY <1>2, <2>4, <2>5, FrontTurnsDiffer
  <2>7. \A x \in 1..Len(kept) : kept[x].turn <= last
    BY <1>5, <2>4 DEF TurnsUpTo
  <2>8. \A x \in 1..Len(system \o kept) : (system \o kept)[x].turn <= last
    <3>1. /\ Len(system) \in Nat /\ Len(kept) \in Nat /\ Len(system \o kept) = Len(system) + Len(kept)
          /\ \A x \in 1..Len(system) : (system \o kept)[x] = system[x]
          /\ \A x \in 1..Len(kept) : (system \o kept)[Len(system) + x] = kept[x]
      BY <1>2, <2>4, ConcatProperties
    <3> SUFFICES ASSUME NEW x \in 1..Len(system \o kept)
                 PROVE  (system \o kept)[x].turn <= last
      OBVIOUS
    <3>2. CASE x \in 1..Len(system)
      BY <1>4, <3>1, <3>2 DEF TurnsUpTo
    <3>3. CASE x \notin 1..Len(system)
      <4>1. x - Len(system) \in 1..Len(kept) /\ Len(system) + (x - Len(system)) = x
        BY <3>1, <3>3
      <4> QED
        BY <2>7, <3>1, <4>1
    <3> QED
      BY <3>2, <3>3
  <2> QED
    BY <2>1, <2>6, <2>8 DEF TurnsUpTo
<1> QED
  BY <1>6, <1>7, <1>8

\* What every adapter makes of a conversation that a provider accepts and
\* whose turns differ (helpers.go:231-551, ollama.go:34-63, cohere.go:485-527).
LEMMA ConvertPairs ==
    ASSUME NEW adapter, NEW q \in Seq(Message), WellFormed(q), TurnsDiffer(q)
    PROVE  Paired(adapter, Convert(adapter, adapter, q))
<1> DEFINE system == Picked(q, SystemAt(q))
           rest == Picked(q, DOMAIN q \ SystemAt(q))
           ordered == IF Apart(adapter) THEN ExtractSystem(q) \o rest ELSE q
<1>1. ordered \in Seq(Message) /\ WellFormed(ordered) /\ TurnsDiffer(ordered)
  <2>1. CASE Apart(adapter)
    <3>1. system \in Seq(Message) /\ \A x \in 1..Len(system) : system[x].role = "system"
      BY SystemPicked
    <3>2. rest \in Seq(Message) /\ WellFormed(rest) /\ TurnsDiffer(rest)
      <4> DEFINE Others == DOMAIN q \ SystemAt(q)
      <4>1. \A k \in 1..Len(q) : IsToolTurn(q[k]) \/ q[k].role = "tool" => k \in Others
        BY DEF SystemAt, IsToolTurn
      <4>2. rest = Picked(q, Others)
        OBVIOUS
      <4> HIDE DEF Others, rest
      <4> QED
        BY <4>1, <4>2, PickedTyping, PickedIsWellFormed, PickedTurnsDiffer
    <3>3. ordered = system \o rest
      BY <2>1 DEF ExtractSystem
    <3> HIDE DEF system, rest
    <3>4. system \o rest \in Seq(Message)
      BY <3>1, <3>2, ConcatProperties
    <3>5. WellFormed(system \o rest)
      BY <3>1, <3>2, SystemInFront
    <3>6. TurnsDiffer(system \o rest)
      BY <3>1, <3>2, FrontTurnsDiffer
    <3> QED
      BY <3>3, <3>4, <3>5, <3>6
  <2>2. CASE ~ Apart(adapter)
    BY <2>2
  <2> QED
    BY <2>1, <2>2
<1>2. Convert(adapter, adapter, q)
         = FlattenSeq([k \in DOMAIN ordered |-> Items(adapter, adapter, ordered[k])])
  BY DEF Convert
<1> HIDE DEF ordered
<1>3. Paired(adapter, FlattenSeq([k \in DOMAIN ordered |-> Items(adapter, adapter, ordered[k])]))
  BY <1>1, PairedInOrder
<1> QED
  BY <1>2, <1>3

\* A turn after the others.
LEMMA LaterTurn ==
    ASSUME NEW q \in Seq(Message), NEW last \in Int, TurnsUpTo(q, last), NEW n \in Nat
    PROVE  TurnsUpTo(Append(q, AssistantMessage(last + 1, n)), last + 1)
<1> DEFINE m == AssistantMessage(last + 1, n)
           r == Append(q, m)
<1>1. m \in Message /\ m.turn = last + 1
  BY DEF AssistantMessage, Message
<1> HIDE DEF m
<1>2. /\ r \in Seq(Message) /\ Len(q) \in Nat /\ Len(r) = Len(q) + 1
      /\ \A k \in 1..Len(q) : r[k] = q[k]
      /\ r[Len(q) + 1] = m
  BY <1>1
<1>3. \A k \in 1..Len(q) : q[k] \in Message
  OBVIOUS
<1>4. \A k \in 1..Len(q) : q[k].turn <= last /\ q[k].turn \in Int
  BY <1>3 DEF TurnsUpTo, Message
<1>5. TurnsDiffer(q)
  BY DEF TurnsUpTo
<1> HIDE DEF r
<1>6. \A k \in 1..Len(r) : k \in 1..Len(q) \/ k = Len(q) + 1
  BY <1>2
<1>7. \A k \in 1..Len(q) : r[k].turn <= last /\ r[k].turn \in Int
  BY <1>2, <1>4
<1>8. \A k \in 1..Len(r) : r[k].turn <= last + 1
  BY <1>1, <1>2, <1>6, <1>7
<1>9. ASSUME NEW j \in 1..Len(r), NEW k \in 1..Len(r),
             IsToolTurn(r[j]), IsToolTurn(r[k]), r[j].turn = r[k].turn
      PROVE  j = k
  <2>1. CASE j \in 1..Len(q) /\ k \in 1..Len(q)
    <3>1. r[j] = q[j] /\ r[k] = q[k]
      BY <1>2, <2>1
    <3> QED
      BY <1>5, <1>9, <2>1, <3>1, TurnsDifferByPlace
  <2>2. CASE j \in 1..Len(q) /\ k = Len(q) + 1
    BY <1>1, <1>2, <1>7, <1>9, <2>2
  <2>3. CASE k \in 1..Len(q) /\ j = Len(q) + 1
    BY <1>1, <1>2, <1>7, <1>9, <2>3
  <2> QED
    BY <1>6, <2>1, <2>2, <2>3
<1>10. TurnsDiffer(r)
  BY <1>2, <1>9, TurnsDifferByPlace
<1>11. TurnsUpTo(r, last + 1)
  BY <1>8, <1>10 DEF TurnsUpTo
<1> QED
  BY <1>11 DEF r, m

\* The results of the last turn are no turn of their own.
LEMMA ResultsOfTurn ==
    ASSUME NEW q \in Seq(Message), NEW last \in Int, TurnsUpTo(q, last), NEW n \in Nat
    PROVE  TurnsUpTo(q \o [i \in 1..n |-> ToolResultMessage(last, i)], last)
<1> DEFINE s == [i \in 1..n |-> ToolResultMessage(last, i)]
           r == q \o s
<1>1. \A i \in 1..n : ToolResultMessage(last, i) \in Message
  BY DEF ToolResultMessage, Message
<1>2. s \in Seq(Message) /\ Len(s) = n /\ \A i \in 1..Len(s) : s[i] = ToolResultMessage(last, i)
  BY <1>1
<1>3. ASSUME NEW i \in 1..Len(s)
      PROVE  s[i].turn = last /\ ~ IsToolTurn(s[i])
  <2>1. s[i] = ToolResultMessage(last, i)
    BY <1>2
  <2> HIDE DEF s
  <2> QED
    BY <2>1 DEF ToolResultMessage, IsToolTurn
<1> HIDE DEF s
<1>4. /\ r \in Seq(Message) /\ Len(q) \in Nat /\ Len(s) \in Nat /\ Len(r) = Len(q) + Len(s)
      /\ \A k \in 1..Len(q) : r[k] = q[k]
      /\ \A k \in 1..Len(s) : r[Len(q) + k] = s[k]
  <2>1. s \in Seq(Message)
    BY <1>2
  <2> QED
    BY <2>1, ConcatProperties
<1>5. TurnsDiffer(q) /\ \A k \in 1..Len(q) : q[k].turn <= last
  BY DEF TurnsUpTo
<1> HIDE DEF r
<1>6. ASSUME NEW k \in 1..Len(r), k \notin 1..Len(q)
      PROVE  r[k].turn = last /\ ~ IsToolTurn(r[k])
  <2>1. k - Len(q) \in 1..Len(s) /\ Len(q) + (k - Len(q)) = k
    BY <1>4, <1>6
  <2> QED
    BY <1>3, <1>4, <2>1
<1>7. \A k \in 1..Len(r) : r[k].turn <= last
  BY <1>4, <1>5, <1>6
<1>8. ASSUME NEW j \in 1..Len(r), NEW k \in 1..Len(r),
             IsToolTurn(r[j]), IsToolTurn(r[k]), r[j].turn = r[k].turn
      PROVE  j = k
  <2>1. j \in 1..Len(q) /\ k \in 1..Len(q)
    BY <1>6, <1>8
  <2>2. r[j] = q[j] /\ r[k] = q[k]
    BY <1>4, <2>1
  <2> QED
    BY <1>5, <1>8, <2>1, <2>2, TurnsDifferByPlace
<1>9. TurnsDiffer(r)
  BY <1>4, <1>8, TurnsDifferByPlace
<1>10. TurnsUpTo(r, last)
  BY <1>7, <1>9 DEF TurnsUpTo
<1> QED
  BY <1>10 DEF r, s
-----------------------------------------------------------------------------
(* The invariant *)

\* What the assumption says of the bounds and of the caller's choices.
LEMMA Bounds ==
    /\ MaxCalls \in Nat \ {0} /\ MaxPieces \in Nat
    /\ \A cfg \in Configs : cfg.maxIterations \in Nat \ {0} /\ cfg.maxHistoryMessages \in Nat
    /\ \A h \in Histories : h \in Seq(Message) /\ WellFormed(h)
<1>1. MaxCalls \in Nat \ {0} /\ MaxPieces \in Nat
  BY AgentAssumption
<1>2. \A cfg \in Configs : cfg \in ConfigType
  BY AgentAssumption
<1>3. \A cfg \in ConfigType : cfg.maxIterations \in Nat \ {0} /\ cfg.maxHistoryMessages \in Nat
  BY DEF ConfigType
<1>4. \A h \in Histories : h \in Seq(Message) /\ WellFormed(h)
  BY AgentAssumption
<1> QED
  BY <1>1, <1>2, <1>3, <1>4

\* The numbers a state is made of.
LEMMA Numbers ==
    ASSUME TypeOK
    PROVE  /\ iteration \in Nat /\ config.maxIterations \in Nat /\ config.maxHistoryMessages \in Nat
           /\ answer \in Int /\ answer <= MaxCalls /\ answer >= -1
           /\ firstErr \in Nat /\ firstErr <= MaxCalls
<1>1. config.maxIterations \in Nat /\ config.maxHistoryMessages \in Nat
  BY Bounds DEF TypeOK
<1>2. iteration \in 0..config.maxIterations /\ answer \in Unanswered..MaxCalls
      /\ firstErr \in 0..MaxCalls
  BY DEF TypeOK
<1> QED
  BY <1>1, <1>2, Bounds DEF Unanswered

\* A run starts with the caller's history and no tool called.
LEMMA InitIInv == Init => IInv
<1> SUFFICES ASSUME Init
             PROVE  IInv
  OBVIOUS
<1>1. /\ config \in Configs /\ config.maxIterations \in Nat /\ iteration = 0
      /\ msgs \in Seq(Message) /\ WellFormed(msgs)
  BY Bounds DEF Init
<1>2. TypeOK
  <2>1. iteration \in 0..config.maxIterations /\ answer \in Unanswered..MaxCalls
    BY <1>1, Bounds DEF Init, Unanswered
  <2>2. pieces \in 0..MaxPieces /\ delivered \in 0..(2 * pieces) /\ firstErr \in 0..MaxCalls
    BY Bounds DEF Init
  <2>3. tool \in [Calls -> {"idle", "running", "failed", "ok", "over"}]
    BY DEF Init
  <2>4. aborted \in [Calls -> BOOLEAN]
    BY DEF Init
  <2> QED
    BY <1>1, <2>1, <2>2, <2>3, <2>4 DEF Init, TypeOK
<1>3. ConversationOpen /\ OnlyStartedRun /\ InSequence
  BY <1>1 DEF Init, ConversationOpen, OnlyStartedRun, InSequence
<1>4. ErrorIsRecorded /\ NoToolLeftRunning /\ FirstErrorIsTheCause
  BY DEF Init, ErrorIsRecorded, NoToolLeftRunning, FirstErrorIsTheCause
<1> QED
  BY <1>2, <1>3, <1>4 DEF IInv

\* The model's answer ends the run or opens a tool turn.
LEMMA AnsweredIInv ==
    ASSUME IInv, pc = "model", NEW n \in 0..MaxCalls, Answered(n), n # 0 => answer' = n,
           answer' \in Unanswered..MaxCalls,
           pieces' \in 0..MaxPieces, delivered' \in 0..(2 * pieces'),
           UNCHANGED <<iteration, cancelled, history, config>>
    PROVE  IInv'
<1> USE DEF IInv
<1>1. TypeOK /\ WellFormed(msgs) /\ iteration \in Nat /\ MaxCalls \in Nat
  BY Numbers, Bounds DEF ConversationOpen
<1>2. CASE n = 0
  <2>1. /\ pc' = "ended" /\ event' = "done" /\ msgs' = msgs
        /\ tool' = tool /\ aborted' = aborted /\ firstErr' = firstErr
    BY <1>2 DEF Answered, End, toolVars
  <2>2. TypeOK'
    BY <1>1, <2>1 DEF TypeOK
  <2>3. ConversationOpen' /\ OnlyStartedRun' /\ InSequence'
    BY <2>1 DEF ConversationOpen, OnlyStartedRun, InSequence
  <2>4. ErrorIsRecorded' /\ NoToolLeftRunning' /\ FirstErrorIsTheCause'
    BY <2>1 DEF ErrorIsRecorded, NoToolLeftRunning, FirstErrorIsTheCause
  <2> QED
    BY <2>2, <2>3, <2>4
<1>3. CASE n # 0
  <2>1. /\ pc' = "tools" /\ event' = event /\ msgs' = Append(msgs, AssistantMessage(iteration, n))
        /\ tool' = [i \in Calls |-> "idle"]
        /\ aborted' = [i \in Calls |-> FALSE]
        /\ firstErr' = 0
    BY <1>3 DEF Answered
  <2>2. answer' = n /\ n \in Calls
    BY <1>3 DEF Calls
  <2>3. AssistantMessage(iteration, n) \in Message
    BY <1>1 DEF AssistantMessage, Message
  <2>4. msgs \in Seq(Message) /\ msgs' \in Seq(Message)
    BY <1>1, <2>1, <2>3 DEF TypeOK
  <2>5. TypeOK'
    <3>1. tool' \in [Calls -> {"idle", "running", "failed", "ok", "over"}]
      BY <2>1
    <3>2. aborted' \in [Calls -> BOOLEAN] /\ firstErr' \in 0..MaxCalls
      BY <1>1, <2>1
    <3> QED
      BY <1>1, <2>1, <2>4, <3>1, <3>2 DEF TypeOK
  <2>6. ConversationOpen'
    BY <1>1, <2>1, <2>2, <2>4 DEF ConversationOpen, Calls
  <2>7. OnlyStartedRun' /\ InSequence'
    BY <2>1 DEF OnlyStartedRun, InSequence, Calls
  <2>8. ErrorIsRecorded' /\ NoToolLeftRunning' /\ FirstErrorIsTheCause'
    BY <2>1 DEF ErrorIsRecorded, NoToolLeftRunning, FirstErrorIsTheCause, Calls
  <2> QED
    BY <2>5, <2>6, <2>7, <2>8
<1> QED
  BY <1>2, <1>3

\* Ending the run, when no tool runs, leaves only what must hold at the end.
LEMMA EndIInv ==
    ASSUME IInv, pc' = "ended", event' \in {"none", "done", "error"},
           \A i \in Calls : tool[i] \notin {"running", "failed"},
           UNCHANGED <<msgs, iteration, streamVars, toolVars, cancelled, history, config>>
    PROVE  IInv'
<1> USE DEF IInv
<1>1. /\ tool' = tool /\ aborted' = aborted /\ firstErr' = firstErr /\ cancelled' = cancelled
      /\ answer' = answer /\ pieces' = pieces /\ delivered' = delivered /\ msgs' = msgs
      /\ iteration' = iteration /\ history' = history /\ config' = config
  BY DEF streamVars, toolVars
<1>2. TypeOK'
  BY <1>1 DEF TypeOK
<1>3. ConversationOpen' /\ OnlyStartedRun' /\ InSequence'
  BY DEF ConversationOpen, OnlyStartedRun, InSequence
<1>4. ErrorIsRecorded' /\ NoToolLeftRunning' /\ FirstErrorIsTheCause'
  BY <1>1 DEF ErrorIsRecorded, NoToolLeftRunning, FirstErrorIsTheCause, Calls
<1> QED
  BY <1>2, <1>3, <1>4

LEMMA AskIInv == IInv /\ Ask => IInv'
<1> USE DEF IInv
<1> SUFFICES ASSUME IInv, Ask
             PROVE  IInv'
  OBVIOUS
<1>1. /\ TypeOK /\ pc = "ask" /\ WellFormed(msgs)
      /\ \A i \in Calls : tool[i] \notin {"running", "failed"}
  BY DEF Ask, ConversationOpen, NoToolLeftRunning
<1>2. CASE iteration < config.maxIterations
  <2>1. /\ msgs' = trimHistory(msgs, config.maxHistoryMessages)
        /\ iteration' = iteration + 1 /\ answer' = Unanswered /\ pc' = "model" /\ event' = event
        /\ pieces' = pieces /\ delivered' = delivered /\ tool' = tool /\ aborted' = aborted
        /\ firstErr' = firstErr /\ cancelled' = cancelled /\ history' = history /\ config' = config
    BY <1>2 DEF Ask, toolVars
  <2>2. msgs \in Seq(Message)
    BY <1>1 DEF TypeOK
  <2>3. config.maxHistoryMessages \in Nat /\ config.maxIterations \in Nat /\ iteration \in Nat
    BY <1>1, Numbers
  <2>4. msgs' \in Seq(Message) /\ WellFormed(msgs)'
    BY <1>1, <2>1, <2>2, <2>3, TrimmedIsWellFormed
  <2>5. iteration' \in 0..config'.maxIterations /\ answer' \in Unanswered..MaxCalls
    BY <1>2, <2>1, <2>3, Bounds DEF Unanswered
  <2>6. TypeOK'
    BY <1>1, <2>1, <2>4, <2>5 DEF TypeOK
  <2>7. ConversationOpen' /\ OnlyStartedRun' /\ InSequence'
    BY <2>1, <2>4 DEF ConversationOpen, OnlyStartedRun, InSequence
  <2>8. ErrorIsRecorded' /\ NoToolLeftRunning' /\ FirstErrorIsTheCause'
    BY <1>1, <2>1 DEF ErrorIsRecorded, NoToolLeftRunning, FirstErrorIsTheCause, Calls
  <2> QED
    BY <2>6, <2>7, <2>8
<1>3. CASE ~ (iteration < config.maxIterations)
  <2>1. /\ pc' = "ended" /\ event' = "error"
        /\ UNCHANGED <<msgs, iteration, streamVars, toolVars, cancelled, history, config>>
    BY <1>3 DEF Ask, End, streamVars
  <2> QED
    BY <1>1, <2>1, EndIInv
<1> QED
  BY <1>2, <1>3

LEMMA ModelIInv == IInv /\ Model => IInv'
<1> SUFFICES ASSUME IInv, Model
             PROVE  IInv'
  OBVIOUS
<1>1. TypeOK /\ pc = "model" /\ \A i \in Calls : tool[i] \notin {"running", "failed"}
  <2>1. pc = "model"
    BY DEF Model, ModelFails, ModelAnswers, ReadErrorChunk, SendGivesUp, StreamCloses, ReadChunk
  <2> QED
    BY <2>1 DEF IInv, NoToolLeftRunning
<1>2. CASE ModelFails \/ ReadErrorChunk \/ SendGivesUp
  <2>1. /\ pc' = "ended" /\ event' \in {"none", "done", "error"}
        /\ UNCHANGED <<msgs, iteration, streamVars, toolVars, cancelled, history, config>>
    BY <1>1, <1>2 DEF ModelFails, ReadErrorChunk, SendGivesUp, End, TypeOK
  <2> QED
    BY <1>1, <2>1, EndIInv
<1>3. CASE ModelAnswers
  <2>1. PICK n \in 0..MaxCalls : answer' = n /\ Answered(n)
    BY <1>3 DEF ModelAnswers
  <2>2. /\ pieces' = pieces /\ delivered' = delivered
        /\ UNCHANGED <<iteration, cancelled, history, config>>
    BY <1>3 DEF ModelAnswers
  <2>3. answer' \in Unanswered..MaxCalls
    BY <2>1, Bounds DEF Unanswered
  <2>4. pieces' \in 0..MaxPieces /\ delivered' \in 0..(2 * pieces')
    BY <1>1, <2>2 DEF TypeOK
  <2> QED
    BY <1>1, <2>1, <2>2, <2>3, <2>4, AnsweredIInv
<1>4. CASE StreamCloses
  <2> DEFINE n == IF answer = Unanswered THEN 0 ELSE answer
  <2>1. Answered(n) /\ UNCHANGED <<iteration, streamVars, cancelled, history, config>>
    BY <1>4 DEF StreamCloses
  <2>2. answer' = answer /\ pieces' = pieces /\ delivered' = delivered
    BY <2>1 DEF streamVars
  <2>3. n \in 0..MaxCalls /\ (n # 0 => answer' = n)
    <3>1. answer \in Int /\ answer <= MaxCalls /\ answer >= -1 /\ MaxCalls \in Nat
      BY <1>1, Numbers, Bounds
    <3> QED
      BY <2>2, <3>1 DEF Unanswered
  <2>4. pieces' \in 0..MaxPieces /\ delivered' \in 0..(2 * pieces') /\ answer' \in Unanswered..MaxCalls
    BY <1>1, <2>2 DEF TypeOK
  <2> HIDE DEF n
  <2> QED
    BY <1>1, <2>1, <2>3, <2>4, AnsweredIInv
<1>5. ASSUME NEW kind \in Chunks, ReadChunk(kind)
      PROVE  IInv'
  <2>1. /\ UNCHANGED <<msgs, iteration, pc, toolVars, cancelled, event, history, config>>
        /\ answer' \in 0..MaxCalls \/ answer' = answer
    BY <1>5 DEF ReadChunk
  <2>2. /\ pc' = pc /\ msgs' = msgs /\ iteration' = iteration /\ event' = event
        /\ tool' = tool /\ aborted' = aborted /\ firstErr' = firstErr
        /\ cancelled' = cancelled /\ history' = history /\ config' = config
    BY <2>1 DEF toolVars
  <2>3. answer' \in Unanswered..MaxCalls
    <3>1. answer \in Unanswered..MaxCalls
      BY <1>1 DEF TypeOK
    <3> QED
      BY <2>1, <3>1, Bounds DEF Unanswered
  <2>4. pieces' \in 0..MaxPieces /\ delivered' \in 0..(2 * pieces')
    <3>1. pieces \in 0..MaxPieces /\ delivered \in 0..(2 * pieces) /\ MaxPieces \in Nat
      BY <1>1, Bounds DEF TypeOK
    <3>2. CASE HasText(kind)
      <4>1. /\ pieces < MaxPieces /\ pieces' = pieces + 1
            /\ delivered' = delivered + 1 \/ delivered' = delivered + 2
        BY <1>5, <3>2 DEF ReadChunk
      <4> QED
        BY <3>1, <4>1
    <3>3. CASE ~ HasText(kind)
      <4>1. pieces' = pieces + 0 /\ delivered' = delivered + 0
        BY <1>5, <3>3 DEF ReadChunk
      <4> QED
        BY <3>1, <4>1
    <3> QED
      BY <3>2, <3>3
  <2>5. TypeOK'
    BY <1>1, <2>2, <2>3, <2>4 DEF TypeOK
  <2>6. ConversationOpen' /\ OnlyStartedRun' /\ InSequence'
    BY <1>1, <2>2 DEF IInv, ConversationOpen, OnlyStartedRun, InSequence
  <2>7. ErrorIsRecorded' /\ NoToolLeftRunning' /\ FirstErrorIsTheCause'
    BY <2>2 DEF IInv, ErrorIsRecorded, NoToolLeftRunning, FirstErrorIsTheCause, Calls
  <2> QED
    BY <2>5, <2>6, <2>7 DEF IInv
<1> QED
  BY <1>2, <1>3, <1>4, <1>5 DEF Model

\* One step of one tool: what it leaves alone.
LEMMA ToolStepIInv == IInv /\ ToolStep => IInv'
<1> USE DEF IInv
<1> SUFFICES ASSUME IInv, NEW i \in Calls, StartTool(i) \/ ToolReturns(i) \/ CollectError(i)
             PROVE  IInv'
  BY DEF ToolStep
<1>1. /\ pc = "tools" /\ pc' = pc /\ msgs' = msgs /\ iteration' = iteration /\ event' = event
      /\ answer' = answer /\ pieces' = pieces /\ delivered' = delivered
      /\ cancelled' = cancelled /\ history' = history /\ config' = config
  BY DEF StartTool, ToolReturns, CollectError, streamVars
<1>2. /\ TypeOK /\ tool \in [Calls -> {"idle", "running", "failed", "ok", "over"}]
      /\ aborted \in [Calls -> BOOLEAN] /\ firstErr \in 0..MaxCalls /\ MaxCalls \in Nat
      /\ (firstErr # 0 => firstErr \in Calls)
  <2>1. firstErr \in 0..MaxCalls /\ MaxCalls \in Nat
    BY Bounds DEF TypeOK
  <2> QED
    BY <2>1 DEF TypeOK, Calls
<1>3. ConversationOpen' /\ NoToolLeftRunning'
  BY <1>1 DEF ConversationOpen, NoToolLeftRunning
<1>4. CASE StartTool(i)
  <2>1. /\ tool[i] = "idle" /\ i \in Started /\ aborted' = aborted /\ firstErr' = firstErr
        /\ tool' = [tool EXCEPT ![i] = "running"]
        /\ config.disableParallel => \A j \in 1..(i - 1) : tool[j] = "ok"
    BY <1>4 DEF StartTool
  <2>2. TypeOK'
    <3>1. tool' \in [Calls -> {"idle", "running", "failed", "ok", "over"}]
      BY <1>2, <2>1
    <3> QED
      BY <1>1, <1>2, <2>1, <3>1 DEF TypeOK
  <2>3. OnlyStartedRun'
    BY <1>1, <1>2, <2>1 DEF OnlyStartedRun, Started
  <2>4. InSequence'
    <3> SUFFICES ASSUME config.disableParallel, NEW k \in Calls, tool'[k] # "idle",
                        NEW j \in 1..(k - 1)
                 PROVE  tool'[j] = "ok"
      BY <1>1 DEF InSequence
    <3>1. j \in Calls
      BY <1>2 DEF Calls
    <3>2. tool[j] = "ok"
      <4>1. CASE k = i
        BY <2>1, <4>1
      <4>2. CASE k # i
        <5>1. tool[k] # "idle"
          BY <1>2, <2>1, <4>2
        <5> QED
          BY <1>1, <5>1 DEF InSequence
      <4> QED
        BY <4>1, <4>2
    <3> QED
      BY <1>2, <2>1, <3>1, <3>2
  <2>5. ErrorIsRecorded' /\ FirstErrorIsTheCause'
    BY <1>1, <1>2, <2>1 DEF ErrorIsRecorded, FirstErrorIsTheCause
  <2> QED
    BY <1>3, <2>2, <2>3, <2>4, <2>5
<1>5. CASE ToolReturns(i)
  <2>1. PICK r \in {"ok", "failed"} : tool' = [tool EXCEPT ![i] = r]
    BY <1>5 DEF ToolReturns
  <2>2. /\ tool[i] = "running" /\ firstErr' = firstErr
        /\ \/ aborted' = aborted
           \/ (cancelled \/ firstErr # 0) /\ aborted' = [aborted EXCEPT ![i] = TRUE]
    BY <1>5 DEF ToolReturns, ToolContextDone
  <2>3. TypeOK'
    <3>1. tool' \in [Calls -> {"idle", "running", "failed", "ok", "over"}]
      BY <1>2, <2>1
    <3>2. aborted' \in [Calls -> BOOLEAN]
      BY <1>2, <2>2
    <3> QED
      BY <1>1, <1>2, <2>2, <3>1, <3>2 DEF TypeOK
  <2>4. OnlyStartedRun'
    BY <1>1, <1>2, <2>1, <2>2 DEF OnlyStartedRun, Started
  <2>5. InSequence'
    <3> SUFFICES ASSUME config.disableParallel, NEW k \in Calls, tool'[k] # "idle",
                        NEW j \in 1..(k - 1)
                 PROVE  tool'[j] = "ok"
      BY <1>1 DEF InSequence
    <3>1. j \in Calls
      BY <1>2 DEF Calls
    <3>2. tool[k] # "idle"
      BY <1>2, <2>1, <2>2
    <3>3. tool[j] = "ok"
      BY <1>1, <3>2 DEF InSequence
    <3> QED
      BY <1>2, <2>1, <2>2, <3>1, <3>3
  <2>6. firstErr # 0 => firstErr # i /\ tool'[firstErr] = "over" /\ aborted'[firstErr] = aborted[firstErr]
    <3>1. firstErr # 0 => tool[firstErr] = "over"
      BY DEF ErrorIsRecorded
    <3>2. firstErr # 0 => firstErr # i
      BY <2>2, <3>1
    <3> QED
      BY <1>2, <2>1, <2>2, <3>1, <3>2
  <2>7. ErrorIsRecorded' /\ FirstErrorIsTheCause'
    BY <1>1, <1>2, <2>2, <2>6 DEF ErrorIsRecorded, FirstErrorIsTheCause
  <2> QED
    BY <1>3, <2>3, <2>4, <2>5, <2>7
<1>6. CASE CollectError(i)
  <2>1. /\ tool[i] = "failed" /\ aborted' = aborted
        /\ tool' = [tool EXCEPT ![i] = "over"]
        /\ firstErr' = IF firstErr = 0 THEN i ELSE firstErr
    BY <1>6 DEF CollectError
  <2>2. TypeOK'
    <3>1. tool' \in [Calls -> {"idle", "running", "failed", "ok", "over"}]
      BY <1>2, <2>1
    <3>2. firstErr' \in 0..MaxCalls
      BY <1>2, <2>1 DEF Calls
    <3> QED
      BY <1>1, <1>2, <2>1, <3>1, <3>2 DEF TypeOK
  <2>3. OnlyStartedRun'
    BY <1>1, <1>2, <2>1 DEF OnlyStartedRun, Started
  <2>4. InSequence'
    <3> SUFFICES ASSUME config.disableParallel, NEW k \in Calls, tool'[k] # "idle",
                        NEW j \in 1..(k - 1)
                 PROVE  tool'[j] = "ok"
      BY <1>1 DEF InSequence
    <3>1. j \in Calls
      BY <1>2 DEF Calls
    <3>2. tool[k] # "idle"
      BY <1>2, <2>1
    <3>3. tool[j] = "ok"
      BY <1>1, <3>2 DEF InSequence
    <3> QED
      BY <1>2, <2>1, <3>1, <3>3
  <2>5. firstErr' \in Calls /\ tool'[firstErr'] = "over"
    <3>1. CASE firstErr = 0
      BY <1>2, <2>1, <3>1
    <3>2. CASE firstErr # 0
      BY <1>2, <2>1, <3>2 DEF ErrorIsRecorded
    <3> QED
      BY <3>1, <3>2
  <2>6. ErrorIsRecorded'
    BY <2>5 DEF ErrorIsRecorded, Calls
  <2>7. FirstErrorIsTheCause'
    <3>1. CASE firstErr = 0
      BY <1>1, <2>1, <3>1 DEF ErrorIsRecorded, FirstErrorIsTheCause
    <3>2. CASE firstErr # 0
      BY <1>1, <2>1, <3>2 DEF FirstErrorIsTheCause
    <3> QED
      BY <3>1, <3>2
  <2> QED
    BY <1>3, <2>2, <2>3, <2>4, <2>6, <2>7
<1> QED
  BY <1>4, <1>5, <1>6

\* When dispatchTools returns, no tool is behind it: of tools that run one
\* after the other, none follows the one that failed (agent.go:301-363).
LEMMA NothingBehindDispatch ==
    ASSUME IInv, DispatchReturns
    PROVE  \A i \in Calls : tool[i] \notin {"running", "failed"}
<1> USE DEF IInv
<1> SUFFICES ASSUME NEW i \in Calls, tool[i] \in {"running", "failed"}
             PROVE  FALSE
  OBVIOUS
<1>1. pc = "tools" /\ i \in Started
  BY DEF DispatchReturns, OnlyStartedRun
<1>2. config.disableParallel /\ firstErr # 0
  BY <1>1 DEF DispatchReturns
<1>3. firstErr \in Calls /\ tool[firstErr] = "over" /\ i \in Nat /\ firstErr \in Nat
  <2>1. firstErr \in 0..MaxCalls /\ MaxCalls \in Nat
    BY Bounds DEF TypeOK
  <2> QED
    BY <1>2, <2>1 DEF Calls, ErrorIsRecorded
<1>4. CASE firstErr < i
  <2>1. tool[i] # "idle" /\ firstErr \in 1..(i - 1)
    BY <1>3, <1>4 DEF Calls
  <2>2. tool[firstErr] = "ok"
    BY <1>1, <1>2, <2>1 DEF InSequence
  <2> QED
    BY <1>3, <2>2
<1>5. CASE i < firstErr
  <2>1. tool[firstErr] # "idle" /\ i \in 1..(firstErr - 1)
    BY <1>3, <1>5 DEF Calls
  <2>2. tool[i] = "ok"
    BY <1>1, <1>2, <1>3, <2>1 DEF InSequence
  <2> QED
    BY <2>2
<1> QED
  BY <1>3, <1>4, <1>5

LEMMA DispatchIInv == IInv /\ DispatchReturns => IInv'
<1> SUFFICES ASSUME IInv, DispatchReturns
             PROVE  IInv'
  OBVIOUS
<1>1. \A i \in Calls : tool[i] \notin {"running", "failed"}
  BY NothingBehindDispatch
<1>2. CASE firstErr # 0
  <2>1. /\ pc' = "ended" /\ event' = "error"
        /\ UNCHANGED <<msgs, iteration, streamVars, toolVars, cancelled, history, config>>
    BY <1>2 DEF DispatchReturns, End
  <2> QED
    BY <1>1, <2>1, EndIInv
<1>3. CASE firstErr = 0
  <2> USE DEF IInv
  <2>1. /\ msgs' = msgs \o [i \in Started |-> ToolResultMessage(iteration, i)]
        /\ pc = "tools" /\ pc' = "ask" /\ event' = event /\ iteration' = iteration
        /\ tool' = tool /\ aborted' = aborted /\ firstErr' = firstErr /\ cancelled' = cancelled
        /\ answer' = answer /\ pieces' = pieces /\ delivered' = delivered
        /\ history' = history /\ config' = config
    BY <1>3 DEF DispatchReturns, streamVars, toolVars
  <2>2. PICK before \in Seq(Message) :
           WellFormed(before) /\ msgs = Append(before, AssistantMessage(iteration, answer))
    BY <2>1 DEF ConversationOpen
  <2>3. answer \in Nat \ {0} /\ iteration \in Nat
    <3>1. answer \in Calls /\ iteration \in Nat
      BY <2>1, Numbers DEF ConversationOpen
    <3> QED
      BY <3>1, Bounds DEF Calls
  <2>4. msgs' \in Seq(Message) /\ WellFormed(msgs)'
    <3>1. msgs' = Append(before, AssistantMessage(iteration, answer))
                      \o [i \in 1..answer |-> ToolResultMessage(iteration, i)]
      BY <2>1, <2>2 DEF Started
    <3>2. WellFormed(msgs') /\ msgs' \in Seq(Message)
      BY <2>2, <2>3, <3>1, ResultsComplete
    <3> QED
      BY <3>2
  <2>5. TypeOK'
    BY <2>1, <2>4 DEF TypeOK
  <2>6. ConversationOpen' /\ OnlyStartedRun' /\ InSequence'
    BY <2>1, <2>4 DEF ConversationOpen, OnlyStartedRun, InSequence
  <2>7. ErrorIsRecorded' /\ NoToolLeftRunning' /\ FirstErrorIsTheCause'
    BY <1>1, <2>1 DEF ErrorIsRecorded, NoToolLeftRunning, FirstErrorIsTheCause, Calls
  <2> QED
    BY <2>5, <2>6, <2>7
<1> QED
  BY <1>2, <1>3

\* What follows the loop, and the caller's cancellation, change no invariant:
\* once the context has ended no error is blamed.
LEMMA RestIInv == IInv /\ (SendHistory \/ Cancel \/ UNCHANGED vars) => IInv'
<1> USE DEF IInv
<1> SUFFICES ASSUME IInv, SendHistory \/ Cancel \/ UNCHANGED vars
             PROVE  IInv'
  OBVIOUS
<1>1. /\ pc' = pc /\ msgs' = msgs /\ iteration' = iteration /\ event' = event
      /\ answer' = answer /\ pieces' = pieces /\ delivered' = delivered
      /\ tool' = tool /\ aborted' = aborted /\ firstErr' = firstErr /\ config' = config
      /\ cancelled' = cancelled \/ cancelled' = TRUE
      /\ history' \in {"kept", "sent", "dropped"}
  BY DEF SendHistory, Cancel, vars, streamVars, toolVars, TypeOK
<1>2. TypeOK'
  BY <1>1 DEF TypeOK
<1>3. ConversationOpen' /\ OnlyStartedRun' /\ InSequence'
  BY <1>1 DEF ConversationOpen, OnlyStartedRun, InSequence, Started
<1>4. ErrorIsRecorded' /\ NoToolLeftRunning' /\ FirstErrorIsTheCause'
  BY <1>1 DEF ErrorIsRecorded, NoToolLeftRunning, FirstErrorIsTheCause
<1> QED
  BY <1>2, <1>3, <1>4

LEMMA NextIInv == IInv /\ [Next]_vars => IInv'
BY AskIInv, ModelIInv, ToolStepIInv, DispatchIInv, RestIInv DEF Next

THEOREM Invariance == Spec => []IInv
<1>1. Init => IInv
  BY InitIInv
<1>2. IInv /\ [Next]_vars => IInv'
  BY NextIInv
<1> QED
  BY <1>1, <1>2, PTL DEF Spec
-----------------------------------------------------------------------------
(* The turns of a run *)

\* The tool turns of the conversation are told apart: one that is asked for
\* has a number that no turn before it has.
TurnsInOrder == TurnsUpTo(msgs, IF pc = "model" THEN iteration - 1 ELSE iteration)

\* A run starts with turns of earlier runs only.
LEMMA InitTurns == Init => TurnsInOrder
<1> SUFFICES ASSUME Init
             PROVE  TurnsInOrder
  OBVIOUS
<1>1. msgs \in Histories /\ iteration = 0 /\ pc = "ask"
  BY DEF Init
<1>2. TurnsDiffer(msgs) /\ \A k \in DOMAIN msgs : msgs[k].turn <= 0
  BY <1>1, HistoriesArePast
<1>3. msgs \in Seq(Message)
  BY <1>1, Bounds
<1>4. TurnsUpTo(msgs, 0)
  BY <1>2, <1>3 DEF TurnsUpTo
<1> QED
  BY <1>1, <1>4 DEF TurnsInOrder

\* Every step that adds a turn gives it the number of its iteration.
LEMMA NextTurns == IInv /\ TurnsInOrder /\ [Next]_vars => TurnsInOrder'
<1> SUFFICES ASSUME IInv, TurnsInOrder, [Next]_vars
             PROVE  TurnsInOrder'
  OBVIOUS
<1>1. msgs \in Seq(Message) /\ iteration \in Nat /\ config.maxHistoryMessages \in Nat
  BY Numbers DEF IInv, TypeOK
<1>2. ASSUME pc = "model", msgs' = msgs, iteration' = iteration, pc' \in {"model", "ended"}
      PROVE  TurnsInOrder'
  <2>1. TurnsUpTo(msgs, iteration - 1)
    BY <1>2 DEF TurnsInOrder
  <2>2. TurnsUpTo(msgs, iteration)
    <3>1. \A k \in 1..Len(msgs) : msgs[k] \in Message
      BY <1>1
    <3>2. \A k \in 1..Len(msgs) : msgs[k].turn \in Int
      BY <3>1 DEF Message
    <3> QED
      BY <1>1, <2>1, <3>2 DEF TurnsUpTo
  <2> QED
    BY <1>2, <2>1, <2>2 DEF TurnsInOrder
<1>3. ASSUME pc = "model", NEW n \in 0..MaxCalls, Answered(n), iteration' = iteration
      PROVE  TurnsInOrder'
  <2>1. CASE n = 0
    BY <1>2, <1>3, <2>1 DEF Answered, End
  <2>2. CASE n # 0
    <3>1. msgs' = Append(msgs, AssistantMessage(iteration, n)) /\ pc' = "tools"
      BY <1>3, <2>2 DEF Answered
    <3>2. TurnsUpTo(msgs, iteration - 1)
      BY <1>3 DEF TurnsInOrder
    <3>3. iteration - 1 \in Int /\ (iteration - 1) + 1 = iteration /\ n \in Nat
      BY <1>1, Bounds
    <3>4. TurnsUpTo(Append(msgs, AssistantMessage((iteration - 1) + 1, n)), (iteration - 1) + 1)
      <4> DEFINE last == iteration - 1
      <4>1. last \in Int /\ TurnsUpTo(msgs, last)
        BY <3>2, <3>3
      <4> HIDE DEF last
      <4>2. TurnsUpTo(Append(msgs, AssistantMessage(last + 1, n)), last + 1)
        BY <1>1, <3>3, <4>1, LaterTurn
      <4> QED
        BY <4>2 DEF last
    <3>5. TurnsUpTo(msgs', iteration')
      BY <1>3, <3>1, <3>3, <3>4
    <3> QED
      BY <3>1, <3>5 DEF TurnsInOrder
  <2> QED
    BY <2>1, <2>2
<1>4. ASSUME pc # "model", msgs' = msgs, iteration' = iteration, pc' # "model"
      PROVE  TurnsInOrder'
  BY <1>4 DEF TurnsInOrder
<1>5. CASE Ask
  <2>1. CASE iteration < config.maxIterations
    <3>1. /\ msgs' = trimHistory(msgs, config.maxHistoryMessages)
          /\ iteration' = iteration + 1 /\ pc' = "model" /\ pc = "ask"
      BY <1>5, <2>1 DEF Ask
    <3>2. TurnsUpTo(msgs, iteration)
      BY <3>1 DEF TurnsInOrder
    <3>3. TurnsUpTo(trimHistory(msgs, config.maxHistoryMessages), iteration)
      BY <1>1, <3>2, TrimmedTurnsDiffer
    <3>4. iteration' - 1 = iteration
      BY <1>1, <3>1
    <3>5. TurnsUpTo(msgs', iteration' - 1)
      BY <3>1, <3>3, <3>4
    <3> QED
      BY <3>1, <3>5 DEF TurnsInOrder
  <2>2. CASE ~ (iteration < config.maxIterations)
    BY <1>4, <1>5, <2>2 DEF Ask, End
  <2> QED
    BY <2>1, <2>2
<1>6. CASE Model
  <2>1. CASE ModelFails \/ ReadErrorChunk \/ SendGivesUp
    BY <1>2, <2>1 DEF ModelFails, ReadErrorChunk, SendGivesUp, End
  <2>2. CASE ModelAnswers
    BY <1>3, <2>2 DEF ModelAnswers
  <2>3. CASE StreamCloses
    <3> DEFINE n == IF answer = Unanswered THEN 0 ELSE answer
    <3>1. Answered(n) /\ iteration' = iteration /\ pc = "model"
      BY <2>3 DEF StreamCloses
    <3>2. n \in 0..MaxCalls
      BY Numbers, Bounds DEF IInv, Unanswered
    <3> HIDE DEF n
    <3> QED
      BY <1>3, <3>1, <3>2
  <2>4. ASSUME NEW kind \in Chunks, ReadChunk(kind)
        PROVE  TurnsInOrder'
    BY <1>2, <2>4 DEF ReadChunk
  <2> QED
    BY <1>6, <2>1, <2>2, <2>3, <2>4 DEF Model
<1>7. CASE ToolStep
  <2>1. pc = "tools" /\ pc' = pc /\ msgs' = msgs /\ iteration' = iteration
    BY <1>7 DEF ToolStep, StartTool, ToolReturns, CollectError
  <2> QED
    BY <1>4, <2>1
<1>8. CASE DispatchReturns
  <2>1. CASE firstErr # 0
    BY <1>4, <1>8, <2>1 DEF DispatchReturns, End
  <2>2. CASE firstErr = 0
    <3>1. /\ msgs' = msgs \o [i \in 1..answer |-> ToolResultMessage(iteration, i)]
          /\ pc = "tools" /\ pc' = "ask" /\ iteration' = iteration
      BY <1>8, <2>2 DEF DispatchReturns, Started
    <3>2. answer \in Nat /\ iteration \in Int
      BY <1>1, <3>1, Bounds DEF IInv, ConversationOpen, Calls
    <3>3. TurnsUpTo(msgs, iteration)
      BY <3>1 DEF TurnsInOrder
    <3>4. TurnsUpTo(msgs \o [i \in 1..answer |-> ToolResultMessage(iteration, i)], iteration)
      BY <1>1, <3>2, <3>3, ResultsOfTurn
    <3>5. TurnsUpTo(msgs', iteration')
      BY <3>1, <3>4
    <3> QED
      BY <3>1, <3>5 DEF TurnsInOrder
  <2> QED
    BY <2>1, <2>2
<1>9. CASE SendHistory \/ Cancel \/ UNCHANGED vars
  <2>1. msgs' = msgs /\ iteration' = iteration /\ pc' = pc
    BY <1>9 DEF SendHistory, Cancel, vars
  <2> QED
    BY <2>1 DEF TurnsInOrder
<1> QED
  BY <1>5, <1>6, <1>7, <1>8, <1>9 DEF Next
-----------------------------------------------------------------------------
\* The variables keep their types.
THEOREM TypeCorrect == Spec => []TypeOK
<1>1. IInv => TypeOK
  BY DEF IInv
<1> QED
  BY <1>1, Invariance, PTL

\* Every request the model gets is one a provider accepts, for every history,
\* limit, number of calls and order of results.
THEOREM RequestsValid == Spec => []RequestsAreValid
<1>1. IInv => RequestsAreValid
  BY DEF IInv, ConversationOpen, RequestsAreValid
<1> QED
  BY <1>1, Invariance, PTL

\* The loop never goes on, or returns, with a tool still running.
THEOREM NoToolBehind == Spec => []NoToolLeftRunning
<1>1. IInv => NoToolLeftRunning
  BY DEF IInv
<1> QED
  BY <1>1, Invariance, PTL

\* A tool that failed because another one did is not blamed for the turn.
THEOREM CauseIsBlamed == Spec => []FirstErrorIsTheCause
<1>1. IInv => FirstErrorIsTheCause
  BY DEF IInv
<1> QED
  BY <1>1, Invariance, PTL

\* Every adapter's request pairs each tool result with its call, for every
\* history, limit, number of calls and order in which the tools return: by
\* id, or for Gemini and Ollama by order alone (helpers.go:231-551,
\* ollama.go:34-63, cohere.go:485-527).
THEOREM WirePaired == Spec => []WireIsPaired
<1>1. Init => TurnsInOrder
  BY InitTurns
<1>2. IInv /\ TurnsInOrder /\ [Next]_vars => TurnsInOrder'
  BY NextTurns
<1>3. IInv /\ TurnsInOrder => WireIsPaired
  <2> SUFFICES ASSUME IInv, TurnsInOrder, pc = "model", NEW p \in Adapters
               PROVE  Paired(p, Convert(p, p, msgs))
    BY DEF WireIsPaired
  <2>1. msgs \in Seq(Message) /\ WellFormed(msgs)
    BY DEF IInv, TypeOK, ConversationOpen
  <2>2. TurnsDiffer(msgs)
    BY DEF TurnsInOrder, TurnsUpTo
  <2> QED
    BY <2>1, <2>2, ConvertPairs
<1> QED
  BY <1>1, <1>2, <1>3, Invariance, PTL DEF Spec
=============================================================================
