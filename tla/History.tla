------------------------------ MODULE History ------------------------------
(***************************************************************************)
(* The conversation of an agent, and trimHistory of agent.go.              *)
(*                                                                         *)
(* A message is its role, the number of tool calls it requests and the     *)
(* turn it belongs to; a tool result also has the number of its call.  The *)
(* turns of a run count from 1, those before it have other numbers.        *)
(***************************************************************************)
EXTENDS Integers, Sequences, FiniteSets, SequencesExt

System == [role |-> "system", calls |-> 0, turn |-> 0]
User == [role |-> "user", calls |-> 0, turn |-> 0]
AssistantMessage(turn, calls) == [role |-> "assistant", calls |-> calls, turn |-> turn]
ToolResultMessage(turn, call) == [role |-> "tool", calls |-> call, turn |-> turn]

Message == [role : {"system", "user", "assistant", "tool"}, calls : Nat, turn : Int]

IsToolTurn(m) == m.role = "assistant" /\ m.calls > 0

\* The result at k belongs to the tool turn that only results separate from it.
Attached(msgs, k) ==
    /\ msgs[k].role = "tool"
    /\ \E j \in 1..(k - 1) :
          IsToolTurn(msgs[j]) /\ \A i \in (j + 1)..k : msgs[i].role = "tool"

\* Mutant of groupTurns: every message is a group of its own.
groupTurnsNone(msgs) == DOMAIN msgs

\* The first message of every group: a tool turn with its results, or any
\* other message by itself.
groupTurns(msgs) == {k \in DOMAIN msgs : ~ Attached(msgs, k)}

\* Where the kept part of msgs starts: with the oldest group from which on
\* keep messages are enough, or with the newest group if that alone is larger.
KeptFrom(msgs, keep) ==
    LET fits == {k \in groupTurns(msgs) : Len(msgs) - k + 1 <= keep}
    IN  IF fits # {} THEN Min(fits) ELSE Max(groupTurns(msgs))

\* The messages at the positions in P, in order: a loop that appends them.
Picked(msgs, P) ==
    LET upTo[k \in 0..Len(msgs)] ==
            IF k = 0 THEN <<>>
            ELSE IF k \in P THEN Append(upTo[k - 1], msgs[k]) ELSE upTo[k - 1]
    IN  upTo[Len(msgs)]

SystemAt(msgs) == {k \in DOMAIN msgs : msgs[k].role = "system"}

trimHistory(msgs, max) ==
    LET system == Picked(msgs, SystemAt(msgs))
        rest == Picked(msgs, DOMAIN msgs \ SystemAt(msgs))
        keep == max - Len(system)
    IN  IF max <= 0 \/ Len(msgs) <= max THEN msgs
        ELSE IF keep <= 0 THEN system
        ELSE system \o SubSeq(rest, KeptFrom(rest, keep), Len(rest))

\* What a provider accepts: every tool turn is followed at once by the results
\* of all its calls, in order, and every result is one of those.
WellFormed(msgs) ==
    \A k \in DOMAIN msgs :
        /\ IsToolTurn(msgs[k]) =>
              \A i \in 1..msgs[k].calls :
                 k + i \in DOMAIN msgs /\ msgs[k + i] = ToolResultMessage(msgs[k].turn, i)
        /\ msgs[k].role = "tool" =>
              \E j \in 1..(k - 1) : IsToolTurn(msgs[j]) /\ k <= j + msgs[j].calls

\* No two tool turns are the same one: providers never give an id twice.
TurnsDiffer(msgs) ==
    \A j, k \in DOMAIN msgs :
        IsToolTurn(msgs[j]) /\ IsToolTurn(msgs[k]) /\ msgs[j].turn = msgs[k].turn => j = k
=============================================================================
