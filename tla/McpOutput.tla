----------------------------- MODULE McpOutput -----------------------------
(***************************************************************************)
(* What the MCP server does to the results of a call before it answers:     *)
(* passages the session has seen become stubs, and the rest is cut down to  *)
(* the budget of the answer (mcp-session.ts, mcp-output.ts).                *)
(*                                                                         *)
(* An item names a passage, the version of its text and the form in which   *)
(* it is sent; the bytes of an answer are the weights of its items.         *)
(***************************************************************************)
EXTENDS Helpers

CONSTANTS
    WeightOf,   \* [passages -> Nat]: the size of the whole text
    Snippet     \* the size of a compact result; a stub or a preview counts 1

Item(passage, version, form) == [passage |-> passage, version |-> version, form |-> form]
As(item, form) == [item EXCEPT !.form = form]

Weight(item) ==
    CASE item.form = "full" -> WeightOf[item.passage] + 1
      [] item.form = "text" -> WeightOf[item.passage]
      [] item.form = "snippet" -> Snippet
      [] OTHER -> 1

Bytes(items) == SumOver(DOMAIN items, LAMBDA k : Weight(items[k]))

\* Forms that carry text.
Telling(item) == item.form \in {"full", "text", "snippet"}

-----------------------------------------------------------------------------
(* What the session has seen.                                               *)

\* Variant for the checks: in "collapse" mode what is found behind the topK new results leaves stubs.
ApplySeenResults_StubsBehind(results, seen, mode, topK) ==
    LET fresh(k) == results[k].passage \notin seen
        before(k) == Cardinality({j \in 1 .. k - 1 : fresh(j)})
        whole(k) == fresh(k) /\ before(k) < topK
        shown == SelectSeq([k \in DOMAIN results |-> k], LAMBDA k : mode = "collapse" \/ whole(k))
    IN  IF mode = "include" THEN Take(results, topK)
        ELSE [k \in DOMAIN shown |-> IF whole(shown[k]) THEN results[shown[k]]
                                     ELSE As(results[shown[k]], "stub")]

\* applySeenResults: up to topK new results in rank order; what was seen is
\* passed over, and in "collapse" mode leaves a stub.
ApplySeenResults(results, seen, mode, topK) ==
    LET fresh(k) == results[k].passage \notin seen
        before(k) == Cardinality({j \in 1 .. k - 1 : fresh(j)})
        looked == SelectSeq([k \in DOMAIN results |-> k], LAMBDA k : before(k) < topK)
        shown == SelectSeq(looked, LAMBDA k : mode = "collapse" \/ fresh(k))
    IN  IF mode = "include" THEN Take(results, topK)
        ELSE [k \in DOMAIN shown |-> IF fresh(shown[k]) THEN results[shown[k]]
                                     ELSE As(results[shown[k]], "stub")]

\* The groups of a batch, where a passage of an earlier group counts as seen.
Grouped(lists, memory, mode, topK) ==
    LET upTo[k \in 0 .. Len(lists)] ==
          IF k = 0 THEN <<>>
          ELSE LET earlier == upTo[k - 1]
                   inBatch == {i.passage : i \in {i \in UNION {ToSet(g) : g \in ToSet(earlier)} : i.form # "stub"}}
               IN  Append(earlier, ApplySeenResults(lists[k], memory \cup inBatch, mode, topK))
    IN  upTo[Len(lists)]

Presented(items, form) == [k \in DOMAIN items |-> IF items[k].form = "stub" THEN items[k] ELSE As(items[k], form)]

-----------------------------------------------------------------------------
(* The budget.                                                              *)

\* budgetMcpJson: full texts give way to snippets when they are too many.
Preferred(items, compact, budget) ==
    LET full == Presented(items, "full")  short == Presented(items, "snippet")
    IN  IF compact \/ (Bytes(full) > budget /\ Bytes(short) < Bytes(full)) THEN short ELSE full

Previews(items) == [k \in DOMAIN items |-> As(items[k], "preview")]

\* fitSearchPayload: the best results that fit, then mere citations.
FitSearchPayload(items, budget) ==
    LET fitting(list, most) == {n \in 1 .. most : Bytes(Take(list, n)) <= budget}
        whole == fitting(items, Len(items) - 1)
        previews == fitting(Previews(items), Len(items))
    IN  IF Bytes(items) <= budget THEN items
        ELSE IF whole # {} THEN Take(items, Max(whole))
        ELSE IF previews # {} THEN Take(Previews(items), Max(previews))
        ELSE <<>>

\* A group also carries its question.
GroupBytes(groups, questions) ==
    SumOver(DOMAIN groups, LAMBDA k : questions[k] + Bytes(groups[k]))

\* fitSearchGroups: the largest group gives up its last result, time and again,
\* but never its best one; then mere citations, and then only the questions.
FitSearchGroups(groups, questions, budget) ==
    LET Fits(some) == GroupBytes(some, questions) <= budget
        largest(some) == {k \in DOMAIN some : Len(some[k]) > 1
                            /\ \A j \in DOMAIN some :
                                  Len(some[j]) < Len(some[k]) \/ (Len(some[j]) = Len(some[k]) /\ j >= k)}
        total == SumOver(DOMAIN groups, LAMBDA k : Len(groups[k]))
        cut[n \in 0 .. total] ==
            IF n = 0 THEN groups
            ELSE LET some == cut[n - 1] IN
                 IF Fits(some) \/ largest(some) = {} THEN some
                 ELSE [k \in DOMAIN some |-> IF k \in largest(some) THEN Front(some[k]) ELSE some[k]]
        rest == cut[total]
        previews == [k \in DOMAIN rest |-> Previews(rest[k])]
    IN  IF Fits(rest) THEN rest
        ELSE IF Fits(previews) THEN previews
        ELSE [k \in DOMAIN groups |-> <<>>]

\* fitExpandedCitation: passages in the order of their distance from the
\* wanted one; that one may be cut short, the others come whole or not at all.
FitExpandedCitation(passages, wanted, budget) ==
    LET texts == [k \in DOMAIN passages |-> As(passages[k], "text")]
        distance(k) == IF k < wanted THEN wanted - k ELSE k - wanted
        order == SortSeq([k \in DOMAIN texts |-> k],
                         LAMBDA j, k : distance(j) < distance(k) \/ (distance(j) = distance(k) /\ j < k))
        first == IF 1 + Weight(texts[wanted]) <= budget THEN texts[wanted] ELSE As(texts[wanted], "part")
        taken[n \in 1 .. Len(order)] ==
            IF n = 1 THEN (wanted :> first)
            ELSE LET some == taken[n - 1] IN
                 IF 1 + Bytes(some) + Weight(texts[order[n]]) <= budget
                 THEN some @@ (order[n] :> texts[order[n]]) ELSE some
        items == taken[Len(order)]
        kept == SelectSeq([k \in DOMAIN passages |-> k], LAMBDA k : k \in DOMAIN items)
        full == Presented(passages, "full")
    IN  IF Bytes(full) <= budget THEN full
        ELSE IF budget < 2 THEN <<>>
        ELSE [n \in DOMAIN kept |-> items[kept[n]]]

=============================================================================
