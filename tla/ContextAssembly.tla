-------------------------- MODULE ContextAssembly --------------------------
(***************************************************************************)
(* The context assembler, context/assembler.py, with its deduplicator and  *)
(* pruner: which of the submitted items the provider gets to see, and in   *)
(* which order.  An item is its text (what deduplication compares), kind,  *)
(* priority and estimated tokens.  No caller gives an item an age, so the  *)
(* pruner's rule about stale items is left out.                            *)
(***************************************************************************)
EXTENDS Integers, Sequences, FiniteSets, StableSort

CONSTANTS
    MaxTokens,      \* max_tokens
    MaxItems,       \* max_items_before_low_priority_cut
    ReorderAbove    \* retained items above which the order is changed

ASSUME BudgetAssumption == {MaxTokens, MaxItems, ReorderAbove} \subseteq Nat

Item(kind, priority, text, tokens) ==
    [kind |-> kind, priority |-> priority, text |-> text, tokens |-> tokens]

IsSystem(item) == item.priority >= 100
IsUser(item) == item.kind = "user_message"

(* Equal priorities keep the order of submission. *)
ByPriority(items) == HighestFirst(items, [i \in DOMAIN items |-> items[i].priority])

(* Step 1: the first of several items with one text stays. *)
Deduplicated(items) ==
    LET add(kept, item) ==
          IF \E i \in DOMAIN kept : kept[i].text = item.text
            THEN kept ELSE Append(kept, item)
        unique[n \in 0 .. Len(items)] ==
          IF n = 0 THEN << >> ELSE add(unique[n - 1], items[n])
    IN unique[Len(items)]

(* Step 2: above MaxItems, the items of lowest priority are cut.  Should   *)
(* the system instructions, which are sorted first, alone fill the limit,  *)
(* nothing is.                                                             *)
Pruned(items) ==
    IF Len(items) <= MaxItems THEN items
    ELSE IF Cardinality({i \in DOMAIN items : IsSystem(items[i])}) < MaxItems
           THEN SubSeq(ByPriority(items), 1, MaxItems)
           ELSE ByPriority(items)

NothingFit == [items |-> << >>, dropped |-> << >>, tokens |-> 0]

(* Faulty variant: the first item that does not fit ends the truncation. *)
TruncatedAtFirst(items) ==
    LET take(acc, item) ==
          IF acc.dropped # << >> \/ acc.tokens + item.tokens > MaxTokens
            THEN [acc EXCEPT !.dropped = Append(@, item)]
            ELSE [acc EXCEPT !.items = Append(@, item), !.tokens = @ + item.tokens]
        fit[n \in 0 .. Len(items)] ==
          IF n = 0 THEN NothingFit ELSE take(fit[n - 1], items[n])
    IN fit[Len(items)]

(* Step 4: an item that does not fit is dropped and the next one is tried; *)
(* system instructions are kept beyond the budget.                         *)
WithinBudget(items) ==
    LET take(acc, item) ==
          IF acc.tokens + item.tokens > MaxTokens /\ ~IsSystem(item)
            THEN [acc EXCEPT !.dropped = Append(@, item)]
            ELSE [acc EXCEPT !.items = Append(@, item), !.tokens = @ + item.tokens]
        fit[n \in 0 .. Len(items)] ==
          IF n = 0 THEN NothingFit ELSE take(fit[n - 1], items[n])
    IN fit[Len(items)]

(* Step 5: instructions, user messages, then every other one of the rest,  *)
(* and last the ones that were passed over.                                *)
Reordered(items) ==
    LET rest == {i \in DOMAIN items : ~IsSystem(items[i]) /\ ~IsUser(items[i])}
        passedOver(i) == Cardinality({j \in rest : j < i}) % 2 = 1
    IN HighestFirst(items, [i \in DOMAIN items |->
           IF IsSystem(items[i]) THEN 3
           ELSE IF IsUser(items[i]) THEN 2
           ELSE IF passedOver(i) THEN 0 ELSE 1])

(* assemble() *)
Assembled(raw) ==
    LET unique == Deduplicated(raw)
        pruned == Pruned(unique)
        fit == WithinBudget(ByPriority(pruned))
    IN [items |-> IF Len(fit.items) > ReorderAbove THEN Reordered(fit.items)
                                                   ELSE fit.items,
        dropped |-> fit.dropped,
        tokens |-> fit.tokens,
        pruned |-> Len(unique) - Len(pruned),
        duplicates |-> Len(raw) - Len(unique)]

(* For the properties: how many tokens the items have whose priority is at *)
(* least lowest.                                                           *)
TokensOf(items, lowest) ==
    Cardinality(UNION {{i} \X (1 .. items[i].tokens) :
                          i \in {j \in DOMAIN items : items[j].priority >= lowest}})

=============================================================================
