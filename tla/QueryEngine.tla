---------------------------- MODULE QueryEngine ----------------------------
(***************************************************************************)
(* QueryEngine: conditions, aggregates and ordered scans over the rows an  *)
(* iterator shows (MergeIterator says which), as functions of the store.   *)
(*                                                                         *)
(* Keys are positive numbers in key order.  A text is a record: its place  *)
(* in the order of strings, whether std::stod accepts it and the number it *)
(* gives, and the pattern that matches it: a pattern is known by the texts *)
(* it matches.                                                             *)
(***************************************************************************)
EXTENDS Integers, Sequences, FiniteSets, FiniteSetsExt, SequencesExt

CONSTANTS QueryKeys,
          Texts,      \* [rank, numeric, num, pattern]
          Limits      \* 0: no limit

VARIABLE contents     \* [a set of keys -> Texts]

QueryInit == contents = <<>>

\* batch_put and batch_delete write key by key, other threads in between.
batch_put(k, t) == contents' = [x \in DOMAIN contents \cup {k} |->
                                  IF x = k THEN t ELSE contents[x]]
batch_delete(k) == k \in DOMAIN contents
                   /\ contents' = [x \in DOMAIN contents \ {k} |-> contents[x]]

QueryNext == \E k \in QueryKeys : batch_delete(k) \/ \E t \in Texts : batch_put(k, t)

-----------------------------------------------------------------------------
\* What create_iterator shows, and the text of a key, which is no number.
Rows == [i \in 1..Cardinality(DOMAIN contents) |->
           LET k == CHOOSE x \in DOMAIN contents :
                      Cardinality({y \in DOMAIN contents : y <= x}) = i
           IN [key |-> k, value |-> contents[k]]]
KeyText(k) == [rank |-> k, numeric |-> FALSE, num |-> 0, pattern |-> "key"]

\* Numbers are compared when both sides are numeric, strings otherwise.
LessThan(a, b) == IF a.numeric /\ b.numeric THEN a.num < b.num ELSE a.rank < b.rank
SameOrder(a, b) == IF a.numeric /\ b.numeric THEN a.num = b.num ELSE a.rank = b.rank

evaluate_condition(row, c) ==
  LET target == IF c.field = "key" THEN KeyText(row.key) ELSE row.value IN
  CASE c.op = "EQUALS" -> target = c.value
    [] c.op = "NOT_EQUALS" -> target # c.value
    [] c.op = "LIKE" -> target.pattern = c.value.pattern
    [] c.op = "NOT_LIKE" -> target.pattern # c.value.pattern
    [] c.op = "GREATER_THAN" -> LessThan(c.value, target)
    [] c.op = "LESS_THAN" -> LessThan(target, c.value)
    [] c.op = "GREATER_EQUAL" -> LessThan(c.value, target) \/ SameOrder(target, c.value)
    [] c.op = "LESS_EQUAL" -> LessThan(target, c.value) \/ SameOrder(target, c.value)

\* A loop over the rows that takes the matching ones and stops at `limit' of them.
Collect(matching, limit) ==
  FoldLeft(LAMBDA acc, row : IF row \in matching /\ (limit = 0 \/ Len(acc) < limit)
                               THEN Append(acc, row) ELSE acc, <<>>, Rows)

\* query_where_multiple, with collect_results: all conditions or one of them; no
\* condition matches everything.
query_where_multiple(conditions, use_and, limit) ==
  Collect({row \in ToSet(Rows) :
             \/ conditions = {}
             \/ use_and /\ \A c \in conditions : evaluate_condition(row, c)
             \/ ~use_and /\ \E c \in conditions : evaluate_condition(row, c)}, limit)

query_where(c, limit) == query_where_multiple({c}, TRUE, limit)

sort_results(rows, order) ==
  SortSeq(rows, LAMBDA a, b : IF order = "ASC" THEN a.key < b.key ELSE a.key > b.key)

\* scan_ordered: the limit is reached before the rows are sorted.  0 for an empty
\* start_key or end_key.
scan_ordered(start, end, order, limit) ==
  LET rows == Collect({row \in ToSet(Rows) : row.key >= start /\ (end = 0 \/ row.key <= end)},
                      limit)
  IN IF order = "DESC" THEN sort_results(rows, order) ELSE rows

\* query_where_ordered that limits before it sorts.
query_where_ordered_early(c, order, limit) == sort_results(query_where(c, limit), order)

\* query_where_ordered: all matches are sorted, then cut.
query_where_ordered(c, order, limit) ==
  LET sorted == sort_results(query_where(c, 0), order)
  IN IF limit > 0 /\ Len(sorted) > limit THEN SubSeq(sorted, 1, limit) ELSE sorted

count_where(c) == FoldLeft(LAMBDA n, row : IF evaluate_condition(row, c) THEN n + 1 ELSE n, 0, Rows)

\* min_max_values, which takes in what sum_values computes.
min_max_values(pattern) ==
  FoldLeft(LAMBDA r, row :
             IF ~row.value.numeric \/ (pattern # "" /\ KeyText(row.key).pattern # pattern) THEN r
             ELSE [count |-> r.count + 1, sum |-> r.sum + row.value.num,
                   min |-> IF r.count = 0 \/ row.value.num < r.min THEN row.value.num ELSE r.min,
                   max |-> IF r.count = 0 \/ row.value.num > r.max THEN row.value.num ELSE r.max],
           [count |-> 0, sum |-> 0, min |-> 0, max |-> 0], Rows)

-----------------------------------------------------------------------------
Opposite(op) ==
  CASE op = "EQUALS" -> "NOT_EQUALS" [] op = "LIKE" -> "NOT_LIKE"
    [] op = "LESS_THAN" -> "GREATER_EQUAL" [] op = "GREATER_THAN" -> "LESS_EQUAL"
Conditions == [field : {"key", "value"}, value : Texts,
               op : {"EQUALS", "LIKE", "LESS_THAN", "GREATER_THAN"}]
Not(c) == [c EXCEPT !.op = Opposite(@)]

\* A condition and its opposite divide the rows, also where some values are numbers
\* and others are not; OR is the opposite of AND of the opposites; and a count is
\* that of the rows found (query_engine.cpp evaluate_condition, collect_results).
ConditionsDivide ==
  \A c \in Conditions :
    LET yes == ToSet(query_where(c, 0))
        no == ToSet(query_where(Not(c), 0))
    IN /\ yes \cup no = ToSet(Rows) /\ yes \cap no = {}
       /\ count_where(c) = Cardinality(yes)
       /\ \A d \in {x \in Conditions : x.field = "value"} :
            ToSet(query_where_multiple({c, d}, FALSE, 0)) =
              ToSet(Rows) \ ToSet(query_where_multiple({Not(c), Not(d)}, TRUE, 0))

\* An ordered query gives the smallest or the largest of all matching keys; a
\* descending scan gives the page of the ascending one backwards, the smallest
\* keys and not the largest (scan_ordered, query_where_ordered).
OrderedPages ==
  \A limit \in Limits, order \in {"ASC", "DESC"} :
    /\ \A c \in Conditions :
         LET all == {row.key : row \in ToSet(query_where(c, 0))}
             Before(k) == {x \in all : IF order = "ASC" THEN x < k ELSE x > k}
             page == query_where_ordered(c, order, limit)
         IN /\ {row.key : row \in ToSet(page)} =
                 {k \in all : limit = 0 \/ Cardinality(Before(k)) < limit}
            /\ \A i \in DOMAIN page : Cardinality(Before(page[i].key)) = i - 1
    /\ \A s, e \in QueryKeys \cup {0} :
         scan_ordered(s, e, "DESC", limit) = Reverse(scan_ordered(s, e, "ASC", limit))

\* The aggregates are those of the numeric values, 0 when there is none
\* (min_max_values and its first flag).
AggregatesAreRight ==
  LET nums == {row \in ToSet(Rows) : row.value.numeric}
      r == min_max_values("")
  IN /\ r.count = Cardinality(nums)
     /\ r.sum = MapThenSumSet(LAMBDA row : row.value.num, nums)
     /\ nums # {} => /\ r.min = Min({row.value.num : row \in nums})
                     /\ r.max = Max({row.value.num : row \in nums})

QueriesAnswer == ConditionsDivide /\ OrderedPages /\ AggregatesAreRight
=============================================================================
