------------------------------ MODULE EngineCases ------------------------------
(***************************************************************************)
(* The engines that rank, gate and audit a report are functions of the     *)
(* rows they are given: they keep nothing between two calls.  A behaviour  *)
(* of this module is one call of one of them, on any of its inputs; what   *)
(* the engine answers is an operator of its module, and a property is      *)
(* about the call that was made.                                           *)
(***************************************************************************)
EXTENDS Integers, Sequences, FiniteSets, SequencesExt, FiniteSetsExt

VARIABLE case   \* the call: its engine and its input

NoCase == [engine |-> "none"]

CasesInit == case = NoCase

\* An engine is called with that input.
NotCalled == case = NoCase
Given(engine, in) == case' = [engine |-> engine, in |-> in]

\* A value that is missing or no number (_num gives None).
NA == -99999
Known(x) == x # NA
KnownOf(s) ==
  LET f[i \in 0..Len(s)] == IF i = 0 THEN <<>> ELSE IF Known(s[i]) THEN Append(f[i - 1], s[i]) ELSE f[i - 1]
  IN f[Len(s)]

Size(x) == IF x < 0 THEN -x ELSE x
Sign(x) == IF x > 0 THEN 1 ELSE IF x < 0 THEN -1 ELSE 0

\* Above one limit, below the other, or between.
Side(x, low, high) == IF x > high THEN 1 ELSE IF x < low THEN -1 ELSE 0

\* The name of the first rule that holds: <<name, holds>>.
FirstOf(rules, otherwise) ==
  LET hits == {i \in DOMAIN rules : rules[i][2]}
  IN IF hits = {} THEN otherwise ELSE rules[Min(hits)][1]

\* What an operator gives for each element, as a tuple.
Each(s, Op(_)) == [i \in DOMAIN s |-> Op(s[i])] \o <<>>

Total(s) == LET t[i \in 0..Len(s)] == IF i = 0 THEN 0 ELSE t[i - 1] + s[i] IN t[Len(s)]

\* The elements by a number of each; equal ones keep their order (sorted, list.sort).
SortedBy(s, Key(_)) ==
  LET keys == Each(s, Key)
      before(i) == Cardinality({j \in DOMAIN s : keys[j] < keys[i] \/ (keys[j] = keys[i] /\ j < i)})
  IN [n \in DOMAIN s |-> s[CHOOSE i \in DOMAIN s : before(i) = n - 1]] \o <<>>

\* The elements of a finite set in an order, given by its pairs.
Arranged(S, R) ==
  [n \in 1..Cardinality(S) |-> CHOOSE a \in S : Cardinality({b \in S : <<b, a>> \in R}) = n - 1] \o <<>>

Clip(x, low, high) == IF x > high THEN high ELSE IF x < low THEN low ELSE x
===============================================================================
