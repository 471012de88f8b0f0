--------------------------- MODULE OpportunityReport ---------------------------
(***************************************************************************)
(* The report of the best contracts: build_tsetmc_report takes the         *)
(* universe through the quality gate, a first ranking that bounds the      *)
(* shares it asks about, the gate of direction and the final ranking, and  *)
(* cuts the result (report_engine.py); option_model.py adds what depends   *)
(* on the history of the share.                                            *)
(* A row's day of expiry is counted from the day of the gate.              *)
(* A definition named Slip... is a mistake that a change of the code could *)
(* make in the definition after it; each breaks a property stated below.   *)
(***************************************************************************)
EXTENDS OptionGates, EconomicRanking

CONSTANTS
  Boards,     \* universes
  Shares,     \* the underlying shares
  Findings,   \* what Analyzed may say of a share
  Pool,       \* bound of the discovery (75 in the code)
  Limits      \* how many contracts a report may ask for

ASSUME ReportAssumption ==
  /\ Pool \in Nat \ {0} /\ Limits \subseteq Nat \ {0}
  /\ \A rows \in Boards : IsUniverse(rows)

-------------------------------------------------------------------------------
FirstN(s, n) == SubSeq(s, 1, IF Len(s) < n THEN Len(s) ELSE n)

\* The places of these rows by their rank, those without a score left out.
Ranked(rows, S) == RankOrder(EconomicScores(rows, S))

Quality(rows) == {i \in DOMAIN rows : Tradability(rows[i]) = "PASS"}

\* The best of the first ranking: only their shares are asked about.
Discovery(rows) == Range(FirstN(Ranked(rows, Quality(rows)), Pool))

Eligible(rows, bias) == {i \in Discovery(rows) : Directional(rows[i].type, bias[rows[i].share])}

SlipDiscoveryOrder(rows, bias, limit) ==
  FirstN(SelectSeq(Ranked(rows, Quality(rows)), LAMBDA i : i \in Eligible(rows, bias)), limit)

\* The places of the rows that are shown, in their order.
Shown(rows, bias, limit) == FirstN(Ranked(rows, Eligible(rows, bias)), limit)

\* The report of activity ranks the universe by what was traded and asks nothing else.
MoreActive(a, b) ==
  LET key == <<"value", "volume", "count">>
      Above(x, y) == Known(x) /\ (~Known(y) \/ x > y)
  IN \E k \in DOMAIN key :
       /\ Above(a[key[k]], b[key[k]])
       /\ \A l \in 1..(k - 1) : a[key[l]] = b[key[l]]

Active(rows) ==
  Arranged(DOMAIN rows,
           {p \in (DOMAIN rows) \X (DOMAIN rows) :
              \/ MoreActive(rows[p[1]], rows[p[2]])
              \/ ~MoreActive(rows[p[2]], rows[p[1]]) /\ p[1] > p[2]})

\* What a line of the report says of a row: why it was chosen, and its days from the day the
\* data is of, never below zero.
Line(row, bias, basis) ==
  [why |-> \/ row.type = "CALL" /\ bias[row.share].bias = "BULLISH"
           \/ row.type = "PUT" /\ bias[row.share].bias = "BEARISH",
   days |-> AtLeast0(row.expiry - basis)]

-------------------------------------------------------------------------------
Modelled(rows, answers) ==
  LET m[k \in 0..Len(rows)] ==
        IF k = 0 THEN [said |-> <<>>, asked |-> 0, kept |-> {}]
        ELSE LET before == m[k - 1]
                 kept == {e \in before.kept : e.share = rows[k].share}
                 answer == [share |-> rows[k].share, said |-> answers[before.asked + 1]]
             IN IF NA \in {rows[k].underlying, rows[k].strike, rows[k].premium, rows[k].days}
                THEN [before EXCEPT !.said = Append(@, "INSUFFICIENT_INPUT")]
                ELSE IF kept # {}
                     THEN [before EXCEPT !.said = Append(@, (CHOOSE e \in kept : TRUE).said)]
                     ELSE [said |-> Append(before.said, answer.said), asked |-> before.asked + 1,
                           kept |-> before.kept \cup {answer}]
  IN m[Len(rows)]

-------------------------------------------------------------------------------
ReportCalled ==
  /\ NotCalled
  /\ \E rows \in Boards, bias \in [Shares -> Findings] : Given("report", [rows |-> rows, bias |-> bias])

ReportSpec == CasesInit /\ [][ReportCalled]_case

\* A larger report begins with the smaller one, for any number of contracts: the cut comes
\* after the ranking, and the ranking of the final rows knows nothing of the cut.
LargerBeginsWithSmaller ==
  case.engine = "report" =>
    LET shown == [limit \in Limits |-> Shown(case.in.rows, case.in.bias, limit)]
    IN \A small, large \in Limits : small <= large => IsPrefix(shown[small], shown[large])

\* Nothing that passed the gates is lost, or blocks the report, for want of a score: as many
\* rows are shown as there are eligible ones, up to the number asked for.
ShownAreEligible ==
  case.engine = "report" =>
    LET rows == case.in.rows
        bias == case.in.bias
        Fits(shown, limit) ==
          /\ Len(shown) = Min({limit, Cardinality(Eligible(rows, bias))})
          /\ \A k \in DOMAIN shown : Line(rows[shown[k]], bias, 0).why /\ Line(rows[shown[k]], bias, 0).days > 0
    IN \A limit \in Limits : Fits(Shown(rows, bias, limit), limit)

\* The first ranking only bounds how many shares are asked about: a row it leaves out is
\* worse, there, than every row that was shown.
BestArePooled ==
  case.engine = "report" =>
    LET rows == case.in.rows
        quality == Quality(rows)
        Pooled(scores, pool) ==
          \A k, l \in quality :
            Beats(scores[k], scores[l]) /\ k \notin pool => l \notin Eligible(rows, case.in.bias)
    IN Pooled(EconomicScores(rows, quality), Discovery(rows))

\* The order of the final rows is that of their own scores, although those of the first
\* ranking, among more rows, may order them otherwise.
OrderIsFinal ==
  case.engine = "report" =>
    LET rows == case.in.rows
        bias == case.in.bias
        InOrder(shown, scores) ==
          \A a, b \in DOMAIN shown : a < b => ~Beats(scores[shown[b]], scores[shown[a]])
    IN InOrder(Shown(rows, bias, Len(rows)), EconomicScores(rows, Eligible(rows, bias)))

\* The report of activity shows first what was traded for more, and what has no value after
\* all that have one.
ActivityFirst ==
  case.engine = "report" =>
    LET rows == case.in.rows
        active == Active(rows)
    IN \A a, b \in DOMAIN active :
         a < b /\ Known(rows[active[b]].value) => rows[active[a]].value >= rows[active[b]].value

\* Two contracts of one share are modelled on one history, if the source fails for one of
\* them it fails for both: the report never compares values of two histories.
OneHistory ==
  case.engine = "report" =>
    LET rows == case.in.rows
    IN \A answers \in [DOMAIN rows -> {"SUCCESS", "SOURCE_UNAVAILABLE"}] :
         LET modelled == Modelled(rows, answers).said
         IN \A i, j \in DOMAIN rows :
              rows[i].share = rows[j].share /\ "INSUFFICIENT_INPUT" \notin {modelled[i], modelled[j]} =>
                modelled[i] = modelled[j]

\* The report shows the best of the eligible rows, in their order, on one history of each share.
ReportIsInOrder ==
  /\ LargerBeginsWithSmaller /\ ShownAreEligible /\ BestArePooled
  /\ OrderIsFinal /\ ActivityFirst /\ OneHistory
===============================================================================
