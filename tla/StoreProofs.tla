------------------------------ MODULE StoreProofs -------------------------------
(***************************************************************************)
(* What a chat is shown, proved for pages of any length, for any calendar  *)
(* of sessions and any rankings, for any posters, reports of any number of *)
(* parts, and any number of failures:                                      *)
(*                                                                         *)
(*  - MarketPages: whoever pages through the list of market shares sees    *)
(*    every row of it, and a first page has the history of the session it  *)
(*    was awaited for;                                                     *)
(*  - BaleDelivery and ListenerRequests: the log a process writes of a     *)
(*    delivery is what the chat shows of it, and an update is not settled  *)
(*    before the chat was told what has become of it;                      *)
(*  - MessageParts: the messages of any text are the text, whatever a      *)
(*    message may hold.                                                    *)
(***************************************************************************)
EXTENDS MarketPages, ListenerRequests, MessageParts, Integers, TLAPS, FiniteSetTheorems,
        NaturalsInduction, WellFoundedInduction, SequenceTheorems

-------------------------------------------------------------------------------
\* Any numbers have a smallest one.
LEMMA Smallest ==
  ASSUME NEW T \in SUBSET Nat, T # {}
  PROVE  \E x \in T : \A y \in T : x <= y
<1>1. \E x \in T : \A y \in T : <<y, x>> \notin OpToRel(<, Nat)
  BY NatLessThanWellFounded, WFMin
<1>2. \A x, y \in Nat : <<y, x>> \notin OpToRel(<, Nat) => x <= y
  BY DEF OpToRel
<1> QED BY <1>1, <1>2

\* Min is that one.
LEMMA MinIsSmallest ==
  ASSUME NEW T \in SUBSET Nat, T # {}
  PROVE  Min(T) \in T /\ \A y \in T : Min(T) <= y
BY Smallest DEF Min

\* Max is the largest of numbers that something bounds: the smallest of their bounds.
LEMMA MaxIsLargest ==
  ASSUME NEW T \in SUBSET Nat, T # {}, NEW n \in Nat, \A y \in T : y <= n
  PROVE  Max(T) \in T /\ \A y \in T : y <= Max(T)
<1> DEFINE Bounds == {m \in Nat : \A y \in T : y <= m}
<1>1. n \in Bounds /\ Bounds \in SUBSET Nat OBVIOUS
<1>2. PICK m \in Bounds : \A k \in Bounds : m <= k BY <1>1, Smallest
<1>3. m \in T
  <2>1. SUFFICES ASSUME m \notin T PROVE FALSE OBVIOUS
  <2>2. m \in Nat /\ \A y \in T : y \in Nat /\ y < m BY <2>1
  <2>3. PICK y \in T : TRUE OBVIOUS
  <2>4. m # 0 BY <2>2, <2>3
  <2>5. m - 1 \in Bounds BY <2>2, <2>4
  <2> QED BY <1>2, <2>2, <2>5
<1>4. \A y \in T : m >= y OBVIOUS
<1> QED BY <1>3, <1>4 DEF Max

\* The smaller of two numbers.
LEMMA MinOfTwo == \A a, b \in Int : Min({a, b}) = IF a <= b THEN a ELSE b
BY DEF Min
\* ... and the larger of them.
LEMMA MaxOfTwo == \A a, b \in Int : Max({a, b}) = IF a <= b THEN b ELSE a
BY DEF Max

-------------------------------------------------------------------------------
\* The last session on or before a day is one, and a later day has no earlier one.
LEMMA LastSessionIsLast ==
  /\ \A d \in Nat : LastSession(d) \in Nat /\ LastSession(d) <= d
  /\ \A d, e \in Nat : d <= e => LastSession(d) <= LastSession(e)
<1> DEFINE Days == SessionDays \union {0}
           Sessions(d) == {s \in Days : s <= d}
<1>0. Days \subseteq Nat /\ 0 \in Days BY PagesAssumption
<1> HIDE DEF Days
<1>1. \A d \in Nat : Sessions(d) \in SUBSET Nat /\ Sessions(d) # {} /\ \A s \in Sessions(d) : s <= d
  <2> TAKE d \in Nat
  <2>1. 0 \in Sessions(d) BY <1>0
  <2> QED BY <1>0, <2>1
<1>2. \A d \in Nat : LastSession(d) \in Sessions(d) /\ \A s \in Sessions(d) : s <= LastSession(d)
  <2> TAKE d \in Nat
  <2>1. LastSession(d) = Max(Sessions(d)) BY DEF LastSession, Days
  <2>2. Sessions(d) \in SUBSET Nat /\ Sessions(d) # {} /\ \A s \in Sessions(d) : s <= d BY <1>1
  <2> HIDE DEF Sessions
  <2> QED BY <2>1, <2>2, MaxIsLargest
<1>3. \A d, e \in Nat : d <= e => Sessions(d) \subseteq Sessions(e)
  <2> TAKE d, e \in Nat
  <2> HAVE d <= e
  <2>1. \A s \in Days : s <= d => s <= e BY <1>0
  <2> QED BY <2>1
<1> HIDE DEF Sessions
<1> QED BY <1>1, <1>2, <1>3

\* The day whose history may be published at a minute.
PublishableDay(t) == IF MinuteAt(t) > 750 THEN DayAt(t) ELSE DayAt(t) - 1

\* The day that may be published at a minute is a day, and a later minute has no earlier one.
LEMMA PublishableDays ==
  ASSUME NEW t \in Nat, NEW u \in Nat, 1440 <= t, t <= u
  PROVE  PublishableDay(t) \in Nat /\ PublishableDay(u) \in Nat /\ PublishableDay(t) <= PublishableDay(u)
<1>1. t = 1440 * DayAt(t) + MinuteAt(t) /\ DayAt(t) \in Int /\ MinuteAt(t) \in Int /\ 0 <= MinuteAt(t) /\ MinuteAt(t) < 1440
  BY DEF DayAt, MinuteAt
<1>2. u = 1440 * DayAt(u) + MinuteAt(u) /\ DayAt(u) \in Int /\ MinuteAt(u) \in Int /\ 0 <= MinuteAt(u) /\ MinuteAt(u) < 1440
  BY DEF DayAt, MinuteAt
<1>3. DayAt(t) >= 1 /\ DayAt(t) <= DayAt(u) /\ (DayAt(t) = DayAt(u) => MinuteAt(t) <= MinuteAt(u))
  BY <1>1, <1>2
<1> QED BY <1>1, <1>2, <1>3 DEF PublishableDay

\* The day whose history is awaited is not before day 0.
LEMMA AwaitedIsNat ==
  ASSUME clock \in Nat, 1440 <= clock
  PROVE  LastAwaited \in Nat
<1>1. DayAt(clock) \in Nat /\ DayAt(clock) - 1 \in Nat BY DEF DayAt
<1> QED BY <1>1, LastSessionIsLast DEF LastAwaited

-------------------------------------------------------------------------------
\* Rows are a sequence; a list is none or made at a minute of the model, and not of the future.
AreRows(rows) == Len(rows) \in Nat /\ rows = [n \in 1..Len(rows) |-> rows[n]]
IsList(r) ==
  /\ r = [made |-> r.made, history |-> r.history, rows |-> r.rows]
  /\ r.made \in Nat /\ r.history \in Nat /\ AreRows(r.rows)
  /\ r = NoList \/ r.made # 0
IsPast(r) == r.made <= clock /\ r.history <= landed

PageRecords == [asked : Nat, page : Nat, last : Nat, at : Nat, live : Nat, made : Nat, history : Nat]

PagesTypeInv ==
  /\ clock \in PressTimes /\ landed \in Nat /\ landed <= LastSession(PublishableDay(clock))
  /\ IsList(market) /\ IsPast(market) /\ IsList(shares) /\ IsPast(shares)
  /\ overlay \in Nat /\ overlay <= clock
  /\ screen \in [Lists -> PageRecords]
  /\ \A l \in Lists : screen[l].page <= screen[l].last /\ screen[l].live <= screen[l].at
  /\ offered \in [Lists -> SUBSET Nat]
  /\ walk = [on |-> walk.on, all |-> walk.all, read |-> walk.read] /\ walk.on \in BOOLEAN
  /\ presses \in 0..MaxPresses

\* What a walk has read so far is the beginning of the list on file, up to the page that is shown.
ReadUpTo(rows, page) == SubSeq(rows, 1, Min({Len(rows), (page + 1) * CardsOnPage}))
WalkInv ==
  walk.on =>
    /\ shares.made # 0 /\ walk.all = shares.rows
    /\ screen["shares"].last = PageCount(shares.rows) - 1
    /\ walk.read = ReadUpTo(shares.rows, screen["shares"].page)

PagesInv == PagesTypeInv /\ WalkInv

-------------------------------------------------------------------------------
\* A list has a page, and the last one has a row of it unless the list is empty.
LEMMA PagesOfRows ==
  ASSUME NEW rows, Len(rows) \in Nat
  PROVE  /\ PageCount(rows) \in Nat /\ PageCount(rows) >= 1
         /\ Len(rows) <= 2 * PageCount(rows)
         /\ PageCount(rows) > 1 => 2 * (PageCount(rows) - 1) < Len(rows)
<1>1. PICK q \in Int : q = (Len(rows) + 2 - 1) \div 2 BY SMT
<1>2. 2 * q <= Len(rows) + 1 /\ Len(rows) <= 2 * q BY <1>1
<1>3. PageCount(rows) = Max({1, q}) BY <1>1 DEF PageCount, CardsOnPage
<1>4. PageCount(rows) = IF 1 <= q THEN q ELSE 1 BY <1>3, MaxOfTwo
<1> QED BY <1>2, <1>4

\* The rows are a sequence of what is in them.
LEMMA RowsAreASequence ==
  ASSUME NEW rows, AreRows(rows)
  PROVE  \E S : rows \in Seq(S)
<1> DEFINE S == {rows[n] : n \in 1..Len(rows)}
<1>1. rows \in [1..Len(rows) -> S] BY DEF AreRows
<1>2. rows \in Seq(S) BY <1>1 DEF AreRows
<1> QED BY <1>2

\* The cards of the next page, or none, go on where the walk stopped.
LEMMA NextCards ==
  ASSUME NEW rows, AreRows(rows), NEW page \in Nat, page <= PageCount(rows) - 1
  PROVE  ReadUpTo(rows, page) \o CardsOf(rows, page + 1)
           = ReadUpTo(rows, Min({page + 1, PageCount(rows) - 1}))
<1>1. PICK S : rows \in Seq(S) BY RowsAreASequence
<1>2. Len(rows) \in Nat /\ PageCount(rows) \in Nat BY PagesOfRows DEF AreRows
<1>3. Min({page + 1, PageCount(rows) - 1}) = IF page + 1 <= PageCount(rows) - 1 THEN page + 1 ELSE PageCount(rows) - 1
  BY <1>2, MinOfTwo
<1>4. ReadUpTo(rows, page) = SubSeq(rows, 1, IF Len(rows) <= 2 * page + 2 THEN Len(rows) ELSE 2 * page + 2)
  BY <1>2, MinOfTwo DEF ReadUpTo, CardsOnPage
<1>5. CardsOf(rows, page + 1) = SubSeq(rows, 2 * page + 3, IF Len(rows) <= 2 * page + 4 THEN Len(rows) ELSE 2 * page + 4)
  <2>1. (page + 1) * 2 + 1 = 2 * page + 3 /\ (page + 1 + 1) * 2 = 2 * page + 4 OBVIOUS
  <2>2. Min({Len(rows), 2 * page + 4}) = IF Len(rows) <= 2 * page + 4 THEN Len(rows) ELSE 2 * page + 4
    BY <1>2, MinOfTwo
  <2> QED BY <2>1, <2>2 DEF CardsOf, CardsOnPage
<1>6. CASE page + 1 <= PageCount(rows) - 1
  <2>1. ReadUpTo(rows, page + 1) = SubSeq(rows, 1, IF Len(rows) <= 2 * page + 4 THEN Len(rows) ELSE 2 * page + 4)
    <3>1. (page + 1 + 1) * 2 = 2 * page + 4 OBVIOUS
    <3> QED BY <3>1, <1>2, MinOfTwo DEF ReadUpTo, CardsOnPage
  <2>2. PICK k \in Int : k = 2 * page + 2 OBVIOUS
  <2>3. PICK n \in Int : n = IF Len(rows) <= 2 * page + 4 THEN Len(rows) ELSE 2 * page + 4 BY <1>2
  <2>4. k < Len(rows) BY <1>2, <1>6, <2>2, PagesOfRows DEF AreRows
  <2>5. k \in 1 - 1 .. Len(rows) /\ n \in k .. Len(rows) BY <1>2, <2>2, <2>3, <2>4
  <2>6. SubSeq(rows, 1, k) \o SubSeq(rows, k + 1, n) = SubSeq(rows, 1, n)
    BY <1>1, <1>2, <2>5, ConcatAdjacentSubSeq
  <2>7. ReadUpTo(rows, page) = SubSeq(rows, 1, k) BY <1>4, <2>2, <2>4, <1>2
  <2>8. CardsOf(rows, page + 1) = SubSeq(rows, k + 1, n) 
    <3>1. k + 1 = 2 * page + 3 BY <2>2
    <3> QED BY <1>5, <3>1, <2>3
  <2> QED BY <1>3, <1>6, <2>1, <2>3, <2>6, <2>7, <2>8
<1>7. CASE ~(page + 1 <= PageCount(rows) - 1)
  <2>1. Len(rows) <= 2 * page + 2 BY <1>2, <1>7, PagesOfRows DEF AreRows
  <2>2. PageCount(rows) - 1 = page BY <1>2, <1>7
  <2>3. CardsOf(rows, page + 1) = <<>>
    <3>1. Len(rows) \in Int /\ 2 * page + 3 \in Int /\ Len(rows) < 2 * page + 3 BY <1>2, <2>1
    <3>2. SubSeq(rows, 2 * page + 3, Len(rows)) = <<>> BY <3>1, SubSeqEmpty
    <3>3. Len(rows) <= 2 * page + 4 BY <1>2, <2>1
    <3> QED BY <1>5, <3>3, <3>2
  <2>4. ReadUpTo(rows, page) \in Seq(S)
    BY <1>1, <1>2, <1>4, <2>1, SubSeqFull
  <2> QED BY <1>3, <1>7, <2>2, <2>3, <2>4, ConcatEmptySeq
<1> QED BY <1>6, <1>7

\* Whoever has read up to the last page has read every row.
LEMMA LastPageIsTheEnd ==
  ASSUME NEW rows, AreRows(rows)
  PROVE  ReadUpTo(rows, PageCount(rows) - 1) = rows
<1>1. PICK S : rows \in Seq(S) BY RowsAreASequence
<1>2. Len(rows) \in Nat /\ PageCount(rows) \in Nat /\ Len(rows) <= 2 * PageCount(rows) BY PagesOfRows DEF AreRows
<1>3. (PageCount(rows) - 1 + 1) * 2 = 2 * PageCount(rows) BY <1>2
<1>4. Min({Len(rows), 2 * PageCount(rows)}) = Len(rows) BY <1>2, MinOfTwo
<1>5. ReadUpTo(rows, PageCount(rows) - 1) = SubSeq(rows, 1, Len(rows)) BY <1>3, <1>4 DEF ReadUpTo, CardsOnPage
<1> QED BY <1>1, <1>5, SubSeqFull

-------------------------------------------------------------------------------
\* Something happens after midnight of day 1 at the earliest.
LEMMA ClockIsNat ==
  ASSUME clock \in PressTimes
  PROVE  clock \in Nat /\ clock >= 1440
BY PagesAssumption

\* The list that is not there yet counts as one, too.
LEMMA NoListIsAList == IsList(NoList)
<1>1. Len(<<>>) = 0 /\ <<>> = [n \in 1..0 |-> <<>>[n]] OBVIOUS
<1> QED BY <1>1 DEF IsList, AreRows, NoList

\* What a builder makes is a list.
LEMMA BuiltIsAList ==
  ASSUME PagesTypeInv, NEW order \in Rankings
  PROVE  IsList(BuiltMarket(order)) /\ IsPast(BuiltMarket(order)) /\ BuiltMarket(order).made = clock
<1>1. clock \in Nat /\ clock >= 1440 /\ landed \in Nat BY ClockIsNat DEF PagesTypeInv
<1>2. Len(order) \in Nat /\ DOMAIN order = 1..Len(order) BY PagesAssumption
<1> DEFINE rows == [n \in DOMAIN order |-> [share |-> order[n], rank |-> n]]
<1>3. AreRows(rows)
  <2>1. rows \in Seq({rows[n] : n \in 1..Len(order)}) /\ Len(rows) = Len(order) BY <1>2
  <2> QED BY <2>1, <1>2 DEF AreRows
<1>4. BuiltMarket(order) = [made |-> clock, history |-> landed, rows |-> rows] BY DEF BuiltMarket
<1> HIDE DEF rows
<1> QED BY <1>1, <1>3, <1>4 DEF IsList, IsPast

\* What stands for the market after a press is a list of the past (ensure_report of
\* bale_market_share_cards.py).
LEMMA MarketIsAList ==
  ASSUME PagesTypeInv, EnsureMarket
  PROVE  IsList(market') /\ IsPast(market') /\ market'.made # 0
<1>1. CASE MarketIsFresh
  <2>1. market' = market BY <1>1 DEF EnsureMarket
  <2> QED BY <1>1, <2>1 DEF MarketIsFresh, PagesTypeInv, IsList
<1>2. CASE ~MarketIsFresh
  <2>1. PICK order \in Rankings : market' = BuiltMarket(order) BY <1>2 DEF EnsureMarket
  <2>2. clock # 0 BY ClockIsNat DEF PagesTypeInv
  <2> QED BY <2>1, <2>2, BuiltIsAList
<1> QED BY <1>1, <1>2

\* ... and so is the list of the shares that is built from it.
LEMMA SharesAreAList ==
  ASSUME PagesTypeInv, BuildShares
  PROVE  IsList(market') /\ IsPast(market') /\ IsList(shares') /\ IsPast(shares') /\ shares'.made # 0
<1>1. EnsureMarket BY DEF BuildShares
<1>2. IsList(market') /\ IsPast(market') /\ market'.made # 0 BY <1>1, MarketIsAList
<1>3. PICK named \in Optioned : shares' = [market' EXCEPT !.rows = OptionedRows(market', named)] BY DEF BuildShares
<1> DEFINE rows == OptionedRows(market', named)
<1>4. AreRows(rows)
  <2> DEFINE kept == {n \in DOMAIN market'.rows : market'.rows[n].share \in named}
             Nth(k) == CHOOSE n \in kept : Cardinality({i \in kept : i <= n}) = k
             row(k) == market'.rows[Nth(k)]
  <2>1. DOMAIN market'.rows = 1..Len(market'.rows) /\ Len(market'.rows) \in Nat BY <1>2 DEF IsList, AreRows
  <2>2. IsFiniteSet(kept)
    <3>1. IsFiniteSet(1..Len(market'.rows)) BY <2>1, FS_Interval
    <3> QED BY <2>1, <3>1, FS_Subset
  <2>3. Cardinality(kept) \in Nat BY <2>2, FS_CardinalityType
  <2>4. rows = [k \in 1..Cardinality(kept) |-> row(k)] BY DEF OptionedRows
  <2> HIDE DEF kept, rows, row
  <2>5. rows \in Seq({row(k) : k \in 1..Cardinality(kept)}) /\ Len(rows) = Cardinality(kept) BY <2>3, <2>4
  <2> QED BY <2>3, <2>4, <2>5 DEF AreRows
<1>5. shares' = [made |-> market'.made, history |-> market'.history, rows |-> rows] BY <1>2, <1>3 DEF IsList
<1> HIDE DEF rows
<1> QED BY <1>2, <1>4, <1>5 DEF IsList, IsPast

\* A page has the number that was asked for, or the last there is.
LEMMA PagesAreShown ==
  ASSUME PagesTypeInv, NEW list \in Lists, NEW report, IsList(report), IsPast(report), NEW p \in Nat,
         ShowPage(list, report, p)
  PROVE  /\ overlay' \in Nat /\ overlay' <= clock
         /\ screen' \in [Lists -> PageRecords]
         /\ \A l \in Lists : screen'[l].page <= screen'[l].last /\ screen'[l].live <= screen'[l].at
         /\ offered' \in [Lists -> SUBSET Nat]
         /\ presses' \in 0..MaxPresses
         /\ clock' = clock /\ landed' = landed
         /\ screen'[list].page = Min({p, PageCount(report.rows) - 1})
         /\ screen'[list].last = PageCount(report.rows) - 1
         /\ screen'[list].asked = p /\ screen'[list].history = report.history
         /\ \A l \in Lists : l # list => screen'[l] = screen[l]
<1>1. clock \in Nat BY ClockIsNat DEF PagesTypeInv
<1>2. PICK live \in {0, clock, overlay} :
        /\ Overlaid(live)
        /\ screen' = [screen EXCEPT ![list] = Page(report, p, live)]
        /\ offered' = [offered EXCEPT ![list] =
                         @ \union {q \in {Page(report, p, live).page - 1, Page(report, p, live).page + 1} :
                                    q \in 0..Page(report, p, live).last}]
        /\ presses < MaxPresses /\ presses' = presses + 1
        /\ UNCHANGED <<clock, landed>>
  BY DEF ShowPage
<1>3. overlay \in Nat /\ overlay <= clock BY DEF PagesTypeInv
<1>4. live \in Nat /\ live <= clock BY <1>1, <1>2, <1>3
<1>5. PICK shown : shown = Page(report, p, live) OBVIOUS
<1>6. PageCount(report.rows) \in Nat /\ PageCount(report.rows) >= 1 BY PagesOfRows DEF IsList, AreRows
<1>7. Min({p, PageCount(report.rows) - 1}) \in Nat /\ Min({p, PageCount(report.rows) - 1}) <= PageCount(report.rows) - 1
  BY <1>6, MinOfTwo
<1>8. shown = [asked |-> p, page |-> Min({p, PageCount(report.rows) - 1}), last |-> PageCount(report.rows) - 1,
               at |-> clock, live |-> live, made |-> report.made, history |-> report.history]
  BY <1>5 DEF Page
<1>9. shown \in PageRecords /\ shown.page <= shown.last /\ shown.live <= shown.at
  <2>1. PageCount(report.rows) - 1 \in Nat BY <1>6
  <2>2. report.made \in Nat /\ report.history \in Nat BY DEF IsList
  <2> QED BY <1>1, <1>4, <1>7, <1>8, <2>1, <2>2 DEF PageRecords
<1>10. overlay' \in Nat /\ overlay' <= clock
  BY <1>1, <1>2, <1>3 DEF Overlaid
<1>11. screen' = [screen EXCEPT ![list] = shown] /\ screen \in [Lists -> PageRecords]
  BY <1>2, <1>5 DEF PagesTypeInv
<1>12. screen' \in [Lists -> PageRecords] /\ screen'[list] = shown /\ \A l \in Lists : l # list => screen'[l] = screen[l]
  BY <1>9, <1>11
<1>13. \A l \in Lists : screen'[l].page <= screen'[l].last /\ screen'[l].live <= screen'[l].at
  <2>1. \A l \in Lists : screen[l].page <= screen[l].last /\ screen[l].live <= screen[l].at BY DEF PagesTypeInv
  <2> QED BY <2>1, <1>9, <1>12
<1>14. offered' \in [Lists -> SUBSET Nat]
  <2>1. {q \in {shown.page - 1, shown.page + 1} : q \in 0..shown.last} \subseteq Nat
    <3>1. shown.last \in Nat BY <1>9 DEF PageRecords
    <3>2. \A q \in 0..shown.last : q \in Nat BY <3>1
    <3> QED BY <3>2
  <2>2. PICK more \in SUBSET Nat : more = {q \in {shown.page - 1, shown.page + 1} : q \in 0..shown.last} BY <2>1
  <2>3. offered' = [offered EXCEPT ![list] = @ \union more] BY <1>2, <1>5, <2>2
  <2>4. offered \in [Lists -> SUBSET Nat] BY DEF PagesTypeInv
  <2> QED BY <2>3, <2>4
<1>15. presses' \in 0..MaxPresses
  <2>1. MaxPresses \in Nat BY PagesAssumption
  <2> QED BY <1>2, <2>1 DEF PagesTypeInv
<1>16. /\ screen'[list].page = Min({p, PageCount(report.rows) - 1})
       /\ screen'[list].last = PageCount(report.rows) - 1
       /\ screen'[list].asked = p /\ screen'[list].history = report.history
  BY <1>8, <1>12
<1> QED BY <1>2, <1>10, <1>12, <1>13, <1>14, <1>15, <1>16

-------------------------------------------------------------------------------
\* Nothing has been shown, and no walk is under way.
THEOREM PagesStart == PagesInit => PagesInv
<1> SUFFICES ASSUME PagesInit PROVE PagesInv OBVIOUS
<1>1. PressTimes \in SUBSET Nat /\ PressTimes # {} BY PagesAssumption
<1>2. clock \in PressTimes BY <1>1, MinIsSmallest DEF PagesInit
<1>3. clock \in Nat /\ clock >= 1440 BY <1>2, ClockIsNat
<1>4. landed \in Nat /\ landed <= LastSession(PublishableDay(clock))
  BY <1>3, PublishableDays, LastSessionIsLast DEF PagesInit
<1>5. IsList(market) /\ IsList(shares) /\ IsPast(market) /\ IsPast(shares)
  BY <1>3, NoListIsAList DEF PagesInit, IsPast, NoList
<1>6. screen \in [Lists -> PageRecords] /\ \A l \in Lists : screen[l].page <= screen[l].last /\ screen[l].live <= screen[l].at
  BY DEF PagesInit, NoPage, PageRecords
<1>7. walk = [on |-> walk.on, all |-> walk.all, read |-> walk.read] /\ walk.on = FALSE
  BY DEF PagesInit, NoWalk
<1>8. offered \in [Lists -> SUBSET Nat] BY DEF PagesInit
<1>9. overlay \in Nat /\ overlay <= clock BY <1>3 DEF PagesInit
<1>10. presses \in 0..MaxPresses BY PagesAssumption DEF PagesInit
<1> QED BY <1>2, <1>4, <1>5, <1>6, <1>7, <1>8, <1>9, <1>10 DEF PagesInv, PagesTypeInv, WalkInv

\* What a press leaves alone of the types.
LEMMA PressesKeepTypes ==
  ASSUME PagesTypeInv, NEW list \in Lists, NEW report, IsList(report), IsPast(report), NEW p \in Nat,
         ShowPage(list, report, p),
         IsList(market'), IsPast(market'), IsList(shares'), IsPast(shares'),
         walk' = [on |-> walk'.on, all |-> walk'.all, read |-> walk'.read], walk'.on \in BOOLEAN
  PROVE  PagesTypeInv'
<1>1. clock' = clock /\ landed' = landed BY PagesAreShown
<1>2. /\ overlay' \in Nat /\ overlay' <= clock
      /\ screen' \in [Lists -> PageRecords]
      /\ \A l \in Lists : screen'[l].page <= screen'[l].last /\ screen'[l].live <= screen'[l].at
      /\ offered' \in [Lists -> SUBSET Nat]
      /\ presses' \in 0..MaxPresses
  BY PagesAreShown
<1>3. IsPast(market)' /\ IsPast(shares)' BY <1>1 DEF IsPast
<1>4. LastSession(PublishableDay(clock))' = LastSession(PublishableDay(clock))
  BY <1>1 DEF LastSession, PublishableDay, MinuteAt, DayAt
<1>5. clock \in PressTimes /\ landed \in Nat /\ landed <= LastSession(PublishableDay(clock)) BY DEF PagesTypeInv
<1>6. IsList(market)' /\ IsList(shares)' OBVIOUS
<1> QED BY <1>1, <1>2, <1>3, <1>4, <1>5, <1>6 DEF PagesTypeInv

\* The clock, and what is published, leave the lists and the walk alone.
LEMMA TimeKeepsPages ==
  ASSUME PagesInv, TimeRuns PROVE PagesInv'
<1> DEFINE later == {t \in PressTimes : t > clock}
<1>1. PressTimes \in SUBSET Nat BY PagesAssumption
<1>2. clock \in Nat /\ clock >= 1440 BY ClockIsNat DEF PagesInv, PagesTypeInv
<1>3. clock' \in later
  <2>1. later \in SUBSET Nat /\ later # {} /\ clock' = Min(later) BY <1>1 DEF TimeRuns
  <2> HIDE DEF later
  <2> QED BY <2>1, MinIsSmallest
<1>4. clock' \in PressTimes /\ clock' \in Nat /\ clock <= clock' BY <1>1, <1>2, <1>3
<1>5. UNCHANGED <<landed, market, shares, overlay, screen, offered, walk, presses>> BY DEF TimeRuns
<1>6. LastSession(PublishableDay(clock)) <= LastSession(PublishableDay(clock'))
  BY <1>2, <1>4, PublishableDays, LastSessionIsLast
<1>7. landed \in Nat /\ landed <= LastSession(PublishableDay(clock')) 
  <2>1. landed \in Nat /\ landed <= LastSession(PublishableDay(clock)) BY DEF PagesInv, PagesTypeInv
  <2>2. LastSession(PublishableDay(clock)) \in Nat /\ LastSession(PublishableDay(clock')) \in Nat
    BY <1>2, <1>4, PublishableDays, LastSessionIsLast
  <2> QED BY <2>1, <2>2, <1>6
<1>8. landed' \in Nat /\ landed' <= LastSession(PublishableDay(clock))'
  BY <1>5, <1>7 DEF PublishableDay, LastSession, DayAt, MinuteAt
<1>9. IsPast(market)' /\ IsPast(shares)'
  <2>1. IsList(market) /\ IsList(shares) /\ IsPast(market) /\ IsPast(shares) BY DEF PagesInv, PagesTypeInv
  <2> QED BY <2>1, <1>2, <1>4, <1>5 DEF IsPast, IsList
<1>10. overlay \in Nat /\ overlay <= clock' BY <1>2, <1>4 DEF PagesInv, PagesTypeInv
<1>11. PagesTypeInv'
  <2>1. IsList(market)' /\ IsList(shares)' BY <1>5 DEF PagesInv, PagesTypeInv
  <2>2. presses' \in 0..MaxPresses BY <1>5 DEF PagesInv, PagesTypeInv
  <2>3. screen' \in [Lists -> PageRecords]
        /\ \A l \in Lists : screen'[l].page <= screen'[l].last /\ screen'[l].live <= screen'[l].at
    BY <1>5 DEF PagesInv, PagesTypeInv
  <2>4. offered' \in [Lists -> SUBSET Nat] /\ walk'.on \in BOOLEAN
        /\ walk' = [on |-> walk'.on, all |-> walk'.all, read |-> walk'.read]
    BY <1>5 DEF PagesInv, PagesTypeInv
  <2> QED BY <1>4, <1>5, <1>8, <1>9, <1>10, <2>1, <2>2, <2>3, <2>4 DEF PagesTypeInv
<1> QED BY <1>5, <1>11 DEF PagesInv, WalkInv

\* A published day leaves the lists and the walk alone.
LEMMA HistoryKeepsPages ==
  ASSUME PagesInv, HistoryLands PROVE PagesInv'
<1>1. UNCHANGED <<clock, market, shares, overlay, screen, offered, walk, presses>> BY DEF HistoryLands
<1>2. landed' = LastSession(PublishableDay(clock)) BY DEF HistoryLands, PublishableDay
<1>3. landed \in Nat /\ landed <= landed' /\ landed' \in Nat
  <2>1. clock \in Nat /\ clock >= 1440 BY ClockIsNat DEF PagesInv, PagesTypeInv
  <2>2. LastSession(PublishableDay(clock)) \in Nat BY <2>1, PublishableDays, LastSessionIsLast
  <2> QED BY <1>2, <2>2 DEF PagesInv, PagesTypeInv
<1>4. LastSession(PublishableDay(clock))' = landed' 
  BY <1>1, <1>2 DEF PublishableDay, LastSession, DayAt, MinuteAt
<1>5. IsPast(market)' /\ IsPast(shares)'
  <2>1. IsList(market) /\ IsList(shares) /\ IsPast(market) /\ IsPast(shares) BY DEF PagesInv, PagesTypeInv
  <2> QED BY <2>1, <1>1, <1>3 DEF IsPast, IsList
<1>6. PagesTypeInv'
  <2>1. IsList(market)' /\ IsList(shares)' BY <1>1 DEF PagesInv, PagesTypeInv
  <2>2. presses' \in 0..MaxPresses BY <1>1 DEF PagesInv, PagesTypeInv
  <2>3. screen' \in [Lists -> PageRecords]
        /\ \A l \in Lists : screen'[l].page <= screen'[l].last /\ screen'[l].live <= screen'[l].at
    BY <1>1 DEF PagesInv, PagesTypeInv
  <2>4. offered' \in [Lists -> SUBSET Nat] /\ walk'.on \in BOOLEAN
        /\ walk' = [on |-> walk'.on, all |-> walk'.all, read |-> walk'.read]
    BY <1>1 DEF PagesInv, PagesTypeInv
  <2>5. clock' \in PressTimes /\ overlay' \in Nat /\ overlay' <= clock' BY <1>1 DEF PagesInv, PagesTypeInv
  <2>6. landed' <= landed' BY <1>3
  <2> QED BY <1>3, <1>4, <1>5, <2>1, <2>2, <2>3, <2>4, <2>5, <2>6 DEF PagesTypeInv
<1> QED BY <1>1, <1>6 DEF PagesInv, WalkInv

\* A press of a page of the market is not one of the walk.
LEMMA MarketPressKeepsPages ==
  ASSUME PagesInv, NEW p \in offered["market"], PressMarket(p) PROVE PagesInv'
<1>1. PagesTypeInv /\ WalkInv BY DEF PagesInv
<1>2. "market" \in Lists /\ "shares" \in Lists /\ "shares" # "market" BY DEF Lists
<1>3. p \in Nat BY <1>1, <1>2 DEF PagesTypeInv
<1>4. IsList(market') /\ IsPast(market')
  <2>1. CASE p # 0 /\ market # NoList
    BY <1>1, <2>1 DEF PressMarket, PagesTypeInv
  <2>2. CASE ~(p # 0 /\ market # NoList)
    BY <1>1, <2>2, MarketIsAList DEF PressMarket
  <2> QED BY <2>1, <2>2
<1>5. UNCHANGED <<shares, walk>> /\ ShowPage("market", market', p) BY DEF PressMarket
<1>6. IsList(shares') /\ IsPast(shares') /\ walk'.on \in BOOLEAN
      /\ walk' = [on |-> walk'.on, all |-> walk'.all, read |-> walk'.read]
  BY <1>1, <1>5 DEF PagesTypeInv
<1>7. PagesTypeInv' BY <1>1, <1>2, <1>3, <1>4, <1>5, <1>6, PressesKeepTypes
<1>8. screen'["shares"] = screen["shares"]
  BY <1>1, <1>2, <1>3, <1>4, <1>5, PagesAreShown
<1> QED BY <1>1, <1>5, <1>7, <1>8 DEF PagesInv, WalkInv

\* A press that fails may have made the market's list, or lost it.
LEMMA FailuresKeepPages ==
  ASSUME PagesInv, EnsureFails \/ EnsureMarket, presses < MaxPresses, presses' = presses + 1,
         UNCHANGED <<clock, landed, shares, overlay, screen, offered, walk>>
  PROVE  PagesInv'
<1>1. PagesTypeInv /\ WalkInv BY DEF PagesInv
<1>2. IsList(market') /\ IsPast(market')
  <2>1. CASE EnsureMarket BY <1>1, <2>1, MarketIsAList
  <2>2. CASE EnsureFails
    <3>1. CASE market' = market BY <1>1, <3>1 DEF PagesTypeInv
    <3>2. CASE market' = NoList
      <4>1. clock \in Nat /\ landed \in Nat BY <1>1, ClockIsNat DEF PagesTypeInv
      <4> QED BY <3>2, <4>1, NoListIsAList DEF IsPast, NoList
    <3> QED BY <2>2, <3>1, <3>2 DEF EnsureFails
  <2> QED BY <2>1, <2>2
<1>3. IsList(market)' /\ IsPast(market)' /\ IsList(shares)' /\ IsPast(shares)'
  BY <1>1, <1>2 DEF PagesTypeInv, IsPast
<1>4. presses' \in 0..MaxPresses
  <2>1. MaxPresses \in Nat BY PagesAssumption
  <2> QED BY <1>1, <2>1 DEF PagesTypeInv
<1>5. clock' \in PressTimes /\ landed' \in Nat /\ landed' <= LastSession(PublishableDay(clock))'
  BY <1>1 DEF PagesTypeInv, PublishableDay, LastSession, DayAt, MinuteAt
<1>6. /\ screen' \in [Lists -> PageRecords]
      /\ \A l \in Lists : screen'[l].page <= screen'[l].last /\ screen'[l].live <= screen'[l].at
      /\ offered' \in [Lists -> SUBSET Nat] /\ walk'.on \in BOOLEAN
      /\ walk' = [on |-> walk'.on, all |-> walk'.all, read |-> walk'.read]
      /\ overlay' \in Nat /\ overlay' <= clock'
  BY <1>1 DEF PagesTypeInv
<1>7. PagesTypeInv' BY <1>3, <1>4, <1>5, <1>6 DEF PagesTypeInv
<1> QED BY <1>1, <1>7 DEF PagesInv, WalkInv

\* The opening of the list is the beginning of a walk.
LEMMA OpeningKeepsPages ==
  ASSUME PagesInv, OpenShares PROVE PagesInv'
<1>1. PagesTypeInv /\ WalkInv BY DEF PagesInv
<1>2. "shares" \in Lists /\ 0 \in Nat BY DEF Lists
<1>3. BuildShares /\ ShowPage("shares", shares', 0)
      /\ walk' = [on |-> TRUE, all |-> shares'.rows, read |-> CardsOf(shares'.rows, 0)]
  BY DEF OpenShares
<1>4. IsList(market') /\ IsPast(market') /\ IsList(shares') /\ IsPast(shares') /\ shares'.made # 0
  BY <1>1, <1>3, SharesAreAList
<1>5. walk'.on = TRUE /\ walk' = [on |-> walk'.on, all |-> walk'.all, read |-> walk'.read] BY <1>3
<1>6. PagesTypeInv' BY <1>1, <1>2, <1>3, <1>4, <1>5, PressesKeepTypes
<1>7. screen'["shares"].page = Min({0, PageCount(shares'.rows) - 1})
      /\ screen'["shares"].last = PageCount(shares'.rows) - 1
  BY <1>1, <1>2, <1>3, <1>4, PagesAreShown
<1>8. screen'["shares"].page = 0
  <2>1. PageCount(shares'.rows) \in Nat /\ PageCount(shares'.rows) >= 1 BY <1>4, PagesOfRows DEF IsList, AreRows
  <2> QED BY <1>7, <2>1, MinOfTwo
<1>9. walk'.read = ReadUpTo(shares'.rows, 0)
  <2>1. 0 * CardsOnPage + 1 = 1 BY DEF CardsOnPage
  <2> QED BY <1>3, <2>1 DEF CardsOf, ReadUpTo
<1>10. WalkInv' BY <1>3, <1>4, <1>7, <1>8, <1>9 DEF WalkInv, PageCount, CardsOnPage, ReadUpTo
<1> QED BY <1>6, <1>10 DEF PagesInv

\* The next page goes on with it, any other page ends it.
LEMMA PageKeepsPages ==
  ASSUME PagesInv, NEW p \in offered["shares"], PressShares(p) PROVE PagesInv'
<1>1. PagesTypeInv /\ WalkInv BY DEF PagesInv
<1>2. "shares" \in Lists BY DEF Lists
<1>3. p \in Nat BY <1>1, <1>2 DEF PagesTypeInv
<1>4. ShowPage("shares", shares', p) /\ Walked(p) BY DEF PressShares
<1>5. IsList(market') /\ IsPast(market') /\ IsList(shares') /\ IsPast(shares')
  <2>1. CASE shares # NoList BY <1>1, <2>1 DEF PressShares, PagesTypeInv
  <2>2. CASE shares = NoList BY <1>1, <2>2, SharesAreAList DEF PressShares
  <2> QED BY <2>1, <2>2
<1>6. walk = [on |-> walk.on, all |-> walk.all, read |-> walk.read] /\ walk.on \in BOOLEAN BY <1>1 DEF PagesTypeInv
<1>7. CASE walk.on /\ p = screen["shares"].page + 1
  <2>1. walk' = [on |-> walk.on, all |-> walk.all, read |-> walk.read \o CardsOf(shares'.rows, p)]
    BY <1>4, <1>6, <1>7 DEF Walked
  <2>2. walk'.on \in BOOLEAN /\ walk' = [on |-> walk'.on, all |-> walk'.all, read |-> walk'.read] BY <1>6, <2>1
  <2>3. PagesTypeInv' BY <1>1, <1>2, <1>3, <1>4, <1>5, <2>2, PressesKeepTypes
  <2>4. shares.made # 0 BY <1>1, <1>7 DEF WalkInv
  <2>5. shares' = shares
    <3>1. shares # NoList BY <2>4 DEF NoList
    <3> QED BY <3>1 DEF PressShares
  <2>6. /\ walk.all = shares.rows /\ screen["shares"].last = PageCount(shares.rows) - 1
        /\ walk.read = ReadUpTo(shares.rows, screen["shares"].page)
    BY <1>1, <1>7 DEF WalkInv
  <2>7. screen["shares"].page \in Nat /\ screen["shares"].page <= PageCount(shares.rows) - 1
    BY <1>1, <1>2, <2>6 DEF PagesTypeInv, PageRecords
  <2>8. AreRows(shares.rows) BY <1>1 DEF PagesTypeInv, IsList
  <2>9. screen'["shares"].page = Min({p, PageCount(shares.rows) - 1})
        /\ screen'["shares"].last = PageCount(shares.rows) - 1
    BY <1>1, <1>2, <1>3, <1>4, <1>5, <2>5, PagesAreShown
  <2>10. walk'.read = ReadUpTo(shares.rows, screen'["shares"].page)
    BY <1>7, <2>1, <2>5, <2>6, <2>7, <2>8, <2>9, NextCards
  <2>11. WalkInv' BY <2>1, <2>4, <2>5, <2>6, <2>9, <2>10 DEF WalkInv, PageCount, CardsOnPage, ReadUpTo
  <2> QED BY <2>3, <2>11 DEF PagesInv
<1>8. CASE ~(walk.on /\ p = screen["shares"].page + 1)
  <2>1. walk' = NoWalk BY <1>4, <1>8 DEF Walked
  <2>2. walk'.on = FALSE /\ walk' = [on |-> walk'.on, all |-> walk'.all, read |-> walk'.read] BY <2>1 DEF NoWalk
  <2>3. PagesTypeInv' BY <1>1, <1>2, <1>3, <1>4, <1>5, <2>2, PressesKeepTypes
  <2> QED BY <2>2, <2>3 DEF PagesInv, WalkInv
<1> QED BY <1>7, <1>8

\* No press, and nothing that happens between two presses, breaks the invariant of the pages.
THEOREM PagesStep == PagesInv /\ [PagesNext]_pagesVars => PagesInv'
<1> SUFFICES ASSUME PagesInv, [PagesNext]_pagesVars PROVE PagesInv' OBVIOUS
<1>1. CASE TimeRuns BY <1>1, TimeKeepsPages
<1>2. CASE HistoryLands BY <1>2, HistoryKeepsPages
<1>3. CASE \E p \in offered["market"] : PressMarket(p) BY <1>3, MarketPressKeepsPages
<1>4. CASE PressMarketFails BY <1>4, FailuresKeepPages DEF PressMarketFails
<1>5. CASE OpenShares BY <1>5, OpeningKeepsPages
<1>6. CASE OpenSharesFails BY <1>6, FailuresKeepPages DEF OpenSharesFails
<1>7. CASE \E p \in offered["shares"] : PressShares(p) BY <1>7, PageKeepsPages
<1>8. CASE UNCHANGED pagesVars
  <2>1. UNCHANGED <<clock, landed, market, shares, overlay, screen, offered, walk, presses>> BY <1>8 DEF pagesVars
  <2>2. LastSession(PublishableDay(clock))' = LastSession(PublishableDay(clock))
    BY <2>1 DEF LastSession, PublishableDay, MinuteAt, DayAt
  <2>3. PagesTypeInv'
    <3>1. /\ clock' \in PressTimes /\ landed' \in Nat /\ landed' <= LastSession(PublishableDay(clock))'
          /\ overlay' \in Nat /\ overlay' <= clock' /\ presses' \in 0..MaxPresses
      BY <2>1, <2>2 DEF PagesInv, PagesTypeInv
    <3>2. IsList(market)' /\ IsPast(market)' /\ IsList(shares)' /\ IsPast(shares)'
      BY <2>1 DEF PagesInv, PagesTypeInv, IsPast
    <3>3. /\ screen' \in [Lists -> PageRecords]
          /\ \A l \in Lists : screen'[l].page <= screen'[l].last /\ screen'[l].live <= screen'[l].at
          /\ offered' \in [Lists -> SUBSET Nat] /\ walk'.on \in BOOLEAN
          /\ walk' = [on |-> walk'.on, all |-> walk'.all, read |-> walk'.read]
      BY <2>1 DEF PagesInv, PagesTypeInv
    <3> QED BY <3>1, <3>2, <3>3 DEF PagesTypeInv
  <2>4. WalkInv' BY <2>1 DEF PagesInv, WalkInv
  <2> QED BY <2>3, <2>4 DEF PagesInv
<1> QED BY <1>1, <1>2, <1>3, <1>4, <1>5, <1>6, <1>7, <1>8 DEF PagesNext

\* Every list is of the past, every page is one of its list, and a walk that is under way has
\* read the beginning of the list that is on file, up to the page on the screen.
THEOREM PagesInvariance == PagesSpec => []PagesInv
<1>1. PagesInit => PagesInv BY PagesStart
<1>2. PagesInv /\ [PagesNext]_pagesVars => PagesInv' BY PagesStep
<1> QED BY <1>1, <1>2, PTL DEF PagesSpec

\* That is more than the type invariant says.
LEMMA TypesImplied == PagesInv => PagesTypeOK
<1> SUFFICES ASSUME PagesInv PROVE PagesTypeOK OBVIOUS
<1>1. clock \in PressTimes /\ landed \in Nat /\ overlay <= clock BY DEF PagesInv, PagesTypeInv
<1>2. \A report \in {market, shares} : report.made <= clock /\ report.history <= landed
  BY DEF PagesInv, PagesTypeInv, IsPast
<1>3. \A l \in Lists : screen[l].page \in 0..screen[l].last /\ screen[l].live <= screen[l].at
  <2> TAKE l \in Lists
  <2>1. screen[l].page \in Nat /\ screen[l].last \in Nat BY DEF PagesInv, PagesTypeInv, PageRecords
  <2> QED BY <2>1 DEF PagesInv, PagesTypeInv
<1>4. offered \in [Lists -> SUBSET Nat] BY DEF PagesInv, PagesTypeInv
<1>5. walk.on \in BOOLEAN BY DEF PagesInv, PagesTypeInv
<1>6. presses \in 0..MaxPresses BY DEF PagesInv, PagesTypeInv
<1> QED BY <1>1, <1>2, <1>3, <1>4, <1>5, <1>6 DEF PagesTypeOK

\* Whoever opens the list of shares and presses next until there is no next page has read every
\* share of that list, once and in order (render_page of
\* bale_base_share_option_cards.py), for any ranking, any number of shares and any time between
\* two presses.
THEOREM WalksAreWhole == PagesSpec => []PagesAreWhole
<1>1. PagesInv => WalkIsWhole
  <2> SUFFICES ASSUME PagesInv, walk.on, screen["shares"].page = screen["shares"].last PROVE walk.read = walk.all
    BY DEF WalkIsWhole
  <2>1. AreRows(shares.rows) BY DEF PagesInv, PagesTypeInv, IsList
  <2>2. walk.all = shares.rows /\ walk.read = ReadUpTo(shares.rows, PageCount(shares.rows) - 1)
    BY DEF PagesInv, WalkInv
  <2> QED BY <2>1, <2>2, LastPageIsTheEnd
<1>2. PagesInv => PagesAreWhole BY <1>1, TypesImplied DEF PagesAreWhole
<1> QED BY <1>2, PagesInvariance, PTL

\* A first page of the market lacks no day that is published and that the code waits for
\* (_report_is_fresh and _previous_trading_day of bale_market_share_cards.py), for any calendar of
\* sessions and any minutes of the presses.
THEOREM FirstPageIsCurrent == PagesSpec => MarketIsCurrent
<1>1. PagesInv /\ [PagesNext]_pagesVars =>
        [screen'["market"] # screen["market"] /\ screen'["market"].asked = 0 =>
           screen'["market"].history >= Min({landed, LastAwaited})]_pagesVars
  <2> SUFFICES ASSUME PagesInv, PagesNext, screen'["market"] # screen["market"], screen'["market"].asked = 0
               PROVE  screen'["market"].history >= Min({landed, LastAwaited})
    OBVIOUS
  <2>1. PagesTypeInv /\ "market" \in Lists /\ "shares" \in Lists /\ "market" # "shares" BY DEF PagesInv, Lists
  <2>2. clock \in Nat /\ clock >= 1440 /\ landed \in Nat BY <2>1, ClockIsNat DEF PagesTypeInv
  <2>3. LastAwaited \in Nat BY <2>2, AwaitedIsNat
  <2>4. Min({landed, LastAwaited}) <= landed /\ Min({landed, LastAwaited}) <= LastAwaited /\ Min({landed, LastAwaited}) \in Nat
    BY <2>2, <2>3, MinOfTwo
  <2>5. ASSUME NEW p \in offered["market"], PressMarket(p) PROVE screen'["market"].history >= Min({landed, LastAwaited})
    <3>1. p \in Nat /\ ShowPage("market", market', p) BY <2>1, <2>5 DEF PagesTypeInv, PressMarket
    <3>2. IsList(market') /\ IsPast(market')
      <4>1. CASE p # 0 /\ market # NoList BY <2>1, <2>5, <4>1 DEF PressMarket, PagesTypeInv
      <4>2. CASE ~(p # 0 /\ market # NoList) BY <2>1, <2>5, <4>2, MarketIsAList DEF PressMarket
      <4> QED BY <4>1, <4>2
    <3>3. screen'["market"].asked = p /\ screen'["market"].history = market'.history
      BY <2>1, <3>1, <3>2, PagesAreShown
    <3>4. EnsureMarket BY <2>5, <3>3 DEF PressMarket
    <3>5. CASE MarketIsFresh
      <4>1. market' = market /\ market.history >= LastAwaited BY <3>4, <3>5 DEF EnsureMarket, MarketIsFresh, ReportIsFresh
      <4>2. market.history \in Nat BY <2>1 DEF PagesTypeInv, IsList
      <4> QED BY <2>3, <2>4, <3>3, <4>1, <4>2
    <3>6. CASE ~MarketIsFresh
      <4>1. market'.history = landed BY <3>4, <3>6 DEF EnsureMarket, BuiltMarket
      <4> QED BY <2>2, <2>4, <3>3, <4>1
    <3> QED BY <3>5, <3>6
  <2>6. CASE OpenShares
    <3>1. 0 \in Nat /\ BuildShares /\ ShowPage("shares", shares', 0) BY <2>6 DEF OpenShares
    <3>2. IsList(shares') /\ IsPast(shares') BY <2>1, <3>1, SharesAreAList
    <3>3. \A l \in Lists : l # "shares" => screen'[l] = screen[l] BY <2>1, <3>1, <3>2, PagesAreShown
    <3> QED BY <2>1, <3>3
  <2>7. ASSUME NEW p \in offered["shares"], PressShares(p) PROVE FALSE
    <3>1. p \in Nat /\ ShowPage("shares", shares', p) BY <2>1, <2>7 DEF PagesTypeInv, PressShares
    <3>2. IsList(shares') /\ IsPast(shares')
      <4>1. CASE shares # NoList BY <2>1, <2>7, <4>1 DEF PressShares, PagesTypeInv
      <4>2. CASE shares = NoList BY <2>1, <2>7, <4>2, SharesAreAList DEF PressShares
      <4> QED BY <4>1, <4>2
    <3>3. \A l \in Lists : l # "shares" => screen'[l] = screen[l] BY <2>1, <3>1, <3>2, PagesAreShown
    <3> QED BY <2>1, <3>3
  <2>8. CASE TimeRuns \/ HistoryLands \/ PressMarketFails \/ OpenSharesFails
    BY <2>8 DEF TimeRuns, HistoryLands, PressMarketFails, OpenSharesFails
  <2> QED BY <2>5, <2>6, <2>7, <2>8 DEF PagesNext
<1> QED BY <1>1, PagesInvariance, PTL DEF PagesSpec, MarketIsCurrent


-------------------------------------------------------------------------------
\* The messages of a chat, and the deliveries that are under way and on record.
ChatMessages == [report : Nat, part : Nat]
Sendings == [kind : SenderKinds \union {"none"}, report : Nat, part : Nat, parts : Nat, noting : BOOLEAN]
Hows == {"none", "sent", "failed"}
Verdicts == [how : Hows, kind : SenderKinds, parts : Nat]

Positions(log, r) == {i \in DOMAIN log : log[i].report = r /\ log[i].part # 0}
UpTo(log, r, i) == {j \in Positions(log, r) : j <= i}
CountOf(log, r) == Cardinality(Positions(log, r))
SeenOf(log, r) == {log[i].part : i \in Positions(log, r)}
InOrderOf(log, r) == \A i \in Positions(log, r) : log[i].part = Cardinality(UpTo(log, r, i))
NotedIn(log, r) == \E i \in DOMAIN log : log[i] = [report |-> r, part |-> 0]

Active(p) == sending[p].kind # "none"

DeliveryTypes ==
  /\ chat \in Seq(ChatMessages)
  /\ sending \in [DOMAIN Posters -> Sendings]
  /\ receipts \in Seq(SUBSET Nat) /\ Len(receipts) = Len(verdicts)
  /\ verdicts \in Seq(Verdicts)
  /\ troubles \in Nat
  /\ \A i \in DOMAIN chat : chat[i].report <= Len(verdicts)

Working(p) ==
  LET s == sending[p]
  IN /\ s.report \in 1..Len(verdicts) /\ verdicts[s.report] = Verdict("none", s.kind, s.parts)
     /\ 1 <= s.part /\ s.part <= s.parts
     /\ s.noting => s.kind = "cards" /\ troubles >= 1
     /\ s.kind = "transport" => CountOf(chat, s.report) = s.part - 1
     /\ s.kind = "cards" /\ troubles < 2 => CountOf(chat, s.report) >= s.part - 1 \/ NotedIn(chat, s.report)

Standing(r) ==
  /\ verdicts[r].kind = "transport" =>
       /\ InOrderOf(chat, r)
       /\ verdicts[r].how = "sent" => CountOf(chat, r) = verdicts[r].parts
       /\ verdicts[r].how # "failed" => SeenOf(chat, r) \subseteq receipts[r]
       /\ \E x \in Nat : SeenOf(chat, r) \subseteq receipts[r] \union {x}
  /\ verdicts[r].kind = "cards" /\ verdicts[r].how = "sent" /\ troubles < 2 =>
       CountOf(chat, r) >= verdicts[r].parts \/ NotedIn(chat, r)

DeliveryInv ==
  /\ DeliveryTypes
  /\ \A p \in DOMAIN Posters : IF Active(p) THEN Working(p) ELSE sending[p] = Idle
  /\ \A p, q \in DOMAIN Posters : Active(p) /\ Active(q) /\ sending[p].report = sending[q].report => p = q
  /\ \A r \in 1..Len(verdicts) : Standing(r)

-------------------------------------------------------------------------------
\* A report has finitely many messages in a chat.
LEMMA FewPositions ==
  ASSUME NEW log \in Seq(ChatMessages), NEW r
  PROVE  /\ IsFiniteSet(Positions(log, r)) /\ CountOf(log, r) \in Nat
         /\ \A i \in Positions(log, r) : i \in 1..Len(log) /\ UpTo(log, r, i) \subseteq Positions(log, r)
<1>1. IsFiniteSet(1..Len(log)) BY FS_Interval
<1>2. Positions(log, r) \subseteq 1..Len(log) BY DEF Positions
<1>3. IsFiniteSet(Positions(log, r)) BY <1>1, <1>2, FS_Subset
<1> QED BY <1>2, <1>3, FS_CardinalityType DEF CountOf, UpTo

\* What one more message changes.
LEMMA OneMore ==
  ASSUME NEW log \in Seq(ChatMessages), NEW m \in ChatMessages, NEW more, more = log \o <<m>>
  PROVE  /\ more \in Seq(ChatMessages) /\ Len(more) = Len(log) + 1 /\ more[Len(log) + 1] = m
         /\ \A i \in 1..Len(log) : more[i] = log[i]
BY DEF ChatMessages

\* A message of another report changes nothing for this one.
LEMMA OtherMessage ==
  ASSUME NEW log \in Seq(ChatMessages), NEW m \in ChatMessages, NEW more, more = log \o <<m>>,
         NEW r, m.report # r \/ m.part = 0
  PROVE  /\ CountOf(more, r) = CountOf(log, r) /\ SeenOf(more, r) = SeenOf(log, r)
         /\ InOrderOf(log, r) => InOrderOf(more, r)
<1>1. /\ more \in Seq(ChatMessages) /\ Len(more) = Len(log) + 1 /\ more[Len(log) + 1] = m
      /\ \A i \in 1..Len(log) : more[i] = log[i]
  BY OneMore
<1>2. DOMAIN log = 1..Len(log) /\ DOMAIN more = 1..Len(log) + 1 /\ Len(log) \in Nat BY <1>1
<1>3. Positions(more, r) = Positions(log, r)
  <2>1. \A i \in 1..Len(log) : i \in Positions(more, r) <=> i \in Positions(log, r) BY <1>1, <1>2 DEF Positions
  <2>2. Len(log) + 1 \notin Positions(more, r) BY <1>1 DEF Positions
  <2>3. \A i \in Positions(more, r) : i \in 1..Len(log) BY <1>2, <2>2 DEF Positions
  <2>4. \A i \in Positions(log, r) : i \in 1..Len(log) BY <1>2 DEF Positions
  <2> QED BY <2>1, <2>3, <2>4
<1>4. \A i \in Positions(log, r) : more[i] = log[i] /\ UpTo(more, r, i) = UpTo(log, r, i)
  BY <1>1, <1>2, <1>3 DEF Positions, UpTo
<1> QED BY <1>3, <1>4 DEF CountOf, SeenOf, InOrderOf

\* A part of the report itself is one more, and in order if it is the next one.
LEMMA OwnMessage ==
  ASSUME NEW log \in Seq(ChatMessages), NEW m \in ChatMessages, NEW more, more = log \o <<m>>,
         m.part # 0
  PROVE  /\ CountOf(more, m.report) = CountOf(log, m.report) + 1
         /\ SeenOf(more, m.report) = SeenOf(log, m.report) \union {m.part}
         /\ InOrderOf(log, m.report) /\ m.part = CountOf(log, m.report) + 1 => InOrderOf(more, m.report)
<1>1. /\ more \in Seq(ChatMessages) /\ Len(more) = Len(log) + 1 /\ more[Len(log) + 1] = m
      /\ \A i \in 1..Len(log) : more[i] = log[i]
  BY OneMore
<1>2. DOMAIN log = 1..Len(log) /\ DOMAIN more = 1..Len(log) + 1 /\ Len(log) \in Nat BY <1>1
<1>3. PICK r : r = m.report OBVIOUS
<1>4. PICK n \in Nat : n = Len(log) + 1 BY <1>2
<1>5. Positions(more, r) = Positions(log, r) \union {n} /\ n \notin Positions(log, r)
  <2>1. \A i \in 1..Len(log) : i \in Positions(more, r) <=> i \in Positions(log, r) BY <1>1, <1>2 DEF Positions
  <2>2. n \in Positions(more, r) BY <1>1, <1>2, <1>3, <1>4 DEF Positions
  <2>3. \A i \in Positions(more, r) : i \in 1..Len(log) \/ i = n BY <1>2, <1>4 DEF Positions
  <2>4. \A i \in Positions(log, r) : i \in 1..Len(log) BY <1>2 DEF Positions
  <2>5. n \notin 1..Len(log) BY <1>2, <1>4
  <2> QED BY <2>1, <2>2, <2>3, <2>4, <2>5
<1>6. IsFiniteSet(Positions(log, r)) /\ CountOf(log, r) \in Nat BY FewPositions
<1>7. CountOf(more, r) = CountOf(log, r) + 1
  BY <1>5, <1>6, FS_AddElement DEF CountOf
<1>8. \A i \in Positions(log, r) : more[i] = log[i] /\ UpTo(more, r, i) = UpTo(log, r, i)
  <2>1. \A i \in Positions(log, r) : i \in 1..Len(log) /\ ~(n <= i) BY <1>2, <1>4 DEF Positions
  <2> QED BY <1>1, <1>5, <2>1 DEF UpTo
<1>9. more[n] = m /\ UpTo(more, r, n) = Positions(more, r)
  <2>1. \A i \in Positions(more, r) : i <= n BY <1>2, <1>4 DEF Positions
  <2> QED BY <1>1, <1>4, <2>1 DEF UpTo
<1>10. SeenOf(more, r) = SeenOf(log, r) \union {m.part}
  <2>1. \A x : x \in SeenOf(more, r) <=> \E i \in Positions(more, r) : x = more[i].part BY DEF SeenOf
  <2>2. \A x : x \in SeenOf(log, r) <=> \E i \in Positions(log, r) : x = log[i].part BY DEF SeenOf
  <2>3. \A x : x \in SeenOf(more, r) <=> x \in SeenOf(log, r) \/ x = m.part
    <3> TAKE x
    <3>1. ASSUME x \in SeenOf(more, r) PROVE x \in SeenOf(log, r) \/ x = m.part
      <4>1. PICK i \in Positions(more, r) : x = more[i].part BY <2>1, <3>1
      <4> QED BY <1>5, <1>8, <1>9, <2>2, <4>1
    <3>2. ASSUME x \in SeenOf(log, r) PROVE x \in SeenOf(more, r)
      <4>1. PICK i \in Positions(log, r) : x = log[i].part BY <2>2, <3>2
      <4> QED BY <1>5, <1>8, <2>1, <4>1
    <3>3. m.part \in SeenOf(more, r) BY <1>5, <1>9, <2>1
    <3> QED BY <3>1, <3>2, <3>3
  <2> QED BY <2>3
<1>11. InOrderOf(log, r) /\ m.part = CountOf(log, r) + 1 => InOrderOf(more, r)
  <2> SUFFICES ASSUME InOrderOf(log, r), m.part = CountOf(log, r) + 1, NEW i \in Positions(more, r)
               PROVE  more[i].part = Cardinality(UpTo(more, r, i))
    BY DEF InOrderOf
  <2>1. CASE i \in Positions(log, r) BY <1>8, <2>1 DEF InOrderOf
  <2>2. CASE i = n BY <1>7, <1>9, <2>2 DEF CountOf
  <2> QED BY <1>5, <2>1, <2>2
<1> QED BY <1>3, <1>7, <1>10, <1>11

\* What was noted in the chat stays there.
LEMMA NotesStay ==
  ASSUME NEW log \in Seq(ChatMessages), NEW m \in ChatMessages, NEW more, more = log \o <<m>>, NEW r
  PROVE  /\ NotedIn(log, r) => NotedIn(more, r)
         /\ m = [report |-> r, part |-> 0] => NotedIn(more, r)
<1>1. /\ more \in Seq(ChatMessages) /\ Len(more) = Len(log) + 1 /\ more[Len(log) + 1] = m
      /\ \A i \in 1..Len(log) : more[i] = log[i]
  BY OneMore
<1>2. DOMAIN log = 1..Len(log) /\ DOMAIN more = 1..Len(log) + 1 /\ Len(log) \in Nat BY <1>1
<1> QED BY <1>1, <1>2 DEF NotedIn

-------------------------------------------------------------------------------
\* The message of a process, or none; its receipt, or none; a call that fails, or none.
Speaks(p, m) ==
  /\ m \in ChatMessages /\ m.report = sending[p].report
  /\ chat' \in {chat, chat \o <<m>>}
  /\ troubles' \in {troubles, troubles + 1}
  /\ receipts' \in {receipts, [receipts EXCEPT ![sending[p].report] = @ \union {sending[p].part}]}

\* A process speaks and goes on to what is next, and the caller may be told.
LEMMA SenderStep ==
  ASSUME DeliveryInv, NEW p \in DOMAIN Posters, Active(p), NEW m, Speaks(p, m),
         NEW how \in Hows, verdicts' = [verdicts EXCEPT ![sending[p].report].how = how],
         NEW next \in Sendings, sending' = [sending EXCEPT ![p] = next],
         \/ next = Idle
         \/ next.kind # "none" /\ next.report = sending[p].report /\ Working(p)',
         NEW r, r = sending[p].report, Standing(r)'
  PROVE  DeliveryInv'
<1>1. DeliveryTypes /\ Working(p) BY DEF DeliveryInv
<1>2. r = sending[p].report OBVIOUS
<1>3. r \in 1..Len(verdicts) /\ r \in Nat /\ sending[p].part \in Nat
  BY <1>1, <1>2 DEF Working, DeliveryTypes, Sendings
<1>4. chat \in Seq(ChatMessages) /\ m \in ChatMessages /\ m.report = r BY <1>1, <1>2 DEF DeliveryTypes, Speaks
<1>5. verdicts \in Seq(Verdicts) BY <1>1 DEF DeliveryTypes
<1>6. verdicts' \in Seq(Verdicts) /\ Len(verdicts') = Len(verdicts)
      /\ \A s \in 1..Len(verdicts) : s # r => verdicts'[s] = verdicts[s]
  <2>1. verdicts[r] \in Verdicts BY <1>3, <1>5
  <2>2. PICK v \in Verdicts : v = [verdicts[r] EXCEPT !.how = how] BY <2>1 DEF Verdicts
  <2>3. verdicts' = [verdicts EXCEPT ![r] = v] BY <1>2, <2>2
  <2>4. Len(verdicts) \in Nat /\ verdicts \in [1..Len(verdicts) -> Verdicts] BY <1>5
  <2>5. verdicts' \in [1..Len(verdicts) -> Verdicts] BY <1>3, <2>3, <2>4
  <2>6. verdicts' \in Seq(Verdicts) /\ Len(verdicts') = Len(verdicts) BY <2>4, <2>5
  <2>7. \A s \in 1..Len(verdicts) : s # r => verdicts'[s] = verdicts[s] BY <1>3, <2>3, <2>4
  <2> QED BY <2>6, <2>7
<1>7. receipts' \in Seq(SUBSET Nat) /\ Len(receipts') = Len(receipts)
      /\ \A s \in 1..Len(verdicts) : s # r => receipts'[s] = receipts[s]
  <2>1. receipts \in Seq(SUBSET Nat) /\ Len(receipts) = Len(verdicts) BY <1>1 DEF DeliveryTypes
  <2>2. CASE receipts' = receipts BY <2>1, <2>2
  <2>3. CASE receipts' = [receipts EXCEPT ![r] = @ \union {sending[p].part}]
    BY <1>3, <2>1, <2>3
  <2> QED BY <1>2, <2>2, <2>3 DEF Speaks
<1>8. sending \in [DOMAIN Posters -> Sendings] /\ sending' \in [DOMAIN Posters -> Sendings] /\ sending'[p] = next
      /\ \A q \in DOMAIN Posters : q # p => sending'[q] = sending[q]
  BY <1>1 DEF DeliveryTypes
<1>9. troubles \in Nat /\ troubles' \in Nat /\ troubles <= troubles' BY <1>1 DEF DeliveryTypes, Speaks
<1>10. chat' \in Seq(ChatMessages) /\ \A i \in DOMAIN chat' : chat'[i].report <= Len(verdicts)
  <2>1. \A i \in DOMAIN chat : chat[i].report <= Len(verdicts) BY <1>1 DEF DeliveryTypes
  <2>2. CASE chat' = chat BY <1>4, <2>1, <2>2
  <2>3. CASE chat' = chat \o <<m>>
    <3>1. /\ chat' \in Seq(ChatMessages) /\ Len(chat') = Len(chat) + 1 /\ chat'[Len(chat) + 1] = m
          /\ \A i \in 1..Len(chat) : chat'[i] = chat[i]
      BY <1>4, <2>3, OneMore
    <3>2. \A i \in DOMAIN chat' : i \in 1..Len(chat) \/ i = Len(chat) + 1 BY <3>1
    <3>3. r <= Len(verdicts) BY <1>3
    <3>4. DOMAIN chat = 1..Len(chat) BY <1>4
    <3> QED BY <1>4, <2>1, <3>1, <3>2, <3>3, <3>4
  <2> QED BY <2>2, <2>3 DEF Speaks
<1>11. DeliveryTypes' BY <1>6, <1>7, <1>8, <1>9, <1>10, <1>1 DEF DeliveryTypes
<1>12. \A s \in Nat : s # r =>
         /\ CountOf(chat', s) = CountOf(chat, s) /\ SeenOf(chat', s) = SeenOf(chat, s)
         /\ InOrderOf(chat, s) => InOrderOf(chat', s)
         /\ NotedIn(chat, s) => NotedIn(chat', s)
  <2> TAKE s \in Nat
  <2> HAVE s # r
  <2>1. CASE chat' = chat BY <2>1
  <2>2. CASE chat' = chat \o <<m>>
    <3>1. m.report # s BY <1>4
    <3>2. /\ CountOf(chat', s) = CountOf(chat, s) /\ SeenOf(chat', s) = SeenOf(chat, s)
          /\ InOrderOf(chat, s) => InOrderOf(chat', s)
      BY <1>4, <2>2, <3>1, OtherMessage
    <3>3. NotedIn(chat, s) => NotedIn(chat', s) BY <1>4, <2>2, NotesStay
    <3> QED BY <3>2, <3>3
  <2> QED BY <2>1, <2>2 DEF Speaks
<1>13. \A s \in 1..Len(verdicts)' : Standing(s)'
  <2> TAKE s \in 1..Len(verdicts)'
  <2>1. CASE s = r BY <1>2, <2>1
  <2>2. CASE s # r
    <3>1. s \in 1..Len(verdicts) /\ s \in Nat /\ Standing(s)
      <4>1. Len(verdicts) \in Nat /\ s \in 1..Len(verdicts) BY <1>5, <1>6
      <4> QED BY <4>1 DEF DeliveryInv
    <3>2. verdicts'[s] = verdicts[s] /\ receipts'[s] = receipts[s] BY <1>6, <1>7, <2>2, <3>1
    <3>3. troubles' < 2 => troubles < 2 BY <1>9
    <3>4. /\ CountOf(chat', s) = CountOf(chat, s) /\ SeenOf(chat', s) = SeenOf(chat, s)
          /\ InOrderOf(chat, s) => InOrderOf(chat', s)
          /\ NotedIn(chat, s) => NotedIn(chat', s)
      BY <1>12, <2>2, <3>1
    <3>5. Standing(s)' <=>
            /\ verdicts'[s].kind = "transport" =>
                 /\ InOrderOf(chat', s)
                 /\ verdicts'[s].how = "sent" => CountOf(chat', s) = verdicts'[s].parts
                 /\ verdicts'[s].how # "failed" => SeenOf(chat', s) \subseteq receipts'[s]
                 /\ \E x \in Nat : SeenOf(chat', s) \subseteq receipts'[s] \union {x}
            /\ verdicts'[s].kind = "cards" /\ verdicts'[s].how = "sent" /\ troubles' < 2 =>
                 CountOf(chat', s) >= verdicts'[s].parts \/ NotedIn(chat', s)
      BY DEF Standing, CountOf, SeenOf, InOrderOf, NotedIn, Positions, UpTo
    <3>6. Standing(s) <=>
            /\ verdicts[s].kind = "transport" =>
                 /\ InOrderOf(chat, s)
                 /\ verdicts[s].how = "sent" => CountOf(chat, s) = verdicts[s].parts
                 /\ verdicts[s].how # "failed" => SeenOf(chat, s) \subseteq receipts[s]
                 /\ \E x \in Nat : SeenOf(chat, s) \subseteq receipts[s] \union {x}
            /\ verdicts[s].kind = "cards" /\ verdicts[s].how = "sent" /\ troubles < 2 =>
                 CountOf(chat, s) >= verdicts[s].parts \/ NotedIn(chat, s)
      BY DEF Standing
    <3>7. /\ verdicts'[s].kind = "transport" =>
                 /\ InOrderOf(chat', s)
                 /\ verdicts'[s].how = "sent" => CountOf(chat', s) = verdicts'[s].parts
                 /\ verdicts'[s].how # "failed" => SeenOf(chat', s) \subseteq receipts'[s]
                 /\ \E x \in Nat : SeenOf(chat', s) \subseteq receipts'[s] \union {x}
      BY <3>1, <3>2, <3>4, <3>6
    <3>8. verdicts'[s].kind = "cards" /\ verdicts'[s].how = "sent" /\ troubles' < 2 =>
                 CountOf(chat', s) >= verdicts'[s].parts \/ NotedIn(chat', s)
      BY <3>1, <3>2, <3>3, <3>4, <3>6
    <3> QED BY <3>5, <3>7, <3>8
  <2> QED BY <2>1, <2>2
<1>14. \A q \in DOMAIN Posters : IF Active(q)' THEN Working(q)' ELSE sending'[q] = Idle
  <2> TAKE q \in DOMAIN Posters
  <2>1. CASE q = p BY <1>8, <2>1 DEF Active, Idle
  <2>2. CASE q # p /\ Active(q)
    <3>1. sending'[q] = sending[q] /\ Working(q) /\ Active(q)' BY <1>8, <2>2 DEF DeliveryInv, Active
    <3>2. sending[q].report # r BY <1>2, <2>2 DEF DeliveryInv
    <3>3. sending[q].report \in 1..Len(verdicts) /\ sending[q].report \in Nat
      BY <1>8, <3>1 DEF Working, Sendings
    <3>4. verdicts'[sending[q].report] = verdicts[sending[q].report] BY <1>6, <3>2, <3>3
    <3>5. (troubles >= 1 => troubles' >= 1) /\ (troubles' < 2 => troubles < 2) BY <1>9
    <3>6. Working(q)'
      BY <1>6, <1>12, <3>1, <3>2, <3>3, <3>4, <3>5 DEF Working
    <3> QED BY <3>1, <3>6
  <2>3. CASE q # p /\ ~Active(q) BY <1>8, <2>3 DEF DeliveryInv, Active
  <2> QED BY <2>1, <2>2, <2>3
<1>15. \A q, s \in DOMAIN Posters : Active(q)' /\ Active(s)' /\ sending'[q].report = sending'[s].report => q = s
  <2>1. \A q \in DOMAIN Posters : Active(q)' => Active(q) /\ sending'[q].report = sending[q].report
    BY <1>8 DEF Active, Idle
  <2> QED BY <2>1 DEF DeliveryInv
<1> QED BY <1>11, <1>13, <1>14, <1>15 DEF DeliveryInv

-------------------------------------------------------------------------------
\* What is known of a process that sends.
LEMMA AtWork ==
  ASSUME DeliveryInv, NEW p \in DOMAIN Posters, Active(p), NEW r, r = sending[p].report
  PROVE  /\ sending[p] \in Sendings /\ r \in 1..Len(verdicts) /\ r \in Nat /\ Len(verdicts) \in Nat
         /\ verdicts[r] = Verdict("none", sending[p].kind, sending[p].parts)
         /\ sending[p].part \in Nat /\ sending[p].parts \in Nat
         /\ 1 <= sending[p].part /\ sending[p].part <= sending[p].parts
         /\ Working(p) /\ Standing(r) /\ CountOf(chat, r) \in Nat
         /\ chat \in Seq(ChatMessages) /\ verdicts \in Seq(Verdicts)
         /\ receipts \in Seq(SUBSET Nat) /\ Len(receipts) = Len(verdicts) /\ troubles \in Nat
<1>1. DeliveryTypes /\ Working(p) BY DEF DeliveryInv
<1>2. sending[p] \in Sendings BY <1>1 DEF DeliveryTypes
<1>3. verdicts \in Seq(Verdicts) /\ Len(verdicts) \in Nat /\ chat \in Seq(ChatMessages) BY <1>1 DEF DeliveryTypes
<1>4. r \in 1..Len(verdicts) BY <1>1 DEF Working
<1>5. CountOf(chat, r) \in Nat BY <1>3, FewPositions
<1>6. Standing(r) BY <1>4 DEF DeliveryInv
<1> QED BY <1>1, <1>2, <1>3, <1>4, <1>5, <1>6 DEF Working, Sendings, DeliveryTypes

\* What is next when a part is done: the next part, or nothing and a verdict.
NextOf(p) == [sending[p] EXCEPT !.part = @ + 1, !.noting = FALSE]

\* A sender that goes on to its next part, or is done with the last one.
LEMMA GoingOn ==
  ASSUME DeliveryInv, NEW p \in DOMAIN Posters, Active(p), GoesOn(p), NEW m, Speaks(p, m),
         NEW r, r = sending[p].report,
         sending[p].kind = "transport" =>
           /\ InOrderOf(chat', r) /\ CountOf(chat', r) = sending[p].part /\ SeenOf(chat', r) \subseteq receipts'[r],
         sending[p].kind = "cards" /\ troubles' < 2 => CountOf(chat', r) >= sending[p].part \/ NotedIn(chat', r)
  PROVE  DeliveryInv'
<1>1. /\ sending[p] \in Sendings /\ r \in 1..Len(verdicts) /\ r \in Nat
      /\ verdicts[r] = Verdict("none", sending[p].kind, sending[p].parts)
      /\ sending[p].part \in Nat /\ sending[p].parts \in Nat
      /\ 1 <= sending[p].part /\ sending[p].part <= sending[p].parts
      /\ verdicts \in Seq(Verdicts)
  BY AtWork
<1>2. sending \in [DOMAIN Posters -> Sendings] BY DEF DeliveryInv, DeliveryTypes
<1>3. CASE sending[p].part = sending[p].parts
  <2>1. verdicts' = [verdicts EXCEPT ![sending[p].report].how = "sent"] /\ sending' = [sending EXCEPT ![p] = Idle]
    BY <1>3 DEF GoesOn, Tells
  <2>2. Idle \in Sendings BY DEF Idle, Sendings
  <2>3. verdicts'[r] = Verdict("sent", sending[p].kind, sending[p].parts) BY <1>1, <2>1 DEF Verdict
  <2>4. Standing(r)'
    <3>1. /\ verdicts'[r].kind = sending[p].kind /\ verdicts'[r].how = "sent" /\ verdicts'[r].parts = sending[p].parts
      BY <2>3 DEF Verdict
    <3>2. sending[p].kind = "transport" =>
             /\ InOrderOf(chat', r) /\ CountOf(chat', r) = sending[p].parts
             /\ SeenOf(chat', r) \subseteq receipts'[r] /\ \E x \in Nat : SeenOf(chat', r) \subseteq receipts'[r] \union {x}
      BY <1>3
    <3>3. sending[p].kind = "cards" /\ troubles' < 2 => CountOf(chat', r) >= sending[p].parts \/ NotedIn(chat', r)
      BY <1>3
    <3> QED BY <3>1, <3>2, <3>3 DEF Standing, CountOf, SeenOf, InOrderOf, NotedIn, Positions, UpTo
  <2>5. "sent" \in Hows BY DEF Hows
  <2> QED BY <2>1, <2>2, <2>4, <2>5, SenderStep
<1>4. CASE sending[p].part # sending[p].parts
  <2>1. verdicts' = verdicts /\ sending' = [sending EXCEPT ![p].part = @ + 1, ![p].noting = FALSE]
    BY <1>4 DEF GoesOn
  <2>2. verdicts' = [verdicts EXCEPT ![sending[p].report].how = "none"]
    BY <1>1, <2>1 DEF Verdict
  <2>3. sending' = [sending EXCEPT ![p] = NextOf(p)] BY <1>2, <2>1 DEF NextOf
  <2>4. NextOf(p) \in Sendings
    <3>1. PICK one : one = sending[p] OBVIOUS
    <3>2. PICK n \in Nat : n = sending[p].part + 1 BY <1>1
    <3>3. NextOf(p) = [one EXCEPT !.part = n, !.noting = FALSE] BY <3>1, <3>2 DEF NextOf
    <3>4. one \in Sendings BY <1>1, <3>1
    <3>5. [one EXCEPT !.part = n] \in Sendings BY <3>4 DEF Sendings
    <3>6. [[one EXCEPT !.part = n] EXCEPT !.noting = FALSE] \in Sendings BY <3>5 DEF Sendings
    <3>7. [one EXCEPT !.part = n, !.noting = FALSE] = [[one EXCEPT !.part = n] EXCEPT !.noting = FALSE] OBVIOUS
    <3> QED BY <3>3, <3>6, <3>7
  <2>5. sending'[p] = NextOf(p) BY <1>2, <2>3
  <2>6. /\ NextOf(p).kind = sending[p].kind /\ NextOf(p).report = r /\ NextOf(p).parts = sending[p].parts
        /\ NextOf(p).part = sending[p].part + 1 /\ NextOf(p).noting = FALSE
    BY <1>1 DEF NextOf, Sendings
  <2>7. Len(verdicts') = Len(verdicts) /\ verdicts'[r] = verdicts[r] BY <2>1
  <2>8. Working(p)'
    <3>1. /\ sending'[p].kind = sending[p].kind /\ sending'[p].report = r /\ sending'[p].parts = sending[p].parts
          /\ sending'[p].part = sending[p].part + 1 /\ ~sending'[p].noting
      BY <2>5, <2>6
    <3>2. 1 <= sending[p].part + 1 /\ sending[p].part + 1 <= sending[p].parts BY <1>1, <1>4
    <3>3. sending[p].part + 1 - 1 = sending[p].part BY <1>1
    <3> QED BY <1>1, <2>7, <3>1, <3>2, <3>3 DEF Working, CountOf, NotedIn, Positions
  <2>9. Standing(r)'
    <3>1. verdicts'[r].kind = sending[p].kind /\ verdicts'[r].how = "none" BY <1>1, <2>7 DEF Verdict
    <3>2. sending[p].kind = "transport" => \E x \in Nat : SeenOf(chat', r) \subseteq receipts'[r] \union {x} OBVIOUS
    <3> QED BY <3>1, <3>2 DEF Standing, CountOf, SeenOf, InOrderOf, NotedIn, Positions, UpTo
  <2>10. "none" \in Hows /\ NextOf(p).kind # "none" BY <2>6 DEF Hows, Active
  <2> QED BY <2>2, <2>3, <2>4, <2>6, <2>8, <2>9, <2>10, SenderStep
<1> QED BY <1>3, <1>4

\* A report that failed: one of its parts may be in the chat without a receipt.
LEMMA GivingUp ==
  ASSUME DeliveryInv, NEW p \in DOMAIN Posters, Active(p), Tells(p, "failed"), NEW m, Speaks(p, m),
         NEW r, r = sending[p].report,
         sending[p].kind = "transport" =>
           InOrderOf(chat', r) /\ \E x \in Nat : SeenOf(chat', r) \subseteq receipts'[r] \union {x}
  PROVE  DeliveryInv'
<1>1. r \in 1..Len(verdicts) /\ verdicts[r] = Verdict("none", sending[p].kind, sending[p].parts) /\ verdicts \in Seq(Verdicts)
  BY AtWork
<1>2. verdicts' = [verdicts EXCEPT ![sending[p].report].how = "failed"] /\ sending' = [sending EXCEPT ![p] = Idle]
  BY DEF Tells
<1>3. Idle \in Sendings BY DEF Idle, Sendings
<1>4. verdicts'[r] = Verdict("failed", sending[p].kind, sending[p].parts) BY <1>1, <1>2 DEF Verdict
<1>5. Standing(r)'
  <2>1. verdicts'[r].kind = sending[p].kind /\ verdicts'[r].how = "failed" BY <1>4 DEF Verdict
  <2> QED BY <2>1 DEF Standing, CountOf, SeenOf, InOrderOf, NotedIn, Positions, UpTo
<1>6. "failed" \in Hows BY DEF Hows
<1> QED BY <1>2, <1>3, <1>5, <1>6, SenderStep

-------------------------------------------------------------------------------
\* A report that is begun has a number that none had before.
LEMMA BeginKeeps ==
  ASSUME DeliveryInv, NEW p \in DOMAIN Posters, BeginReport(p) PROVE DeliveryInv'
<1>1. DeliveryTypes BY DEF DeliveryInv
<1>2. PICK kind \in Posters[p], n \in 1..MaxParts :
        /\ sending' = [sending EXCEPT ![p] = [kind |-> kind, report |-> Len(verdicts) + 1,
                                              part |-> 1, parts |-> n, noting |-> FALSE]]
        /\ verdicts' = Append(verdicts, Verdict("none", kind, n))
  BY DEF BeginReport
<1>3. kind \in SenderKinds BY DeliveryAssumption
<1>4. n \in Nat /\ 1 <= n
  <2>1. MaxParts \in Nat BY DeliveryAssumption
  <2> QED BY <2>1
<1>5. PICK r \in Nat : r = Len(verdicts) + 1 /\ Len(verdicts) \in Nat BY <1>1 DEF DeliveryTypes
<1>6. PICK new : new = [kind |-> kind, report |-> r, part |-> 1, parts |-> n, noting |-> FALSE] OBVIOUS
<1>7. new \in Sendings /\ new.kind = kind /\ new.report = r /\ new.part = 1 /\ new.parts = n /\ new.noting = FALSE
  BY <1>3, <1>4, <1>5, <1>6 DEF Sendings
<1>8. sending \in [DOMAIN Posters -> Sendings] /\ sending' = [sending EXCEPT ![p] = new] BY <1>1, <1>2, <1>5, <1>6 DEF DeliveryTypes
<1>9. sending' \in [DOMAIN Posters -> Sendings] /\ sending'[p] = new /\ \A q \in DOMAIN Posters : q # p => sending'[q] = sending[q]
  BY <1>7, <1>8
<1>10. Verdict("none", kind, n) \in Verdicts BY <1>3, <1>4 DEF Verdict, Verdicts, Hows
<1>11. verdicts \in Seq(Verdicts) /\ receipts \in Seq(SUBSET Nat) /\ Len(receipts) = Len(verdicts) BY <1>1 DEF DeliveryTypes
<1>12. /\ verdicts' \in Seq(Verdicts) /\ Len(verdicts') = r /\ verdicts'[r] = Verdict("none", kind, n)
       /\ \A s \in 1..Len(verdicts) : verdicts'[s] = verdicts[s]
  <2> PICK v \in Verdicts : v = Verdict("none", kind, n) BY <1>10
  <2>1. verdicts' = Append(verdicts, v) BY <1>2
  <2> QED BY <1>5, <1>11, <2>1
<1>13. /\ receipts' \in Seq(SUBSET Nat) /\ Len(receipts') = r
       /\ \A s \in 1..Len(verdicts) : receipts'[s] = receipts[s]
  <2>1. receipts' = Append(receipts, {}) BY DEF BeginReport
  <2> QED BY <1>5, <1>11, <2>1
<1>14. chat' = chat /\ troubles' = troubles BY DEF BeginReport
<1>15. \A i \in DOMAIN chat : chat[i].report <= Len(verdicts) BY <1>1 DEF DeliveryTypes
<1>16. DeliveryTypes'
  <2>1. chat \in Seq(ChatMessages) /\ troubles \in Nat BY <1>1 DEF DeliveryTypes
  <2>2. \A i \in DOMAIN chat : chat[i].report <= r
    <3>1. \A i \in DOMAIN chat : chat[i].report \in Nat
      <4>1. \A i \in DOMAIN chat : chat[i] \in ChatMessages BY <2>1
      <4> QED BY <4>1 DEF ChatMessages
    <3> QED BY <1>5, <1>15, <3>1
  <2> QED BY <1>9, <1>12, <1>13, <1>14, <2>1, <2>2 DEF DeliveryTypes
<1>17. Positions(chat, r) = {}
  <2>1. \A i \in DOMAIN chat : chat[i].report # r BY <1>5, <1>15
  <2> QED BY <2>1 DEF Positions
<1>18. CountOf(chat, r) = 0 /\ SeenOf(chat, r) = {} /\ InOrderOf(chat, r)
  BY <1>17, FS_EmptySet DEF CountOf, SeenOf, InOrderOf
<1>19. \A s \in 1..Len(verdicts)' : Standing(s)'
  <2> TAKE s \in 1..Len(verdicts)'
  <2>1. CASE s = r
    <3>1. verdicts'[r].how = "none" BY <1>12 DEF Verdict
    <3>2. SeenOf(chat, r) \subseteq receipts'[r] /\ \E x \in Nat : SeenOf(chat, r) \subseteq receipts'[r] \union {x} BY <1>18
    <3> QED BY <1>14, <1>18, <2>1, <3>1, <3>2 DEF Standing, CountOf, SeenOf, InOrderOf, NotedIn, Positions, UpTo
  <2>2. CASE s # r
    <3>1. s \in 1..Len(verdicts) BY <1>5, <1>12, <2>2
    <3>2. Standing(s) /\ verdicts'[s] = verdicts[s] /\ receipts'[s] = receipts[s] BY <1>12, <1>13, <3>1 DEF DeliveryInv
    <3> QED BY <1>14, <3>2 DEF Standing, CountOf, SeenOf, InOrderOf, NotedIn, Positions, UpTo
  <2> QED BY <2>1, <2>2
<1>20. kind # "none" BY <1>3 DEF SenderKinds
<1>21. Working(p)'
  <2>1. r \in 1..Len(verdicts') BY <1>5, <1>12
  <2>2. /\ sending'[p].kind = kind /\ sending'[p].report = r /\ sending'[p].parts = n
        /\ sending'[p].part = 1 /\ ~sending'[p].noting
    BY <1>7, <1>9
  <2>3. CountOf(chat', r) = 1 - 1 /\ CountOf(chat', r) >= 1 - 1 BY <1>14, <1>18
  <2> QED BY <1>4, <1>12, <2>1, <2>2, <2>3 DEF Working, CountOf, NotedIn, Positions
<1>22. \A q \in DOMAIN Posters : IF Active(q)' THEN Working(q)' ELSE sending'[q] = Idle
  <2> TAKE q \in DOMAIN Posters
  <2>1. CASE q = p BY <1>7, <1>9, <1>20, <1>21, <2>1 DEF Active
  <2>2. CASE q # p /\ Active(q)
    <3>1. sending'[q] = sending[q] /\ Working(q) /\ Active(q)' BY <1>9, <2>2 DEF DeliveryInv, Active
    <3>2. sending[q].report \in 1..Len(verdicts) BY <3>1 DEF Working
    <3>3. verdicts'[sending[q].report] = verdicts[sending[q].report] /\ sending[q].report \in 1..Len(verdicts')
      BY <1>5, <1>12, <3>2
    <3>4. Working(q)' BY <1>14, <3>1, <3>3 DEF Working, CountOf, NotedIn, Positions
    <3> QED BY <3>1, <3>4
  <2>3. CASE q # p /\ ~Active(q) BY <1>9, <2>3 DEF DeliveryInv, Active
  <2> QED BY <2>1, <2>2, <2>3
<1>23. \A q, s \in DOMAIN Posters : Active(q)' /\ Active(s)' /\ sending'[q].report = sending'[s].report => q = s
  <2>1. \A q \in DOMAIN Posters : q # p /\ Active(q)' => Active(q) /\ sending'[q].report = sending[q].report /\ sending[q].report # r
    <3> TAKE q \in DOMAIN Posters
    <3> HAVE q # p /\ Active(q)'
    <3>1. Active(q) /\ sending'[q] = sending[q] BY <1>9 DEF Active
    <3>2. sending[q].report \in 1..Len(verdicts) BY <3>1 DEF DeliveryInv, Working
    <3>3. sending[q].report # r BY <1>5, <3>2
    <3> QED BY <3>1, <3>3
  <2>2. sending'[p].report = r BY <1>7, <1>9
  <2>3. \A q, s \in DOMAIN Posters : Active(q) /\ Active(s) /\ sending[q].report = sending[s].report => q = s BY DEF DeliveryInv
  <2> QED BY <2>1, <2>2, <2>3
<1> QED BY <1>16, <1>19, <1>22, <1>23 DEF DeliveryInv

\* A part that was sent and confirmed.
LEMMA ConfirmedKeeps ==
  ASSUME DeliveryInv, NEW p \in DOMAIN Posters, PartConfirmed(p) PROVE DeliveryInv'
<1>1. Active(p) BY DEF PartConfirmed, DeliveryInv
<1>2. PICK r : r = sending[p].report OBVIOUS
<1>3. /\ sending[p] \in Sendings /\ r \in 1..Len(verdicts) /\ r \in Nat
      /\ verdicts[r] = Verdict("none", sending[p].kind, sending[p].parts)
      /\ sending[p].part \in Nat /\ 1 <= sending[p].part
      /\ Working(p) /\ Standing(r) /\ CountOf(chat, r) \in Nat /\ chat \in Seq(ChatMessages)
      /\ receipts \in Seq(SUBSET Nat) /\ Len(receipts) = Len(verdicts) /\ troubles \in Nat
  BY <1>1, <1>2, AtWork
<1>4. PICK m : m = [report |-> r, part |-> sending[p].part] OBVIOUS
<1>5. m \in ChatMessages /\ m.report = r /\ m.part = sending[p].part /\ m.part # 0 BY <1>3, <1>4 DEF ChatMessages
<1>6. chat' = chat \o <<m>> BY <1>2, <1>4 DEF PartConfirmed, InChat
<1>7. receipts' = [receipts EXCEPT ![r] = @ \union {m.part}] /\ troubles' = troubles /\ GoesOn(p)
  BY <1>2, <1>5 DEF PartConfirmed
<1>8. Speaks(p, m) BY <1>2, <1>5, <1>6, <1>7 DEF Speaks
<1>9. /\ CountOf(chat', r) = CountOf(chat, r) + 1 /\ SeenOf(chat', r) = SeenOf(chat, r) \union {m.part}
      /\ InOrderOf(chat, r) /\ m.part = CountOf(chat, r) + 1 => InOrderOf(chat', r)
  BY <1>3, <1>5, <1>6, OwnMessage
<1>10. receipts'[r] = receipts[r] \union {m.part} BY <1>3, <1>7
<1>11. sending[p].kind = "transport" =>
         /\ InOrderOf(chat', r) /\ CountOf(chat', r) = sending[p].part /\ SeenOf(chat', r) \subseteq receipts'[r]
  <2>1. SUFFICES ASSUME sending[p].kind = "transport"
                 PROVE  /\ InOrderOf(chat', r) /\ CountOf(chat', r) = sending[p].part
                        /\ SeenOf(chat', r) \subseteq receipts'[r]
    OBVIOUS
  <2>2. CountOf(chat, r) = sending[p].part - 1 BY <1>2, <1>3, <2>1 DEF Working
  <2>3. InOrderOf(chat, r) /\ SeenOf(chat, r) \subseteq receipts[r]
    BY <1>3, <2>1 DEF Standing, Verdict
  <2>4. m.part = CountOf(chat, r) + 1 BY <1>3, <1>5, <2>2
  <2> QED BY <1>3, <1>5, <1>9, <1>10, <2>3, <2>4
<1>12. sending[p].kind = "cards" /\ troubles' < 2 => CountOf(chat', r) >= sending[p].part \/ NotedIn(chat', r)
  <2>1. NotedIn(chat, r) => NotedIn(chat', r) BY <1>3, <1>5, <1>6, NotesStay
  <2>2. sending[p].kind = "cards" /\ troubles < 2 => CountOf(chat, r) >= sending[p].part - 1 \/ NotedIn(chat, r)
    BY <1>2, <1>3 DEF Working
  <2> QED BY <1>3, <1>7, <1>9, <2>1, <2>2
<1> QED BY <1>1, <1>2, <1>7, <1>8, <1>11, <1>12, GoingOn

\* A call that fails: its message arrives or does not, and there is no receipt.
LEMMA FailedCall ==
  ASSUME DeliveryInv, NEW p \in DOMAIN Posters, Active(p), NEW r, r = sending[p].report,
         receipts' = receipts, troubles' \in {troubles, troubles + 1},
         chat' = chat \/ chat' = chat \o InChat(p)
  PROVE  /\ \E m : Speaks(p, m)
         /\ sending[p].kind = "transport" =>
              InOrderOf(chat', r) /\ \E x \in Nat : SeenOf(chat', r) \subseteq receipts'[r] \union {x}
         /\ CountOf(chat', r) \in Nat /\ CountOf(chat', r) >= CountOf(chat, r)
         /\ NotedIn(chat, r) => NotedIn(chat', r)
<1>1. /\ sending[p] \in Sendings /\ r \in 1..Len(verdicts) /\ r \in Nat
      /\ verdicts[r] = Verdict("none", sending[p].kind, sending[p].parts)
      /\ sending[p].part \in Nat /\ 1 <= sending[p].part
      /\ Working(p) /\ Standing(r) /\ CountOf(chat, r) \in Nat /\ chat \in Seq(ChatMessages)
  BY AtWork
<1>2. PICK m : m = [report |-> r, part |-> sending[p].part] OBVIOUS
<1>3. m \in ChatMessages /\ m.report = r /\ m.part = sending[p].part /\ m.part # 0 BY <1>1, <1>2 DEF ChatMessages
<1>4. chat' = chat \/ chat' = chat \o <<m>> BY <1>2 DEF InChat
<1>5. Speaks(p, m) BY <1>3, <1>4 DEF Speaks
<1>6. CASE chat' = chat
  <2>1. sending[p].kind = "transport" =>
          InOrderOf(chat, r) /\ \E x \in Nat : SeenOf(chat, r) \subseteq receipts[r] \union {x}
    BY <1>1 DEF Standing, Verdict
  <2>2. CountOf(chat, r) >= CountOf(chat, r) BY <1>1
  <2> QED BY <1>1, <1>5, <1>6, <2>1, <2>2
<1>7. CASE chat' = chat \o <<m>>
  <2>1. /\ CountOf(chat', r) = CountOf(chat, r) + 1 /\ SeenOf(chat', r) = SeenOf(chat, r) \union {m.part}
        /\ InOrderOf(chat, r) /\ m.part = CountOf(chat, r) + 1 => InOrderOf(chat', r)
    <3>1. /\ CountOf(chat', m.report) = CountOf(chat, m.report) + 1
          /\ SeenOf(chat', m.report) = SeenOf(chat, m.report) \union {m.part}
          /\ InOrderOf(chat, m.report) /\ m.part = CountOf(chat, m.report) + 1 => InOrderOf(chat', m.report)
      BY <1>1, <1>3, <1>7, OwnMessage
    <3> QED BY <1>3, <3>1
  <2>2. NotedIn(chat, r) => NotedIn(chat', r) BY <1>1, <1>3, <1>7, NotesStay
  <2>3. sending[p].kind = "transport" =>
          InOrderOf(chat', r) /\ \E x \in Nat : SeenOf(chat', r) \subseteq receipts'[r] \union {x}
    <3>1. SUFFICES ASSUME sending[p].kind = "transport"
                   PROVE  InOrderOf(chat', r) /\ \E x \in Nat : SeenOf(chat', r) \subseteq receipts'[r] \union {x}
      OBVIOUS
    <3>2. CountOf(chat, r) = sending[p].part - 1 BY <1>1, <3>1 DEF Working
    <3>3. InOrderOf(chat, r) /\ SeenOf(chat, r) \subseteq receipts[r] BY <1>1, <3>1 DEF Standing, Verdict
    <3>4. m.part = CountOf(chat, r) + 1 BY <1>1, <1>3, <3>2
    <3>5. SeenOf(chat', r) \subseteq receipts'[r] \union {m.part} BY <2>1, <3>3
    <3>6. m.part \in Nat BY <1>1, <1>3
    <3> QED BY <2>1, <3>3, <3>4, <3>5, <3>6
  <2>4. CountOf(chat', r) \in Nat /\ CountOf(chat', r) >= CountOf(chat, r) BY <1>1, <2>1
  <2> QED BY <1>5, <2>2, <2>3, <2>4
<1> QED BY <1>4, <1>6, <1>7

\* A call that failed is counted.
LEMMA TroubleFacts ==
  ASSUME DeliveryInv, NEW p \in DOMAIN Posters, NEW kinds, "none" \notin kinds, Trouble(p, kinds)
  PROVE  /\ Active(p) /\ sending[p].kind \in kinds /\ ~sending[p].noting
         /\ receipts' = receipts /\ troubles' = troubles + 1 /\ troubles \in Nat
BY DEF Trouble, Active, DeliveryInv, DeliveryTypes

\* send_message raises at the part that was not confirmed.
LEMMA TransportFailsKeeps ==
  ASSUME DeliveryInv, NEW p \in DOMAIN Posters, TransportFails(p) PROVE DeliveryInv'
<1>1. Active(p) /\ receipts' = receipts /\ troubles' = troubles + 1 BY TroubleFacts DEF TransportFails
<1>2. chat' = chat \/ chat' = chat \o InChat(p)
  <2>1. chat \in Seq(ChatMessages) BY DEF DeliveryInv, DeliveryTypes
  <2>2. chat \o <<>> = chat BY <2>1, ConcatEmptySeq
  <2> QED BY <2>2 DEF TransportFails, Arrives
<1>3. PICK r : r = sending[p].report OBVIOUS
<1>4. PICK m : Speaks(p, m) BY <1>1, <1>2, <1>3, FailedCall
<1>5. sending[p].kind = "transport" =>
        InOrderOf(chat', r) /\ \E x \in Nat : SeenOf(chat', r) \subseteq receipts'[r] \union {x}
  BY <1>1, <1>2, <1>3, FailedCall
<1>6. Tells(p, "failed") BY DEF TransportFails
<1> QED BY <1>1, <1>3, <1>4, <1>5, <1>6, GivingUp

\* send_mgmt_card loses its connection.
LEMMA NarrativeFailsKeeps ==
  ASSUME DeliveryInv, NEW p \in DOMAIN Posters, NarrativeFails(p) PROVE DeliveryInv'
<1>1. Active(p) /\ receipts' = receipts /\ troubles' = troubles + 1 BY TroubleFacts DEF NarrativeFails
<1>2. chat' = chat \/ chat' = chat \o InChat(p)
  <2>1. chat \in Seq(ChatMessages) BY DEF DeliveryInv, DeliveryTypes
  <2>2. chat \o <<>> = chat BY <2>1, ConcatEmptySeq
  <2> QED BY <2>2 DEF NarrativeFails, Arrives
<1>3. PICK r : r = sending[p].report OBVIOUS
<1>4. PICK m : Speaks(p, m) BY <1>1, <1>2, <1>3, FailedCall
<1>5. sending[p].kind = "narrative" BY TroubleFacts DEF NarrativeFails
<1>6. Tells(p, "failed") BY DEF NarrativeFails
<1> QED BY <1>1, <1>3, <1>4, <1>5, <1>6, GivingUp

\* send_mgmt_card does not look at a refusal.
LEMMA NarrativeRefusedKeeps ==
  ASSUME DeliveryInv, NEW p \in DOMAIN Posters, NarrativeRefused(p) PROVE DeliveryInv'
<1>1. Active(p) /\ receipts' = receipts /\ troubles' = troubles + 1 BY TroubleFacts DEF NarrativeRefused
<1>2. chat' = chat BY DEF NarrativeRefused
<1>3. PICK r : r = sending[p].report OBVIOUS
<1>4. PICK m : Speaks(p, m) BY <1>1, <1>2, <1>3, FailedCall
<1>5. sending[p].kind = "narrative" BY TroubleFacts DEF NarrativeRefused
<1>6. GoesOn(p) BY DEF NarrativeRefused
<1> QED BY <1>1, <1>3, <1>4, <1>5, <1>6, GoingOn

\* dispatch_bale_reports prints that a report failed and goes on.
LEMMA DispatchFailsKeeps ==
  ASSUME DeliveryInv, NEW p \in DOMAIN Posters, DispatchFails(p) PROVE DeliveryInv'
<1>1. Active(p) /\ receipts' = receipts /\ troubles' = troubles + 1 BY TroubleFacts DEF DispatchFails
<1>2. chat' = chat \/ chat' = chat \o InChat(p)
  <2>1. chat \in Seq(ChatMessages) BY DEF DeliveryInv, DeliveryTypes
  <2>2. chat \o <<>> = chat BY <2>1, ConcatEmptySeq
  <2> QED BY <2>2 DEF DispatchFails, Arrives
<1>3. PICK r : r = sending[p].report OBVIOUS
<1>4. PICK m : Speaks(p, m) BY <1>1, <1>2, <1>3, FailedCall
<1>5. sending[p].kind = "dispatch" BY TroubleFacts DEF DispatchFails
<1>6. GoesOn(p) BY DEF DispatchFails
<1> QED BY <1>1, <1>3, <1>4, <1>5, <1>6, GoingOn

\* send_lmp_cards has a card that failed, and a note to send.
LEMMA CardFailsKeeps ==
  ASSUME DeliveryInv, NEW p \in DOMAIN Posters, CardFails(p) PROVE DeliveryInv'
<1>1. Active(p) /\ receipts' = receipts /\ troubles' = troubles + 1 /\ sending[p].kind = "cards" /\ troubles \in Nat
  BY TroubleFacts DEF CardFails
<1>2. chat' = chat \/ chat' = chat \o InChat(p)
  <2>1. chat \in Seq(ChatMessages) BY DEF DeliveryInv, DeliveryTypes
  <2>2. chat \o <<>> = chat BY <2>1, ConcatEmptySeq
  <2> QED BY <2>2 DEF CardFails, Arrives
<1>3. PICK r : r = sending[p].report OBVIOUS
<1>4. PICK m : Speaks(p, m) BY <1>1, <1>2, <1>3, FailedCall
<1>5. /\ CountOf(chat', r) \in Nat /\ CountOf(chat', r) >= CountOf(chat, r)
      /\ NotedIn(chat, r) => NotedIn(chat', r)
  BY <1>1, <1>2, <1>3, FailedCall
<1>6. /\ sending[p] \in Sendings /\ r \in 1..Len(verdicts)
      /\ verdicts[r] = Verdict("none", sending[p].kind, sending[p].parts)
      /\ sending[p].part \in Nat /\ 1 <= sending[p].part /\ sending[p].part <= sending[p].parts
      /\ Working(p) /\ CountOf(chat, r) \in Nat /\ verdicts \in Seq(Verdicts)
  BY <1>1, <1>3, AtWork
<1>7. sending \in [DOMAIN Posters -> Sendings] BY DEF DeliveryInv, DeliveryTypes
<1>8. PICK next : next = [sending[p] EXCEPT !.noting = TRUE] OBVIOUS
<1>9. next \in Sendings /\ next.kind = "cards" /\ next.report = r /\ next.part = sending[p].part /\ next.parts = sending[p].parts
  BY <1>1, <1>3, <1>6, <1>8 DEF Sendings
<1>10. verdicts' = verdicts /\ sending' = [sending EXCEPT ![p].noting = TRUE] BY DEF CardFails
<1>11. sending' = [sending EXCEPT ![p] = next] /\ sending'[p] = next BY <1>7, <1>8, <1>10
<1>12. verdicts' = [verdicts EXCEPT ![sending[p].report].how = "none"]
  BY <1>3, <1>6, <1>10 DEF Verdict
<1>13. Working(p)'
  <2>1. troubles' >= 1 BY <1>1
  <2>2. troubles' < 2 => CountOf(chat', r) >= sending[p].part - 1 \/ NotedIn(chat', r)
    <3>1. troubles < 2 => CountOf(chat, r) >= sending[p].part - 1 \/ NotedIn(chat, r) BY <1>1, <1>3, <1>6 DEF Working
    <3> QED BY <1>1, <1>5, <1>6, <3>1
  <2>3. /\ sending'[p].kind = "cards" /\ sending'[p].report = r /\ sending'[p].part = sending[p].part
        /\ sending'[p].parts = sending[p].parts
    BY <1>9, <1>11
  <2>4. verdicts'[r] = Verdict("none", "cards", sending[p].parts) /\ r \in 1..Len(verdicts') BY <1>1, <1>6, <1>10
  <2> QED BY <1>6, <2>1, <2>2, <2>3, <2>4 DEF Working, CountOf, NotedIn, Positions
<1>14. Standing(r)'
  <2>1. verdicts'[r].kind = "cards" /\ verdicts'[r].how = "none" BY <1>1, <1>6, <1>10 DEF Verdict
  <2> QED BY <2>1 DEF Standing
<1>15. "none" \in Hows BY DEF Hows
<1> QED BY <1>1, <1>3, <1>4, <1>9, <1>11, <1>12, <1>13, <1>14, <1>15, SenderStep

\* The note is sent, or it is not.
LEMMA NotedKeeps ==
  ASSUME DeliveryInv, NEW p \in DOMAIN Posters, CardNoted(p) PROVE DeliveryInv'
<1>1. Active(p) BY DEF CardNoted, DeliveryInv, Idle
<1>2. PICK r : r = sending[p].report OBVIOUS
<1>3. /\ r \in Nat /\ Working(p) /\ CountOf(chat, r) \in Nat /\ sending[p].part \in Nat
      /\ chat \in Seq(ChatMessages) /\ troubles \in Nat
  BY <1>1, <1>2, AtWork
<1>4. sending[p].kind = "cards" /\ troubles >= 1 BY <1>3 DEF CardNoted, Working
<1>5. PICK m : m = [report |-> r, part |-> 0] OBVIOUS
<1>6. m \in ChatMessages /\ m.report = r /\ m.part = 0 BY <1>3, <1>5 DEF ChatMessages
<1>7. Note(p) = <<m>> BY <1>2, <1>5 DEF Note
<1>8. \/ chat' = chat \o <<m>> /\ troubles' = troubles
      \/ troubles' = troubles + 1 /\ chat' \in {chat, chat \o <<m>>}
  <2>1. chat \o <<>> = chat BY <1>3, ConcatEmptySeq
  <2> QED BY <1>7, <2>1 DEF CardNoted, Arrives
<1>9. receipts' = receipts /\ GoesOn(p) BY DEF CardNoted
<1>10. Speaks(p, m) BY <1>2, <1>6, <1>8, <1>9 DEF Speaks
<1>11. troubles' < 2 => NotedIn(chat', r)
  <2>1. chat' = chat \o <<m>> => NotedIn(chat', r) BY <1>3, <1>5, <1>6, NotesStay
  <2> QED BY <1>3, <1>4, <1>8, <2>1
<1> QED BY <1>1, <1>2, <1>4, <1>9, <1>10, <1>11, GoingOn

\* A chat without messages.
THEOREM DeliveryStart == DeliveryInit => DeliveryInv
<1> SUFFICES ASSUME DeliveryInit PROVE DeliveryInv OBVIOUS
<1>1. sending \in [DOMAIN Posters -> Sendings] /\ \A p \in DOMAIN Posters : sending[p] = Idle
  BY DEF DeliveryInit, Idle, Sendings
<1>2. chat = <<>> /\ receipts = <<>> /\ verdicts = <<>> /\ troubles = 0 BY DEF DeliveryInit
<1>3. \A p \in DOMAIN Posters : ~Active(p) BY <1>1 DEF Active, Idle
<1> QED BY <1>1, <1>2, <1>3 DEF DeliveryInv, DeliveryTypes

\* No call of a sender breaks the invariant, whichever other processes send.
THEOREM DeliveryStep == DeliveryInv /\ [DeliveryNext]_deliveryVars => DeliveryInv'
<1> SUFFICES ASSUME DeliveryInv, [DeliveryNext]_deliveryVars PROVE DeliveryInv' OBVIOUS
<1>1. ASSUME NEW p \in DOMAIN Posters, BeginReport(p) PROVE DeliveryInv' BY <1>1, BeginKeeps
<1>2. ASSUME NEW p \in DOMAIN Posters, PartConfirmed(p) PROVE DeliveryInv' BY <1>2, ConfirmedKeeps
<1>3. ASSUME NEW p \in DOMAIN Posters, TransportFails(p) PROVE DeliveryInv' BY <1>3, TransportFailsKeeps
<1>4. ASSUME NEW p \in DOMAIN Posters, CardFails(p) PROVE DeliveryInv' BY <1>4, CardFailsKeeps
<1>5. ASSUME NEW p \in DOMAIN Posters, CardNoted(p) PROVE DeliveryInv' BY <1>5, NotedKeeps
<1>6. ASSUME NEW p \in DOMAIN Posters, NarrativeRefused(p) PROVE DeliveryInv' BY <1>6, NarrativeRefusedKeeps
<1>7. ASSUME NEW p \in DOMAIN Posters, NarrativeFails(p) PROVE DeliveryInv' BY <1>7, NarrativeFailsKeeps
<1>8. ASSUME NEW p \in DOMAIN Posters, DispatchFails(p) PROVE DeliveryInv' BY <1>8, DispatchFailsKeeps
<1>9. CASE UNCHANGED deliveryVars
  <2>1. UNCHANGED <<chat, sending, receipts, verdicts, troubles>> BY <1>9 DEF deliveryVars
  <2>2. DeliveryTypes' BY <2>1 DEF DeliveryInv, DeliveryTypes
  <2>3. \A p \in DOMAIN Posters : IF Active(p)' THEN Working(p)' ELSE sending'[p] = Idle
    BY <2>1 DEF DeliveryInv, Active, Working, CountOf, NotedIn, Positions
  <2>4. \A p, q \in DOMAIN Posters : Active(p)' /\ Active(q)' /\ sending'[p].report = sending'[q].report => p = q
    BY <2>1 DEF DeliveryInv, Active
  <2>5. \A r \in 1..Len(verdicts') : Standing(r)'
    <3> TAKE r \in 1..Len(verdicts')
    <3>1. Standing(r) BY <2>1 DEF DeliveryInv
    <3> QED BY <2>1, <3>1 DEF Standing, CountOf, SeenOf, InOrderOf, NotedIn, Positions, UpTo
  <2> QED BY <2>2, <2>3, <2>4, <2>5 DEF DeliveryInv
<1> QED BY <1>1, <1>2, <1>3, <1>4, <1>5, <1>6, <1>7, <1>8, <1>9 DEF DeliveryNext

\* At every moment of every delivery: a report of the transport has as many parts in the chat
\* as were confirmed before, in order, and one in doubt at most; a card that failed is noted in
\* the chat or about to be.
THEOREM DeliveryInvariance == DeliverySpec => []DeliveryInv
BY DeliveryStart, DeliveryStep, PTL DEF DeliverySpec

\* That is what the processes are told of their deliveries.
LEMMA DeliveryIsTold == DeliveryInv => TransportTellsTruth /\ OneInDoubt /\ MissingCardIsNoted
<1> SUFFICES ASSUME DeliveryInv PROVE TransportTellsTruth /\ OneInDoubt /\ MissingCardIsNoted OBVIOUS
<1>1. verdicts \in Seq(Verdicts) /\ chat \in Seq(ChatMessages) /\ \A r \in DOMAIN verdicts : Standing(r)
  BY DEF DeliveryInv, DeliveryTypes
<1>2. \A r : PartsInChat(r) = Positions(chat, r) BY DEF PartsInChat, Positions
<1>3. TransportTellsTruth
  <2> SUFFICES ASSUME NEW r \in DOMAIN verdicts, verdicts[r].kind = "transport"
               PROVE  /\ \A i \in PartsInChat(r) : chat[i].part = Cardinality({j \in PartsInChat(r) : j <= i})
                      /\ verdicts[r].how = "sent" => Cardinality(PartsInChat(r)) = verdicts[r].parts
    BY DEF TransportTellsTruth
  <2>1. InOrderOf(chat, r) /\ (verdicts[r].how = "sent" => CountOf(chat, r) = verdicts[r].parts) BY <1>1 DEF Standing
  <2> QED BY <1>2, <2>1 DEF InOrderOf, CountOf, UpTo
<1>4. OneInDoubt
  <2> SUFFICES ASSUME NEW r \in DOMAIN verdicts, verdicts[r].kind = "transport"
               PROVE  Cardinality({chat[i].part : i \in PartsInChat(r)} \ receipts[r])
                        <= (IF verdicts[r].how = "failed" THEN 1 ELSE 0)
    BY DEF OneInDoubt
  <2>1. SeenOf(chat, r) = {chat[i].part : i \in PartsInChat(r)} BY <1>2 DEF SeenOf
  <2>2. CASE verdicts[r].how = "failed"
    <3>1. PICK x \in Nat : SeenOf(chat, r) \subseteq receipts[r] \union {x} BY <1>1 DEF Standing
    <3>2. SeenOf(chat, r) \ receipts[r] \subseteq {x} BY <3>1
    <3>3. IsFiniteSet({x}) /\ Cardinality({x}) = 1 BY FS_Singleton
    <3>4. Cardinality(SeenOf(chat, r) \ receipts[r]) <= 1 BY <3>2, <3>3, FS_Subset
    <3> QED BY <2>1, <2>2, <3>4
  <2>3. CASE verdicts[r].how # "failed"
    <3>1. SeenOf(chat, r) \ receipts[r] = {} BY <1>1, <2>3 DEF Standing
    <3> QED BY <2>1, <2>3, <3>1, FS_EmptySet
  <2> QED BY <2>2, <2>3
<1>5. MissingCardIsNoted
  <2> SUFFICES ASSUME NEW r \in DOMAIN verdicts, verdicts[r].kind = "cards", verdicts[r].how = "sent", troubles < 2,
                      Cardinality(PartsInChat(r)) < verdicts[r].parts
               PROVE  [report |-> r, part |-> 0] \in ToSet(chat)
    BY DEF MissingCardIsNoted
  <2>1. CountOf(chat, r) \in Nat BY <1>1, FewPositions
  <2>2. verdicts[r].parts \in Nat
    <3>1. verdicts[r] \in Verdicts BY <1>1
    <3> QED BY <3>1 DEF Verdicts
  <2>3. ~(CountOf(chat, r) >= verdicts[r].parts) BY <1>2, <2>1, <2>2 DEF CountOf
  <2>4. NotedIn(chat, r) BY <1>1, <2>3 DEF Standing
  <2> QED BY <2>4 DEF NotedIn, ToSet
<1> QED BY <1>3, <1>4, <1>5

-------------------------------------------------------------------------------
\* The branches, one by one.
Branches ==
  {<<"menu">>, <<"compute", "menu">>, <<"compute", "answer">>, <<"compute", "answer", "menu">>,
   <<"compute", "answer", "menu", "menu">>, <<"answer", "menu">>, <<>>}

\* ... and which of them an update selects.
LEMMA BranchIs ==
  ASSUME NEW u \in Asked
  PROVE  \/ BranchOf(u) \in Branches
         \/ BranchOf(u) = <<"book", "file", "menu">> /\ u.what = "excel" /\ u.by # "label"
         \/ BranchOf(u) = <<"cards">> /\ u.what = "lmp"
         \/ BranchOf(u) = <<"narrative">> /\ u.what = "mgmt"
         \/ BranchOf(u) = <<"reject">> /\ BranchOf(u) = Branch["none"]
<1>1. CASE u.by = "button"
  <2>1. u.what \in DOMAIN ButtonBranch BY <1>1 DEF Asked
  <2>2. BranchOf(u) = Branch[ButtonBranch[u.what]] BY <1>1 DEF BranchOf
  <2>3. u.what \in {"menu", "symbols", "page", "review", "strategy", "excel", "lmp", "mgmt", "stamp", "old"}
        /\ ButtonBranch[u.what] = IF u.what = "old" THEN "none" ELSE u.what
    BY <2>1 DEF ButtonBranch
  <2> QED BY <1>1, <2>2, <2>3 DEF Branch, Branches
<1>2. CASE u.by = "text"
  <2>1. u.what \in DOMAIN TextBranch BY <1>2 DEF Asked
  <2>2. BranchOf(u) = Branch[TextBranch[u.what]] BY <1>2 DEF BranchOf
  <2>3. u.what \in {"menu", "symbols", "strategies", "page", "review", "report", "status", "excel", "lmp", "share"}
        /\ TextBranch[u.what] = IF u.what = "share" THEN "none" ELSE u.what
    BY <2>1 DEF TextBranch, OfOneShare
  <2> QED BY <1>2, <2>2, <2>3 DEF Branch, Branches
<1>3. CASE u.by = "label"
  <2>1. u.what \in DOMAIN LabelBranch BY <1>3 DEF Asked
  <2>2. BranchOf(u) = Branch[LabelBranch[u.what]] BY <1>3 DEF BranchOf
  <2>3. LabelBranch[u.what] \in {"none", "symbols", "page"}
    BY <2>1 DEF LabelBranch, OfOneShare
  <2> QED BY <2>2, <2>3 DEF Branch, Branches
<1> QED BY <1>1, <1>2, <1>3 DEF Asked

-------------------------------------------------------------------------------
CallKinds == {"compute", "answer", "menu", "book", "file", "cards", "narrative", "reject", "sorry", "raw"}
ReachedKinds == Sent \union {"apology"}
Phases == {"poll", "work", "open", "apologise", "told", "saved"}

\* The answers that are left of a branch: there is one at most, and perhaps that of an excuse.
Counted == {"answer", "sorry"}
OnlyOne(s) == \A i, j \in DOMAIN s : s[i] \in Counted /\ s[j] \in Counted => i = j
Pending(s) == IF \E i \in DOMAIN s : s[i] \in Counted THEN 1 ELSE 0

Has(s, m) == \E i \in DOMAIN s : s[i] = m
TimesIn(log, m) == Cardinality({i \in DOMAIN log : log[i] = m})
Answers(log) == TimesIn(log, "answer") + TimesIn(log, "apology") + TimesIn(log, "sorry")

PastTransport == {"lmp", "mgmt"}
ButtonBook == [by |-> "button", what |-> "excel"]
Excused == Has(reached, "apology") \/ Has(reached, "sorry") \/ Has(reached, "raw")

RequestTypes ==
  /\ phase \in Phases /\ faults \in Nat
  /\ reached \in Seq(ReachedKinds) /\ calls \in Seq(CallKinds)
  /\ IF phase = "poll" THEN reached = <<>> ELSE update \in Asked
  /\ phase = "work" =>
       /\ OnlyOne(calls)
       /\ Has(calls, "raw") \/ Has(calls, "narrative") \/ Has(calls, "cards") => update.what \in PastTransport
       /\ Has(calls, "file") => update.what = "excel"
       /\ Has(calls, "reject") => BranchOf(update) = Branch["none"]

\* What is left of a branch, and what was sent of it, is the branch, or there is a reason.
Accounted ==
  \/ \A m \in Sent : Has(BranchOf(update), m) => Has(reached, m) \/ Has(calls, m)
  \/ Excused
  \/ calls = <<"sorry", "menu">>
  \/ update.what \in PastTransport
  \/ update = ButtonBook /\ (Has(reached, "menu") \/ Has(calls, "menu"))

\* ... and at the end there is nothing left.
Answered ==
  \/ \A m \in Sent : Has(BranchOf(update), m) => Has(reached, m)
  \/ Excused
  \/ update.what \in PastTransport
  \/ update = ButtonBook /\ Has(reached, "menu")

Told ==
  /\ phase = "work" => Accounted
  /\ phase = "told" => Has(reached, "apology")
  /\ phase = "saved" => Answered

\* An answer that is still to come counts as one.
Reasoned ==
  phase # "poll" /\ BranchOf(update) # Branch["none"] =>
    /\ phase = "work" => Answers(reached) + Pending(calls) <= 1 + faults
    /\ phase \in {"open", "apologise"} => Answers(reached) <= faults
    /\ phase \in {"told", "saved"} => Answers(reached) <= 1 + faults

RequestInv == RequestTypes /\ Told /\ Reasoned

-------------------------------------------------------------------------------
\* What every branch is made of.
LEMMA BranchFacts ==
  ASSUME NEW u \in Asked
  PROVE  /\ BranchOf(u) \in Seq(CallKinds) /\ OnlyOne(BranchOf(u))
         /\ Has(BranchOf(u), "raw") \/ Has(BranchOf(u), "narrative") \/ Has(BranchOf(u), "cards") => u.what \in PastTransport
         /\ Has(BranchOf(u), "file") => u.what = "excel"
         /\ Has(BranchOf(u), "reject") => BranchOf(u) = Branch["none"]
         /\ u.what = "excel" /\ u.by = "button" => Has(BranchOf(u), "menu")
<1>1. CASE BranchOf(u) \in Branches
  <2>1. BranchOf(u) \in Seq(CallKinds)
    <3>1. /\ <<"menu">> \in Seq(CallKinds) /\ <<"compute", "menu">> \in Seq(CallKinds)
          /\ <<"compute", "answer">> \in Seq(CallKinds) /\ <<"answer", "menu">> \in Seq(CallKinds)
      BY DEF CallKinds
    <3>2. <<"compute", "answer", "menu">> \in Seq(CallKinds) BY DEF CallKinds
    <3>3. <<"compute", "answer", "menu", "menu">> \in Seq(CallKinds) BY DEF CallKinds
    <3>4. <<>> \in Seq(CallKinds) OBVIOUS
    <3> QED BY <1>1, <3>1, <3>2, <3>3, <3>4 DEF Branches
  <2>2. OnlyOne(BranchOf(u)) BY <1>1 DEF Branches, OnlyOne, Counted
  <2>3. ~Has(BranchOf(u), "raw") /\ ~Has(BranchOf(u), "narrative") /\ ~Has(BranchOf(u), "cards")
        /\ ~Has(BranchOf(u), "file") /\ ~Has(BranchOf(u), "reject")
    BY <1>1 DEF Branches, Has
  <2>4. u.what = "excel" /\ u.by = "button" => BranchOf(u) = <<"book", "file", "menu">>
    BY DEF BranchOf, ButtonBranch, Branch
  <2>5. <<"book", "file", "menu">> \notin Branches BY DEF Branches
  <2> QED BY <1>1, <2>1, <2>2, <2>3, <2>4, <2>5
<1>2. CASE BranchOf(u) = <<"book", "file", "menu">> /\ u.what = "excel"
  BY <1>2 DEF CallKinds, OnlyOne, Counted, Has
<1>3. CASE BranchOf(u) = <<"cards">> /\ u.what = "lmp"
  BY <1>3 DEF CallKinds, OnlyOne, Counted, Has, PastTransport
<1>4. CASE BranchOf(u) = <<"narrative">> /\ u.what = "mgmt"
  BY <1>4 DEF CallKinds, OnlyOne, Counted, Has, PastTransport
<1>5. CASE BranchOf(u) = <<"reject">> /\ BranchOf(u) = Branch["none"]
  <2>1. u.what = "excel" /\ u.by = "button" => BranchOf(u) = <<"book", "file", "menu">>
    BY DEF BranchOf, ButtonBranch, Branch
  <2> QED BY <1>5, <2>1 DEF CallKinds, OnlyOne, Counted, Has
<1> QED BY <1>1, <1>2, <1>3, <1>4, <1>5, BranchIs

\* What is left when a call is done.
LEMMA CallsLeft ==
  ASSUME NEW s \in Seq(CallKinds), s # <<>>
  PROVE  /\ Tail(s) \in Seq(CallKinds) /\ Head(s) \in CallKinds
         /\ \A m : Has(s, m) <=> m = Head(s) \/ Has(Tail(s), m)
         /\ OnlyOne(s) => OnlyOne(Tail(s))
         /\ OnlyOne(s) => Pending(Tail(s)) + (IF Head(s) \in Counted THEN 1 ELSE 0) <= Pending(s)
<1>1. PICK n \in Nat : n = Len(s) /\ n >= 1 OBVIOUS
<1>2. PICK t : t = Tail(s) OBVIOUS
<1>3. t \in Seq(CallKinds) /\ Len(t) = n - 1 /\ Head(s) = s[1] /\ s[1] \in CallKinds /\ \A i \in 1..n - 1 : t[i] = s[i + 1]
  BY <1>1, <1>2
<1>4. DOMAIN s = 1..n /\ DOMAIN t = 1..n - 1 BY <1>1, <1>3
<1>5. \A m : Has(s, m) <=> m = Head(s) \/ Has(t, m)
  <2> TAKE m
  <2>1. ASSUME Has(s, m) PROVE m = Head(s) \/ Has(t, m)
    <3>1. PICK i \in 1..n : s[i] = m BY <1>4, <2>1 DEF Has
    <3>2. CASE i = 1 BY <1>3, <3>1, <3>2
    <3>3. CASE i # 1
      <4>1. i - 1 \in 1..n - 1 /\ i - 1 + 1 = i BY <3>1, <3>3
      <4>2. t[i - 1] = m BY <1>3, <3>1, <4>1
      <4> QED BY <1>4, <4>1, <4>2 DEF Has
    <3> QED BY <3>2, <3>3
  <2>2. m = Head(s) => Has(s, m) BY <1>1, <1>3, <1>4 DEF Has
  <2>3. ASSUME Has(t, m) PROVE Has(s, m)
    <3>1. PICK i \in 1..n - 1 : t[i] = m BY <1>4, <2>3 DEF Has
    <3>2. i + 1 \in 1..n /\ s[i + 1] = m BY <1>3, <3>1
    <3> QED BY <1>4, <3>2 DEF Has
  <2> QED BY <2>1, <2>2, <2>3
<1>6. ASSUME OnlyOne(s) PROVE OnlyOne(t)
  <2> SUFFICES ASSUME NEW i \in 1..n - 1, NEW j \in 1..n - 1, t[i] \in Counted, t[j] \in Counted PROVE i = j
    BY <1>4 DEF OnlyOne
  <2>1. i + 1 \in 1..n /\ j + 1 \in 1..n /\ s[i + 1] \in Counted /\ s[j + 1] \in Counted BY <1>3
  <2>2. i + 1 = j + 1 BY <1>4, <1>6, <2>1 DEF OnlyOne
  <2> QED BY <2>2
<1>7. ASSUME OnlyOne(s) PROVE Pending(t) + (IF Head(s) \in Counted THEN 1 ELSE 0) <= Pending(s)
  <2>1. (\E i \in DOMAIN t : t[i] \in Counted) => (\E i \in DOMAIN s : s[i] \in Counted)
    <3>1. \A i \in 1..n - 1 : i + 1 \in 1..n /\ t[i] = s[i + 1] BY <1>3
    <3> QED BY <1>4, <3>1
  <2>2. Head(s) \in Counted => (\E i \in DOMAIN s : s[i] \in Counted) BY <1>1, <1>3, <1>4
  <2>3. Head(s) \in Counted => ~(\E i \in DOMAIN t : t[i] \in Counted)
    <3> SUFFICES ASSUME Head(s) \in Counted, NEW i \in 1..n - 1, t[i] \in Counted PROVE FALSE BY <1>4
    <3>1. i + 1 \in 1..n /\ s[i + 1] \in Counted /\ 1 \in 1..n /\ s[1] \in Counted /\ i + 1 # 1 BY <1>1, <1>3
    <3> QED BY <1>4, <1>7, <3>1 DEF OnlyOne
  <2> QED BY <2>1, <2>2, <2>3 DEF Pending
<1> QED BY <1>2, <1>3, <1>5, <1>6, <1>7

\* How often a message has reached the chat.
LEMMA Counting ==
  ASSUME NEW log \in Seq(ReachedKinds), NEW x \in ReachedKinds, NEW m
  PROVE  /\ TimesIn(log, m) \in Nat
         /\ TimesIn(Append(log, x), m) = TimesIn(log, m) + (IF x = m THEN 1 ELSE 0)
<1>1. PICK n \in Nat : n = Len(log) + 1 OBVIOUS
<1>2. PICK more : more = Append(log, x) OBVIOUS
<1>3. more \in Seq(ReachedKinds) /\ DOMAIN more = 1..n /\ more[n] = x /\ \A i \in 1..Len(log) : more[i] = log[i]
  BY <1>1, <1>2
<1>4. DOMAIN log = 1..Len(log) /\ n \notin 1..Len(log) /\ 1..n = 1..Len(log) \union {n} BY <1>1
<1> DEFINE at == {i \in DOMAIN log : log[i] = m}
           now == {i \in DOMAIN more : more[i] = m}
<1>10. TimesIn(log, m) = Cardinality(at) /\ TimesIn(more, m) = Cardinality(now) BY DEF TimesIn
<1>11. TimesIn(Append(log, x), m) = Cardinality(now) BY <1>2, <1>10
<1>5. IsFiniteSet(at)
  <2>1. IsFiniteSet(1..Len(log)) BY FS_Interval
  <2>2. at \subseteq 1..Len(log) BY <1>4
  <2> QED BY <2>1, <2>2, FS_Subset
<1>6. Cardinality(at) \in Nat BY <1>5, FS_CardinalityType
<1>7. CASE x = m
  <2>1. now = at \union {n} /\ n \notin at BY <1>3, <1>4, <1>7
  <2> HIDE DEF at, now
  <2>2. Cardinality(now) = Cardinality(at) + 1 BY <1>5, <2>1, FS_AddElement
  <2> QED BY <1>6, <1>7, <1>10, <1>11, <2>2
<1>8. CASE x # m
  <2>1. now = at BY <1>3, <1>4, <1>8
  <2> HIDE DEF at, now
  <2>2. Cardinality(now) = Cardinality(at) BY <2>1
  <2> QED BY <1>6, <1>8, <1>10, <1>11, <2>2
<1>9. TimesIn(log, m) \in Nat BY <1>6, <1>10
<1> QED BY <1>7, <1>8, <1>9

\* The answers, excuses and apologies together.
LEMMA CountingAnswers ==
  ASSUME NEW log \in Seq(ReachedKinds), NEW x \in ReachedKinds
  PROVE  /\ Answers(log) \in Nat
         /\ Answers(Append(log, x)) = Answers(log) + (IF x \in {"answer", "apology", "sorry"} THEN 1 ELSE 0)
         /\ \A m : Has(Append(log, x), m) <=> Has(log, m) \/ m = x
<1>1. \A m : /\ TimesIn(log, m) \in Nat
             /\ TimesIn(Append(log, x), m) = TimesIn(log, m) + (IF x = m THEN 1 ELSE 0)
  BY Counting
<1>2. Answers(log) \in Nat BY <1>1 DEF Answers
<1>3. PICK a \in Nat, b \in Nat, c \in Nat : a = TimesIn(log, "answer") /\ b = TimesIn(log, "apology") /\ c = TimesIn(log, "sorry")
  BY <1>1
<1>4. Answers(Append(log, x)) = Answers(log) + (IF x \in {"answer", "apology", "sorry"} THEN 1 ELSE 0)
  <2>1. /\ TimesIn(Append(log, x), "answer") = a + (IF x = "answer" THEN 1 ELSE 0)
        /\ TimesIn(Append(log, x), "apology") = b + (IF x = "apology" THEN 1 ELSE 0)
        /\ TimesIn(Append(log, x), "sorry") = c + (IF x = "sorry" THEN 1 ELSE 0)
    BY <1>1, <1>3
  <2>2. Answers(log) = a + b + c BY <1>3 DEF Answers
  <2>3. Answers(Append(log, x)) = (a + (IF x = "answer" THEN 1 ELSE 0)) + (b + (IF x = "apology" THEN 1 ELSE 0))
                                    + (c + (IF x = "sorry" THEN 1 ELSE 0))
    BY <2>1 DEF Answers
  <2>4. CASE x = "answer" BY <2>2, <2>3, <2>4
  <2>5. CASE x = "apology" BY <2>2, <2>3, <2>5
  <2>6. CASE x = "sorry" BY <2>2, <2>3, <2>6
  <2>7. CASE x \notin {"answer", "apology", "sorry"} BY <2>2, <2>3, <2>7
  <2> QED BY <2>4, <2>5, <2>6, <2>7
<1>5. \A m : Has(Append(log, x), m) <=> Has(log, m) \/ m = x
  <2>1. PICK n \in Nat : n = Len(log) + 1 OBVIOUS
  <2>2. PICK more : more = Append(log, x) OBVIOUS
  <2>3. DOMAIN more = 1..n /\ more[n] = x /\ \A i \in 1..Len(log) : more[i] = log[i] BY <2>1, <2>2
  <2>4. DOMAIN log = 1..Len(log) /\ 1..n = 1..Len(log) \union {n} BY <2>1
  <2> QED BY <2>2, <2>3, <2>4 DEF Has
<1> QED BY <1>2, <1>4, <1>5

-------------------------------------------------------------------------------
\* What the invariant says while a branch is under way.
LEMMA RequestFacts ==
  ASSUME RequestInv, phase = "work"
  PROVE  /\ update \in Asked /\ reached \in Seq(ReachedKinds) /\ calls \in Seq(CallKinds) /\ faults \in Nat
         /\ OnlyOne(calls) /\ Accounted /\ Answers(reached) \in Nat /\ Pending(calls) \in {0, 1}
         /\ BranchOf(update) # Branch["none"] => Answers(reached) + Pending(calls) <= 1 + faults
         /\ Has(calls, "raw") \/ Has(calls, "narrative") \/ Has(calls, "cards") => update.what \in PastTransport
         /\ Has(calls, "file") => update.what = "excel"
         /\ Has(calls, "reject") => BranchOf(update) = Branch["none"]
<1>1. RequestTypes /\ Told /\ Reasoned BY DEF RequestInv
<1>2. reached \in Seq(ReachedKinds) BY <1>1 DEF RequestTypes
<1>3. "apology" \in ReachedKinds BY DEF ReachedKinds
<1>4. Answers(reached) \in Nat BY <1>2, <1>3, CountingAnswers
<1> QED BY <1>1, <1>4 DEF RequestTypes, Told, Reasoned, Pending

\* A call may have reached the chat.
LEMMA OnArrival ==
  ASSUME RequestInv, phase = "work", calls # <<>>
  PROVE  /\ Arrived(Call) \in Seq(ReachedKinds)
         /\ \A m \in Sent : Has(Arrived(Call), m) <=> Has(reached, m) \/ m = Call
         /\ Has(Arrived(Call), "apology") <=> Has(reached, "apology")
         /\ Answers(Arrived(Call)) \in Nat
         /\ Answers(Arrived(Call)) = Answers(reached) + (IF Call \in Counted THEN 1 ELSE 0)
<1>1. reached \in Seq(ReachedKinds) /\ calls \in Seq(CallKinds) /\ Answers(reached) \in Nat BY RequestFacts
<1>2. Call \in CallKinds BY <1>1, CallsLeft DEF Call
<1>3. Counted \subseteq Sent /\ "apology" \notin CallKinds /\ "apology" \notin Sent BY DEF Counted, Sent, CallKinds
<1>4. CASE Call \in Sent
  <2>1. Arrived(Call) = Append(reached, Call) /\ Call \in ReachedKinds BY <1>4 DEF Arrived, ReachedKinds
  <2>2. Answers(Arrived(Call)) = Answers(reached) + (IF Call \in {"answer", "apology", "sorry"} THEN 1 ELSE 0)
        /\ \A m : Has(Arrived(Call), m) <=> Has(reached, m) \/ m = Call
    BY <1>1, <2>1, CountingAnswers
  <2>3. Call \in {"answer", "apology", "sorry"} <=> Call \in Counted BY <1>2, <1>3 DEF Counted
  <2>4. Arrived(Call) \in Seq(ReachedKinds) BY <1>1, <2>1
  <2>5. Answers(Arrived(Call)) \in Nat BY <1>1, <2>2
  <2> QED BY <1>2, <1>3, <2>2, <2>3, <2>4, <2>5
<1>5. CASE Call \notin Sent
  <2>1. Arrived(Call) = reached BY <1>5 DEF Arrived
  <2>2. Call \notin Counted BY <1>3, <1>5
  <2> QED BY <1>1, <1>5, <2>1, <2>2
<1> QED BY <1>4, <1>5

\* The update is handed out, or once more.
LEMMA HandedKeeps ==
  ASSUME RequestInv, Handed PROVE RequestInv'
<1>1. update' \in Asked
  <2>1. CASE phase = "poll" /\ update' \in Asked BY <2>1
  <2>2. CASE phase = "open" /\ UNCHANGED update BY <2>2 DEF RequestInv, RequestTypes
  <2> QED BY <2>1, <2>2 DEF Handed
<1>2. calls' = BranchOf(update') /\ phase' = "work" /\ reached' = reached /\ faults' = faults BY DEF Handed
<1>3. /\ calls' \in Seq(CallKinds) /\ OnlyOne(calls')
      /\ Has(calls', "raw") \/ Has(calls', "narrative") \/ Has(calls', "cards") => update'.what \in PastTransport
      /\ Has(calls', "file") => update'.what = "excel"
      /\ Has(calls', "reject") => BranchOf(update') = Branch["none"]
  BY <1>1, <1>2, BranchFacts
<1>4. faults \in Nat /\ reached \in Seq(ReachedKinds) BY DEF RequestInv, RequestTypes
<1>5. RequestTypes' BY <1>1, <1>2, <1>3, <1>4 DEF RequestTypes, Phases, BranchOf, OnlyOne, Has
<1>6. Told'
  <2>1. \A m \in Sent : Has(BranchOf(update'), m) => Has(reached', m) \/ Has(calls', m) BY <1>2
  <2>2. Accounted' BY <2>1 DEF Accounted, BranchOf, Has
  <2> QED BY <1>2, <2>2 DEF Told
<1>7. Reasoned'
  <2>1. Pending(calls') \in {0, 1} BY DEF Pending
  <2>2. Answers(reached) \in Nat /\ (BranchOf(update') # Branch["none"] => Answers(reached) <= faults)
    <3>1. "apology" \in ReachedKinds BY DEF ReachedKinds
    <3>2. Answers(reached) \in Nat BY <1>4, <3>1, CountingAnswers
    <3>3. CASE phase = "poll"
      <4>1. reached = <<>> BY <3>3 DEF RequestInv, RequestTypes
      <4>2. \A m : {i \in DOMAIN reached : reached[i] = m} = {} BY <4>1
      <4>3. \A m : TimesIn(reached, m) = 0 BY <4>2, FS_EmptySet DEF TimesIn
      <4> QED BY <1>4, <3>2, <4>3 DEF Answers
    <3>4. CASE phase = "open" /\ UNCHANGED update BY <3>2, <3>4 DEF RequestInv, Reasoned
    <3> QED BY <3>3, <3>4 DEF Handed
  <2>3. BranchOf(update') # Branch["none"] => Answers(reached') + Pending(calls') <= 1 + faults'
    BY <1>2, <1>4, <2>1, <2>2
  <2> QED BY <1>2, <2>3 DEF Reasoned, BranchOf, Answers, TimesIn, Pending
<1> QED BY <1>5, <1>6, <1>7 DEF RequestInv

\* A call is done with: it has reached the chat, or need not have.
LEMMA CallDone ==
  ASSUME RequestInv, phase = "work", calls # <<>>,
         calls' = Tail(calls), update' = update, phase' = phase, faults' \in Nat, faults <= faults',
         reached' \in {reached, Arrived(Call)},
         \/ Call \notin Sent
         \/ Has(reached', Call)
         \/ update.what \in PastTransport
         \/ update = ButtonBook /\ Call = "file"
  PROVE  RequestInv'
<1>1. /\ update \in Asked /\ reached \in Seq(ReachedKinds) /\ calls \in Seq(CallKinds) /\ faults \in Nat
      /\ OnlyOne(calls) /\ Accounted /\ Answers(reached) \in Nat /\ Pending(calls) \in {0, 1}
      /\ BranchOf(update) # Branch["none"] => Answers(reached) + Pending(calls) <= 1 + faults
      /\ Has(calls, "raw") \/ Has(calls, "narrative") \/ Has(calls, "cards") => update.what \in PastTransport
      /\ Has(calls, "file") => update.what = "excel"
      /\ Has(calls, "reject") => BranchOf(update) = Branch["none"]
  BY RequestFacts
<1>2. Call = Head(calls) BY DEF Call
<1>3. /\ calls' \in Seq(CallKinds) /\ OnlyOne(calls')
      /\ \A m : Has(calls, m) <=> m = Call \/ Has(calls', m)
      /\ Pending(calls') + (IF Call \in Counted THEN 1 ELSE 0) <= Pending(calls)
  BY <1>1, <1>2, CallsLeft
<1>4. /\ reached' \in Seq(ReachedKinds)
      /\ \A m \in Sent : Has(reached, m) => Has(reached', m)
      /\ Has(reached, "apology") => Has(reached', "apology")
      /\ Answers(reached') \in Nat
      /\ Answers(reached') <= Answers(reached) + (IF Call \in Counted THEN 1 ELSE 0)
  <2>1. CASE reached' = reached BY <1>1, <2>1
  <2>2. CASE reached' = Arrived(Call) BY <1>1, <2>2, OnArrival
  <2> QED BY <2>1, <2>2
<1>5. RequestTypes'
  <2>1. update' \in Asked /\ phase' = "work" /\ faults' \in Nat BY <1>1
  <2>2. Has(calls', "raw") \/ Has(calls', "narrative") \/ Has(calls', "cards") => update'.what \in PastTransport
    BY <1>1, <1>3
  <2>3. Has(calls', "file") => update'.what = "excel" BY <1>1, <1>3
  <2>4. Has(calls', "reject") => BranchOf(update') = Branch["none"] BY <1>1, <1>3
  <2>5. (phase \in Phases)' BY <2>1 DEF Phases
  <2>6. reached' \in Seq(ReachedKinds) /\ calls' \in Seq(CallKinds) /\ OnlyOne(calls') BY <1>3, <1>4
  <2>7. (IF phase = "poll" THEN reached = <<>> ELSE update \in Asked)' BY <2>1
  <2> QED BY <2>1, <2>2, <2>3, <2>4, <2>5, <2>6, <2>7 DEF RequestTypes, OnlyOne, Has, BranchOf
<1>6. Accounted'
  <2>1. {"apology", "sorry", "raw", "menu"} \ {"apology"} \subseteq Sent /\ "sorry" \in Sent BY DEF Sent
  <2>2. CASE update.what \in PastTransport BY <2>2 DEF Accounted
  <2>3. CASE Excused
    <3>1. Has(reached', "apology") \/ Has(reached', "sorry") \/ Has(reached', "raw") BY <1>4, <2>1, <2>3 DEF Excused
    <3> QED BY <3>1 DEF Accounted, Excused, Has
  <2>4. CASE calls = <<"sorry", "menu">> /\ update.what \notin PastTransport
    <3>1. Call = "sorry" BY <1>2, <2>4
    <3>2. Has(reached', "sorry") BY <2>1, <2>4, <3>1
    <3> QED BY <3>2 DEF Accounted, Excused, Has
  <2>5. CASE (\A m \in Sent : Has(BranchOf(update), m) => Has(reached, m) \/ Has(calls, m)) /\ update.what \notin PastTransport
    <3>1. CASE Call \in Sent => Has(reached', Call)
      <4>1. \A m \in Sent : Has(BranchOf(update), m) => Has(reached', m) \/ Has(calls', m) BY <1>3, <1>4, <2>5, <3>1
      <4> QED BY <4>1 DEF Accounted, Has, BranchOf
    <3>2. CASE update = ButtonBook /\ Call = "file"
      <4>1. Has(BranchOf(update), "menu") BY <1>1, <3>2, BranchFacts DEF ButtonBook
      <4>2. Has(reached', "menu") \/ Has(calls', "menu") BY <1>3, <1>4, <2>1, <2>5, <3>2, <4>1
      <4> QED BY <3>2, <4>2 DEF Accounted, Has, ButtonBook
    <3> QED BY <2>5, <3>1, <3>2
  <2>6. CASE update = ButtonBook /\ (Has(reached, "menu") \/ Has(calls, "menu")) /\ update.what \notin PastTransport
    <3>1. Has(reached', "menu") \/ Has(calls', "menu") BY <1>3, <1>4, <2>1, <2>6
    <3> QED BY <2>6, <3>1 DEF Accounted, Has, ButtonBook
  <2> QED BY <1>1, <2>2, <2>3, <2>4, <2>5, <2>6 DEF Accounted
<1>7. Told' BY <1>6 DEF Told
<1>8. BranchOf(update) # Branch["none"] => Answers(reached') + Pending(calls') <= 1 + faults'
  <2>1. Pending(calls') \in {0, 1} BY DEF Pending
  <2> QED BY <1>1, <1>3, <1>4, <2>1
<1>9. Reasoned' BY <1>8 DEF Reasoned, BranchOf, Answers, TimesIn, Pending
<1> QED BY <1>5, <1>7, <1>9 DEF RequestInv

\* A call that works.
LEMMA CallWorksKeeps == RequestInv /\ CallWorks => RequestInv'
<1> SUFFICES ASSUME RequestInv, CallWorks PROVE RequestInv' OBVIOUS
<1>1. /\ phase = "work" /\ calls # <<>> /\ reached' = Arrived(Call) /\ calls' = Tail(calls)
      /\ update' = update /\ phase' = phase /\ faults' = faults
  BY DEF CallWorks
<1>2. Call \in Sent => Has(reached', Call) BY <1>1, OnArrival
<1>3. reached' \in {reached, Arrived(Call)} BY <1>1
<1>5. faults' \in Nat /\ faults <= faults' BY <1>1, RequestFacts
<1>4. phase = "work" /\ calls # <<>> /\ calls' = Tail(calls) /\ update' = update /\ phase' = phase BY <1>1
<1> QED BY <1>2, <1>3, <1>4, <1>5, CallDone

\* A workbook of a button that was made and not sent is passed over.
LEMMA FileKeeps == RequestInv /\ FileIsDropped => RequestInv'
<1> SUFFICES ASSUME RequestInv, FileIsDropped PROVE RequestInv' OBVIOUS
<1>1. /\ phase = "work" /\ calls # <<>> /\ reached' \in {reached, Arrived(Call)} /\ calls' = Tail(calls)
      /\ update' = update /\ phase' = phase /\ faults' = faults + 1 /\ Call = "file" /\ update.by = "button"
  BY DEF FileIsDropped, Fails
<1>2. calls \in Seq(CallKinds) /\ update \in Asked /\ (Has(calls, "file") => update.what = "excel") BY <1>1, RequestFacts
<1>3. Has(calls, "file") BY <1>1, <1>2, CallsLeft DEF Call
<1>4. update = ButtonBook BY <1>1, <1>2, <1>3 DEF Asked, ButtonBook
<1>5. faults' \in Nat /\ faults <= faults' BY <1>1, RequestFacts
<1> QED BY <1>1, <1>4, <1>5, CallDone

\* A refusal that nobody reads.
LEMMA RefusedKeeps == RequestInv /\ Refused => RequestInv'
<1> SUFFICES ASSUME RequestInv, Refused PROVE RequestInv' OBVIOUS
<1>1. /\ phase = "work" /\ calls # <<>> /\ reached' = reached /\ calls' = Tail(calls)
      /\ update' = update /\ phase' = phase /\ faults' = faults + 1 /\ Call \in {"raw", "narrative", "cards"}
  BY DEF Refused, Fails
<1>2. calls \in Seq(CallKinds)
      /\ (Has(calls, "raw") \/ Has(calls, "narrative") \/ Has(calls, "cards") => update.what \in PastTransport)
  BY <1>1, RequestFacts
<1>3. Has(calls, Call) BY <1>1, <1>2, CallsLeft DEF Call
<1>4. update.what \in PastTransport BY <1>1, <1>2, <1>3
<1>5. reached' \in {reached, Arrived(Call)} BY <1>1
<1>7. faults' \in Nat /\ faults <= faults' BY <1>1, RequestFacts
<1>6. phase = "work" /\ calls # <<>> /\ calls' = Tail(calls) /\ update' = update /\ phase' = phase BY <1>1
<1> QED BY <1>4, <1>5, <1>6, <1>7, CallDone

\* Where a failure leaves the answers: one that failed may have arrived, and has a failed call.
LEMMA Failing ==
  ASSUME RequestInv, NEW kinds, Fails(kinds)
  PROVE  /\ phase = "work" /\ calls # <<>> /\ Call \in kinds /\ Has(calls, Call) /\ faults \in Nat /\ faults' = faults + 1
         /\ update \in Asked /\ reached' \in Seq(ReachedKinds) /\ Answers(reached') \in Nat
         /\ BranchOf(update) # Branch["none"] =>
              Answers(reached') <= faults' /\ (Call \notin Counted => Answers(reached') <= 1 + faults)
<1>1. phase = "work" /\ calls # <<>> /\ Call \in kinds /\ faults' = faults + 1 /\ reached' \in {reached, Arrived(Call)}
  BY DEF Fails
<1>2. /\ update \in Asked /\ reached \in Seq(ReachedKinds) /\ calls \in Seq(CallKinds) /\ faults \in Nat
      /\ OnlyOne(calls) /\ Answers(reached) \in Nat /\ Pending(calls) \in {0, 1}
      /\ BranchOf(update) # Branch["none"] => Answers(reached) + Pending(calls) <= 1 + faults
  BY <1>1, RequestFacts
<1>3. Has(calls, Call) /\ Pending(Tail(calls)) + (IF Call \in Counted THEN 1 ELSE 0) <= Pending(calls)
  BY <1>1, <1>2, CallsLeft DEF Call
<1>4. Pending(Tail(calls)) \in {0, 1} BY DEF Pending
<1>5. reached' \in Seq(ReachedKinds) /\ Answers(reached') \in Nat
      /\ Answers(reached') <= Answers(reached) + (IF Call \in Counted THEN 1 ELSE 0)
  <2>1. CASE reached' = reached BY <1>2, <2>1
  <2>2. CASE reached' = Arrived(Call) BY <1>1, <1>2, <2>2, OnArrival
  <2> QED BY <1>1, <2>1, <2>2
<1>6. BranchOf(update) # Branch["none"] =>
        Answers(reached') <= faults' /\ (Call \notin Counted => Answers(reached') <= 1 + faults)
  BY <1>1, <1>2, <1>3, <1>4, <1>5
<1> QED BY <1>1, <1>2, <1>3, <1>5, <1>6

\* The handling of the update is over, for now.
LEMMA NotAtWork ==
  ASSUME RequestInv, phase # "poll", update' = update, phase' \in {"open", "apologise", "told", "saved"},
         calls' \in Seq(CallKinds), reached' \in Seq(ReachedKinds), faults' \in Nat,
         phase' = "told" => Has(reached', "apology"), phase' = "saved" => Answered',
         BranchOf(update) # Branch["none"] => Answers(reached') <= 1 + faults',
         BranchOf(update) # Branch["none"] /\ phase' \in {"open", "apologise"} => Answers(reached') <= faults'
  PROVE  RequestInv'
<1>1. RequestTypes' BY DEF RequestInv, RequestTypes, Phases
<1>2. Told' BY DEF Told, Has
<1>3. Reasoned' BY DEF Reasoned, BranchOf, Answers, TimesIn
<1> QED BY <1>1, <1>2, <1>3 DEF RequestInv

\* A call that raises.
LEMMA RaisesKeeps == RequestInv /\ CallRaises => RequestInv'
<1> SUFFICES ASSUME RequestInv, CallRaises PROVE RequestInv' OBVIOUS
<1>1. update' = update /\ phase' \in {"open", "apologise"} /\ calls' = <<>> BY DEF CallRaises, GivenUp
<1>2. ASSUME NEW kinds, Fails(kinds) PROVE RequestInv'
  <2>1. /\ phase = "work" /\ reached' \in Seq(ReachedKinds) /\ faults' \in Nat /\ Answers(reached') \in Nat
        /\ BranchOf(update) # Branch["none"] => Answers(reached') <= faults'
    BY <1>2, Failing
  <2>2. Answers(reached') <= faults' => Answers(reached') <= 1 + faults' BY <2>1
  <2> QED BY <1>1, <2>1, <2>2, NotAtWork
<1>3. CASE phase = "work" /\ calls # <<>> /\ Call = "reject" /\ UNCHANGED <<reached, faults>>
  <2>1. reached \in Seq(ReachedKinds) /\ faults \in Nat /\ calls \in Seq(CallKinds)
        /\ (Has(calls, "reject") => BranchOf(update) = Branch["none"])
    BY <1>3, RequestFacts
  <2>2. Has(calls, "reject") BY <1>3, <2>1, CallsLeft DEF Call
  <2> QED BY <1>1, <1>3, <2>1, <2>2, NotAtWork
<1> QED BY <1>2, <1>3 DEF CallRaises

\* What takes the place of the calls that are left.
LEMMA Replaced ==
  ASSUME RequestInv, phase = "work", update' = update, phase' = phase, reached' \in Seq(ReachedKinds), faults' \in Nat,
         Answers(reached') \in Nat,
         \/ calls' = <<"sorry", "menu">>
         \/ calls' = <<"raw">> /\ update.what \in PastTransport,
         BranchOf(update) # Branch["none"] => Answers(reached') <= faults'
  PROVE  RequestInv'
<1>1. calls' \in Seq(CallKinds) /\ OnlyOne(calls')
  <2>1. <<"sorry", "menu">> \in Seq(CallKinds) /\ OnlyOne(<<"sorry", "menu">>) BY DEF CallKinds, OnlyOne, Counted
  <2>2. <<"raw">> \in Seq(CallKinds) /\ OnlyOne(<<"raw">>) BY DEF CallKinds, OnlyOne, Counted
  <2> QED BY <2>1, <2>2
<1>2. /\ Has(calls', "raw") => update.what \in PastTransport
      /\ ~Has(calls', "narrative") /\ ~Has(calls', "cards") /\ ~Has(calls', "file") /\ ~Has(calls', "reject")
  BY DEF Has
<1>3. RequestTypes' BY <1>1, <1>2 DEF RequestInv, RequestTypes, OnlyOne, Has
<1>4. Accounted' BY DEF Accounted
<1>5. Told' BY <1>4 DEF Told
<1>6. Pending(calls') \in {0, 1} BY DEF Pending
<1>7. BranchOf(update) # Branch["none"] => Answers(reached') + Pending(calls') <= 1 + faults' BY <1>6
<1>8. Reasoned' BY <1>7 DEF Reasoned, BranchOf, Answers, TimesIn, Pending
<1> QED BY <1>3, <1>5, <1>8 DEF RequestInv

\* A workbook that could not be made is excused.
LEMMA BookKeeps == RequestInv /\ BookFails => RequestInv'
<1> SUFFICES ASSUME RequestInv, BookFails PROVE RequestInv' OBVIOUS
<1>1. PICK kinds : Fails(kinds) BY DEF BookFails
<1>2. update' = update /\ phase' = phase /\ calls' = <<"sorry", "menu">> BY DEF BookFails
<1>3. /\ phase = "work" /\ reached' \in Seq(ReachedKinds) /\ faults' \in Nat /\ Answers(reached') \in Nat
      /\ BranchOf(update) # Branch["none"] => Answers(reached') <= faults'
  BY <1>1, Failing
<1> QED BY <1>2, <1>3, Replaced

\* Cards that could not be made are replaced by the plain report.
LEMMA CardsKeeps == RequestInv /\ CardsFail => RequestInv'
<1> SUFFICES ASSUME RequestInv, CardsFail PROVE RequestInv' OBVIOUS
<1>1. Fails({"cards"}) BY DEF CardsFail
<1>2. update' = update /\ phase' = phase /\ calls' = <<"raw">> BY DEF CardsFail
<1>3. /\ phase = "work" /\ calls # <<>> /\ Call = "cards" /\ Has(calls, "cards")
      /\ reached' \in Seq(ReachedKinds) /\ faults' \in Nat /\ Answers(reached') \in Nat
      /\ BranchOf(update) # Branch["none"] => Answers(reached') <= faults'
  BY <1>1, Failing
<1>4. update.what \in PastTransport BY <1>3, RequestFacts
<1> QED BY <1>2, <1>3, <1>4, Replaced

\* A branch with nothing left is answered.
LEMMA NothingLeft ==
  ASSUME RequestInv, phase = "work", calls = <<>>
  PROVE  /\ Answered /\ reached \in Seq(ReachedKinds) /\ faults \in Nat /\ Answers(reached) \in Nat
         /\ BranchOf(update) # Branch["none"] => Answers(reached) <= 1 + faults
<1>1. /\ reached \in Seq(ReachedKinds) /\ faults \in Nat /\ Accounted /\ Answers(reached) \in Nat
      /\ BranchOf(update) # Branch["none"] => Answers(reached) + Pending(calls) <= 1 + faults
  BY RequestFacts
<1>2. (\A m : ~Has(calls, m)) /\ calls # <<"sorry", "menu">> BY DEF Has
<1>3. Pending(calls) = 0 BY DEF Pending
<1>4. Answered BY <1>1, <1>2 DEF Accounted, Answered
<1> QED BY <1>1, <1>3, <1>4

\* The offset is saved.
LEMMA SettleKeeps == RequestInv /\ Settle => RequestInv'
<1> SUFFICES ASSUME RequestInv, Settle PROVE RequestInv' OBVIOUS
<1>1. phase' = "saved" /\ update' = update /\ calls' = calls /\ reached' = reached /\ faults' = faults BY DEF Settle
<1>2. phase \in {"work", "told"} BY DEF Settle
<1>3. /\ Answered /\ reached \in Seq(ReachedKinds) /\ faults \in Nat /\ calls \in Seq(CallKinds)
      /\ BranchOf(update) # Branch["none"] => Answers(reached) <= 1 + faults
  <2>1. CASE phase = "work" /\ calls = <<>> BY <2>1, NothingLeft
  <2>2. CASE phase = "told"
    BY <2>2 DEF RequestInv, RequestTypes, Told, Reasoned, Answered, Excused
  <2> QED BY <2>1, <2>2 DEF Settle
<1>4. Answered' BY <1>1, <1>3 DEF Answered, Excused, BranchOf, Has
<1> QED BY <1>1, <1>2, <1>3, <1>4, NotAtWork

\* ... or it is not.
LEMMA SettleFailsKeeps == RequestInv /\ SettleFails => RequestInv'
<1> SUFFICES ASSUME RequestInv, SettleFails PROVE RequestInv' OBVIOUS
<1>1. faults' = faults + 1 /\ reached' = reached /\ update' = update BY DEF SettleFails, GivenUp
<1>2. CASE phase = "work" /\ calls = <<>> /\ GivenUp
  <2>1. phase' \in {"open", "apologise"} /\ calls' = <<>> BY <1>2 DEF GivenUp
  <2>2. /\ reached \in Seq(ReachedKinds) /\ faults \in Nat /\ Answers(reached) \in Nat
        /\ BranchOf(update) # Branch["none"] => Answers(reached) <= 1 + faults
    BY <1>2, NothingLeft
  <2>3. Answers(reached) <= 1 + faults => Answers(reached') <= faults' /\ Answers(reached') <= 1 + faults' BY <1>1, <2>2
  <2> QED BY <1>1, <1>2, <2>1, <2>2, <2>3, NotAtWork
<1>3. CASE phase = "told" /\ phase' = "open" /\ UNCHANGED <<update, calls>>
  <2>1. /\ reached \in Seq(ReachedKinds) /\ faults \in Nat /\ calls \in Seq(CallKinds)
        /\ BranchOf(update) # Branch["none"] => Answers(reached) <= 1 + faults
    BY <1>3 DEF RequestInv, RequestTypes, Reasoned
  <2>2. Answers(reached) \in Nat
    <3>1. "apology" \in ReachedKinds BY DEF ReachedKinds
    <3> QED BY <2>1, <3>1, CountingAnswers
  <2>3. Answers(reached) <= 1 + faults => Answers(reached') <= faults' /\ Answers(reached') <= 1 + faults' BY <1>1, <2>1, <2>2
  <2> QED BY <1>1, <1>3, <2>1, <2>3, NotAtWork
<1> QED BY <1>2, <1>3 DEF SettleFails

\* The apology is sent, or it is not.
LEMMA ApologisesKeeps == RequestInv /\ Apologises => RequestInv'
<1> SUFFICES ASSUME RequestInv, Apologises PROVE RequestInv' OBVIOUS
<1>1. phase = "apologise" /\ update' = update /\ calls' = calls BY DEF Apologises
<1>2. /\ reached \in Seq(ReachedKinds) /\ faults \in Nat /\ calls \in Seq(CallKinds)
      /\ BranchOf(update) # Branch["none"] => Answers(reached) <= faults
  BY <1>1 DEF RequestInv, RequestTypes, Reasoned
<1>3. "apology" \in ReachedKinds BY DEF ReachedKinds
<1>4. PICK more : more = Append(reached, "apology") OBVIOUS
<1>5. more \in Seq(ReachedKinds) /\ Has(more, "apology") /\ Answers(reached) \in Nat /\ Answers(more) = Answers(reached) + 1
  BY <1>2, <1>3, <1>4, CountingAnswers
<1>6. CASE phase' = "told" /\ reached' = more /\ faults' = faults
  <2>1. Answers(reached) <= faults => Answers(reached') <= 1 + faults' BY <1>2, <1>5, <1>6
  <2> QED BY <1>1, <1>2, <1>5, <1>6, <2>1, NotAtWork
<1>7. CASE phase' = "open" /\ reached' \in {reached, more} /\ faults' = faults + 1
  <2>1. Answers(reached) <= faults => Answers(reached') <= faults' /\ Answers(reached') <= 1 + faults' BY <1>2, <1>5, <1>7
  <2>2. reached' \in Seq(ReachedKinds) /\ faults' \in Nat BY <1>2, <1>5, <1>7
  <2> QED BY <1>1, <1>2, <1>7, <2>1, <2>2, NotAtWork
<1> QED BY <1>4, <1>6, <1>7 DEF Apologises

\* Nothing was asked yet.
THEOREM RequestStart == RequestInit => RequestInv
<1> SUFFICES ASSUME RequestInit PROVE RequestInv OBVIOUS
<1>1. phase = "poll" /\ faults = 0 /\ reached = <<>> /\ calls = <<>> BY DEF RequestInit
<1> QED BY <1>1 DEF RequestInv, RequestTypes, Told, Reasoned, Phases

\* No call of a branch and no failure of one breaks the invariant.
THEOREM RequestStep == RequestInv /\ [RequestNext]_requestVars => RequestInv'
<1> SUFFICES ASSUME RequestInv, [RequestNext]_requestVars PROVE RequestInv' OBVIOUS
<1>1. CASE UNCHANGED requestVars
  <2>1. UNCHANGED <<update, calls, reached, phase, faults>> BY <1>1 DEF requestVars
  <2>2. RequestTypes' BY <2>1 DEF RequestInv, RequestTypes, BranchOf, OnlyOne, Has
  <2>3. Told' BY <2>1 DEF RequestInv, Told, Accounted, Answered, Excused, BranchOf, Has
  <2>4. Reasoned' BY <2>1 DEF RequestInv, Reasoned, BranchOf, Answers, TimesIn, Pending
  <2> QED BY <2>2, <2>3, <2>4 DEF RequestInv
<1> QED BY <1>1, HandedKeeps, CallWorksKeeps, RaisesKeeps, BookKeeps, FileKeeps, CardsKeeps, RefusedKeeps,
           SettleKeeps, SettleFailsKeeps, ApologisesKeeps
        DEF RequestNext

\* What was sent of a branch and what is left of it are the branch, unless there is an excuse;
\* and every answer beyond the first has a failed call of its own.
THEOREM RequestInvariance == RequestSpec => []RequestInv
BY RequestStart, RequestStep, PTL DEF RequestSpec

\* That is what the chat was told of a request that is settled.
LEMMA RequestIsTold == RequestInv => SettledIsTold /\ RepeatsHaveReasons
<1> SUFFICES ASSUME RequestInv PROVE SettledIsTold /\ RepeatsHaveReasons OBVIOUS
<1>1. reached \in Seq(ReachedKinds) /\ faults \in Nat BY DEF RequestInv, RequestTypes
<1>2. \A m : Has(reached, m) => m \in ToSet(reached) BY DEF Has, ToSet
<1>3. SettledIsTold
  <2> SUFFICES ASSUME phase = "saved"
               PROVE  \/ Messages(BranchOf(update)) \subseteq ToSet(reached)
                      \/ \E m \in {"apology", "sorry", "raw"} : m \in ToSet(reached)
                      \/ update.what \in {"lmp", "mgmt"}
                      \/ update = [by |-> "button", what |-> "excel"] /\ "menu" \in ToSet(reached)
    BY DEF SettledIsTold
  <2>1. Answered BY DEF RequestInv, Told
  <2>2. \A m \in Messages(BranchOf(update)) : m \in Sent /\ Has(BranchOf(update), m) BY DEF Messages, ToSet, Has
  <2> QED BY <1>2, <2>1, <2>2 DEF Answered, Excused, PastTransport, ButtonBook
<1>4. RepeatsHaveReasons
  <2> SUFFICES ASSUME phase # "poll", BranchOf(update) # Branch["none"]
               PROVE  Answers(reached) <= 1 + faults
    BY DEF RepeatsHaveReasons, Answers, Times, TimesIn
  <2>1. Answers(reached) \in Nat
    <3>1. "apology" \in ReachedKinds BY DEF ReachedKinds
    <3> QED BY <1>1, <3>1, CountingAnswers
  <2>2. Pending(calls) \in {0, 1} /\ phase \in Phases BY DEF Pending, RequestInv, RequestTypes
  <2> QED BY <1>1, <2>1, <2>2 DEF RequestInv, Reasoned, Phases
<1> QED BY <1>3, <1>4
-------------------------------------------------------------------------------
\* What a process is told of a delivery (send_message and send_lmp_cards) is what the chat shows
\* of it, and no request is settled (save_offset of bale_listener.py) before it was answered
\* whole or the chat was told that it was not.  The two machines share no variables.
THEOREM TheChatIsTold == DeliverySpec /\ RequestSpec => []ChatIsTold
<1>1. DeliveryInv /\ RequestInv => ChatIsTold BY DeliveryIsTold, RequestIsTold DEF ChatIsTold
<1> QED BY <1>1, DeliveryInvariance, RequestInvariance, PTL
-------------------------------------------------------------------------------
\* The loop of split_message over one section gives what it says: each turn goes on from the
\* one before.
LEMMA LoopOfCuts ==
  ASSUME NEW chunks, NEW section, NEW last \in Nat, Len(section) = last
  PROVE  \E cut : /\ CutToFit(chunks, section) = cut[last]
                  /\ cut[0] = [chunks |-> chunks, section |-> section]
                  /\ \A k \in 1..last : cut[k] = CutOff(cut[k - 1])
<1> DEFINE First == [chunks |-> chunks, section |-> section]
           Turn(f, n) == [k \in 0..n |-> IF k = 0 THEN First ELSE CutOff(f[k - 1])]
           Missing == {n \in 0..last : ~\E f : f = Turn(f, n)}
<1>1. \E f : f = Turn(f, last)
  <2>1. SUFFICES ASSUME Missing # {} PROVE FALSE OBVIOUS
  <2>0. Missing \in SUBSET Nat OBVIOUS
  <2> HIDE DEF Missing
  <2>2. PICK n \in Missing : \A m \in Missing : n <= m BY <2>0, <2>1, Smallest
  <2>5. n \in 0..last /\ ~\E f : f = Turn(f, n) BY DEF Missing
  <2>6. n - 1 \in 0..last => \E f : f = Turn(f, n - 1)
    <3>1. ~(n <= n - 1) BY <2>5
    <3>2. n - 1 \notin Missing BY <2>2, <3>1
    <3> QED BY <3>2 DEF Missing
  <2>3. CASE n = 0
    <3>1. PICK f : f = [k \in 0..0 |-> First] OBVIOUS
    <3>2. f = Turn(f, 0) BY <3>1
    <3> QED BY <2>3, <2>5, <3>2
  <2>4. CASE n # 0
    <3>1. n - 1 \in 0..last BY <2>4, <2>5
    <3>2. PICK f : f = Turn(f, n - 1) BY <2>6, <3>1
    <3>3. PICK g : g = [k \in 0..n |-> IF k = n THEN CutOff(f[n - 1]) ELSE f[k]] OBVIOUS
    <3>4. \A k \in 0..n - 1 : g[k] = f[k] BY <2>5, <3>3
    <3>5. \A k \in 0..n : g[k] = IF k = 0 THEN First ELSE CutOff(g[k - 1])
      <4> TAKE k \in 0..n
      <4>1. CASE k = n BY <2>4, <3>3, <3>4, <4>1
      <4>2. CASE k # n
        <5>1. k \in 0..n - 1 BY <2>5, <4>2
        <5>2. f[k] = IF k = 0 THEN First ELSE CutOff(f[k - 1]) BY <3>2, <5>1
        <5>3. k # 0 => k - 1 \in 0..n - 1 BY <2>5, <5>1
        <5> QED BY <3>4, <5>1, <5>2, <5>3
      <4> QED BY <4>1, <4>2
    <3>6. g = Turn(g, n) BY <3>3, <3>5
    <3> QED BY <2>5, <3>6
  <2> QED BY <2>3, <2>4
<1> DEFINE cut == CHOOSE f : f = Turn(f, last)
<1>2. CutToFit(chunks, section) = cut[last] BY DEF CutToFit
<1>3. cut = Turn(cut, last) BY <1>1
<1> HIDE DEF cut
<1>4. \A k \in 0..last : cut[k] = IF k = 0 THEN First ELSE CutOff(cut[k - 1]) BY <1>3
<1>5. cut[0] = First /\ \A k \in 1..last : cut[k] = CutOff(cut[k - 1]) BY <1>4
<1> QED BY <1>2, <1>5

\* What lies behind the first a characters of a text, up to the one at b.
Piece(text, a, b) == SubSeq(text, a + 1, b)
Text == Seq(Characters)

\* A piece is a text.
LEMMA PieceIs ==
  ASSUME NEW text \in Text, NEW a \in Nat, NEW b \in Nat, a <= b, b <= Len(text)
  PROVE  /\ Piece(text, a, b) \in Text /\ Len(Piece(text, a, b)) = b - a
         /\ \A i \in 1..b - a : Piece(text, a, b)[i] = text[a + i]
<1>1. PICK C : C = Characters OBVIOUS
<1>2. text \in Seq(C) BY <1>1 DEF Text
<1>3. \A i \in a + 1..b : text[i] \in C BY <1>2
<1>4. PICK m \in Int : m = a + 1 OBVIOUS
<1>5. PICK t : t = SubSeq(text, m, b) OBVIOUS
<1>6. t \in Seq(C) /\ Len(t) = (IF m <= b THEN b - m + 1 ELSE 0) /\ \A i \in 1..b - m + 1 : t[i] = text[m + i - 1]
  BY <1>3, <1>4, <1>5, SubSeqProperties
<1>7. Len(t) = b - a /\ \A i \in 1..b - a : t[i] = text[a + i]
  <2>1. Len(t) = b - a BY <1>4, <1>6
  <2>2. \A i \in 1..b - a : t[i] = text[a + i]
    <3> TAKE i \in 1..b - a
    <3>1. i \in 1..b - m + 1 /\ m + i - 1 = a + i BY <1>4
    <3> QED BY <1>6, <3>1
  <2> QED BY <2>1, <2>2
<1> QED BY <1>1, <1>4, <1>5, <1>6, <1>7 DEF Piece, Text

\* Two pieces, one behind the other, are one.
LEMMA PiecesJoin ==
  ASSUME NEW text \in Text, NEW a \in Nat, NEW b \in Nat, NEW c \in Nat, a <= b, b <= c, c <= Len(text)
  PROVE  Piece(text, a, b) \o Piece(text, b, c) = Piece(text, a, c)
<1>1. PICK C : C = Characters OBVIOUS
<1>2. text \in Seq(C) BY <1>1 DEF Text
<1>3. PICK m \in Nat : m = a + 1 OBVIOUS
<1>4. m \in 1..Len(text) + 1 /\ b \in m - 1..Len(text) /\ c \in b..Len(text) BY <1>2, <1>3
<1>5. SubSeq(text, m, b) \o SubSeq(text, b + 1, c) = SubSeq(text, m, c) BY <1>2, <1>4, ConcatAdjacentSubSeq
<1> QED BY <1>3, <1>5 DEF Piece

\* The beginning and the rest of a piece are pieces.
LEMMA PieceIsCut ==
  ASSUME NEW text \in Text, NEW a \in Nat, NEW b \in Nat, a <= b, b <= Len(text), NEW k \in 0..b - a
  PROVE  /\ SubSeq(Piece(text, a, b), 1, k) = Piece(text, a, a + k)
         /\ SubSeq(Piece(text, a, b), k + 1, b - a) = Piece(text, a + k, b)
<1>1. PICK C : C = Characters OBVIOUS
<1>2. PICK t : t = Piece(text, a, b) OBVIOUS
<1>3. t \in Text /\ Len(t) = b - a /\ \A i \in 1..b - a : t[i] = text[a + i] BY <1>2, PieceIs
<1>4. PICK n \in Nat : n = b - a OBVIOUS
<1>5. \A i \in 1..n : t[i] \in C BY <1>1, <1>3, <1>4 DEF Text
<1>6. SubSeq(t, 1, k) = Piece(text, a, a + k)
  <2>1. PICK s : s = SubSeq(t, 1, k) OBVIOUS
  <2>2. PICK p : p = Piece(text, a, a + k) OBVIOUS
  <2>3. s \in Seq(C) /\ Len(s) = k /\ \A i \in 1..k : s[i] = t[i]
    <3>1. \A i \in 1..k : t[i] \in C BY <1>4, <1>5
    <3>2. s \in Seq(C) /\ Len(s) = (IF 1 <= k THEN k - 1 + 1 ELSE 0) /\ \A i \in 1..k - 1 + 1 : s[i] = t[1 + i - 1]
      BY <2>1, <3>1, SubSeqProperties
    <3>3. Len(s) = k BY <3>2
    <3>4. \A i \in 1..k : s[i] = t[i]
      <4> TAKE i \in 1..k
      <4>1. i \in 1..k - 1 + 1 /\ 1 + i - 1 = i OBVIOUS
      <4> QED BY <3>2, <4>1
    <3> QED BY <3>2, <3>3, <3>4
  <2>4. p \in Seq(C) /\ Len(p) = k /\ \A i \in 1..k : p[i] = text[a + i]
    <3>0. k \in Nat /\ Len(text) \in Nat BY <1>2, <1>4 DEF Text
    <3>1. PICK to \in Nat : to = a + k BY <3>0
    <3>2. a <= to /\ to <= Len(text) /\ to - a = k BY <3>0, <3>1
    <3>3. p \in Text /\ Len(p) = to - a /\ \A i \in 1..to - a : p[i] = text[a + i] BY <2>2, <3>1, <3>2, PieceIs
    <3> QED BY <1>1, <3>2, <3>3 DEF Text
  <2>5. \A i \in 1..Len(s) : s[i] = p[i]
    <3> TAKE i \in 1..Len(s)
    <3>1. i \in 1..k /\ i \in 1..b - a BY <2>3
    <3> QED BY <1>3, <2>3, <2>4, <3>1
  <2> QED BY <2>1, <2>2, <2>3, <2>4, <2>5, SeqEqual
<1>7. SubSeq(t, k + 1, n) = Piece(text, a + k, b)
  <2>1. PICK m \in Int : m = k + 1 OBVIOUS
  <2>0. PICK s : s = SubSeq(t, m, n) OBVIOUS
  <2>2. PICK p : p = Piece(text, a + k, b) OBVIOUS
  <2>3. s \in Seq(C) /\ Len(s) = n - k /\ \A i \in 1..n - k : s[i] = t[k + i]
    <3>1. \A i \in m..n : t[i] \in C BY <1>4, <1>5, <2>1
    <3>2. s \in Seq(C) /\ Len(s) = (IF m <= n THEN n - m + 1 ELSE 0) /\ \A i \in 1..n - m + 1 : s[i] = t[m + i - 1]
      BY <2>0, <3>1, SubSeqProperties
    <3>3. Len(s) = n - k BY <1>4, <2>1, <3>2
    <3>4. \A i \in 1..n - k : s[i] = t[k + i]
      <4> TAKE i \in 1..n - k
      <4>1. i \in 1..n - m + 1 /\ m + i - 1 = k + i BY <2>1
      <4> QED BY <3>2, <4>1
    <3> QED BY <3>2, <3>3, <3>4
  <2>4. p \in Seq(C) /\ Len(p) = n - k /\ \A i \in 1..n - k : p[i] = text[a + k + i]
    <3>1. PICK from \in Nat : from = a + k OBVIOUS
    <3>2. from <= b /\ b - from = n - k BY <1>4, <3>1
    <3>3. p \in Text /\ Len(p) = b - from /\ \A i \in 1..b - from : p[i] = text[from + i] BY <2>2, <3>1, <3>2, PieceIs
    <3> QED BY <1>1, <3>1, <3>2, <3>3 DEF Text
  <2>5. \A i \in 1..Len(s) : s[i] = p[i]
    <3> TAKE i \in 1..Len(s)
    <3>1. i \in 1..n - k /\ k + i \in 1..n /\ a + (k + i) = a + k + i BY <1>4, <2>3
    <3> QED BY <1>3, <1>4, <2>3, <2>4, <3>1
  <2> QED BY <2>0, <2>1, <2>2, <2>3, <2>4, <2>5, SeqEqual
<1> QED BY <1>2, <1>4, <1>6, <1>7

\* What FlattenSeq gives for sequences of which each goes on from the one before.
LEMMA FlatIs ==
  ASSUME NEW chunks \in Seq(Text), NEW g, g[0] = <<>>,
         \A i \in 1..Len(chunks) : g[i] = g[i - 1] \o chunks[i]
  PROVE  FlattenSeq(chunks) = g[Len(chunks)]
<1>1. PICK last \in Nat : last = Len(chunks) OBVIOUS
<1>2. CASE last = 0
  <2>1. chunks = <<>> BY <1>1, <1>2, EmptySeq
  <2> QED BY <1>1, <1>2, <2>1 DEF FlattenSeq
<1>3. CASE last # 0
  <2> DEFINE Flat(f) == [i \in 1..last |-> IF i = 1 THEN chunks[i] ELSE f[i - 1] \o chunks[i]]
             flatten == CHOOSE f : f = Flat(f)
             Apart == {i \in 1..last : flatten[i] # g[i]}
  <2>1. FlattenSeq(chunks) = flatten[last] BY <1>1, <1>3 DEF FlattenSeq
  <2>2. g[1] = chunks[1]
    <3>1. 1 \in 1..last /\ chunks[1] \in Text BY <1>1, <1>3
    <3>2. PICK t \in Text : t = chunks[1] BY <3>1
    <3>3. <<>> \o t = t BY ConcatEmptySeq DEF Text
    <3>4. g[1] = g[0] \o chunks[1]
      <4>1. g[1] = g[1 - 1] \o chunks[1] BY <1>1, <3>1
      <4>2. 1 - 1 = 0 OBVIOUS
      <4> QED BY <4>1, <4>2
    <3> QED BY <3>2, <3>3, <3>4
  <2>3. \E f : f = Flat(f)
    <3>1. PICK f : f = [i \in 1..last |-> g[i]] OBVIOUS
    <3>2. \A i \in 1..last : f[i] = IF i = 1 THEN chunks[i] ELSE f[i - 1] \o chunks[i]
      <4> TAKE i \in 1..last
      <4>1. CASE i = 1 BY <2>2, <3>1, <4>1
      <4>2. CASE i # 1
        <5>1. i - 1 \in 1..last BY <4>2
        <5>2. f[i] = g[i] /\ f[i - 1] = g[i - 1] BY <3>1, <5>1
        <5>3. g[i] = g[i - 1] \o chunks[i] BY <1>1
        <5> QED BY <4>2, <5>2, <5>3
      <4> QED BY <4>1, <4>2
    <3>3. f = Flat(f) BY <3>1, <3>2
    <3> QED BY <3>3
  <2>4. flatten = Flat(flatten) BY <2>3
  <2> HIDE DEF flatten
  <2>5. \A i \in 1..last : flatten[i] = IF i = 1 THEN chunks[i] ELSE flatten[i - 1] \o chunks[i] BY <2>4
  <2>6. Apart = {}
    <3>1. SUFFICES ASSUME Apart # {} PROVE FALSE OBVIOUS
    <3>2. Apart \in SUBSET Nat OBVIOUS
    <3> HIDE DEF Apart
    <3>3. PICK i \in Apart : \A j \in Apart : i <= j BY <3>1, <3>2, Smallest
    <3>4. i \in 1..last /\ flatten[i] # g[i] BY DEF Apart
    <3>5. i # 1 BY <2>2, <2>5, <3>4
    <3>6. i - 1 \in 1..last BY <3>4, <3>5
    <3>7. i - 1 \notin Apart
      <4>1. ~(i <= i - 1) BY <3>4
      <4> QED BY <3>3, <4>1
    <3>8. flatten[i - 1] = g[i - 1] BY <3>6, <3>7 DEF Apart
    <3>9. g[i] = g[i - 1] \o chunks[i] BY <1>1, <3>4
    <3> QED BY <2>5, <3>4, <3>5, <3>8, <3>9
  <2>7. last \in 1..last BY <1>3
  <2> QED BY <1>1, <2>1, <2>6, <2>7
<1> QED BY <1>2, <1>3

-------------------------------------------------------------------------------
\* A message may end there when it began behind a: at the end of a line, before a section, or
\* full of one line.
EndsWell(text, a, b) ==
  \/ text[b] = "end"
  \/ b < Len(text) => text[b + 1] = "mark"
  \/ b - a = PartLimit /\ \A m \in a + 1..b : text[m] # "end"

\* Messages that are the text up to the last of these ends.
AreUpTo(text, chunks, ends) ==
  /\ ends \in [0..Len(chunks) -> 0..Len(text)] /\ ends[0] = 0
  /\ \A i \in 1..Len(chunks) :
       /\ ends[i - 1] < ends[i] /\ ends[i] - ends[i - 1] <= PartLimit
       /\ chunks[i] = Piece(text, ends[i - 1], ends[i])
       /\ EndsWell(text, ends[i - 1], ends[i])

SentUpTo(text, chunks, n) ==
  chunks \in Seq(Text) /\ n \in 0..Len(text) /\ \E ends : AreUpTo(text, chunks, ends) /\ ends[Len(chunks)] = n

\* No message yet.
LEMMA NoneSent ==
  ASSUME NEW text \in Text
  PROVE  SentUpTo(text, <<>>, 0)
<1>1. <<>> \in Seq(Text) /\ Len(<<>>) = 0 /\ 0 \in 0..Len(text) BY DEF Text
<1>2. PICK ends : ends = [i \in 0..0 |-> 0] OBVIOUS
<1>3. ends \in [0..0 -> 0..Len(text)] /\ ends[0] = 0 BY <1>1, <1>2
<1>4. AreUpTo(text, <<>>, ends) BY <1>1, <1>3 DEF AreUpTo
<1> QED BY <1>1, <1>3, <1>4 DEF SentUpTo

\* One message more.
LEMMA OneMoreSent ==
  ASSUME NEW text \in Text, NEW chunks, NEW a, SentUpTo(text, chunks, a),
         NEW b \in 0..Len(text), a < b, b - a <= PartLimit, EndsWell(text, a, b)
  PROVE  SentUpTo(text, Append(chunks, Piece(text, a, b)), b)
<1>1. PICK ends : AreUpTo(text, chunks, ends) /\ ends[Len(chunks)] = a BY DEF SentUpTo
<1>2. chunks \in Seq(Text) /\ a \in 0..Len(text) /\ Len(text) \in Nat BY DEF SentUpTo, Text
<1>3. PICK n \in Nat : n = Len(chunks) BY <1>2
<1>4. PICK p : p = Piece(text, a, b) OBVIOUS
<1>5. p \in Text
  <2>1. a \in Nat /\ b \in Nat /\ a <= b /\ b <= Len(text) BY <1>2
  <2> QED BY <1>4, <2>1, PieceIs
<1>6. PICK more : more = Append(chunks, p) OBVIOUS
<1>7. more \in Seq(Text) /\ Len(more) = n + 1 /\ more[n + 1] = p /\ \A i \in 1..n : more[i] = chunks[i]
  BY <1>2, <1>3, <1>5, <1>6, AppendProperties
<1>8. /\ ends \in [0..n -> 0..Len(text)] /\ ends[0] = 0 /\ ends[n] = a
      /\ \A i \in 1..n : /\ ends[i - 1] < ends[i] /\ ends[i] - ends[i - 1] <= PartLimit
                         /\ chunks[i] = Piece(text, ends[i - 1], ends[i])
                         /\ EndsWell(text, ends[i - 1], ends[i])
  BY <1>1, <1>3 DEF AreUpTo
<1>9. PICK f : f = [i \in 0..n + 1 |-> IF i = n + 1 THEN b ELSE ends[i]] OBVIOUS
<1>10. f[n + 1] = b /\ \A i \in 0..n : f[i] = ends[i] BY <1>9
<1>11. f \in [0..n + 1 -> 0..Len(text)] BY <1>8, <1>9
<1>12. ASSUME NEW i \in 1..n + 1
       PROVE  /\ f[i - 1] < f[i] /\ f[i] - f[i - 1] <= PartLimit
              /\ more[i] = Piece(text, f[i - 1], f[i])
              /\ EndsWell(text, f[i - 1], f[i])
  <2>1. CASE i = n + 1
    <3>1. i - 1 = n /\ n \in 0..n BY <2>1
    <3>2. f[i] = b /\ f[i - 1] = a /\ more[i] = p BY <1>7, <1>8, <1>10, <2>1, <3>1
    <3> QED BY <1>4, <3>2
  <2>2. CASE i # n + 1
    <3>1. i \in 1..n /\ i \in 0..n /\ i - 1 \in 0..n BY <2>2
    <3>2. f[i] = ends[i] /\ f[i - 1] = ends[i - 1] /\ more[i] = chunks[i] BY <1>7, <1>10, <3>1
    <3> QED BY <1>8, <3>1, <3>2
  <2> QED BY <2>1, <2>2
<1>13. AreUpTo(text, more, f)
  <2>1. f[0] = 0 BY <1>8, <1>10
  <2> QED BY <1>7, <1>11, <1>12, <2>1 DEF AreUpTo
<1> QED BY <1>4, <1>6, <1>7, <1>10, <1>13 DEF SentUpTo

\* Max is the largest of numbers that something bounds: the smallest of their bounds.
\* Where a section is cut.
LEMMA CutIs ==
  ASSUME NEW section
  PROVE  /\ CutOf(section) \in 1..PartLimit
         /\ \/ section[CutOf(section)] = "end"
            \/ CutOf(section) = PartLimit /\ \A m \in 1..PartLimit : section[m] # "end"
<1> DEFINE ends == {n \in 1..PartLimit : section[n] = "end"}
<1>0. PartLimit \in Nat /\ PartLimit >= 1 BY PartsAssumption
<1>1. CASE ends = {}
  <2>1. CutOf(section) = PartLimit BY <1>1 DEF CutOf
  <2> QED BY <1>0, <1>1, <2>1
<1>2. CASE ends # {}
  <2>1. CutOf(section) = Max(ends) BY <1>2 DEF CutOf
  <2>2. ends \in SUBSET Nat /\ \A y \in ends : y <= PartLimit BY <1>0
  <2> HIDE DEF ends
  <2>3. Max(ends) \in ends BY <1>0, <1>2, <2>2, MaxIsLargest
  <2> QED BY <2>1, <2>3 DEF ends
<1> QED BY <1>1, <1>2

\* The loop has gone on to d: what was cut off is sent, and what is left is the section from there.
CutUpTo(text, parts, d, n) ==
  /\ parts = [chunks |-> parts.chunks, section |-> Piece(text, d, n)]
  /\ SentUpTo(text, parts.chunks, d) /\ d < n

\* One turn of the loop.
LEMMA OneCut ==
  ASSUME NEW text \in Text, NEW parts, NEW d \in 0..Len(text), NEW n \in 0..Len(text), CutUpTo(text, parts, d, n)
  PROVE  \/ CutOff(parts) = parts /\ n - d <= PartLimit
         \/ \E e \in 0..Len(text) : d < e /\ CutUpTo(text, CutOff(parts), e, n)
<1>0. Len(text) \in Nat /\ PartLimit \in Nat BY PartsAssumption DEF Text
<1>1. PICK chunks, p : chunks = parts.chunks /\ p = Piece(text, d, n) OBVIOUS
<1>2. parts = [chunks |-> chunks, section |-> p] /\ SentUpTo(text, chunks, d) /\ d < n BY <1>1 DEF CutUpTo
<1>a. d \in Nat /\ n \in Nat /\ d <= n /\ n <= Len(text) BY <1>0, <1>2
<1>3. p \in Text /\ Len(p) = n - d /\ \A i \in 1..n - d : p[i] = text[d + i] BY <1>a, <1>1, PieceIs
<1>4. CASE n - d <= PartLimit
  <2>1. Len(parts.section) <= PartLimit BY <1>2, <1>3, <1>4
  <2> QED BY <1>4, <2>1 DEF CutOff
<1>5. CASE ~(n - d <= PartLimit)
  <2>1. PICK cut : cut = CutOf(p) OBVIOUS
  <2>2. /\ cut \in 1..PartLimit
        /\ p[cut] = "end" \/ (cut = PartLimit /\ \A m \in 1..PartLimit : p[m] # "end")
    BY <2>1, CutIs
  <2>3. PICK e : e = d + cut OBVIOUS
  <2>4. e \in 0..Len(text) /\ d < e /\ e < n /\ e - d = cut /\ cut \in 1..n - d /\ cut \in 0..n - d BY <1>0, <1>2, <1>5, <2>2, <2>3
  <2>5. SubSeq(p, 1, cut) = Piece(text, d, e) /\ SubSeq(p, cut + 1, n - d) = Piece(text, e, n)
    BY <1>a, <1>1, <2>3, <2>4, PieceIsCut
  <2>6. CutOff(parts) = [chunks |-> Append(chunks, Piece(text, d, e)), section |-> Piece(text, e, n)]
    <3>1. ~(Len(parts.section) <= PartLimit) BY <1>2, <1>3, <1>5
    <3>2. CutOff(parts) = [parts EXCEPT !.chunks = Append(@, SubSeq(parts.section, 1, cut)),
                                        !.section = SubSeq(@, cut + 1, Len(@))]
      BY <1>2, <2>1, <3>1 DEF CutOff
    <3>3. CutOff(parts) = [chunks |-> Append(chunks, SubSeq(p, 1, cut)), section |-> SubSeq(p, cut + 1, Len(p))]
      BY <1>2, <3>2
    <3> QED BY <1>3, <2>5, <3>3
  <2>7. EndsWell(text, d, e)
    <3>1. p[cut] = text[e] BY <1>3, <2>3, <2>4
    <3>2. ASSUME cut = PartLimit, \A m \in 1..PartLimit : p[m] # "end" PROVE \A m \in d + 1..e : text[m] # "end"
      <4> TAKE m \in d + 1..e
      <4>1. m - d \in 1..PartLimit /\ m - d \in 1..n - d /\ d + (m - d) = m BY <1>0, <2>4, <3>2
      <4>2. p[m - d] = text[m] BY <1>3, <4>1
      <4> QED BY <3>2, <4>1, <4>2
    <3> QED BY <2>2, <2>4, <3>1, <3>2 DEF EndsWell
  <2>8. SentUpTo(text, Append(chunks, Piece(text, d, e)), e)
    <3>1. d < e /\ e - d <= PartLimit BY <1>0, <2>2, <2>4
    <3> QED BY <1>2, <2>4, <2>7, <3>1, OneMoreSent
  <2>9. CutUpTo(text, CutOff(parts), e, n) BY <2>4, <2>6, <2>8 DEF CutUpTo
  <2> QED BY <2>4, <2>9
<1> QED BY <1>4, <1>5

\* What the loop leaves of a section fits, and the rest was sent.
LEMMA LoopCuts ==
  ASSUME NEW text \in Text, NEW chunks, NEW c \in 0..Len(text), SentUpTo(text, chunks, c),
         NEW n \in 0..Len(text), c < n
  PROVE  \E d \in c..n - 1 : n - d <= PartLimit /\ CutUpTo(text, CutToFit(chunks, Piece(text, c, n)), d, n)
<1>0. Len(text) \in Nat /\ PartLimit \in Nat BY PartsAssumption DEF Text
<1>1. PICK p : p = Piece(text, c, n) OBVIOUS
<1>2. PICK last \in Nat : last = n - c BY <1>0
<1>3. Len(p) = last
  <2>1. c \in Nat /\ n \in Nat /\ c <= n /\ n <= Len(text) BY <1>0
  <2> QED BY <1>1, <1>2, <2>1, PieceIs
<1>4. PICK cut : /\ CutToFit(chunks, p) = cut[last]
                 /\ cut[0] = [chunks |-> chunks, section |-> p]
                 /\ \A k \in 1..last : cut[k] = CutOff(cut[k - 1])
  BY <1>3, LoopOfCuts
<1> DEFINE Done(k) == \E d \in 0..Len(text) : /\ CutUpTo(text, cut[k], d, n) /\ c <= d
                                              /\ n - d <= PartLimit \/ d >= c + k
           Undone == {k \in 0..last : ~Done(k)}
<1>5. Done(0)
  <2>1. cut[0].chunks = chunks BY <1>4
  <2>2. CutUpTo(text, cut[0], c, n) BY <1>1, <1>4, <2>1 DEF CutUpTo
  <2> QED BY <1>0, <2>2
<1>6. ASSUME NEW k \in 1..last, Done(k - 1) PROVE Done(k)
  <2>1. PICK d \in 0..Len(text) : /\ CutUpTo(text, cut[k - 1], d, n) /\ c <= d
                                  /\ n - d <= PartLimit \/ d >= c + (k - 1)
    BY <1>6
  <2>2. cut[k] = CutOff(cut[k - 1]) BY <1>4
  <2>3. CASE CutOff(cut[k - 1]) = cut[k - 1] /\ n - d <= PartLimit BY <2>1, <2>2, <2>3
  <2>4. CASE \E e \in 0..Len(text) : d < e /\ CutUpTo(text, CutOff(cut[k - 1]), e, n)
    <3>1. PICK e \in 0..Len(text) : d < e /\ CutUpTo(text, CutOff(cut[k - 1]), e, n) BY <2>4
    <3>2. CutUpTo(text, cut[k], e, n) BY <2>2, <3>1
    <3>3. c <= e /\ (n - e <= PartLimit \/ e >= c + k) BY <1>0, <2>1, <3>1
    <3> QED BY <3>2, <3>3
  <2> QED BY <2>1, <2>3, <2>4, OneCut
<1>7. Undone = {}
  <2>1. SUFFICES ASSUME Undone # {} PROVE FALSE OBVIOUS
  <2>2. Undone \in SUBSET Nat OBVIOUS
  <2>3. \A k \in Undone : k \in 0..last /\ ~Done(k) OBVIOUS
  <2>4. \A k \in 0..last : k \notin Undone => Done(k) OBVIOUS
  <2> HIDE DEF Undone
  <2>5. PICK k \in Undone : \A j \in Undone : k <= j BY <2>1, <2>2, Smallest
  <2> HIDE DEF Done
  <2>6. k \in 1..last BY <1>5, <2>3, <2>5
  <2>7. k - 1 \in 0..last /\ ~(k <= k - 1) BY <2>6
  <2> QED BY <1>6, <2>3, <2>4, <2>5, <2>6, <2>7
<1>8. Done(last)
  <2>1. last \in 0..last OBVIOUS
  <2> QED BY <1>7, <2>1
<1>9. PICK d \in 0..Len(text) : CutUpTo(text, cut[last], d, n) /\ c <= d /\ (n - d <= PartLimit \/ d >= c + last)
  BY <1>8
<1>10. d < n BY <1>9 DEF CutUpTo
<1>11. n - d <= PartLimit /\ d \in c..n - 1 BY <1>0, <1>2, <1>9, <1>10
<1> QED BY <1>1, <1>4, <1>9, <1>11

-------------------------------------------------------------------------------
\* A section begins with the text or with a mark.
LEMMA BeginningIs ==
  ASSUME NEW text, NEW n \in Nat, n >= 1
  PROVE  /\ Beginning(text, n) \in 1..n
         /\ Beginning(text, n) = 1 \/ text[Beginning(text, n)] = "mark"
<1> DEFINE begins == {1} \union {m \in 1..n : text[m] = "mark"}
<1>1. Beginning(text, n) = Max(begins) BY DEF Beginning
<1>2. begins \in SUBSET Nat /\ begins # {} /\ \A y \in begins : y <= n OBVIOUS
<1> HIDE DEF begins
<1>3. Max(begins) \in begins BY <1>2, MaxIsLargest
<1> QED BY <1>1, <1>3 DEF begins

\* What split_message has after each section: what it had before it, and that section.
LEMMA SectionsInTurn ==
  ASSUME NEW text, NEW last \in Nat, Len(text) = last
  PROVE  /\ PartsUpTo(text)[0] = NoParts
         /\ \A n \in 1..last :
              PartsUpTo(text)[n] = WithSection(PartsUpTo(text)[Beginning(text, n) - 1], SubSeq(text, Beginning(text, n), n))
<1> DEFINE Section(n) == SubSeq(text, Beginning(text, n), n)
           Before(n) == Beginning(text, n) - 1
           Turn(f, m) == [n \in 0..m |-> IF n = 0 THEN NoParts ELSE WithSection(f[Before(n)], Section(n))]
           Missing == {m \in 0..last : ~\E f : f = Turn(f, m)}
<1>1. \A n \in 1..last : Before(n) \in 0..n - 1 BY BeginningIs
<1> HIDE DEF Section, Before
<1>2. \E f : f = Turn(f, last)
  <2>1. SUFFICES ASSUME Missing # {} PROVE FALSE OBVIOUS
  <2>2. Missing \in SUBSET Nat OBVIOUS
  <2> HIDE DEF Missing
  <2>3. PICK m \in Missing : \A j \in Missing : m <= j BY <2>1, <2>2, Smallest
  <2>4. m \in 0..last /\ ~\E f : f = Turn(f, m) BY DEF Missing
  <2>5. m - 1 \in 0..last => \E f : f = Turn(f, m - 1)
    <3>1. ~(m <= m - 1) BY <2>4
    <3>2. m - 1 \notin Missing BY <2>3, <3>1
    <3> QED BY <3>2 DEF Missing
  <2>6. CASE m = 0
    <3>1. PICK f : f = [n \in 0..0 |-> NoParts] OBVIOUS
    <3>2. f = Turn(f, 0) BY <3>1
    <3> QED BY <2>4, <2>6, <3>2
  <2>7. CASE m # 0
    <3>1. m - 1 \in 0..last BY <2>4, <2>7
    <3>2. PICK f : f = Turn(f, m - 1) BY <2>5, <3>1
    <3>3. PICK g : g = [n \in 0..m |-> IF n = m THEN WithSection(f[Before(m)], Section(m)) ELSE f[n]] OBVIOUS
    <3>4. \A n \in 0..m - 1 : g[n] = f[n] BY <2>4, <3>3
    <3>5. \A n \in 0..m : g[n] = IF n = 0 THEN NoParts ELSE WithSection(g[Before(n)], Section(n))
      <4> TAKE n \in 0..m
      <4>0. n # 0 => Before(n) \in 0..n - 1 BY <1>1, <2>4
      <4>1. CASE n = m
        <5>1. Before(n) \in 0..m - 1 BY <2>7, <4>0, <4>1
        <5>2. g[Before(n)] = f[Before(n)] BY <3>4, <5>1
        <5> QED BY <2>7, <3>3, <4>1, <5>2
      <4>2. CASE n # m
        <5>1. n \in 0..m - 1 BY <2>4, <4>2
        <5>2. f[n] = IF n = 0 THEN NoParts ELSE WithSection(f[Before(n)], Section(n)) BY <3>2, <5>1
        <5>3. n # 0 => Before(n) \in 0..m - 1 BY <2>4, <4>0, <5>1
        <5> QED BY <3>4, <5>1, <5>2, <5>3
      <4> QED BY <4>1, <4>2
    <3>6. g = Turn(g, m) BY <3>3, <3>5
    <3> QED BY <2>4, <3>6
  <2> QED BY <2>6, <2>7
<1> DEFINE parts == CHOOSE f : f = Turn(f, last)
<1>3. PartsUpTo(text) = parts BY DEF PartsUpTo, Section, Before
<1>4. parts = Turn(parts, last) BY <1>2
<1> HIDE DEF parts
<1>5. \A n \in 0..last : parts[n] = IF n = 0 THEN NoParts ELSE WithSection(parts[Before(n)], Section(n)) BY <1>4
<1>6. parts[0] = NoParts /\ \A n \in 1..last : parts[n] = WithSection(parts[Before(n)], Section(n)) BY <1>5
<1> QED BY <1>3, <1>6 DEF Section, Before

\* A section that fits is left as it is.
LEMMA ShortStays ==
  ASSUME NEW chunks, NEW section \in Text, Len(section) <= PartLimit
  PROVE  CutToFit(chunks, section) = [chunks |-> chunks, section |-> section]
<1>1. PICK last \in Nat : last = Len(section) BY DEF Text
<1>2. PICK first : first = [chunks |-> chunks, section |-> section] OBVIOUS
<1>3. PICK cut : /\ CutToFit(chunks, section) = cut[last] /\ cut[0] = first
                 /\ \A k \in 1..last : cut[k] = CutOff(cut[k - 1])
  BY <1>1, <1>2, LoopOfCuts
<1>4. CutOff(first) = first BY <1>2 DEF CutOff
<1> DEFINE Others == {k \in 0..last : cut[k] # first}
<1>5. Others = {}
  <2>1. SUFFICES ASSUME Others # {} PROVE FALSE OBVIOUS
  <2>2. Others \in SUBSET Nat OBVIOUS
  <2>3. \A k \in Others : k \in 0..last /\ cut[k] # first OBVIOUS
  <2>4. \A k \in 0..last : k \notin Others => cut[k] = first OBVIOUS
  <2> HIDE DEF Others
  <2>5. PICK k \in Others : \A j \in Others : k <= j BY <2>1, <2>2, Smallest
  <2>6. k \in 1..last BY <1>3, <2>3, <2>5
  <2>7. k - 1 \in 0..last /\ ~(k <= k - 1) BY <2>6
  <2>8. cut[k - 1] = first BY <2>4, <2>5, <2>7
  <2> QED BY <1>3, <1>4, <2>3, <2>6, <2>8
<1>6. last \in 0..last OBVIOUS
<1> QED BY <1>2, <1>3, <1>5, <1>6

\* The text up to n is in what is sent and, behind that, in what waits.
Waits(text, parts, n) ==
  \E c \in 0..n :
    /\ parts = [chunks |-> parts.chunks, current |-> Piece(text, c, n)]
    /\ SentUpTo(text, parts.chunks, c)
    /\ n - c <= PartLimit /\ (n > 0 => c < n)

\* One section more.
LEMMA OneSection ==
  ASSUME NEW text \in Text, NEW n \in 1..Len(text), NEW b \in 1..n, b = 1 \/ text[b] = "mark",
         NEW parts, Waits(text, parts, b - 1)
  PROVE  Waits(text, WithSection(parts, SubSeq(text, b, n)), n)
<1>0. Len(text) \in Nat /\ PartLimit \in Nat BY PartsAssumption DEF Text
<1>1. PICK a \in Nat : a = b - 1 BY <1>0
<1>2. a < n /\ a <= n /\ n <= Len(text) /\ a \in 0..Len(text) /\ n \in 0..Len(text) /\ n \in Nat BY <1>0, <1>1
<1>3. PICK section : section = Piece(text, a, n) OBVIOUS
<1>4. SubSeq(text, b, n) = section
  <2>1. a + 1 = b BY <1>1
  <2> QED BY <1>3, <2>1 DEF Piece
<1>5. section \in Text /\ Len(section) = n - a BY <1>0, <1>2, <1>3, PieceIs
<1>6. PICK c \in 0..a : /\ parts = [chunks |-> parts.chunks, current |-> Piece(text, c, a)]
                        /\ SentUpTo(text, parts.chunks, c)
                        /\ a - c <= PartLimit /\ (a > 0 => c < a)
  BY <1>1 DEF Waits
<1>7. PICK chunks, current : chunks = parts.chunks /\ current = Piece(text, c, a) OBVIOUS
<1>8. parts = [chunks |-> chunks, current |-> current] /\ SentUpTo(text, chunks, c) BY <1>6, <1>7
<1>9. c \in Nat /\ c <= a /\ a <= Len(text) /\ c <= Len(text) BY <1>0, <1>2
<1>10. current \in Text /\ Len(current) = a - c BY <1>2, <1>7, <1>9, PieceIs
<1>11. current # <<>> <=> c # a
  <2>1. current = <<>> => Len(current) = 0 BY DEF Text
  <2>2. Len(current) = 0 => current = <<>> BY <1>10, EmptySeq DEF Text
  <2> QED BY <1>9, <1>10, <2>1, <2>2
<1>12. CASE ~(current # <<>> /\ Len(current) + Len(section) > PartLimit)
  <2>1. PICK fits : fits = CutToFit(chunks, section) OBVIOUS
  <2>2. WithSection(parts, section) = [chunks |-> fits.chunks, current |-> current \o fits.section]
    BY <1>8, <1>12, <2>1 DEF WithSection
  <2>3. CASE c # a
    <3>1. ~(Len(current) + Len(section) > PartLimit) BY <1>11, <1>12, <2>3
    <3>2. n - c <= PartLimit /\ n - a <= PartLimit BY <1>0, <1>2, <1>5, <1>9, <1>10, <3>1
    <3>3. fits = [chunks |-> chunks, section |-> section] BY <1>5, <2>1, <3>2, ShortStays
    <3>4. WithSection(parts, section) = [chunks |-> chunks, current |-> current \o section] BY <2>2, <3>3
    <3>5. current \o section = Piece(text, c, n) BY <1>2, <1>3, <1>7, <1>9, PiecesJoin
    <3>6. c \in 0..n /\ c < n BY <1>2, <1>9
    <3> QED BY <1>4, <1>8, <3>2, <3>4, <3>5, <3>6 DEF Waits
  <2>4. CASE c = a
    <3>1. PICK d \in a..n - 1 : n - d <= PartLimit /\ CutUpTo(text, fits, d, n)
      BY <1>2, <1>3, <1>8, <2>1, <2>4, LoopCuts
    <3>2. PICK rest : rest = Piece(text, d, n) OBVIOUS
    <3>3. fits = [chunks |-> fits.chunks, section |-> rest] /\ SentUpTo(text, fits.chunks, d) BY <3>1, <3>2 DEF CutUpTo
    <3>4. d \in Nat /\ d <= n /\ d < n /\ d \in 0..n BY <1>2, <3>1
    <3>5. rest \in Text BY <1>2, <3>2, <3>4, PieceIs
    <3>6. current \o rest = rest BY <1>11, <2>4, <3>5, ConcatEmptySeq DEF Text
    <3>7. WithSection(parts, section) = [chunks |-> fits.chunks, current |-> rest]
      <4>1. fits.section = rest BY <3>3
      <4> QED BY <2>2, <3>6, <4>1
    <3> QED BY <1>4, <3>1, <3>2, <3>3, <3>4, <3>7 DEF Waits
  <2> QED BY <2>3, <2>4
<1>13. CASE current # <<>> /\ Len(current) + Len(section) > PartLimit
  <2>1. PICK start : start = Append(chunks, current) OBVIOUS
  <2>2. PICK fits : fits = CutToFit(start, section) OBVIOUS
  <2>3. WithSection(parts, section) = [chunks |-> fits.chunks, current |-> fits.section]
    BY <1>8, <1>13, <2>1, <2>2 DEF WithSection
  <2>4. c < a /\ a - c <= PartLimit BY <1>6, <1>9, <1>11, <1>13
  <2>5. EndsWell(text, c, a)
    <3>1. b # 1 BY <1>1, <1>9, <2>4
    <3>2. text[a + 1] = "mark" BY <1>1, <3>1
    <3> QED BY <3>2 DEF EndsWell
  <2>6. SentUpTo(text, start, a) BY <1>2, <1>7, <1>8, <2>1, <2>4, <2>5, OneMoreSent
  <2>7. PICK d \in a..n - 1 : n - d <= PartLimit /\ CutUpTo(text, fits, d, n) BY <1>2, <1>3, <2>2, <2>6, LoopCuts
  <2>8. PICK rest : rest = Piece(text, d, n) OBVIOUS
  <2>9. fits = [chunks |-> fits.chunks, section |-> rest] /\ SentUpTo(text, fits.chunks, d) BY <2>7, <2>8 DEF CutUpTo
  <2>10. WithSection(parts, section) = [chunks |-> fits.chunks, current |-> rest] BY <2>3, <2>9
  <2>11. d \in 0..n /\ d < n BY <1>2, <2>7
  <2> QED BY <1>4, <2>7, <2>8, <2>9, <2>10, <2>11 DEF Waits
<1> QED BY <1>12, <1>13

\* After each section.
LEMMA AllSections ==
  ASSUME NEW text \in Text
  PROVE  \A n \in 0..Len(text) : Waits(text, PartsUpTo(text)[n], n)
<1>1. PICK last \in Nat : last = Len(text) BY DEF Text
<1>2. PICK parts : parts = PartsUpTo(text) OBVIOUS
<1>3. /\ parts[0] = NoParts
      /\ \A n \in 1..last :
           parts[n] = WithSection(parts[Beginning(text, n) - 1], SubSeq(text, Beginning(text, n), n))
  BY <1>1, <1>2, SectionsInTurn
<1> DEFINE Others == {n \in 0..last : ~Waits(text, parts[n], n)}
<1>4. Waits(text, parts[0], 0)
  <2>1. 0 \in Nat /\ 0 <= 0 /\ 0 <= Len(text) /\ PartLimit \in Nat BY <1>1, PartsAssumption
  <2>2. PICK p : p = Piece(text, 0, 0) OBVIOUS
  <2>3. p \in Text /\ Len(p) = 0 - 0 BY <2>1, <2>2, PieceIs
  <2>4. p = <<>> BY <2>3, EmptySeq DEF Text
  <2>5. parts[0] = [chunks |-> <<>>, current |-> p] BY <1>3, <2>4 DEF NoParts
  <2>6. SentUpTo(text, <<>>, 0) BY NoneSent
  <2>7. 0 \in 0..0 /\ 0 - 0 <= PartLimit BY <2>1
  <2> QED BY <2>2, <2>5, <2>6, <2>7 DEF Waits
<1>5. Others = {}
  <2>1. SUFFICES ASSUME Others # {} PROVE FALSE OBVIOUS
  <2>2. Others \in SUBSET Nat OBVIOUS
  <2>3. \A n \in Others : n \in 0..last /\ ~Waits(text, parts[n], n) OBVIOUS
  <2>4. \A n \in 0..last : n \notin Others => Waits(text, parts[n], n) OBVIOUS
  <2> HIDE DEF Others
  <2>5. PICK n \in Others : \A j \in Others : n <= j BY <2>1, <2>2, Smallest
  <2>6. n \in 1..last BY <1>4, <2>3, <2>5
  <2>7. PICK b : b = Beginning(text, n) OBVIOUS
  <2>8. b \in 1..n /\ (b = 1 \/ text[b] = "mark") BY <2>6, <2>7, BeginningIs
  <2>9. b - 1 \in 0..last /\ ~(n <= b - 1) BY <2>6, <2>8
  <2>10. Waits(text, parts[b - 1], b - 1) BY <2>4, <2>5, <2>9
  <2>11. Waits(text, WithSection(parts[b - 1], SubSeq(text, b, n)), n) BY <1>1, <2>6, <2>8, <2>10, OneSection
  <2> QED BY <1>3, <2>3, <2>6, <2>7, <2>11
<1> QED BY <1>1, <1>2, <1>5

\* The messages of a text are the text.
LEMMA MessagesAreSent ==
  ASSUME NEW text \in Text
  PROVE  SentUpTo(text, MessagesOf(text), Len(text))
<1>1. PICK n \in Nat : n = Len(text) BY DEF Text
<1>2. PICK parts : parts = PartsUpTo(text)[n] OBVIOUS
<1>3. n \in 0..Len(text) BY <1>1
<1>4. PICK c \in 0..n : /\ parts = [chunks |-> parts.chunks, current |-> Piece(text, c, n)]
                        /\ SentUpTo(text, parts.chunks, c)
                        /\ n - c <= PartLimit /\ (n > 0 => c < n)
  BY <1>2, <1>3, AllSections DEF Waits
<1>5. PICK current : current = Piece(text, c, n) OBVIOUS
<1>6. parts.current = current BY <1>4, <1>5
<1>7. c \in Nat /\ c <= n /\ n <= Len(text) BY <1>1, <1>4
<1>8. current \in Text /\ Len(current) = n - c BY <1>5, <1>7, PieceIs
<1>9. MessagesOf(text) = IF current = <<>> THEN parts.chunks ELSE Append(parts.chunks, current)
  BY <1>1, <1>2, <1>6 DEF MessagesOf
<1>10. CASE c = n
  <2>1. current = <<>> BY <1>7, <1>8, <1>10, EmptySeq DEF Text
  <2> QED BY <1>1, <1>4, <1>9, <1>10, <2>1
<1>11. CASE c # n
  <2>1. c < n BY <1>7, <1>11
  <2>2. current # <<>>
    <3>1. Len(current) # 0 BY <1>7, <1>8, <2>1
    <3> QED BY <3>1 DEF Text
  <2>3. EndsWell(text, c, n) BY <1>1 DEF EndsWell
  <2>4. SentUpTo(text, Append(parts.chunks, current), n) BY <1>3, <1>4, <1>5, <2>1, <2>3, OneMoreSent
  <2> QED BY <1>1, <1>9, <2>2, <2>4
<1> QED BY <1>10, <1>11

\* ... to the character, in order and cut where it may be.
LEMMA SentIsKept ==
  ASSUME NEW text \in Text, NEW parts, SentUpTo(text, parts, Len(text))
  PROVE  /\ FlattenSeq(parts) = text
         /\ \A n \in DOMAIN parts : Len(parts[n]) \in 1..PartLimit
         /\ \A n \in 1..(Len(parts) - 1) :
              \/ Last(parts[n]) = "end" \/ Head(parts[n + 1]) = "mark"
              \/ Len(parts[n]) = PartLimit /\ "end" \notin ToSet(parts[n])
<1>0. Len(text) \in Nat /\ PartLimit \in Nat BY PartsAssumption DEF Text
<1>1. PICK ends : AreUpTo(text, parts, ends) /\ ends[Len(parts)] = Len(text) BY DEF SentUpTo
<1>2. parts \in Seq(Text) BY DEF SentUpTo
<1>3. PICK last \in Nat : last = Len(parts) /\ DOMAIN parts = 1..last BY <1>2
<1>4. /\ ends \in [0..last -> 0..Len(text)] /\ ends[0] = 0 /\ ends[last] = Len(text)
      /\ \A i \in 1..last : /\ ends[i - 1] < ends[i] /\ ends[i] - ends[i - 1] <= PartLimit
                            /\ parts[i] = Piece(text, ends[i - 1], ends[i])
                            /\ EndsWell(text, ends[i - 1], ends[i])
  BY <1>1, <1>3 DEF AreUpTo
<1>5. FlattenSeq(parts) = text
  <2>1. PICK g : g = [i \in 0..last |-> Piece(text, 0, ends[i])] OBVIOUS
  <2>2. \A i \in 0..last : g[i] = Piece(text, 0, ends[i]) BY <2>1
  <2>3. g[0] = <<>>
    <3>1. 0 \in Nat /\ 0 <= 0 /\ 0 <= Len(text) BY <1>0
    <3>2. PICK p : p = Piece(text, 0, 0) OBVIOUS
    <3>3. p \in Text /\ Len(p) = 0 - 0 BY <3>1, <3>2, PieceIs
    <3>4. p = <<>> BY <3>3, EmptySeq DEF Text
    <3>5. 0 \in 0..last OBVIOUS
    <3> QED BY <1>4, <2>2, <3>2, <3>4, <3>5
  <2>4. ASSUME NEW i \in 1..last PROVE g[i] = g[i - 1] \o parts[i]
    <3>1. i \in 0..last /\ i - 1 \in 0..last OBVIOUS
    <3>2. PICK a \in Nat, b \in Nat : a = ends[i - 1] /\ b = ends[i] BY <1>0, <1>4, <3>1
    <3>3. 0 \in Nat /\ 0 <= a /\ a <= b /\ b <= Len(text) BY <1>0, <1>4, <3>1, <3>2
    <3>4. Piece(text, 0, a) \o Piece(text, a, b) = Piece(text, 0, b) BY <3>3, PiecesJoin
    <3> QED BY <1>4, <2>2, <3>1, <3>2, <3>4
  <2>5. FlattenSeq(parts) = g[last] BY <1>2, <1>3, <2>3, <2>4, FlatIs
  <2>6. g[last] = Piece(text, 0, Len(text)) BY <1>4, <2>2
  <2>7. Piece(text, 0, Len(text)) = text
    <3>1. SubSeq(text, 1, Len(text)) = text BY SubSeqFull DEF Text
    <3>2. 0 + 1 = 1 OBVIOUS
    <3> QED BY <3>1, <3>2 DEF Piece
  <2> QED BY <2>5, <2>6, <2>7
<1>6. ASSUME NEW i \in 1..last
      PROVE  \E a, b \in Nat : /\ a = ends[i - 1] /\ b = ends[i]
                               /\ a < b /\ b - a <= PartLimit /\ b <= Len(text) /\ EndsWell(text, a, b)
                               /\ Len(parts[i]) = b - a /\ \A j \in 1..b - a : parts[i][j] = text[a + j]
  <2>1. i \in 0..last /\ i - 1 \in 0..last OBVIOUS
  <2>2. PICK a \in Nat, b \in Nat : a = ends[i - 1] /\ b = ends[i] BY <1>0, <1>4, <2>1
  <2>3. a < b /\ a <= b /\ b <= Len(text) /\ b - a <= PartLimit /\ EndsWell(text, a, b) /\ parts[i] = Piece(text, a, b)
    BY <1>0, <1>4, <2>1, <2>2
  <2>4. Len(parts[i]) = b - a /\ \A j \in 1..b - a : parts[i][j] = text[a + j]
    <3>1. PICK p : p = Piece(text, a, b) OBVIOUS
    <3>2. a \in Nat /\ b \in Nat /\ a <= b /\ b <= Len(text) BY <2>2, <2>3
    <3>3. Len(p) = b - a /\ \A j \in 1..b - a : p[j] = text[a + j] BY <3>1, <3>2, PieceIs
    <3> QED BY <2>3, <3>1, <3>3
  <2> QED BY <2>2, <2>3, <2>4
<1>7. \A n \in DOMAIN parts : Len(parts[n]) \in 1..PartLimit
  <2> TAKE n \in DOMAIN parts
  <2>1. PICK a, b \in Nat : a < b /\ b - a <= PartLimit /\ Len(parts[n]) = b - a BY <1>3, <1>6
  <2> QED BY <1>0, <2>1
<1>8. ASSUME NEW n \in 1..(Len(parts) - 1)
      PROVE  \/ Last(parts[n]) = "end" \/ Head(parts[n + 1]) = "mark"
             \/ Len(parts[n]) = PartLimit /\ "end" \notin ToSet(parts[n])
  <2>1. n \in 1..last /\ n + 1 \in 1..last /\ n + 1 - 1 = n BY <1>3
  <2>2. PICK a, b \in Nat : /\ a = ends[n - 1] /\ b = ends[n]
                            /\ a < b /\ b - a <= PartLimit /\ b <= Len(text) /\ EndsWell(text, a, b)
                            /\ Len(parts[n]) = b - a /\ \A j \in 1..b - a : parts[n][j] = text[a + j]
    BY <1>6, <2>1
  <2>3. PICK p : p = parts[n + 1] OBVIOUS
  <2>4. b < Len(text) /\ Head(p) = text[b + 1]
    <3>0. PICK k \in 1..last : k = n + 1 BY <2>1
    <3>1. PICK d, e \in Nat : /\ d = ends[k - 1] /\ e = ends[k] /\ d < e /\ e <= Len(text)
                              /\ Len(parts[k]) = e - d /\ \A j \in 1..e - d : parts[k][j] = text[d + j]
      BY <1>6
    <3>2. d = b
      <4>1. k - 1 = n BY <2>1, <3>0
      <4> QED BY <2>2, <3>1, <4>1
    <3>3. Len(p) = e - b /\ \A j \in 1..e - b : p[j] = text[b + j] BY <2>3, <3>0, <3>1, <3>2
    <3>4. b < e /\ 1 \in 1..e - b BY <3>1, <3>2
    <3>5. p[1] = text[b + 1] BY <3>3, <3>4
    <3>6. Head(p) = p[1]
      <4>1. p \in Text BY <1>2, <1>3, <2>1, <2>3
      <4>2. p # <<>>
        <5>1. Len(p) # 0 BY <3>3, <3>4
        <5> QED BY <5>1
      <4> QED BY <4>1, <4>2 DEF Text
    <3> QED BY <1>0, <3>1, <3>4, <3>5, <3>6
  <2>5. CASE text[b] = "end"
    <3>1. PICK l \in Nat : l = Len(parts[n]) /\ l = b - a /\ a + l = b /\ l \in 1..b - a BY <2>2
    <3>2. parts[n][l] = text[a + l] BY <2>2, <3>1
    <3>3. Last(parts[n]) = text[b] BY <3>1, <3>2 DEF Last
    <3> QED BY <2>5, <3>3
  <2>6. CASE text[b + 1] = "mark" BY <2>3, <2>4, <2>6
  <2>7. CASE b - a = PartLimit /\ \A m \in a + 1..b : text[m] # "end"
    <3>1. SUFFICES ASSUME "end" \in ToSet(parts[n]) PROVE FALSE BY <2>2, <2>7
    <3>2. DOMAIN parts[n] = 1..b - a
      <4>1. parts[n] \in Text BY <1>2, <1>3, <2>1
      <4> QED BY <2>2, <4>1 DEF Text
    <3>3. PICK j \in 1..b - a : parts[n][j] = "end" BY <3>1, <3>2 DEF ToSet
    <3>4. a + j \in a + 1..b BY <2>2
    <3> QED BY <2>2, <2>7, <3>3, <3>4
  <2> QED BY <2>2, <2>4, <2>5, <2>6, <2>7 DEF EndsWell
<1> QED BY <1>5, <1>7, <1>8

\* What is called is a report.
PartsCalled == case = NoCase \/ \E text \in Texts : case = [engine |-> "parts", in |-> text]

\* A message that is split is in the chat to the character and in order, in parts that Bale
\* takes and that end where a reader expects it, for any text and any limit (bale_transport.py,
\* split_message).
THEOREM EveryMessageIsKept == PartsSpec => []MessageIsKept
<1>1. CasesInit => PartsCalled BY DEF CasesInit, PartsCalled
<1>2. PartsCalled /\ [TextCalled]_case => PartsCalled'
  BY DEF PartsCalled, TextCalled, Given
<1>3. PartsCalled => MessageIsKept
  <2> SUFFICES ASSUME PartsCalled PROVE MessageIsKept OBVIOUS
  <2>1. CASE case = NoCase
    <3>1. case.engine # "parts" BY <2>1 DEF NoCase
    <3> QED BY <3>1 DEF MessageIsKept, PartsAreTheText, CutsAtLines
  <2>2. ASSUME NEW text \in Texts, case = [engine |-> "parts", in |-> text] PROVE MessageIsKept
    <3>1. case.in = text BY <2>2
    <3>2. text \in Text BY PartsAssumption DEF Text
    <3>3. PICK parts : parts = MessagesOf(text) OBVIOUS
    <3>4. SentUpTo(text, parts, Len(text)) BY <3>2, <3>3, MessagesAreSent
    <3>5. PartsAreTheText BY <3>1, <3>2, <3>3, <3>4, SentIsKept DEF PartsAreTheText
    <3>6. CutsAtLines BY <3>1, <3>2, <3>3, <3>4, SentIsKept DEF CutsAtLines
    <3> QED BY <3>5, <3>6 DEF MessageIsKept
  <2> QED BY <2>1, <2>2 DEF PartsCalled
<1> QED BY <1>1, <1>2, <1>3, PTL DEF PartsSpec
=================================================================================
