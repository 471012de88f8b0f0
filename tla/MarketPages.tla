------------------------------- MODULE MarketPages -------------------------------
(***************************************************************************)
(* The two ranked lists of shares that the Bale listener shows page by     *)
(* page: every share of the market (bale_market_share_cards.py) and, of    *)
(* that list, the shares that have options (bale_base_share_option_cards   *)
(* .py).  Each is kept in a file.  On every page the prices of the live    *)
(* feed are laid over the list; they are kept in a file of their own for   *)
(* twelve hours (live_market_overlay.py).  A press is answered to its end  *)
(* before the next one is read.  Buttons stay in the chat, so that every   *)
(* page that was ever offered can be pressed.                              *)
(* A definition named Slip... is a mistake that a change of the code could *)
(* make in the definition after it; each breaks a property stated below.   *)
(***************************************************************************)
EXTENDS Naturals, FiniteSets, FiniteSetsExt, SequencesExt

CONSTANTS
  SessionDays,  \* the days the market is open on; day 0 is one before the model begins
  PressTimes,   \* the minutes from midnight of day 0 at which something may happen
  Rankings,     \* the orders of shares a builder may come to
  Optioned,     \* the sets of shares a snapshot of the options may name
  MaxPresses    \* bound: presses that are answered

ASSUME PagesAssumption ==
  /\ SessionDays \subseteq Nat /\ PressTimes \subseteq {t \in Nat : t >= 1440}
  /\ PressTimes # {} /\ IsFiniteSet(PressTimes) /\ MaxPresses \in Nat
  /\ \A order \in Rankings : Len(order) \in Nat /\ DOMAIN order = 1..Len(order)

VARIABLES
  clock,     \* the minute
  landed,    \* the last day whose history TSETMC has published
  market, shares,  \* the files of the two lists
  overlay,   \* when the live prices on file were fetched
  screen,    \* the last page shown of each list
  offered,   \* the pages of each list there is a button for
  walk,      \* history: a walk through the list of shares from its opening on
  presses

pagesVars == <<clock, landed, market, shares, overlay, screen, offered, walk, presses>>

Lists == {"market", "shares"}
CardsOnPage == 2                  \* ten in the code
MaxOverlayAge == 12 * 60
MaxReportAge == 6 * 60

DayAt(t) == t \div 1440
MinuteAt(t) == t % 1440
LastSession(d) == Max({s \in SessionDays \union {0} : s <= d})

NoList == [made |-> 0, history |-> 0, rows |-> <<>>]
NoPage == [asked |-> 0, page |-> 0, last |-> 0, at |-> 0, live |-> 0, made |-> 0, history |-> 0]
NoWalk == [on |-> FALSE, all |-> <<>>, read |-> <<>>]

PagesInit ==
  /\ clock = Min(PressTimes)
  /\ landed = 0
  /\ market = NoList /\ shares = NoList /\ overlay = 0
  /\ screen = [l \in Lists |-> NoPage]
  /\ offered = [l \in Lists |-> {0}]
  /\ walk = NoWalk /\ presses = 0

TimeRuns ==
  /\ \E t \in PressTimes : t > clock
  /\ clock' = Min({t \in PressTimes : t > clock})
  /\ UNCHANGED <<landed, market, shares, overlay, screen, offered, walk, presses>>

\* Some time after the close TSETMC publishes the history of the day.
HistoryLands ==
  /\ landed' = LastSession(IF MinuteAt(clock) > 750 THEN DayAt(clock) ELSE DayAt(clock) - 1)
  /\ landed' # landed
  /\ UNCHANGED <<clock, market, shares, overlay, screen, offered, walk, presses>>

-------------------------------------------------------------------------------
\* From 13:30 on the history of the day itself is awaited.
LastAwaited == LastSession(IF MinuteAt(clock) >= 810 THEN DayAt(clock) ELSE DayAt(clock) - 1)

SlipAgeOnly(r) == clock - r.made <= MaxReportAge

ReportIsFresh(r) ==
  /\ r.history >= LastAwaited
  /\ clock - r.made <= MaxReportAge

BuiltMarket(order) ==
  [made |-> clock, history |-> landed,
   rows |-> [n \in DOMAIN order |-> [share |-> order[n], rank |-> n]]]

MarketIsFresh == market # NoList /\ ReportIsFresh(market)

\* ensure_report: the file when it is fresh, else what a builder makes of the market now.
EnsureMarket ==
  IF MarketIsFresh THEN UNCHANGED market
    ELSE \E order \in Rankings : market' = BuiltMarket(order)

\* A builder fails, or is killed after fifteen minutes, at worst while it writes.
EnsureFails ==
  /\ ~MarketIsFresh
  /\ market' \in {market, NoList}

-------------------------------------------------------------------------------
(***************************************************************************)
(* fetch_live_overlay: nothing before nine or on a day off; else the       *)
(* prices on file if they are not too old; else those of the feed, which   *)
(* may not answer.  live is when they were fetched, 0 for none.            *)
(***************************************************************************)
Overlaid(live) ==
  IF DayAt(clock) \notin SessionDays \/ MinuteAt(clock) < 540 THEN live = 0 /\ UNCHANGED overlay
  ELSE IF overlay # 0 /\ clock - overlay <= MaxOverlayAge THEN live = overlay /\ UNCHANGED overlay
  ELSE \/ live = clock /\ overlay' \in {overlay, clock}   \* the file may not be written
       \/ live = 0 /\ UNCHANGED overlay

PageCount(rows) == Max({1, (Len(rows) + CardsOnPage - 1) \div CardsOnPage})

CardsOf(rows, page) == SubSeq(rows, page * CardsOnPage + 1, Min({Len(rows), (page + 1) * CardsOnPage}))

\* render_ranked_rows: the page, or the last one if there is no such page any more.
Page(report, asked, live) ==
  [asked |-> asked, page |-> Min({asked, PageCount(report.rows) - 1}), last |-> PageCount(report.rows) - 1,
   at |-> clock, live |-> live, made |-> report.made, history |-> report.history]

ShowPage(list, report, asked) ==
  \E live \in {0, clock, overlay} :
    LET shown == Page(report, asked, live) IN
    /\ Overlaid(live)
    /\ screen' = [screen EXCEPT ![list] = shown]
    /\ offered' = [offered EXCEPT ![list] =
                     @ \union {p \in {shown.page - 1, shown.page + 1} : p \in 0..shown.last}]
    /\ presses < MaxPresses /\ presses' = presses + 1
    /\ UNCHANGED <<clock, landed>>

\* The pages of the market: the first one sees to it that the list is fresh.
PressMarket(p) ==
  /\ IF p # 0 /\ market # NoList THEN UNCHANGED market ELSE EnsureMarket
  /\ ShowPage("market", market', p)
  /\ UNCHANGED <<shares, walk>>

PressMarketFails ==
  /\ EnsureFails
  /\ presses < MaxPresses /\ presses' = presses + 1
  /\ UNCHANGED <<clock, landed, shares, overlay, screen, offered, walk>>

-------------------------------------------------------------------------------
\* filter_market_rows: the shares keep their order and their rank in the market.
OptionedRows(m, named) ==
  LET kept == {n \in DOMAIN m.rows : m.rows[n].share \in named}
      Nth(k) == CHOOSE n \in kept : Cardinality({i \in kept : i <= n}) = k
  IN [k \in 1..Cardinality(kept) |-> m.rows[Nth(k)]]

\* _build_report: the file is replaced by a rename.
BuildShares ==
  /\ EnsureMarket
  /\ \E named \in Optioned :
       shares' = [market' EXCEPT !.rows = OptionedRows(market', named)]

\* The button of the menu makes the list anew.
OpenShares ==
  /\ BuildShares
  /\ ShowPage("shares", shares', 0)
  /\ walk' = [on |-> TRUE, all |-> shares'.rows, read |-> CardsOf(shares'.rows, 0)]

\* The market's list could not be made, or the snapshot of the options could not.
OpenSharesFails ==
  /\ EnsureFails \/ EnsureMarket
  /\ presses < MaxPresses /\ presses' = presses + 1
  /\ UNCHANGED <<clock, landed, shares, overlay, screen, offered, walk>>

\* The reader goes on to the next page, or leaves the walk.
Walked(p) ==
  walk' = IF walk.on /\ p = screen["shares"].page + 1
            THEN [walk EXCEPT !.read = @ \o CardsOf(shares'.rows, p)]
            ELSE NoWalk

SlipRefreshesPages(p) == BuildShares /\ ShowPage("shares", shares', p) /\ Walked(p)

\* A page is of the file as it stands; the file is made when there is none.
PressShares(p) ==
  /\ IF shares # NoList THEN UNCHANGED <<market, shares>> ELSE BuildShares
  /\ ShowPage("shares", shares', p)
  /\ Walked(p)

PagesNext ==
  \/ TimeRuns \/ HistoryLands
  \/ \E p \in offered["market"] : PressMarket(p)
  \/ PressMarketFails
  \/ OpenShares \/ OpenSharesFails
  \/ \E p \in offered["shares"] : PressShares(p)

PagesSpec == PagesInit /\ [][PagesNext]_pagesVars

-------------------------------------------------------------------------------
\* Also: no page is shown that its list does not have, and no report is of the future.
PagesTypeOK ==
  /\ clock \in PressTimes /\ landed \in Nat
  /\ \A report \in {market, shares} : report.made <= clock /\ report.history <= landed
  /\ overlay <= clock
  /\ \A l \in Lists : screen[l].page \in 0..screen[l].last /\ screen[l].live <= screen[l].at
  /\ offered \in [Lists -> SUBSET Nat]
  /\ walk.on \in BOOLEAN /\ presses \in 0..MaxPresses

\* "Freeze the filtered list so next-page clicks cannot switch source data"
\* (bale_base_share_option_cards.py): whoever opens the list and presses next until there is
\* no next page has read every share of the list that was opened, once and in order, although
\* the market's list was rebuilt or lost in between.
WalkIsWhole ==
  walk.on /\ screen["shares"].page = screen["shares"].last => walk.read = walk.all

\* The first page of the market lacks no day that TSETMC has published and that the code
\* waits for: the last session closed by 13:30.
MarketIsCurrent ==
  [][screen'["market"] # screen["market"] /\ screen'["market"].asked = 0 =>
       screen'["market"].history >= Min({landed, LastAwaited})]_pagesVars

\* "This module overlays ONLY today's live quote fields" (live_market_overlay.py): the prices
\* a page calls today's were fetched on that day.
LiveIsToday == \A l \in Lists : screen[l].live # 0 => DayAt(screen[l].live) = DayAt(screen[l].at)

\* Every page is one of its list, and the pages of a walk are those of one list.
PagesAreWhole == PagesTypeOK /\ WalkIsWhole
===============================================================================
