------------------------------ MODULE SpineReads ------------------------------
(***************************************************************************)
(* Who reads the spine's tables: the console's alert list and the agent's  *)
(* recent alerts query the status index twice, once per status, while the  *)
(* worker moves alerts from one status to the other; the slo-reporter      *)
(* pages through the triaged alerts of a day.  The index follows the table *)
(* entry by entry.  A query answers one page, oldest first.                *)
(***************************************************************************)
EXTENDS Integers, FiniteSets

CONSTANTS
    Reads,          \* alerts, numbered
    QueryPage,      \* alerts on one page of a query (1 MB)
    ListLimit,      \* the limit of a list
    ReadLimits      \* bounds on the moment, lists and reports, and the moments at
                    \* which alerts come, one of which a behaviour keeps

ASSUME ReadBounds ==
    /\ Reads \subseteq Nat /\ IsFiniteSet(Reads)
    /\ QueryPage \in Nat /\ ListLimit \in Nat

NotReceived == -1
\* Mutant of _OPEN_STATUSES: the worker's order backwards.
TriagedFirst == <<"triaged", "queued">>
_OPEN_STATUSES == <<"queued", "triaged">>

VARIABLES
    moment,     \* three to a day: midnight itself, the rest of its second, the rest of the day
    received,   \* alert -> the moment in its received_at
    status,     \* alert -> status in the table
    judged,     \* alerts that have a verdict
    index,      \* alert -> the statuses under which the index has it
    list,       \* a list: its step, floor, what its queries returned
    shown,      \* history: alerts the index has held ever since the list began
    report,     \* a report: its step, day, position, what it returned
    counted,    \* history: alert -> days whose report counted it
    reads       \* what is left of the bounds

readVars == <<moment, received, status, judged, index, list, shown, report, counted, reads>>
spineVars == <<received, status, judged, index>>

NoList == [pc |-> "idle", floor |-> 0, got |-> {}, whole |-> TRUE]
NoReport == [pc |-> "idle", day |-> 0, after |-> 0, got |-> {}, due |-> {}]

SpineReadsInit ==
    /\ moment = 0
    /\ received = [a \in Reads |-> NotReceived]
    /\ status = [a \in Reads |-> "absent"]
    /\ judged = {}
    /\ index = [a \in Reads |-> {}]
    /\ list = NoList /\ shown = {}
    /\ report = NoReport /\ counted = [a \in Reads |-> {}]
    /\ reads \in ReadLimits

----------------------------------------------------------------------------
(* received_at is text.  Midnight itself is written without a fraction and *)
(* ends in Z, which sorts after every fraction of the same second.         *)

Midnight(day) == 3 * day
Text(m) == CASE m % 3 = 0 -> m + 1 [] m % 3 = 1 -> m - 1 [] m % 3 = 2 -> m

\* The order of the index: by text, equal texts in any fixed order.
Position(a) == 10 * Text(received[a]) + a
Newer(a, b) == Position(a) > Position(b)

\* One page of a query of the index: the oldest of S.
AnswerOf(S) == {a \in S : Cardinality({b \in S : Newer(a, b)}) < QueryPage}

----------------------------------------------------------------------------
(* The spine, as far as its readers can tell. *)

Later(m) ==
    /\ m = moment + 1 /\ m <= reads.moments
    /\ moment' = m
    /\ UNCHANGED <<spineVars, list, shown, report, counted, reads>>

\* put_new stores an alert as queued.
Stores(a) ==
    /\ status[a] = "absent" /\ moment \in reads.coming
    /\ received' = [received EXCEPT ![a] = moment]
    /\ status' = [status EXCEPT ![a] = "queued"]
    /\ UNCHANGED <<moment, judged, index, list, shown, report, counted, reads>>

\* The worker puts the verdict and then marks the alert.
Judges(a) ==
    /\ status[a] = "queued" /\ a \notin judged
    /\ judged' = judged \cup {a}
    /\ UNCHANGED <<moment, received, status, index, list, shown, report, counted, reads>>

Marks(a) ==
    /\ status[a] = "queued" /\ a \in judged
    /\ status' = [status EXCEPT ![a] = "triaged"]
    /\ UNCHANGED <<moment, received, judged, index, list, shown, report, counted, reads>>

\* The index gets the entry of the present status, or loses one of a former.
Follows(a) ==
    /\ \/ status[a] # "absent" /\ index' = [index EXCEPT ![a] = @ \cup {status[a]}]
       \/ index' = [index EXCEPT ![a] = @ \cap {status[a]}]
    /\ shown' = {b \in shown : index'[b] # {}}
    /\ UNCHANGED <<moment, received, status, judged, list, report, counted, reads>>

----------------------------------------------------------------------------
(* list_alerts and recent_alerts; the latter has a floor. *)

ListStart(floor) ==
    /\ list.pc = "idle" /\ reads.lists > 0
    /\ reads' = [reads EXCEPT !.lists = @ - 1]
    /\ list' = [NoList EXCEPT !.pc = _OPEN_STATUSES[1], !.floor = floor]
    /\ shown' = {a \in Reads : index[a] # {} /\ Text(received[a]) >= floor}
    /\ UNCHANGED <<moment, spineVars, report, counted>>

QueryStatus(s, then) ==
    LET S == {a \in Reads : s \in index[a] /\ Text(received[a]) >= list.floor}
    IN  /\ list.pc = s
        /\ list' = [list EXCEPT !.pc = then,
                                !.got = @ \cup {<<a, s>> : a \in AnswerOf(S)},
                                !.whole = @ /\ AnswerOf(S) = S]
        /\ UNCHANGED <<moment, spineVars, shown, report, counted, reads>>

Query ==
    \/ QueryStatus(_OPEN_STATUSES[1], _OPEN_STATUSES[2])
    \/ QueryStatus(_OPEN_STATUSES[2], "answer")

\* Newest first, equal times in the order they came; cut to the limit.
Before(e, f) ==
    \/ Text(received[e[1]]) > Text(received[f[1]])
    \/ Text(received[e[1]]) = Text(received[f[1]]) /\ e[2] = "queued" /\ f[2] = "triaged"
    \/ Text(received[e[1]]) = Text(received[f[1]]) /\ e[2] = f[2] /\ Newer(f[1], e[1])
Listed == {e[1] : e \in {e \in list.got :
                            Cardinality({f \in list.got : Before(f, e)}) < ListLimit}}

\* The answer is given, with the verdicts there are by now.
ListEnd ==
    /\ list.pc = "answer"
    /\ list' = NoList /\ shown' = {}
    /\ UNCHANGED <<moment, spineVars, report, counted, reads>>

----------------------------------------------------------------------------
(* The slo-reporter, at a quarter past midnight. *)

Day(m) == m \div 3

\* _yesterday_bounds; both bounds are midnights, and BETWEEN includes both.
InDay(a, day) ==
    /\ received[a] # NotReceived
    /\ Text(Midnight(day)) <= Text(received[a])
    /\ Text(received[a]) <= Text(Midnight(day + 1))

Triaged(day) == {a \in Reads : "triaged" \in index[a] /\ InDay(a, day)}

\* The alerts of a UTC day, which a report is about.
OfDay(a, day) == received[a] # NotReceived /\ Day(received[a]) = day

\* The fractions of a day's first second.
Fractions(day) == Midnight(day) + 1

ReportStart ==
    /\ report.pc = "idle" /\ reads.reports > 0
    /\ moment % 3 = 2 /\ Day(moment) > 0
    /\ reads' = [reads EXCEPT !.reports = @ - 1]
    /\ LET day == Day(moment) - 1
       IN  report' = [NoReport EXCEPT !.pc = "query", !.day = day,
                        !.due = {a \in Reads : OfDay(a, day) /\ "triaged" \in index[a]}]
    /\ UNCHANGED <<moment, spineVars, list, shown, counted>>

\* Mutant of ReportPage: one page is taken for the day.
ReportOnePage ==
    LET more == {a \in Triaged(report.day) : Position(a) > report.after}
    IN  /\ report.pc = "query"
        /\ report' = [report EXCEPT !.got = AnswerOf(more), !.pc = "build"]
        /\ UNCHANGED <<moment, spineVars, list, shown, counted, reads>>

ReportPage ==
    LET more == {a \in Triaged(report.day) : Position(a) > report.after}
        page == AnswerOf(more)
    IN  /\ report.pc = "query"
        /\ report' = [report EXCEPT
             !.got = @ \cup page,
             !.after = IF page = {} THEN @ ELSE CHOOSE p \in {Position(a) : a \in page} :
                                                   \A a \in page : Position(a) <= p,
             !.pc = IF more = page THEN "build" ELSE "query"]
        /\ UNCHANGED <<moment, spineVars, list, shown, counted, reads>>

\* build_report leaves out an alert without verdict; what it computes of the
\* others is left out here.
Considered == report.got \cap judged

ReportBuilt ==
    /\ report.pc = "build"
    /\ counted' = [a \in Reads |-> IF a \in Considered THEN counted[a] \cup {report.day}
                                                       ELSE counted[a]]
    /\ report' = [report EXCEPT !.pc = "done", !.got = Considered]
    /\ UNCHANGED <<moment, spineVars, list, shown, reads>>

\* The metrics are published.  A report that fails starts anew, or not at all.
ReportEnds ==
    /\ report.pc # "idle"
    /\ report' = NoReport
    /\ UNCHANGED <<moment, spineVars, list, shown, counted, reads>>

SpineReadsNext ==
    \/ \E m \in 1 .. reads.moments : Later(m)
    \/ \E a \in Reads : Stores(a) \/ Judges(a) \/ Marks(a) \/ Follows(a)
    \/ \E floor \in {0, 2} : ListStart(floor)
    \/ Query \/ ListEnd
    \/ ReportStart \/ ReportPage \/ ReportBuilt \/ ReportEnds

SpineReadsSpec == SpineReadsInit /\ [][SpineReadsNext]_readVars

\* Every variable has its type; the index never has an alert before the table.
SpineReadsTypeOK ==
    /\ moment \in Nat
    /\ \A a \in Reads :
        /\ received[a] \in 0 .. moment \/ received[a] = NotReceived
        /\ status[a] \in {"absent", "queued", "triaged"} /\ index[a] \subseteq {"queued", "triaged"}
        /\ index[a] # {} => received[a] # NotReceived
    /\ report.got \subseteq Reads /\ shown \subseteq Reads

\* A list whose queries each fit a page, and together the limit of the list, shows
\* every alert that the index has held since it began, though the worker moves
\* alerts between its two queries: queued is asked first (store.py 48-61,
\* stores.py 192-204).
ListMissesNothing ==
    (list.pc = "answer" /\ list.whole /\ Cardinality(list.got) <= ListLimit) => shown \subseteq Listed

\* A report counts every alert of its UTC day that the index had as triaged when
\* it began, however many pages that takes and whatever is triaged meanwhile, but
\* for those of the fractions of the day's first second, and no alert of another
\* day but for those of the first second of the next; over all reports, retried
\* ones included, an alert counts for one day, and for two only at midnight itself
\* (slo_reporter/handler.py 45-82).  So a report is of a day that begins and ends
\* one second late, not of "exactly yesterday" as handler.py 13-16 has it.
ReportsAddUp ==
    /\ report.pc = "done" =>
          /\ \A a \in report.due : a \in report.got \/ received[a] = Fractions(report.day)
          /\ \A a \in report.got :
                \/ OfDay(a, report.day) /\ received[a] # Fractions(report.day)
                \/ received[a] \in {Midnight(report.day + 1), Fractions(report.day + 1)}
    /\ \A a \in Reads :
          Cardinality(counted[a]) <= IF received[a] % 3 = 0 THEN 2 ELSE 1

\* store.py 7-8: the index serves to list open alerts most recent first.
ListsTheMostRecent ==
    list.pc = "answer" => \A a \in shown \ Listed, b \in Listed : Newer(b, a)
===============================================================================
