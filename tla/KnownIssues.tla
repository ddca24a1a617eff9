----------------------------- MODULE KnownIssues -----------------------------
(***************************************************************************)
(* The known-issues table of one service and everybody who writes it: the  *)
(* console's teach and delete, the triage agent's remember_issue, bankops' *)
(* import of a backup and the weekly export that made the backup.  A teach *)
(* is a query, a delete for each older copy and a put, each a call of its  *)
(* own; a Lambda can die between any two.  A card's id and its created_at  *)
(* are the number of the put that made it; what is explained is the put    *)
(* itself.  A list returns one page.                                       *)
(***************************************************************************)
EXTENDS Naturals, FiniteSets, SequencesExt

CONSTANTS
    Patterns,       \* what people teach, spelled as they spell it
    Fold,           \* a pattern trimmed and casefolded
    Teachers,       \* requests to the console that may overlap
    Importer,       \* the request the import posts
    MaxPuts,        \* bound on puts, hence on ids and times
    KnownLimits,    \* bounds on teaches, what the agent remembers, deletes by users,
                    \* deaths and exports, one of which a behaviour keeps
    CardPage        \* cards on one page of a query or scan

Limited == {"teaches", "remembered", "forgotten", "deaths", "exports"}
ASSUME KnownBounds ==
    /\ MaxPuts \in Nat /\ CardPage \in Nat
    /\ KnownLimits \subseteq [Limited -> Nat]

Writers == Teachers \cup {Importer}
Ids == 1 .. MaxPuts
IssueKeys == {Fold[p] : p \in Patterns}
NoCard == [at |-> 0]
CardRecord == [pat : Patterns, at : Ids, first : 0 .. MaxPuts, blank : BOOLEAN]

VARIABLES
    cards,      \* the table: id -> card or NoCard
    puts,       \* puts so far
    limits,     \* what is left of the bounds
    job,        \* each teach request: what it listed, what is left to do; history:
                \* when the copies it found were written
    latest,     \* history: the id the last put of a key wrote; 0 if forgotten
    orphaned,   \* history: ids deleted by a teach that then died
    import,     \* bankops known-issues import
    export,     \* the export's scan
    backup      \* the object in S3: its items, in the order of the ids

knownVars == <<cards, puts, limits, job, latest, orphaned, import, export, backup>>

Spend(what) == limits[what] > 0 /\ limits' = [limits EXCEPT ![what] = @ - 1]

NoJob == [pc |-> "idle"]
Present == {i \in Ids : cards[i] # NoCard}
CardsOf(k) == {i \in Present : Fold[cards[i].pat] = k}
FirstPage(S) == {i \in S : Cardinality({j \in S : j < i}) < CardPage}
Busy(k) == {w \in Writers : job[w] # NoJob /\ Fold[job[w].pat] = k}

\* The members of S as a sequence, by rising b[i].
InOrder(S, b) == [n \in 1 .. Cardinality(S) |->
                    CHOOSE i \in S : Cardinality({j \in S : b[j] <= b[i]}) = n]

KnownInit ==
    /\ cards = [i \in Ids |-> NoCard]
    /\ puts = 0 /\ limits \in KnownLimits
    /\ job = [w \in Writers |-> NoJob]
    /\ latest = [k \in IssueKeys |-> 0]
    /\ orphaned = {}
    /\ import = NoJob
    /\ export = NoJob
    /\ backup = <<>>

\* The jobs of key k no longer run alone.
Disturb(k) == [w \in Writers |-> IF w \in Busy(k) THEN [job[w] EXCEPT !.alone = FALSE]
                                                  ELSE job[w]]

\* What is left to do for one who saw these copies: the oldest is kept, the
\* others are to be deleted.
NewJob(p, b, seen) ==
    LET dups == InOrder(seen, [i \in seen |-> cards[i].at])
    IN  [pc    |-> IF Len(dups) > 1 THEN "delete" ELSE "put",
         pat   |-> p,
         blank |-> b,
         keep  |-> IF dups = <<>> THEN 0 ELSE dups[1],
         first |-> IF dups = <<>> THEN 0
                   ELSE IF cards[dups[1]].first # 0 THEN cards[dups[1]].first
                   ELSE cards[dups[1]].at,
         rest  |-> IF dups = <<>> THEN <<>> ELSE Tail(dups),
         gone  |-> {},
         found |-> {cards[i].at : i \in seen},
         alone |-> Busy(Fold[p]) = {} /\ Cardinality(Present) <= CardPage]

\* Mutant of TeachList: copies are told by their exact spelling.
TeachListExact(w, p, b) ==
    /\ job[w] = NoJob
    /\ job' = [Disturb(Fold[p]) EXCEPT
                 ![w] = NewJob(p, b, {i \in FirstPage(Present) : cards[i].pat = p})]

\* add_known_issue lists the service and takes the copies of the pattern.
TeachList(w, p, b) ==
    /\ job[w] = NoJob
    /\ job' = [Disturb(Fold[p]) EXCEPT
                 ![w] = NewJob(p, b, {i \in FirstPage(Present) : Fold[cards[i].pat] = Fold[p]})]

\* The console's and bankops' teach; the handler refuses an empty explanation.
Teach(w, p) ==
    /\ Spend("teaches")
    /\ TeachList(w, p, FALSE)
    /\ UNCHANGED <<cards, puts, latest, orphaned, import, export, backup>>

\* The table loses card i; a scan that is under way can no longer count on it.
TakeOut(i) ==
    /\ cards' = [cards EXCEPT ![i] = NoCard]
    /\ export' = IF export = NoJob THEN NoJob ELSE [export EXCEPT !.stayed = @ \ {i}]

TeachDelete(w) ==
    /\ job[w] # NoJob /\ job[w].pc = "delete"
    /\ LET j == job[w]
           next == Head(j.rest)
       IN  /\ TakeOut(next)
           /\ job' = [job EXCEPT ![w] = [j EXCEPT !.rest = Tail(j.rest),
                                                  !.gone = j.gone \cup {next},
                                                  !.pc = IF Len(j.rest) = 1 THEN "put" ELSE "delete"]]
    /\ UNCHANGED <<puts, limits, latest, orphaned, import, backup>>

PutCard(i, p, first, b) ==
    /\ puts < MaxPuts
    /\ puts' = puts + 1
    /\ cards' = [cards EXCEPT ![i] = [pat |-> p, at |-> puts + 1, first |-> first, blank |-> b]]
    /\ latest' = [latest EXCEPT ![Fold[p]] = i]

\* Mutant of TeachPut: the kept card is updated, which does nothing when it is gone.
TeachPutUpdates(w) ==
    /\ job[w] # NoJob /\ job[w].pc = "put"
    /\ IF job[w].keep # 0 /\ job[w].keep \notin Present
       THEN UNCHANGED <<puts, cards, latest>>
       ELSE PutCard(IF job[w].keep = 0 THEN puts + 1 ELSE job[w].keep,
                    job[w].pat, job[w].first, job[w].blank)
    /\ job' = [job EXCEPT ![w] = NoJob]
    /\ UNCHANGED <<limits, orphaned, import, export, backup>>

\* The put of the kept id, or of a new one, ends the request.
TeachPut(w) ==
    /\ job[w] # NoJob /\ job[w].pc = "put"
    /\ PutCard(IF job[w].keep = 0 THEN puts + 1 ELSE job[w].keep,
           job[w].pat, job[w].first, job[w].blank)
    /\ job' = [job EXCEPT ![w] = NoJob]
    /\ UNCHANGED <<limits, orphaned, import, export, backup>>

\* Mutant of TeachDies: the import takes a 502 for an answer.
TeachDiesUnseen(w) ==
    /\ job[w] # NoJob
    /\ orphaned' = orphaned \cup job[w].gone
    /\ job' = [job EXCEPT ![w] = NoJob]
    /\ Spend("deaths")
    /\ UNCHANGED <<cards, puts, latest, import, export, backup>>

\* The Lambda dies or times out between two of its calls.
TeachDies(w) ==
    /\ job[w] # NoJob
    /\ orphaned' = orphaned \cup job[w].gone
    /\ job' = [job EXCEPT ![w] = NoJob]
    /\ import' = IF w = Importer /\ import # NoJob THEN [import EXCEPT !.failed = TRUE]
                                                 ELSE import
    /\ Spend("deaths")
    /\ UNCHANGED <<cards, puts, latest, export, backup>>

\* remember_issue puts a card with a new id whatever the table holds.
AgentRemembers(p, b) ==
    /\ Spend("remembered")
    /\ PutCard(puts + 1, p, 0, b)
    /\ job' = Disturb(Fold[p])
    /\ UNCHANGED <<orphaned, import, export, backup>>

\* DELETE /known-issues/{service}/{id}.
Forget(i) ==
    /\ i \in Present
    /\ Spend("forgotten")
    /\ TakeOut(i)
    /\ latest' = [k \in IssueKeys |-> IF latest[k] = i THEN 0 ELSE latest[k]]
    /\ import' = IF import = NoJob THEN NoJob
                 ELSE [import EXCEPT !.forgot = @ \cup {Fold[cards[i].pat]}]
    /\ UNCHANGED <<puts, job, orphaned, backup>>

Item(i) == [id |-> i, pat |-> cards[i].pat, blank |-> cards[i].blank]
Items(page) ==
    LET ids == InOrder(page, [i \in page |-> i])
    IN  [n \in 1 .. Cardinality(page) |-> Item(ids[n])]

\* The export scans page by page, in the order of the ids.
ExportStart ==
    /\ export = NoJob
    /\ Spend("exports")
    /\ export' = [pc |-> "scan", after |-> 0, got |-> <<>>, stayed |-> Present]
    /\ UNCHANGED <<cards, puts, job, latest, orphaned, import, backup>>

\* Mutant of ExportPage: LastEvaluatedKey is not followed.
ExportPageOnce ==
    /\ export # NoJob /\ export.pc = "scan"
    /\ export' = [export EXCEPT
         !.got = Items(FirstPage(Present)),
         !.pc = "store"]
    /\ UNCHANGED <<cards, puts, limits, job, latest, orphaned, import, backup>>

ExportPage ==
    LET more == {i \in Present : i > export.after}
        page == FirstPage(more)
    IN  /\ export # NoJob /\ export.pc = "scan"
        /\ export' = [export EXCEPT
             !.got = @ \o Items(page),
             !.after = Max(page \cup {@}),
             !.pc = IF more = page THEN "store" ELSE "scan"]
        /\ UNCHANGED <<cards, puts, limits, job, latest, orphaned, import, backup>>

ExportStore ==
    /\ export # NoJob /\ export.pc = "store"
    /\ backup' = export.got
    /\ export' = NoJob
    /\ UNCHANGED <<cards, puts, limits, job, latest, orphaned, import>>

\* The import reads the backup and, once, what the table already has.
ImportStart ==
    /\ import = NoJob
    /\ backup # <<>>
    /\ import' = [pc |-> "items",
                  have |-> {cards[i].pat : i \in FirstPage(Present)},
                  items |-> backup, done |-> 0,
                  failed |-> FALSE,
                  forgot |-> {}]
    /\ UNCHANGED <<cards, puts, limits, job, latest, orphaned, export, backup>>

\* The next item is skipped when the table had its pattern, refused when its
\* explanation is empty, and posted otherwise.
ImportItem ==
    /\ import # NoJob /\ import.done < Len(import.items) /\ job[Importer] = NoJob
    /\ LET it == import.items[import.done + 1]
           known == it.pat \in import.have
       IN  /\ import' = [import EXCEPT !.done = @ + 1, !.failed = @ \/ (~known /\ it.blank)]
           /\ IF known \/ it.blank THEN UNCHANGED job ELSE TeachList(Importer, it.pat, FALSE)
    /\ UNCHANGED <<cards, puts, limits, latest, orphaned, export, backup>>

ImportEnd ==
    /\ import # NoJob /\ import.done = Len(import.items) /\ job[Importer] = NoJob
    /\ import' = NoJob
    /\ UNCHANGED <<cards, puts, limits, job, latest, orphaned, export, backup>>

\* A post that is not answered in ten seconds ends the import, not the request.
ImportAborts ==
    /\ job[Importer] # NoJob /\ import # NoJob
    /\ import' = NoJob
    /\ UNCHANGED <<cards, puts, limits, job, latest, orphaned, export, backup>>

KnownNext ==
    \/ \E w \in Teachers, p \in Patterns : Teach(w, p)
    \/ \E w \in Writers : TeachDelete(w) \/ TeachPut(w) \/ TeachDies(w)
    \/ \E p \in Patterns, b \in BOOLEAN : AgentRemembers(p, b)
    \/ \E i \in Ids : Forget(i)
    \/ ExportStart \/ ExportPage \/ ExportStore
    \/ ImportStart \/ ImportItem \/ ImportEnd \/ ImportAborts

KnownSpec == KnownInit /\ [][KnownNext]_knownVars

Job == [pc : {"delete", "put"}, pat : Patterns, blank : BOOLEAN, keep : 0 .. MaxPuts,
        first : 0 .. MaxPuts, rest : Seq(Ids), gone : SUBSET Ids, found : SUBSET Ids,
        alone : BOOLEAN]

\* Every variable has its type; a card is never older than its first teaching.
KnownTypeOK ==
    /\ cards \in [Ids -> CardRecord \cup {NoCard}]
    /\ puts \in 0 .. MaxPuts /\ \A what \in DOMAIN limits : limits[what] \in Nat
    /\ \A w \in Writers : job[w] = NoJob \/ job[w] \in Job
    /\ latest \in [IssueKeys -> 0 .. MaxPuts] /\ orphaned \subseteq Ids
    /\ \A i \in Present : cards[i].first < cards[i].at

\* What was taught last is in the table, unless a user deleted it, or a teach
\* that has yet to put its own card removed it, or one that died before doing
\* so (store.py 117-129: the deletes come before the put).
LatestTeachingStays ==
    \A k \in IssueKeys :
        latest[k] # 0 =>
            \/ latest[k] \in Present /\ Fold[cards[latest[k]].pat] = k
            \/ latest[k] \in orphaned
            \/ \E w \in Writers : job[w] # NoJob /\ latest[k] \in job[w].gone

\* A teach that ran alone, on a table of one page, leaves one card of its
\* pattern, however many copies there were, and dates it no later than any copy it
\* found, the deleted ones included (store.py 106-130).  That need not be when it
\* was first taught: a copy that was taught again after another was added comes
\* after it by created_at, and is deleted with its own first_taught_at.
TeachingCollapses ==
    [][\A w \in Writers, k \in IssueKeys :
        (job[w] # NoJob /\ k = Fold[job[w].pat] /\ job[w].alone /\ TeachPut(w)) =>
            /\ Cardinality(CardsOf(k)') = 1
            /\ \A t \in job[w].found : job[w].first # 0 /\ job[w].first <= t]_knownVars

\* An import that reports no failure leaves every pattern it read in the
\* table, however a dozen spellings of it were taught, deleted or skipped, but
\* for what was deleted or is being retaught meanwhile.
ImportRestores ==
    (import # NoJob /\ import.done = Len(import.items) /\ job[Importer] = NoJob /\ ~import.failed) =>
        \A n \in DOMAIN import.items :
            LET k == Fold[import.items[n].pat]
            IN  \/ CardsOf(k) # {}
                \/ k \in import.forgot
                \/ \E w \in Writers : w \in Busy(k) /\ job[w].gone # {}
                \/ orphaned # {}

\* The backup holds every card that stayed in the table for the whole scan, and
\* no card twice (known_issues_export/handler.py 48-69).
ExportHoldsWhatStayed ==
    (export # NoJob /\ export.pc = "store") => 
        /\ \A i \in export.stayed : \E n \in DOMAIN export.got : export.got[n].id = i
        /\ IsInjective([n \in DOMAIN export.got |-> export.got[n].id])
===============================================================================
