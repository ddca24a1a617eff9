---------------------------- MODULE TablesProofs -----------------------------
(***************************************************************************)
(* Proofs about what is stored and read: the local store, the readers of   *)
(* the spine's tables and the known-issues table. Each part has an         *)
(* inductive invariant of its own, with one lemma for every action, and    *)
(* its theorems follow at the end of the part.                             *)
(***************************************************************************)
EXTENDS JsonStore, SpineReads, KnownIssues, FiniteSums, FunctionTheorems, SequenceTheorems

-------------------------------------------------------------------------------
(***************************************************************************)
(* JsonStore. As long as adds do not overlap, a killed process leaves the  *)
(* store as it was, for any number of processes and adds.                  *)
(***************************************************************************)

\* The steps of an add, and its record while it is at work.
AddSteps == {"rest", "open", "write", "replace"}
Adding == [pc : AddSteps, add : Adds, recs : SUBSET Adds, fd : 0 .. MaxAdds]

\* The types, as far as the argument needs them: an inode is numbered after the
\* add that brought it, so none is newer than the last add.
FileTypes ==
    /\ adds \in 0 .. MaxAdds
    /\ path \in 0 .. adds /\ tmp \in 0 .. adds
    /\ content \in [Adds -> [recs : SUBSET Adds, whole : BOOLEAN]]
    /\ alone \in BOOLEAN
    /\ DOMAIN adder = Procs
    /\ \A p \in Procs :
          /\ adder[p].pc \in AddSteps
          /\ adder[p].pc = "rest" => adder[p] = Resting
          /\ adder[p].pc # "rest" => adder[p] \in Adding /\ adder[p].add \in 1 .. adds
          /\ adder[p].pc \in {"write", "replace"} => adder[p].fd \in 1 .. adds

\* What the one process at work has done so far: the file it writes is the .tmp
\* file and not the store, and holds what was stored and its own record.
AtWork(p) ==
    /\ \A q \in Procs : q # p => adder[q].pc = "rest"
    /\ adder[p].recs = stored \cup {adder[p].add}
    /\ adder[p].pc = "open" => adder[p].add # path
    /\ adder[p].pc \in {"write", "replace"} => tmp = adder[p].fd
    /\ adder[p].pc = "replace" => content[tmp] = [recs |-> adder[p].recs, whole |-> TRUE]

\* The inductive invariant: as long as adds have not overlapped, the store holds
\* what was acknowledged, the .tmp file is another file, and the one process at
\* work has come as far as AtWork says.
FileInv ==
    alone =>
        /\ StoreSurvivesKill
        /\ tmp # Missing => tmp # path
        /\ \A p \in Procs : adder[p].pc # "rest" => AtWork(p)

\* It holds in the initial states.
LEMMA FileInitInv == FileInit => FileTypes /\ FileInv
  <1> SUFFICES ASSUME FileInit PROVE FileTypes /\ FileInv
    OBVIOUS
  <1> USE FileAssumption DEF FileInit, Missing, Adds
  <1>1. \A p \in Procs : adder[p] = Resting /\ adder[p].pc = "rest"
    BY DEF Resting
  <1>2. FileTypes
    BY <1>1 DEF FileTypes, AddSteps
  <1>3. FileInv
    BY <1>1 DEF FileInv, StoreSurvivesKill, Readable, Loaded
  <1> QED
    BY <1>2, <1>3

\* _load: the process reads what is stored.
LEMMA LoadFileStep ==
    ASSUME FileTypes, FileInv, NEW p \in Procs, LoadFile(p)
    PROVE  FileTypes' /\ FileInv'
  <1> DEFINE new == [pc |-> "open", add |-> adds + 1,
                     recs |-> Loaded \cup {adds + 1}, fd |-> Missing]
  <1> USE FileAssumption DEF LoadFile, FileTypes
  <1>1. adder' = [adder EXCEPT ![p] = new]
    OBVIOUS
  <1>2. /\ adder'[p] = new /\ new.pc = "open" /\ new.add = adds + 1
        /\ new.recs = Loaded \cup {adds + 1}
        /\ \A q \in Procs : q # p => adder'[q] = adder[q]
    BY <1>1
  <1>3. Loaded \in SUBSET Adds
    <2>1. CASE path = Missing
      BY <2>1 DEF Loaded
    <2>2. CASE path # Missing
      BY <2>2 DEF Loaded, Adds, Missing
    <2> QED
      BY <2>1, <2>2
  <1>4. adds + 1 \in 1 .. MaxAdds /\ adds' = adds + 1
    OBVIOUS
  <1>5. FileTypes'
    <2>1. new \in Adding /\ new.add \in 1 .. adds'
      BY <1>2, <1>3, <1>4 DEF Adds, Adding, AddSteps, Missing
    <2>2. /\ adder'[p].pc \in AddSteps
          /\ adder'[p].pc # "rest" => adder'[p] \in Adding /\ adder'[p].add \in 1 .. adds'
          /\ adder'[p].pc = "rest" => FALSE
          /\ adder'[p].pc \notin {"write", "replace"}
      BY <1>2, <2>1 DEF AddSteps
    <2>3. ASSUME NEW q \in Procs, q # p
          PROVE  /\ adder'[q].pc # "rest" => adder'[q] \in Adding /\ adder'[q].add \in 1 .. adds'
                 /\ adder'[q].pc \in {"write", "replace"} => adder'[q].fd \in 1 .. adds'
                 /\ adder'[q].pc \in AddSteps
                 /\ adder'[q].pc = "rest" => adder'[q] = Resting
      <3>1. adder'[q] = adder[q]
        BY <1>2, <2>3
      <3> QED
        BY <3>1, <1>4
    <2>4. alone' \in BOOLEAN
      BY DEF FileTypes
    <2>5. DOMAIN adder' = Procs
      BY <1>1
    <2> QED
      BY <1>4, <2>2, <2>3, <2>4, <2>5
  <1>6. FileInv'
    <2> SUFFICES ASSUME alone' PROVE FileInv'
      BY DEF FileInv
    <2>1. alone /\ \A q \in Procs : adder[q] = Resting
      OBVIOUS
    <2>2. \A q \in Procs : q # p => adder'[q].pc = "rest"
      BY <1>2, <2>1 DEF Resting
    <2>3. StoreSurvivesKill' /\ (tmp # Missing => tmp # path)' /\ Loaded = stored
      BY <2>1 DEF FileInv, StoreSurvivesKill, Readable, Loaded
    <2>4. AtWork(p)'
      BY <1>2, <1>4, <2>2, <2>3 DEF AtWork
    <2> QED
      BY <2>2, <2>3, <2>4 DEF FileInv
  <1> QED
    BY <1>5, <1>6

\* open(tmp, 'w') empties the .tmp file, never the store.
LEMMA OpenTmpStep ==
    ASSUME FileTypes, FileInv, NEW p \in Procs, OpenTmp(p)
    PROVE  FileTypes' /\ FileInv'
  <1> DEFINE i == IF tmp = Missing THEN adder[p].add ELSE tmp
             new == [recs |-> {}, whole |-> FALSE]
             mine == [pc |-> "write", add |-> adder[p].add, recs |-> adder[p].recs, fd |-> i]
  <1> USE FileAssumption DEF FileTypes, Adds, Missing
  <1>1. /\ adder[p].pc = "open" /\ tmp' = i
        /\ content' = [content EXCEPT ![i] = new]
        /\ UNCHANGED <<path, adds, stored, alone>>
    BY DEF OpenTmp
  <1>2. i \in 1 .. adds /\ i \in Adds
    BY <1>1
  <1>3. /\ adder'[p] \in Adding /\ adder'[p].pc = "write" /\ adder'[p].fd = i
        /\ adder'[p].add = adder[p].add /\ adder'[p].recs = adder[p].recs
        /\ \A q \in Procs : q # p => adder'[q] = adder[q]
        /\ DOMAIN adder' = Procs
    <2>1. adder[p] \in Adding /\ i \in 0 .. MaxAdds /\ "write" \in AddSteps
      BY <1>1, <1>2 DEF AddSteps
    <2>2. mine \in Adding /\ mine.pc = "write" /\ mine.fd = i
      BY <2>1 DEF Adding
    <2>3. mine.add = adder[p].add /\ mine.recs = adder[p].recs
      BY <2>1 DEF Adding
    <2>4. adder' = [adder EXCEPT ![p] = [[adder[p] EXCEPT !.pc = "write"] EXCEPT !.fd = i]]
      BY DEF OpenTmp
    <2>5. [adder[p] EXCEPT !.pc = "write"] =
             [pc |-> "write", add |-> adder[p].add, recs |-> adder[p].recs, fd |-> adder[p].fd]
      BY <2>1 DEF Adding
    <2>6. [[adder[p] EXCEPT !.pc = "write"] EXCEPT !.fd = i] = mine
      <3> HIDE DEF i
      <3> DEFINE r == [pc |-> "write", add |-> adder[p].add, recs |-> adder[p].recs, fd |-> adder[p].fd]
      <3>1. [r EXCEPT !.fd = i] = mine
        OBVIOUS
      <3> QED
        BY <2>5, <3>1
    <2>7. adder' = [adder EXCEPT ![p] = mine]
      BY <2>4, <2>6
    <2> QED
      BY <2>2, <2>3, <2>7
  <1>4. FileTypes'
    <2>1. content' \in [Adds -> [recs : SUBSET Adds, whole : BOOLEAN]]
      BY <1>1, <1>2
    <2>2. \A q \in Procs :
             /\ adder'[q].pc \in AddSteps
             /\ adder'[q].pc = "rest" => adder'[q] = Resting
             /\ adder'[q].pc # "rest" => adder'[q] \in Adding /\ adder'[q].add \in 1 .. adds
             /\ adder'[q].pc \in {"write", "replace"} => adder'[q].fd \in 1 .. adds
      BY <1>1, <1>2, <1>3 DEF AddSteps
    <2> QED
      BY <1>1, <1>2, <1>3, <2>1, <2>2
  <1>5. FileInv'
    <2> SUFFICES ASSUME alone PROVE FileInv'
      BY <1>1 DEF FileInv
    <2>1. AtWork(p) /\ StoreSurvivesKill /\ (tmp # Missing => tmp # path)
      BY <1>1 DEF FileInv
    <2>2. i # path
      BY <1>1, <2>1 DEF AtWork
    <2>3. path # Missing => content'[path] = content[path]
      BY <1>1, <2>2
    <2>4. StoreSurvivesKill'
      BY <1>1, <2>1, <2>3 DEF StoreSurvivesKill, Readable, Loaded
    <2>5. \A q \in Procs : q # p => adder'[q].pc = "rest"
      BY <1>3, <2>1 DEF AtWork
    <2>6. AtWork(p)'
      BY <1>1, <1>3, <2>1, <2>5 DEF AtWork
    <2> QED
      BY <1>1, <2>2, <2>4, <2>5, <2>6 DEF FileInv
  <1> QED
    BY <1>4, <1>5

\* The records are written to the .tmp file.
LEMMA WriteTmpStep ==
    ASSUME FileTypes, FileInv, NEW p \in Procs, WriteTmp(p)
    PROVE  FileTypes' /\ FileInv'
  <1> DEFINE new == [recs |-> adder[p].recs, whole |-> TRUE]
             mine == [pc |-> "replace", add |-> adder[p].add, recs |-> adder[p].recs, fd |-> adder[p].fd]
  <1> USE FileAssumption DEF FileTypes, Adds, Missing
  <1>1. /\ adder[p].pc = "write"
        /\ content' = [content EXCEPT ![adder[p].fd] = new]
        /\ UNCHANGED <<path, tmp, adds, stored, alone>>
    BY DEF WriteTmp
  <1>2. adder[p].fd \in 1 .. adds /\ adder[p].fd \in Adds
    BY <1>1
  <1>3. /\ adder'[p] \in Adding /\ adder'[p].pc = "replace" /\ adder'[p].fd = adder[p].fd
        /\ adder'[p].add = adder[p].add /\ adder'[p].recs = adder[p].recs
        /\ \A q \in Procs : q # p => adder'[q] = adder[q]
        /\ DOMAIN adder' = Procs
    <2>1. adder[p] \in Adding /\ "replace" \in AddSteps
      BY <1>1 DEF AddSteps
    <2>2. mine \in Adding /\ mine.pc = "replace"
      BY <2>1 DEF Adding
    <2>3. mine.add = adder[p].add /\ mine.recs = adder[p].recs /\ mine.fd = adder[p].fd
      BY <2>1 DEF Adding
    <2>4. adder' = [adder EXCEPT ![p] = [adder[p] EXCEPT !.pc = "replace"]]
      BY DEF WriteTmp
    <2>5. [adder[p] EXCEPT !.pc = "replace"] = mine
      BY <2>1 DEF Adding
    <2>6. adder' = [adder EXCEPT ![p] = mine]
      BY <2>4, <2>5
    <2> QED
      BY <2>2, <2>3, <2>6
  <1>4. FileTypes'
    <2>1. content' \in [Adds -> [recs : SUBSET Adds, whole : BOOLEAN]]
      BY <1>1, <1>2 DEF Adding
    <2>2. \A q \in Procs :
             /\ adder'[q].pc \in AddSteps
             /\ adder'[q].pc = "rest" => adder'[q] = Resting
             /\ adder'[q].pc # "rest" => adder'[q] \in Adding /\ adder'[q].add \in 1 .. adds
             /\ adder'[q].pc \in {"write", "replace"} => adder'[q].fd \in 1 .. adds
      BY <1>1, <1>2, <1>3 DEF AddSteps
    <2> QED
      BY <1>1, <1>3, <2>1, <2>2
  <1>5. FileInv'
    <2> SUFFICES ASSUME alone PROVE FileInv'
      BY <1>1 DEF FileInv
    <2>1. AtWork(p) /\ StoreSurvivesKill /\ (tmp # Missing => tmp # path)
      BY <1>1 DEF FileInv
    <2>2. tmp = adder[p].fd /\ tmp # Missing
      BY <1>1, <1>2, <2>1 DEF AtWork
    <2>3. path # Missing => content'[path] = content[path]
      BY <1>1, <2>1, <2>2
    <2>4. StoreSurvivesKill'
      BY <1>1, <2>1, <2>3 DEF StoreSurvivesKill, Readable, Loaded
    <2>5. \A q \in Procs : q # p => adder'[q].pc = "rest"
      BY <1>3, <2>1 DEF AtWork
    <2>6. content'[tmp] = new
      BY <1>1, <1>2, <2>2
    <2>7. AtWork(p)'
      BY <1>1, <1>3, <2>1, <2>2, <2>5, <2>6 DEF AtWork
    <2> QED
      BY <1>1, <2>1, <2>4, <2>5, <2>7 DEF FileInv
  <1> QED
    BY <1>4, <1>5

\* A process that replaces the store, or is killed, is at rest.
LEMMA RestStep ==
    ASSUME FileTypes, NEW p \in Procs, adder' = [adder EXCEPT ![p] = Resting],
           UNCHANGED <<content, adds, alone>>, path' \in 0 .. adds, tmp' \in 0 .. adds
    PROVE  /\ FileTypes'
           /\ adder'[p].pc = "rest"
           /\ \A q \in Procs : q # p => adder'[q] = adder[q]
  <1>1. /\ adder'[p] = Resting /\ adder'[p].pc = "rest" /\ DOMAIN adder' = Procs
        /\ \A q \in Procs : q # p => adder'[q] = adder[q]
    BY DEF FileTypes, Resting
  <1> QED
    BY <1>1 DEF FileTypes, AddSteps

\* os.replace puts the whole file in the store's place.
LEMMA ReplaceFileStep ==
    ASSUME FileTypes, FileInv, NEW p \in Procs, ReplaceFile(p)
    PROVE  FileTypes' /\ FileInv'
  <1> USE DEF Missing
  <1>1. /\ adder[p].pc = "replace" /\ adder' = [adder EXCEPT ![p] = Resting]
        /\ UNCHANGED <<content, adds, alone>>
    BY DEF ReplaceFile
  <1>2. path' \in 0 .. adds /\ tmp' \in 0 .. adds
    BY FileAssumption DEF ReplaceFile, FileTypes
  <1>3. /\ FileTypes' /\ adder'[p].pc = "rest"
        /\ \A q \in Procs : q # p => adder'[q] = adder[q]
    BY <1>1, <1>2, RestStep
  <1>4. FileInv'
    <2> SUFFICES ASSUME alone PROVE FileInv'
      BY <1>1 DEF FileInv
    <2>1. AtWork(p) /\ StoreSurvivesKill
      BY <1>1 DEF FileInv
    <2>2. tmp # Missing /\ content[tmp] = [recs |-> adder[p].recs, whole |-> TRUE]
      BY <1>1, <2>1 DEF AtWork, FileTypes
    <2>3. path' = tmp /\ tmp' = Missing /\ stored' = stored \cup {adder[p].add}
      BY <2>2 DEF ReplaceFile
    <2>4. StoreSurvivesKill'
      BY <1>1, <2>1, <2>2, <2>3 DEF StoreSurvivesKill, Readable, Loaded, AtWork
    <2>5. \A q \in Procs : adder'[q].pc = "rest"
      BY <1>3, <2>1 DEF AtWork
    <2> QED
      BY <2>3, <2>4, <2>5 DEF FileInv
  <1> QED
    BY <1>3, <1>4

\* A process is killed: it leaves at most a .tmp file behind.
LEMMA AdderKilledStep ==
    ASSUME FileTypes, FileInv, NEW p \in Procs, AdderKilled(p)
    PROVE  FileTypes' /\ FileInv'
  <1>1. /\ adder' = [adder EXCEPT ![p] = Resting]
        /\ UNCHANGED <<path, tmp, content, adds, stored, alone>>
    BY DEF AdderKilled
  <1>2. /\ FileTypes' /\ adder'[p].pc = "rest"
        /\ \A q \in Procs : q # p => adder'[q] = adder[q]
    BY <1>1, RestStep DEF FileTypes
  <1>3. adder[p].pc # "rest"
    BY DEF AdderKilled, FileTypes
  <1>4. FileInv'
    <2> SUFFICES ASSUME alone PROVE FileInv'
      BY <1>1 DEF FileInv
    <2>1. AtWork(p) /\ StoreSurvivesKill /\ (tmp # Missing => tmp # path)
      BY <1>3 DEF FileInv
    <2>2. StoreSurvivesKill'
      BY <1>1, <2>1 DEF StoreSurvivesKill, Readable, Loaded
    <2>3. \A q \in Procs : adder'[q].pc = "rest"
      BY <1>2, <2>1 DEF AtWork
    <2> QED
      BY <1>1, <2>1, <2>2, <2>3 DEF FileInv
  <1> QED
    BY <1>2, <1>4

\* The inductive invariant of the store holds in every reachable state.
THEOREM FileInvariant == FileSpec => [](FileTypes /\ FileInv)
  <1>1. ASSUME FileTypes, FileInv, [FileNext]_fileVars
        PROVE  FileTypes' /\ FileInv'
    <2>1. CASE FileNext
      BY <1>1, <2>1, LoadFileStep, OpenTmpStep, WriteTmpStep, ReplaceFileStep, AdderKilledStep
         DEF FileNext
    <2>2. CASE UNCHANGED fileVars
      BY <1>1, <2>2 DEF fileVars, FileTypes, FileInv, StoreSurvivesKill, Readable, Loaded, AtWork
    <2> QED
      BY <1>1, <2>1, <2>2
  <1> QED
    BY <1>1, FileInitInv, PTL DEF FileSpec

\* However many processes use the store one after the other, and wherever one
\* is killed, the file is whole and holds the records whose add returned.
THEOREM StoreIsNeverHalfWritten == FileSpec => []StoreSurvivesKill
  <1>1. FileInv => StoreSurvivesKill
    BY DEF FileInv, StoreSurvivesKill
  <1> QED
    BY <1>1, FileInvariant, PTL

-------------------------------------------------------------------------------
(***************************************************************************)
(* SpineReads. ReadsInv follows each list and each report through its      *)
(* pages: what it has yet to return lies after the position it has come    *)
(* to.                                                                     *)
(***************************************************************************)

\* The steps of a list and of a report, and their records.
ListSteps == {"idle", "queued", "triaged", "answer"}
ReportSteps == {"idle", "query", "build", "done"}
Statuses == {"queued", "triaged"}
ListRec == [pc : ListSteps, floor : Nat, got : SUBSET (Reads \X Statuses), whole : BOOLEAN]
ReportRec == [pc : ReportSteps, day : Nat, after : Int, got : SUBSET Reads, due : SUBSET Reads]

\* The types.
ReadTypes ==
    /\ moment \in Nat
    /\ received \in [Reads -> Int]
    /\ \A a \in Reads : received[a] \in 0 .. moment \/ received[a] = NotReceived
    /\ status \in [Reads -> {"absent", "queued", "triaged"}]
    /\ judged \subseteq Reads
    /\ index \in [Reads -> SUBSET Statuses]
    /\ list \in ListRec /\ shown \subseteq Reads
    /\ report \in ReportRec
    /\ counted \in [Reads -> SUBSET Nat]

\* The index lags behind the table, but never runs ahead of it.
IndexFollows ==
    \A a \in Reads :
        /\ (status[a] = "absent") <=> (received[a] = NotReceived)
        /\ index[a] # {} => status[a] # "absent"
        /\ "triaged" \in index[a] => status[a] = "triaged"
        /\ status[a] = "triaged" => a \in judged

\* What a list has asked for covers what the index has held since it began.
ListCovers ==
    /\ list.pc = "idle" => shown = {}
    /\ \A a \in shown : index[a] # {} /\ Text(received[a]) >= list.floor
    /\ (list.whole /\ list.pc = "triaged") =>
          \A a \in shown : <<a, "queued">> \in list.got \/ "triaged" \in index[a]
    /\ (list.whole /\ list.pc = "answer") =>
          \A a \in shown : \E s \in Statuses : <<a, s>> \in list.got

\* An alert of a day that its report does not see.
Overlooked(a, d) == received[a] = Fractions(d)

\* What is due and was not returned yet lies after the report's position, but for
\* what it overlooks.
ReportCovers ==
    /\ report.pc # "idle" =>
         /\ \A a \in report.due :
               "triaged" \in index[a] /\ (InDay(a, report.day) \/ Overlooked(a, report.day))
         /\ \A a \in report.got : InDay(a, report.day)
    /\ report.pc = "query" =>
         \A a \in report.due :
            a \in report.got \/ Position(a) > report.after \/ Overlooked(a, report.day)
    /\ report.pc \in {"build", "done"} =>
         \A a \in report.due : a \in report.got \/ Overlooked(a, report.day)
    /\ \A a \in Reads : \A d \in counted[a] : InDay(a, d)

\* Together these are inductive.
ReadsInv == ReadTypes /\ IndexFollows /\ ListCovers /\ ReportCovers

\* The text of a timestamp swaps the moments about midnight and keeps the others.
LEMMA TextOf ==
    ASSUME NEW d \in Int
    PROVE  Text(3 * d) = 3 * d + 1 /\ Text(3 * d + 1) = 3 * d /\ Text(3 * d + 2) = 3 * d + 2
  <1>1. (3 * d) % 3 = 0 /\ (3 * d + 1) % 3 = 1 /\ (3 * d + 2) % 3 = 2 OBVIOUS
  <1> QED BY <1>1 DEF Text

\* The same for the midnight that ends the day.
LEMMA TextOfNext ==
    ASSUME NEW d \in Int
    PROVE  Text(3 * (d + 1)) = 3 * d + 4 /\ Text(3 * (d + 1) + 1) = 3 * d + 3
  <1>1. (3 * (d + 1)) % 3 = 0 /\ (3 * (d + 1) + 1) % 3 = 1 OBVIOUS
  <1> QED BY <1>1 DEF Text

\* Texts are compared as integers.
LEMMA TextIsInt == ASSUME NEW m \in Int PROVE Text(m) \in Int
  <1>1. m % 3 \in 0 .. 2 OBVIOUS
  <1> QED BY <1>1 DEF Text

\* Positions in an index are integers.
LEMMA PositionIsInt ==
    ASSUME ReadTypes, NEW a \in Reads
    PROVE  Text(received[a]) \in Int /\ Position(a) \in Int
  <1>1. received[a] \in Int /\ a \in Nat BY ReadBounds DEF ReadTypes
  <1> QED BY <1>1, TextIsInt DEF Position

\* An alert received on a day is in the day's bounds, or is overlooked.
LEMMA OfDayIsInDay ==
    ASSUME ReadTypes, NEW a \in Reads, NEW d \in Nat, OfDay(a, d)
    PROVE  InDay(a, d) \/ Overlooked(a, d)
  <1>1. received[a] \in Int /\ received[a] # NotReceived /\ received[a] \div 3 = d
    BY DEF OfDay, Day, ReadTypes
  <1>2. received[a] \in {3 * d, 3 * d + 1, 3 * d + 2} BY <1>1
  <1>3. Text(3 * d) = 3 * d + 1 /\ Text(3 * d + 2) = 3 * d + 2 BY TextOf
  <1>4. Text(3 * (d + 1)) = 3 * d + 4 BY TextOfNext
  <1> QED BY <1>1, <1>2, <1>3, <1>4 DEF InDay, Overlooked, Fractions, Midnight

\* What is in the day's bounds is of the day, past the fractions of its first second,
\* or of the first second of the next.
LEMMA InDayIs ==
    ASSUME ReadTypes, NEW a \in Reads, NEW d \in Nat, InDay(a, d)
    PROVE  \/ OfDay(a, d) /\ received[a] # Fractions(d)
           \/ received[a] \in {Midnight(d + 1), Fractions(d + 1)}
  <1> DEFINE k == received[a] \div 3
  <1>1. received[a] \in Int /\ received[a] # NotReceived BY DEF ReadTypes, InDay
  <1>2. k \in Int /\ received[a] \in {3 * k, 3 * k + 1, 3 * k + 2} BY <1>1
  <1>3. Text(3 * k) = 3 * k + 1 /\ Text(3 * k + 1) = 3 * k /\ Text(3 * k + 2) = 3 * k + 2
    BY <1>2, TextOf
  <1>4. 3 * d + 1 <= Text(received[a]) /\ Text(received[a]) <= 3 * d + 4
    BY TextOf, TextOfNext DEF InDay, Midnight
  <1>5. OfDay(a, d) <=> k = d BY <1>1 DEF OfDay, Day
  <1> HIDE DEF k
  <1>6. received[a] \in {3 * d, 3 * d + 2, 3 * d + 3, 3 * d + 4} BY <1>2, <1>3, <1>4
  <1>7. received[a] \in {3 * d, 3 * d + 2} => k = d BY <1>2
  <1>8. 3 * (d + 1) = 3 * d + 3 OBVIOUS
  <1> QED BY <1>5, <1>6, <1>7, <1>8 DEF Midnight, Fractions

\* An alert is in one day; in two, if it came at midnight itself.
LEMMA FewDays ==
    ASSUME ReadTypes, NEW a \in Reads, NEW D \in SUBSET Nat, \A d \in D : InDay(a, d)
    PROVE  IsFiniteSet(D) /\ Cardinality(D) <= IF received[a] % 3 = 0 THEN 2 ELSE 1
  <1> DEFINE k == received[a] \div 3
  <1>1. received[a] \in Int BY DEF ReadTypes
  <1>2. /\ k \in Int /\ received[a] % 3 \in 0 .. 2
        /\ received[a] = 3 * k + (received[a] % 3)
    BY <1>1
  <1>3. Text(3 * k) = 3 * k + 1 /\ Text(3 * k + 1) = 3 * k /\ Text(3 * k + 2) = 3 * k + 2
    BY <1>2, TextOf
  <1>4. \A d \in D : 3 * d + 1 <= Text(received[a]) /\ Text(received[a]) <= 3 * d + 4
    <2> TAKE d \in D
    <2>1. d \in Nat /\ InDay(a, d) OBVIOUS
    <2>2. Text(3 * d) = 3 * d + 1 BY <2>1, TextOf
    <2>3. Text(3 * (d + 1)) = 3 * d + 4 BY <2>1, TextOfNext
    <2> QED BY <2>1, <2>2, <2>3 DEF InDay, Midnight
  <1> HIDE DEF k
  <1>5. CASE received[a] % 3 = 0
    <2>1. D \subseteq {k - 1, k}
      <3> SUFFICES ASSUME NEW d \in D PROVE d \in {k - 1, k} OBVIOUS
      <3>1. 3 * d + 1 <= 3 * k + 1 /\ 3 * k + 1 <= 3 * d + 4 BY <1>2, <1>3, <1>4, <1>5
      <3> QED BY <1>2, <3>1
    <2>2. IsFiniteSet({k - 1, k}) /\ Cardinality({k - 1, k}) = 2
      <3>1. IsFiniteSet({k - 1}) /\ Cardinality({k - 1}) = 1 BY FS_Singleton
      <3>2. k \notin {k - 1} BY <1>2
      <3>3. {k - 1} \cup {k} = {k - 1, k} OBVIOUS
      <3>4. /\ IsFiniteSet({k - 1} \cup {k})
            /\ Cardinality({k - 1} \cup {k}) = Cardinality({k - 1}) + 1
        BY <3>1, <3>2, FS_AddElement
      <3> QED BY <3>1, <3>3, <3>4
    <2>3. IsFiniteSet(D) /\ Cardinality(D) <= 2 BY <2>1, <2>2, FS_Subset
    <2> QED BY <1>5, <2>3
  <1>6. CASE received[a] % 3 # 0
    <2>1. \E j \in Int : D \subseteq {j}
      <3>1. CASE received[a] % 3 = 1
        <4>1. \A d \in D : d = k - 1
          <5> TAKE d \in D
          <5>1. 3 * d + 1 <= 3 * k /\ 3 * k <= 3 * d + 4 BY <1>2, <1>3, <1>4, <3>1
          <5> QED BY <1>2, <5>1
        <4> QED BY <1>2, <4>1
      <3>2. CASE received[a] % 3 = 2
        <4>1. \A d \in D : d = k
          <5> TAKE d \in D
          <5>1. 3 * d + 1 <= 3 * k + 2 /\ 3 * k + 2 <= 3 * d + 4 BY <1>2, <1>3, <1>4, <3>2
          <5> QED BY <1>2, <5>1
        <4> QED BY <1>2, <4>1
      <3> QED BY <1>2, <1>6, <3>1, <3>2
    <2>2. PICK j \in Int : D \subseteq {j} BY <2>1
    <2>3. IsFiniteSet({j}) /\ Cardinality({j}) = 1 BY FS_Singleton
    <2>4. IsFiniteSet(D) /\ Cardinality(D) <= 1 BY <2>2, <2>3, FS_Subset
    <2> QED BY <1>6, <2>4
  <1> QED BY <1>5, <1>6

\* A page that is not empty ends somewhere.
LEMMA LastOfPage ==
    ASSUME ReadTypes, NEW P \in SUBSET Reads, P # {}
    PROVE  \E p \in {Position(a) : a \in P} : \A a \in P : Position(a) <= p
  <1> DEFINE after(a) == {b \in P : Position(b) > Position(a)}
             Counts == {Cardinality(after(a)) : a \in P}
  <1>1. IsFiniteSet(P) BY ReadBounds, FS_Subset
  <1>2. \A a \in P : IsFiniteSet(after(a)) /\ Cardinality(after(a)) \in Nat
    BY <1>1, FS_Subset, FS_CardinalityType
  <1>3. PICK n \in Counts : \A k \in Counts : n <= k
    <2>1. Counts \in SUBSET Nat /\ Counts # {} BY <1>2
    <2> HIDE DEF Counts
    <2> QED BY <2>1, LeastElement
  <1>4. PICK a \in P : n = Cardinality(after(a)) BY <1>3
  <1>5. \A b \in P : Position(b) <= Position(a)
    <2> SUFFICES ASSUME NEW b \in P, ~(Position(b) <= Position(a)) PROVE FALSE OBVIOUS
    <2>1. Position(b) > Position(a) BY PositionIsInt
    <2>2. after(b) \subseteq after(a)
      <3> SUFFICES ASSUME NEW c \in P, Position(c) > Position(b) PROVE Position(c) > Position(a)
        OBVIOUS
      <3>1. Position(a) \in Int /\ Position(b) \in Int /\ Position(c) \in Int BY PositionIsInt
      <3> QED BY <2>1, <3>1
    <2>3. b \in after(a) /\ b \notin after(b)
      <3>1. Position(b) \in Int BY PositionIsInt
      <3> QED BY <2>1, <3>1
    <2>4. Cardinality(after(b)) < Cardinality(after(a))
      <3> HIDE DEF after
      <3> QED BY <1>2, <2>2, <2>3, FS_Subset
    <2>5. Cardinality(after(b)) \in Counts OBVIOUS
    <2>6. n <= Cardinality(after(b)) BY <1>3, <2>5
    <2> HIDE DEF after
    <2> QED BY <1>2, <1>4, <2>4, <2>6
  <1> QED BY <1>5

\* What a page leaves over lies after the page.
LEMMA PageIsOldest ==
    ASSUME ReadTypes, NEW S \in SUBSET Reads, NEW a \in S, a \notin AnswerOf(S), NEW b \in AnswerOf(S)
    PROVE  Position(a) > Position(b)
  <1> DEFINE below(x) == {c \in S : Newer(x, c)}
  <1>1. IsFiniteSet(S) BY ReadBounds, FS_Subset
  <1>2. \A x \in S : IsFiniteSet(below(x)) /\ Cardinality(below(x)) \in Nat
    BY <1>1, FS_Subset, FS_CardinalityType
  <1>3. Cardinality(below(a)) >= QueryPage /\ Cardinality(below(b)) < QueryPage /\ b \in S
    <2>1. ~(Cardinality(below(a)) < QueryPage) /\ b \in S /\ Cardinality(below(b)) < QueryPage
      BY DEF AnswerOf
    <2>2. Cardinality(below(a)) \in Nat BY <1>2
    <2> HIDE DEF below
    <2> QED BY <2>1, <2>2, ReadBounds
  <1>4. Position(a) \in Int /\ Position(b) \in Int BY <1>3, PositionIsInt
  <1> SUFFICES ASSUME ~(Position(a) > Position(b)) PROVE FALSE OBVIOUS
  <1>5. below(a) \subseteq below(b)
    <2> SUFFICES ASSUME NEW c \in S, Position(a) > Position(c) PROVE Position(b) > Position(c)
      BY DEF Newer
    <2>1. Position(c) \in Int BY PositionIsInt
    <2> QED BY <1>4, <2>1
  <1>6. Cardinality(below(a)) <= Cardinality(below(b))
    <2> HIDE DEF below
    <2> QED BY <1>2, <1>3, <1>5, FS_Subset
  <1>7. Cardinality(below(a)) \in Nat /\ Cardinality(below(b)) \in Nat BY <1>2, <1>3
  <1> HIDE DEF below
  <1> QED BY <1>3, <1>6, <1>7, ReadBounds

----------------------------------------------------------------------------
(* Init, and each action. *)

\* The invariant holds in the initial states.
LEMMA ReadsStart == SpineReadsInit => ReadsInv
  <1> SUFFICES ASSUME SpineReadsInit PROVE ReadsInv OBVIOUS
  <1>1. list \in ListRec /\ report \in ReportRec
    BY DEF SpineReadsInit, NoList, NoReport, ListRec, ReportRec, ListSteps, ReportSteps
  <1>2. ReadTypes BY <1>1 DEF SpineReadsInit, ReadTypes, NotReceived
  <1>3. IndexFollows BY DEF SpineReadsInit, IndexFollows
  <1>4. ListCovers /\ ReportCovers
    BY DEF SpineReadsInit, ListCovers, ReportCovers, NoList, NoReport
  <1> QED BY <1>2, <1>3, <1>4 DEF ReadsInv

\* An alert keeps its place in the index while received_at does not change.
LEMMA SamePlaces ==
    ASSUME UNCHANGED received
    PROVE  /\ \A a : Text(received[a])' = Text(received[a]) /\ Position(a)' = Position(a)
           /\ \A a, d : InDay(a, d)' = InDay(a, d) /\ Overlooked(a, d)' = Overlooked(a, d)
  BY DEF Text, Position, InDay, Midnight, NotReceived, Overlooked, Fractions

\* Time passes: nobody's place changes.
LEMMA LaterKeeps ==
    ASSUME ReadsInv, NEW m, Later(m) PROVE ReadsInv'
  <1>1. /\ m = moment + 1 /\ moment' = m
        /\ UNCHANGED <<received, status, judged, index, list, shown, report, counted>>
    BY DEF Later, spineVars
  <1>2. ReadTypes' BY <1>1 DEF ReadsInv, ReadTypes
  <1>3. IndexFollows' BY <1>1 DEF ReadsInv, IndexFollows
  <1>4. ListCovers' BY <1>1, SamePlaces DEF ReadsInv, ListCovers
  <1>5. ReportCovers' BY <1>1, SamePlaces DEF ReadsInv, ReportCovers
  <1> QED BY <1>2, <1>3, <1>4, <1>5 DEF ReadsInv

\* An alert that comes is in no index, list or report yet.
LEMMA StoresKeeps ==
    ASSUME ReadsInv, NEW a \in Reads, Stores(a) PROVE ReadsInv'
  <1> USE DEF ReadsInv
  <1>1. /\ status[a] = "absent"
        /\ received' = [received EXCEPT ![a] = moment]
        /\ status' = [status EXCEPT ![a] = "queued"]
        /\ UNCHANGED <<moment, judged, index, list, shown, report, counted>>
    BY DEF Stores
  <1>2. ReadTypes' BY <1>1 DEF ReadTypes
  <1>3. index[a] = {} BY <1>1 DEF IndexFollows
  <1>4. moment # NotReceived BY DEF ReadTypes, NotReceived
  <1>5. IndexFollows'
    <2>1. received'[a] = moment /\ status'[a] = "queued" BY <1>1 DEF ReadTypes
    <2>2. \A b \in Reads : b # a => received'[b] = received[b] /\ status'[b] = status[b]
      BY <1>1 DEF ReadTypes
    <2>3. NotReceived' = NotReceived BY DEF NotReceived
    <2> QED BY <1>1, <1>3, <1>4, <2>1, <2>2, <2>3 DEF IndexFollows
  <1>6. \A b \in Reads : received[b] # NotReceived => received'[b] = received[b]
    BY <1>1 DEF ReadTypes, IndexFollows
  <1>7. \A b \in Reads : index[b] # {} =>
           Text(received[b])' = Text(received[b]) /\ Position(b)' = Position(b)
    BY <1>6 DEF Text, Position, IndexFollows
  <1>8. \A b \in Reads : \A d : InDay(b, d) => InDay(b, d)'
    BY <1>6 DEF InDay, Midnight, Text, NotReceived
  <1>9. ListCovers' BY <1>1, <1>7 DEF ListCovers, ReadTypes
  <1>10. ReportCovers'
    <2>1. report.got \subseteq Reads /\ report.due \subseteq Reads BY DEF ReadTypes, ReportRec
    <2>2. \A b \in report.due : report.pc # "idle" => index[b] # {} BY DEF ReportCovers
    <2>3. \A b \in report.due : \A d :
             report.pc # "idle" => (Overlooked(b, d) => Overlooked(b, d)')
      BY <1>6, <2>1, <2>2 DEF IndexFollows, Overlooked, Fractions, Midnight
    <2> QED BY <1>1, <1>7, <1>8, <2>1, <2>2, <2>3 DEF ReportCovers
  <1> QED BY <1>2, <1>5, <1>9, <1>10

\* A verdict is written.
LEMMA JudgesKeeps ==
    ASSUME ReadsInv, NEW a \in Reads, Judges(a) PROVE ReadsInv'
  <1> USE DEF ReadsInv
  <1>1. /\ judged' = judged \cup {a}
        /\ UNCHANGED <<moment, received, status, index, list, shown, report, counted>>
    BY DEF Judges
  <1>2. ReadTypes' BY <1>1 DEF ReadTypes
  <1>3. IndexFollows' BY <1>1 DEF IndexFollows, NotReceived
  <1>4. ListCovers' BY <1>1, SamePlaces DEF ListCovers
  <1>5. ReportCovers' BY <1>1, SamePlaces DEF ReportCovers
  <1> QED BY <1>2, <1>3, <1>4, <1>5

\* The alert is marked triaged; the index follows later.
LEMMA MarksKeeps ==
    ASSUME ReadsInv, NEW a \in Reads, Marks(a) PROVE ReadsInv'
  <1> USE DEF ReadsInv
  <1>1. /\ status[a] = "queued" /\ a \in judged
        /\ status' = [status EXCEPT ![a] = "triaged"]
        /\ UNCHANGED <<moment, received, judged, index, list, shown, report, counted>>
    BY DEF Marks
  <1>2. ReadTypes' BY <1>1 DEF ReadTypes
  <1>3. IndexFollows' BY <1>1 DEF IndexFollows, NotReceived, ReadTypes
  <1>4. ListCovers' BY <1>1, SamePlaces DEF ListCovers
  <1>5. ReportCovers' BY <1>1, SamePlaces DEF ReportCovers
  <1> QED BY <1>2, <1>3, <1>4, <1>5

\* The index loses no entry of the present status: an alert under triaged stays there.
LEMMA FollowsKeeps ==
    ASSUME ReadsInv, NEW a \in Reads, Follows(a) PROVE ReadsInv'
  <1> USE DEF ReadsInv
  <1>1. /\ shown' = {b \in shown : index'[b] # {}}
        /\ UNCHANGED <<moment, received, status, judged, list, report, counted>>
        /\ index' = [index EXCEPT ![a] = index'[a]]
        /\ \/ status[a] # "absent" /\ index'[a] = index[a] \cup {status[a]}
           \/ index'[a] = index[a] \cap {status[a]}
    BY DEF Follows, ReadTypes
  <1>2. index'[a] \subseteq Statuses /\ (index'[a] # {} => status[a] # "absent")
    BY <1>1 DEF ReadTypes, Statuses, IndexFollows
  <1>3. \A b \in Reads : b # a => index'[b] = index[b] BY <1>1 DEF ReadTypes
  <1>4. \A b \in Reads : "triaged" \in index[b] => "triaged" \in index'[b]
    BY <1>1, <1>3 DEF IndexFollows
  <1>5. ReadTypes' BY <1>1, <1>2 DEF ReadTypes
  <1>6. IndexFollows'
    <2>1. "triaged" \in index'[a] => status[a] = "triaged" BY <1>1 DEF IndexFollows
    <2> QED BY <1>1, <1>2, <1>3, <2>1 DEF IndexFollows, NotReceived
  <1>7. ListCovers'
    <2>1. shown' \subseteq shown /\ shown \subseteq Reads BY <1>1 DEF ReadTypes
    <2> QED BY <1>1, <1>4, <2>1, SamePlaces DEF ListCovers
  <1>8. ReportCovers'
    <2>1. report.due \subseteq Reads BY DEF ReadTypes, ReportRec
    <2> QED BY <1>1, <1>4, <2>1, SamePlaces DEF ReportCovers
  <1> QED BY <1>5, <1>6, <1>7, <1>8

\* A list begins with all that the index has from its floor on.
LEMMA ListStartKeeps ==
    ASSUME ReadsInv, NEW floor \in Nat, ListStart(floor) PROVE ReadsInv'
  <1> USE DEF ReadsInv
  <1>1. /\ list' = [NoList EXCEPT !.pc = "queued", !.floor = floor]
        /\ shown' = {a \in Reads : index[a] # {} /\ Text(received[a]) >= floor}
        /\ UNCHANGED <<moment, received, status, judged, index, report, counted>>
    BY DEF ListStart, spineVars, _OPEN_STATUSES
  <1>2. list' \in ListRec /\ list'.pc = "queued" /\ list'.floor = floor
    BY <1>1 DEF NoList, ListRec, ListSteps
  <1>3. ReadTypes' BY <1>1, <1>2 DEF ReadTypes
  <1>4. IndexFollows' BY <1>1 DEF IndexFollows, NotReceived
  <1>5. ListCovers' BY <1>1, <1>2, SamePlaces DEF ListCovers
  <1>6. ReportCovers' BY <1>1, SamePlaces DEF ReportCovers
  <1> QED BY <1>3, <1>4, <1>5, <1>6

\* A query whose answer is whole returns what the index has under its status.
LEMMA QueryKeeps ==
    ASSUME ReadsInv, NEW s \in Statuses, NEW then \in ListSteps, QueryStatus(s, then),
           <<s, then>> \in {<<"queued", "triaged">>, <<"triaged", "answer">>}
    PROVE  ReadsInv'
  <1> USE DEF ReadsInv
  <1> DEFINE S == {a \in Reads : s \in index[a] /\ Text(received[a]) >= list.floor}
             got == list.got \cup {<<a, s>> : a \in AnswerOf(S)}
             whole == list.whole /\ AnswerOf(S) = S
  <1>1. /\ list.pc = s /\ list' = [list EXCEPT !.pc = then, !.got = got, !.whole = whole]
        /\ UNCHANGED <<moment, received, status, judged, index, shown, report, counted>>
    BY DEF QueryStatus, spineVars
  <1>2. got \in SUBSET (Reads \X Statuses) /\ whole \in BOOLEAN
    <2>1. AnswerOf(S) \subseteq Reads BY DEF AnswerOf
    <2>2. list.got \subseteq Reads \X Statuses BY DEF ReadTypes, ListRec
    <2> HIDE DEF S
    <2>3. {<<a, s>> : a \in AnswerOf(S)} \subseteq Reads \X Statuses BY <2>1
    <2>4. got \subseteq Reads \X Statuses BY <2>2, <2>3
    <2>5. whole \in BOOLEAN BY Zenon
    <2> QED BY <2>4, <2>5
  <1>3. whole => \A a \in shown : s \in index[a] => <<a, s>> \in got
    BY DEF ListCovers, ReadTypes
  <1>4. (whole => list.whole) /\ list.got \subseteq got
    <2>1. list.whole \in BOOLEAN BY DEF ReadTypes, ListRec
    <2>2. whole => list.whole BY <2>1, Zenon
    <2>3. list.got \subseteq got OBVIOUS
    <2> QED BY <2>2, <2>3
  <1> HIDE DEF got, whole
  <1>5. /\ list' \in ListRec /\ list'.pc = then /\ list'.got = got
        /\ list'.whole = whole /\ list'.floor = list.floor
    BY <1>1, <1>2 DEF ReadTypes, ListRec
  <1>6. ReadTypes' BY <1>1, <1>5 DEF ReadTypes
  <1>7. IndexFollows' BY <1>1 DEF IndexFollows, NotReceived
  <1>8. ListCovers'
    <2>1. /\ then # "idle"
          /\ \A a \in shown' : index'[a] # {} /\ Text(received[a])' >= list'.floor
      BY <1>1, <1>5, SamePlaces DEF ListCovers
    <2>2. CASE s = "queued" /\ then = "triaged"
      <3>1. \A a \in shown : index[a] \subseteq {"queued", "triaged"} /\ index[a] # {}
        BY DEF ListCovers, ReadTypes, Statuses
      <3>2. whole => \A a \in shown : <<a, "queued">> \in got \/ "triaged" \in index[a]
        BY <1>3, <2>2, <3>1
      <3> QED BY <1>1, <1>5, <2>1, <2>2, <3>2 DEF ListCovers
    <2>3. CASE s = "triaged" /\ then = "answer"
      <3>1. whole => \A a \in shown : <<a, "queued">> \in got \/ <<a, "triaged">> \in got
        BY <1>1, <1>3, <1>4, <2>3 DEF ListCovers
      <3>2. "queued" \in Statuses /\ "triaged" \in Statuses BY DEF Statuses
      <3> QED BY <1>1, <1>5, <2>1, <2>3, <3>1, <3>2 DEF ListCovers
    <2> QED BY <2>2, <2>3
  <1>9. ReportCovers' BY <1>1, SamePlaces DEF ReportCovers
  <1> QED BY <1>6, <1>7, <1>8, <1>9

\* The answer ends the list.
LEMMA ListEndKeeps ==
    ASSUME ReadsInv, ListEnd PROVE ReadsInv'
  <1> USE DEF ReadsInv
  <1>1. /\ list' = NoList /\ shown' = {}
        /\ UNCHANGED <<moment, received, status, judged, index, report, counted>>
    BY DEF ListEnd, spineVars
  <1>2. list' \in ListRec BY <1>1 DEF NoList, ListRec, ListSteps
  <1>3. ReadTypes' BY <1>1, <1>2 DEF ReadTypes
  <1>4. IndexFollows' BY <1>1 DEF IndexFollows, NotReceived
  <1>5. ListCovers' BY <1>1 DEF ListCovers
  <1>6. ReportCovers' BY <1>1, SamePlaces DEF ReportCovers
  <1> QED BY <1>3, <1>4, <1>5, <1>6

\* A report begins before the first position of its day, and all that is due lies
\* after it.
LEMMA ReportStartKeeps ==
    ASSUME ReadsInv, ReportStart PROVE ReadsInv'
  <1> USE DEF ReadsInv
  <1> DEFINE day == Day(moment) - 1
             due == {a \in Reads : OfDay(a, day) /\ "triaged" \in index[a]}
  <1>1. /\ report.pc = "idle" /\ Day(moment) > 0
        /\ report' = [NoReport EXCEPT !.pc = "query", !.day = day, !.due = due]
        /\ UNCHANGED <<moment, received, status, judged, index, list, shown, counted>>
    BY DEF ReportStart, spineVars
  <1>2. day \in Nat BY <1>1 DEF Day, ReadTypes
  <1>3. /\ due \subseteq Reads
        /\ \A a \in due : "triaged" \in index[a] /\ (InDay(a, day) \/ Overlooked(a, day))
    <2> HIDE DEF day
    <2> QED BY <1>2, OfDayIsInDay
  <1> HIDE DEF day, due
  <1>4. /\ report' \in ReportRec /\ report'.pc = "query" /\ report'.day = day
        /\ report'.due = due /\ report'.after = 0 /\ report'.got = {}
    <2>1. report' = [pc |-> "query", day |-> day, after |-> 0, got |-> {}, due |-> due]
      BY <1>1 DEF NoReport
    <2>2. "query" \in ReportSteps BY DEF ReportSteps
    <2>3. [pc |-> "query", day |-> day, after |-> 0, got |-> {}, due |-> due] \in ReportRec
      BY <1>2, <1>3, <2>2 DEF ReportRec
    <2> QED BY <2>1, <2>3
  <1>5. ReadTypes' BY <1>1, <1>4 DEF ReadTypes
  <1>6. IndexFollows' BY <1>1 DEF IndexFollows, NotReceived
  <1>7. ListCovers' BY <1>1, SamePlaces DEF ListCovers
  <1>8. \A a \in due : Position(a) > 0 \/ Overlooked(a, day)
    <2> SUFFICES ASSUME NEW a \in due, ~Overlooked(a, day) PROVE Position(a) > 0 OBVIOUS
    <2>1. a \in Reads /\ InDay(a, day) BY <1>3
    <2>2. Text(3 * day) = 3 * day + 1 BY <1>2, TextOf
    <2>3. Text(received[a]) \in Int /\ Text(received[a]) >= 1
      BY <1>2, <2>1, <2>2, PositionIsInt DEF InDay, Midnight
    <2>4. a \in Nat BY <2>1, ReadBounds
    <2> QED BY <2>3, <2>4 DEF Position
  <1>9. ReportCovers' BY <1>1, <1>3, <1>4, <1>8, SamePlaces DEF ReportCovers
  <1> QED BY <1>5, <1>6, <1>7, <1>9

\* What is due and not on the page lies after the page, hence after the next position.
LEMMA ReportPageKeeps ==
    ASSUME ReadsInv, ReportPage PROVE ReadsInv'
  <1> USE DEF ReadsInv
  <1> DEFINE more == {a \in Triaged(report.day) : Position(a) > report.after}
             page == AnswerOf(more)
             got == report.got \cup page
             after == IF page = {} THEN report.after
                      ELSE CHOOSE p \in {Position(a) : a \in page} : \A a \in page : Position(a) <= p
             pc == IF more = page THEN "build" ELSE "query"
  <1>1. /\ report.pc = "query"
        /\ report' = [report EXCEPT !.got = got, !.after = after, !.pc = pc]
        /\ UNCHANGED <<moment, received, status, judged, index, list, shown, counted>>
    BY DEF ReportPage, spineVars
  <1>2. more \subseteq Reads /\ page \subseteq more /\ \A a \in more : InDay(a, report.day)
    BY DEF Triaged, AnswerOf
  <1>3. page # {} => after \in {Position(a) : a \in page} /\ \A a \in page : Position(a) <= after
    <2> SUFFICES ASSUME page # {}
                 PROVE after \in {Position(a) : a \in page} /\ \A a \in page : Position(a) <= after
      OBVIOUS
    <2>1. page \in SUBSET Reads BY <1>2
    <2>2. after = CHOOSE p \in {Position(a) : a \in page} : \A a \in page : Position(a) <= p
      OBVIOUS
    <2> HIDE DEF page, after
    <2>3. \E p \in {Position(a) : a \in page} : \A a \in page : Position(a) <= p
      BY <2>1, LastOfPage
    <2> QED BY <2>2, <2>3
  <1>4. after \in Int
    <2>1. page = {} => after = report.after OBVIOUS
    <2>2. page \subseteq Reads /\ report.after \in Int BY <1>2 DEF ReadTypes, ReportRec
    <2> HIDE DEF page, after
    <2> QED BY <1>3, <2>1, <2>2, PositionIsInt
  <1>5. \A a \in report.due : a \in report.got \/ a \in more \/ Overlooked(a, report.day)
    <2> SUFFICES ASSUME NEW a \in report.due, a \notin report.got, ~Overlooked(a, report.day)
                 PROVE  a \in more
      OBVIOUS
    <2>1. a \in Reads BY DEF ReadTypes, ReportRec
    <2>2. "triaged" \in index[a] /\ InDay(a, report.day) /\ Position(a) > report.after
      BY <1>1 DEF ReportCovers
    <2> QED BY <2>1, <2>2 DEF Triaged
  <1>6. \A a \in more : a \in page \/ Position(a) > after
    <2> SUFFICES ASSUME NEW a \in more, a \notin page PROVE Position(a) > after OBVIOUS
    <2>1. a \in Reads /\ more \in SUBSET Reads BY <1>2
    <2>2. CASE page = {}
      <3>1. after = report.after /\ Position(a) > report.after BY <2>2
      <3> QED BY <3>1
    <2>3. CASE page # {}
      <3>1. PICK b \in page : after = Position(b) BY <1>3, <2>3
      <3> HIDE DEF more, after
      <3>2. Position(a) > Position(b) BY <2>1, <3>1, PageIsOldest
      <3> QED BY <3>1, <3>2
    <2> QED BY <2>2, <2>3
  <1>7. got \subseteq Reads /\ pc \in ReportSteps /\ page \subseteq got /\ report.got \subseteq got
    BY <1>2 DEF ReadTypes, ReportRec, ReportSteps
  <1>8. /\ pc = "build" => more = page
        /\ pc \in {"build", "query"}
        /\ \A a \in got : a \in report.got \/ a \in more
    BY <1>2
  <1> HIDE DEF more, page, got, after, pc
  <1>9. /\ report' \in ReportRec /\ report'.pc = pc /\ report'.got = got /\ report'.after = after
        /\ report'.day = report.day /\ report'.due = report.due
    BY <1>1, <1>4, <1>7 DEF ReadTypes, ReportRec
  <1>10. ReadTypes' BY <1>1, <1>9 DEF ReadTypes
  <1>11. IndexFollows' BY <1>1 DEF IndexFollows, NotReceived
  <1>12. ListCovers' BY <1>1, SamePlaces DEF ListCovers
  <1>13. ReportCovers'
    <2>1. \A a \in report'.due :
             "triaged" \in index'[a] /\ (InDay(a, report.day)' \/ Overlooked(a, report.day)')
      BY <1>1, <1>9, SamePlaces DEF ReportCovers
    <2>2. \A a \in report'.got : InDay(a, report.day)'
      BY <1>1, <1>2, <1>8, <1>9, SamePlaces DEF ReportCovers
    <2>3. report'.pc = "query" => \A a \in report'.due :
             a \in report'.got \/ Position(a)' > report'.after \/ Overlooked(a, report.day)'
      BY <1>1, <1>5, <1>6, <1>7, <1>9, SamePlaces
    <2>4. report'.pc \in {"build", "done"} => \A a \in report'.due :
             a \in report'.got \/ Overlooked(a, report.day)'
      BY <1>1, <1>5, <1>7, <1>8, <1>9, SamePlaces
    <2>5. \A a \in Reads : \A d \in counted'[a] : InDay(a, d)'
      BY <1>1, SamePlaces DEF ReportCovers
    <2> QED BY <2>1, <2>2, <2>3, <2>4, <2>5 DEF ReportCovers
  <1> QED BY <1>10, <1>11, <1>12, <1>13

\* What the pages returned is counted for the day.
LEMMA ReportBuiltKeeps ==
    ASSUME ReadsInv, ReportBuilt PROVE ReadsInv'
  <1> USE DEF ReadsInv
  <1> DEFINE got == Considered
  <1>1. /\ report.pc = "build"
        /\ counted' = [a \in Reads |-> IF a \in got THEN counted[a] \cup {report.day} ELSE counted[a]]
        /\ report' = [report EXCEPT !.pc = "done", !.got = got]
        /\ UNCHANGED <<moment, received, status, judged, index, list, shown>>
    BY DEF ReportBuilt, spineVars
  <1>2. got \subseteq report.got /\ report.got \subseteq Reads
    BY DEF Considered, ReadTypes, ReportRec
  <1>3. \A a \in report.due : a \in got \/ Overlooked(a, report.day)
    <2> SUFFICES ASSUME NEW a \in report.due, ~Overlooked(a, report.day) PROVE a \in got OBVIOUS
    <2>1. a \in Reads BY DEF ReadTypes, ReportRec
    <2>2. a \in report.got /\ "triaged" \in index[a] BY <1>1 DEF ReportCovers
    <2> QED BY <2>1, <2>2 DEF Considered, IndexFollows
  <1> HIDE DEF got
  <1>4. /\ report' \in ReportRec /\ report'.pc = "done" /\ report'.got = got
        /\ report'.day = report.day /\ report'.due = report.due
    BY <1>1, <1>2 DEF ReadTypes, ReportRec, ReportSteps
  <1>5. counted' \in [Reads -> SUBSET Nat]
    BY <1>1 DEF ReadTypes, ReportRec
  <1>6. ReadTypes' BY <1>1, <1>4, <1>5 DEF ReadTypes
  <1>7. IndexFollows' BY <1>1 DEF IndexFollows, NotReceived
  <1>8. ListCovers' BY <1>1, SamePlaces DEF ListCovers
  <1>9. \A a \in Reads : \A d \in counted'[a] : InDay(a, d)'
    BY <1>1, <1>2, SamePlaces DEF ReportCovers
  <1>10. ReportCovers' BY <1>1, <1>2, <1>3, <1>4, <1>9, SamePlaces DEF ReportCovers
  <1> QED BY <1>6, <1>7, <1>8, <1>10

\* The report is over.
LEMMA ReportEndsKeeps ==
    ASSUME ReadsInv, ReportEnds PROVE ReadsInv'
  <1> USE DEF ReadsInv
  <1>1. /\ report' = NoReport
        /\ UNCHANGED <<moment, received, status, judged, index, list, shown, counted>>
    BY DEF ReportEnds, spineVars
  <1>2. report' \in ReportRec /\ report'.pc = "idle" BY <1>1 DEF NoReport, ReportRec, ReportSteps
  <1>3. ReadTypes' BY <1>1, <1>2 DEF ReadTypes
  <1>4. IndexFollows' BY <1>1 DEF IndexFollows, NotReceived
  <1>5. ListCovers' BY <1>1, SamePlaces DEF ListCovers
  <1>6. ReportCovers' BY <1>1, <1>2, SamePlaces DEF ReportCovers
  <1> QED BY <1>3, <1>4, <1>5, <1>6

----------------------------------------------------------------------------
(* The theorems. *)

\* The readers' invariant holds in every reachable state.
THEOREM ReadsInvariance == SpineReadsSpec => []ReadsInv
  <1>1. ReadsInv /\ [SpineReadsNext]_readVars => ReadsInv'
    <2> SUFFICES ASSUME ReadsInv, [SpineReadsNext]_readVars PROVE ReadsInv' OBVIOUS
    <2>1. ASSUME NEW m \in 1 .. reads.moments, Later(m) PROVE ReadsInv' BY <2>1, LaterKeeps
    <2>2. ASSUME NEW a \in Reads, Stores(a) PROVE ReadsInv' BY <2>2, StoresKeeps
    <2>3. ASSUME NEW a \in Reads, Judges(a) PROVE ReadsInv' BY <2>3, JudgesKeeps
    <2>4. ASSUME NEW a \in Reads, Marks(a) PROVE ReadsInv' BY <2>4, MarksKeeps
    <2>5. ASSUME NEW a \in Reads, Follows(a) PROVE ReadsInv' BY <2>5, FollowsKeeps
    <2>6. ASSUME NEW floor \in {0, 2}, ListStart(floor) PROVE ReadsInv'
      <3>1. floor \in Nat OBVIOUS
      <3> QED BY <2>6, <3>1, ListStartKeeps
    <2>7. CASE Query
      <3>1. CASE QueryStatus("queued", "triaged")
        BY <3>1, QueryKeeps DEF Statuses, ListSteps
      <3>2. CASE QueryStatus("triaged", "answer")
        BY <3>2, QueryKeeps DEF Statuses, ListSteps
      <3> QED BY <2>7, <3>1, <3>2 DEF Query, _OPEN_STATUSES
    <2>8. CASE ListEnd BY <2>8, ListEndKeeps
    <2>9. CASE ReportStart BY <2>9, ReportStartKeeps
    <2>10. CASE ReportPage BY <2>10, ReportPageKeeps
    <2>11. CASE ReportBuilt BY <2>11, ReportBuiltKeeps
    <2>12. CASE ReportEnds BY <2>12, ReportEndsKeeps
    <2>13. CASE UNCHANGED readVars
      <3>1. UNCHANGED <<moment, received, status, judged, index, list, shown, report, counted>>
        BY <2>13 DEF readVars
      <3>2. ReadTypes' BY <3>1 DEF ReadsInv, ReadTypes
      <3>3. IndexFollows' BY <3>1 DEF ReadsInv, IndexFollows, NotReceived
      <3>4. ListCovers' /\ ReportCovers'
        BY <3>1, SamePlaces DEF ReadsInv, ListCovers, ReportCovers
      <3> QED BY <3>2, <3>3, <3>4 DEF ReadsInv
    <2> QED
      BY <2>1, <2>2, <2>3, <2>4, <2>5, <2>6, <2>7, <2>8, <2>9, <2>10, <2>11, <2>12, <2>13
      DEF SpineReadsNext
  <1> QED BY <1>1, ReadsStart, PTL DEF SpineReadsSpec

\* A list's answer is finite, so that its length can be compared with the limit.
LEMMA ListIsFinite == ReadTypes => IsFiniteSet(list.got)
  <1>1. IsFiniteSet(Statuses)
    <2>1. IsFiniteSet({"queued"}) BY FS_Singleton
    <2>2. IsFiniteSet({"queued"} \cup {"triaged"}) BY <2>1, FS_AddElement
    <2>3. Statuses = {"queued"} \cup {"triaged"} BY DEF Statuses
    <2> QED BY <2>2, <2>3
  <1>2. IsFiniteSet(Reads \X Statuses) BY <1>1, ReadBounds, FS_Product
  <1>3. ReadTypes => list.got \subseteq Reads \X Statuses BY DEF ReadTypes, ListRec
  <1> QED BY <1>2, <1>3, FS_Subset

\* What the invariant says of a list that was not cut off.
LEMMA ShortListIsWhole == ReadsInv => ListMissesNothing
  <1> SUFFICES ASSUME ReadsInv, list.pc = "answer", list.whole, Cardinality(list.got) <= ListLimit
               PROVE  shown \subseteq Listed
    BY DEF ListMissesNothing
  <1>1. SUFFICES ASSUME NEW a \in shown PROVE a \in Listed OBVIOUS
  <1>2. PICK s \in Statuses : <<a, s>> \in list.got BY DEF ReadsInv, ListCovers
  <1> DEFINE e == <<a, s>>
             ahead == {f \in list.got : Before(f, e)}
  <1>3. IsFiniteSet(list.got) BY ListIsFinite DEF ReadsInv
  <1>4. ~Before(e, e)
    <2>1. e[1] = a /\ e[2] = s /\ a \in Reads BY DEF ReadsInv, ReadTypes
    <2>2. Text(received[a]) \in Int /\ Position(a) \in Int BY <2>1, PositionIsInt DEF ReadsInv
    <2>3. ~Newer(a, a) BY <2>2 DEF Newer
    <2>4. ~(Text(received[a]) > Text(received[a])) BY <2>2
    <2> QED BY <2>1, <2>3, <2>4, Zenon DEF Before
  <1>5. ahead \subseteq list.got /\ e \in list.got /\ e \notin ahead BY <1>2, <1>4
  <1> HIDE DEF ahead
  <1>6. Cardinality(ahead) < Cardinality(list.got) 
    <2> HIDE DEF e
    <2>1. Cardinality(ahead) <= Cardinality(list.got) /\ Cardinality(ahead) # Cardinality(list.got)
      BY <1>3, <1>5, FS_Subset
    <2>2. Cardinality(ahead) \in Nat /\ Cardinality(list.got) \in Nat
      BY <1>3, <1>5, FS_Subset, FS_CardinalityType
    <2> QED BY <2>1, <2>2
  <1>7. Cardinality(ahead) \in Nat /\ Cardinality(list.got) \in Nat
    BY <1>3, <1>5, FS_Subset, FS_CardinalityType
  <1>8. Cardinality(ahead) < ListLimit BY <1>6, <1>7, ReadBounds
  <1>9. Cardinality({f \in list.got : Before(f, e)}) < ListLimit BY <1>8 DEF ahead
  <1>10. e[1] = a OBVIOUS
  <1> HIDE DEF e
  <1> QED BY <1>5, <1>9, <1>10 DEF Listed

\* What it says of a report.
LEMMA EveryReportAddsUp == ReadsInv => ReportsAddUp
  <1> SUFFICES ASSUME ReadsInv PROVE ReportsAddUp OBVIOUS
  <1>1. ASSUME report.pc = "done"
        PROVE  /\ \A a \in report.due : a \in report.got \/ received[a] = Fractions(report.day)
               /\ \A a \in report.got :
                     \/ OfDay(a, report.day) /\ received[a] # Fractions(report.day)
                     \/ received[a] \in {Midnight(report.day + 1), Fractions(report.day + 1)}
    <2>1. report.got \subseteq Reads /\ report.day \in Nat /\ ReadTypes
      BY DEF ReadsInv, ReadTypes, ReportRec
    <2>2. \A a \in report.got : InDay(a, report.day) BY <1>1 DEF ReadsInv, ReportCovers
    <2>3. \A a \in report.due : a \in report.got \/ Overlooked(a, report.day)
      BY <1>1 DEF ReadsInv, ReportCovers
    <2>4. \A a \in report.due : a \in report.got \/ received[a] = Fractions(report.day)
      BY <2>3 DEF Overlooked
    <2> QED BY <2>1, <2>2, <2>4, InDayIs
  <1>2. \A a \in Reads : Cardinality(counted[a]) <= IF received[a] % 3 = 0 THEN 2 ELSE 1
    <2> TAKE a \in Reads
    <2>1. counted[a] \in SUBSET Nat /\ \A d \in counted[a] : InDay(a, d)
      BY DEF ReadsInv, ReadTypes, ReportCovers
    <2> QED BY <2>1, FewDays DEF ReadsInv
  <1> QED BY <1>1, <1>2 DEF ReportsAddUp

\* A list that is not cut off shows every alert that was in the index for its
\* whole run, under one status or the other, although the two statuses are queried
\* one after the other while alerts move between them (handler.py of the console).
THEOREM ListsMissNothing == SpineReadsSpec => []ListMissesNothing
  BY ReadsInvariance, ShortListIsWhole, PTL

\* A daily report counts every alert of its UTC day that was triaged in the index
\* when the report began, but for the fractions of the day's first second; it counts
\* no alert of another day but for the first second of the next, and over all
\* reports none twice but for one that came at midnight itself, however many pages
\* the day has.
THEOREM ReportsAlwaysAddUp == SpineReadsSpec => []ReportsAddUp
  BY ReadsInvariance, EveryReportAddsUp, PTL

\* Every variable of the readers keeps its type.
THEOREM ReadsTypeSafety == SpineReadsSpec => []SpineReadsTypeOK
  <1>1. ReadsInv => SpineReadsTypeOK
    BY DEF ReadsInv, ReadTypes, IndexFollows, SpineReadsTypeOK, ReportRec, Statuses
  <1> QED BY <1>1, ReadsInvariance, PTL

-------------------------------------------------------------------------------
(***************************************************************************)
(* KnownIssues. IdsHaveOwners is what makes LatestTeachingStays inductive: *)
(* a request that deletes an id, or keeps it, is about the pattern that id *)
(* has always had.                                                         *)
(***************************************************************************)

\* The members of a sequence.
In(s) == {s[n] : n \in 1 .. Len(s)}

\* Writer w has a request at work.
On(w) == job[w] # NoJob

\* The pattern the request is about, as the table tells patterns apart.
KeyOf(w) == Fold[job[w].pat]

\* An item of the backup, and the records of an import and an export.
ItemRecord == [id : Ids, pat : Patterns, blank : BOOLEAN]
ImportRecord == [pc : {"items"}, have : SUBSET Patterns, items : Seq(ItemRecord), done : Nat,
                 failed : BOOLEAN, forgot : SUBSET IssueKeys]
ExportRecord == [pc : {"scan", "store"}, after : Nat, got : Seq(ItemRecord), stayed : SUBSET Ids]

\* The types, and that no id is used before the put that makes it.
CardTypes ==
    /\ puts \in 0 .. MaxPuts
    /\ cards \in [Ids -> CardRecord \cup {NoCard}]
    /\ \A i \in Present : i <= puts /\ cards[i].first < cards[i].at /\ cards[i].at <= puts
    /\ \A i, j \in Present : cards[i].at = cards[j].at => i = j

\* What a request claims was there when it looked: its ids are old.
JobTypes ==
    /\ job \in [Writers -> Job \cup {NoJob}]
    /\ \A w \in Writers : On(w) =>
         /\ job[w].first <= puts /\ job[w].keep <= puts
         /\ In(job[w].rest) \cup job[w].gone \subseteq 1 .. puts
         /\ (job[w].pc = "delete") <=> (job[w].rest # <<>>)

\* The types of the table, the requests and the history.
KnownTypes ==
    /\ CardTypes /\ JobTypes
    /\ latest \in [IssueKeys -> 0 .. puts]
    /\ orphaned \subseteq Ids

\* An id is only ever used for one pattern: o says for which.
Owns(o) ==
    /\ \A i \in Present : Fold[cards[i].pat] = o[i]
    /\ \A w \in Writers : On(w) =>
         /\ job[w].keep # 0 => o[job[w].keep] = KeyOf(w)
         /\ \A i \in In(job[w].rest) \cup job[w].gone : o[i] = KeyOf(w)
    /\ \A k \in IssueKeys : latest[k] # 0 => o[latest[k]] = k

\* The ids put so far have such owners.
IdsHaveOwners == \E o \in [1 .. puts -> IssueKeys] : Owns(o)

\* What a request that is alone has yet to do is all there is of its pattern.
AloneCollapses ==
    \A w \in Writers : (On(w) /\ job[w].alone) =>
        /\ \A v \in Writers : (On(v) /\ KeyOf(v) = KeyOf(w)) => v = w
        /\ \A i \in Present : Fold[cards[i].pat] = KeyOf(w) =>
              i \in {job[w].keep} \cup In(job[w].rest)
        /\ job[w].keep \in Present => job[w].first # 0 /\ job[w].first <= cards[job[w].keep].at

\* A request dates its card no later than any copy it found.
DatesKept ==
    \A w \in Writers : On(w) =>
        \A t \in job[w].found : job[w].first # 0 /\ job[w].first <= t

\* Why a pattern of the backup need not be posted (again).
Restored(k) ==
    \/ CardsOf(k) # {}
    \/ k \in import.forgot
    \/ \E w \in Writers : On(w) /\ KeyOf(w) = k /\ job[w].gone # {}
    \/ orphaned # {}

\* The types of the backup and of the import.
ImportTypes ==
    /\ backup \in Seq(ItemRecord)
    /\ import # NoJob => import \in ImportRecord /\ import.done <= Len(import.items)

\* The import saw the pattern in the table when it began.
Had(k) == \E p \in import.have : Fold[p] = k

\* The import has come past an item of the pattern.
Done(k) == \E n \in 1 .. import.done : Fold[import.items[n].pat] = k

\* The import's own request about the pattern is at work.
Posting(k) == On(Importer) /\ KeyOf(Importer) = k

\* What the import had, or has come past, is restored, or being posted.
ImportInv ==
    import # NoJob =>
        /\ \A k \in IssueKeys : Had(k) => Restored(k)
        /\ import.failed \/ \A k \in IssueKeys : Done(k) => Restored(k) \/ Posting(k)

\* The export has every card that stayed, as far as it has come, and none twice.
ExportInv ==
    export # NoJob =>
        /\ export \in ExportRecord
        /\ export.stayed \subseteq Present
        /\ \A n \in 1 .. Len(export.got) : export.got[n].id <= export.after
        /\ \A m, n \in 1 .. Len(export.got) : export.got[m].id = export.got[n].id => m = n
        /\ \A i \in export.stayed :
              (i <= export.after \/ export.pc = "store") =>
                  \E n \in 1 .. Len(export.got) : export.got[n].id = i

----------------------------------------------------------------------------
(* Sequences and sets. *)

\* Only the empty sequence has no members.
LEMMA Empty0 == ASSUME NEW S, NEW s \in Seq(S) PROVE (s = <<>>) <=> (Len(s) = 0)
  BY EmptySeq

\* The head of a sequence and what its tail is.
LEMMA InIs ==
    ASSUME NEW S, NEW s \in Seq(S), s # <<>>
    PROVE  /\ Head(s) \in S /\ Tail(s) \in Seq(S)
           /\ In(s) = {Head(s)} \cup In(Tail(s))
           /\ (Len(s) = 1) <=> (Tail(s) = <<>>)
  <1>1. /\ Head(s) = s[1] /\ Tail(s) \in Seq(S) /\ Len(Tail(s)) = Len(s) - 1
        /\ \A n \in 1 .. Len(Tail(s)) : Tail(s)[n] = s[n + 1]
        /\ Len(s) \in Nat \ {0}
    BY EmptySeq, HeadTailProperties
  <1>2. Head(s) \in S BY <1>1
  <1>3. In(s) \subseteq {Head(s)} \cup In(Tail(s))
    <2> SUFFICES ASSUME NEW n \in 1 .. Len(s), n # 1 PROVE s[n] \in In(Tail(s))
      BY <1>1 DEF In
    <2>1. n - 1 \in 1 .. Len(Tail(s)) BY <1>1
    <2>2. Tail(s)[n - 1] = s[n - 1 + 1] BY <1>1, <2>1
    <2>3. n - 1 + 1 = n OBVIOUS
    <2> QED BY <2>1, <2>2, <2>3 DEF In
  <1>4. {Head(s)} \cup In(Tail(s)) \subseteq In(s)
    <2>1. Head(s) \in In(s) BY <1>1 DEF In
    <2>2. ASSUME NEW n \in 1 .. Len(Tail(s)) PROVE Tail(s)[n] \in In(s)
      <3>1. n + 1 \in 1 .. Len(s) /\ Tail(s)[n] = s[n + 1] BY <1>1
      <3> QED BY <3>1 DEF In
    <2> QED BY <2>1, <2>2 DEF In
  <1>5. (Len(s) = 1) <=> (Tail(s) = <<>>)
    <2> DEFINE t == Tail(s)
    <2>1. t \in Seq(S) /\ ((Len(s) = 1) <=> (Len(t) = 0)) BY <1>1
    <2> HIDE DEF t
    <2>2. (t = <<>>) <=> (Len(t) = 0) BY <2>1, Empty0
    <2> QED BY <2>1, <2>2 DEF t
  <1> QED BY <1>1, <1>2, <1>3, <1>4, <1>5

\* Every rank is taken, so InOrder lists S, by rising b, each member once.
LEMMA InOrderIs ==
    ASSUME NEW S, IsFiniteSet(S), NEW b \in [S -> Int], \A i, j \in S : b[i] = b[j] => i = j
    PROVE  /\ InOrder(S, b) \in Seq(S) /\ Len(InOrder(S, b)) = Cardinality(S)
           /\ \A n \in 1 .. Cardinality(S) :
                 Cardinality({j \in S : b[j] <= b[InOrder(S, b)[n]]}) = n
           /\ \A i \in S : \E n \in 1 .. Cardinality(S) : InOrder(S, b)[n] = i
  <1> DEFINE upto(i) == {j \in S : b[j] <= b[i]}
             rank == [i \in S |-> Cardinality(upto(i))]
             R == {rank[i] : i \in S}
             N == 1 .. Cardinality(S)
  <1>0. Cardinality(S) \in Nat BY FS_CardinalityType
  <1>1. \A i \in S : IsFiniteSet(upto(i)) /\ Cardinality(upto(i)) \in N
    <2> TAKE i \in S
    <2>1. upto(i) \subseteq S /\ i \in upto(i) OBVIOUS
    <2> HIDE DEF upto
    <2>2. IsFiniteSet(upto(i)) /\ Cardinality(upto(i)) <= Cardinality(S) BY <2>1, FS_Subset
    <2>3. Cardinality(upto(i)) \in Nat /\ Cardinality(upto(i)) # 0
      BY <2>1, <2>2, FS_CardinalityType, FS_EmptySet
    <2> QED BY <1>0, <2>2, <2>3
  <1>2. \A i, j \in S : b[i] < b[j] => rank[i] < rank[j]
    <2> SUFFICES ASSUME NEW i \in S, NEW j \in S, b[i] < b[j]
                 PROVE  Cardinality(upto(i)) < Cardinality(upto(j))
      OBVIOUS
    <2>1. upto(i) \subseteq upto(j) /\ j \in upto(j) /\ j \notin upto(i) OBVIOUS
    <2> HIDE DEF upto
    <2>2. Cardinality(upto(i)) <= Cardinality(upto(j)) /\ Cardinality(upto(i)) # Cardinality(upto(j))
      BY <1>1, <2>1, FS_Subset
    <2>3. Cardinality(upto(i)) \in Int /\ Cardinality(upto(j)) \in Int BY <1>1
    <2> QED BY <2>2, <2>3
  <1>3. \A i \in S : rank[i] \in N BY <1>1
  <1>4. \A i, j \in S : rank[i] = rank[j] => i = j
    <2> SUFFICES ASSUME NEW i \in S, NEW j \in S, rank[i] = rank[j], i # j PROVE FALSE OBVIOUS
    <2>1. b[i] < b[j] \/ b[j] < b[i] OBVIOUS
    <2>2. rank[i] \in Int /\ rank[j] \in Int BY <1>3
    <2> HIDE DEF rank
    <2> QED BY <1>2, <2>1, <2>2
  <1>5. R = N
    <2>1. R \subseteq N BY <1>3
    <2>2. rank \in [S -> R] OBVIOUS
    <2> HIDE DEF rank
    <2>3. rank \in Surjection(S, R) /\ rank \in Injection(S, R)
      BY <1>4, <2>2 DEF Surjection, Injection, IsInjective
    <2> HIDE DEF R
    <2>4. Cardinality(R) = Cardinality(S) BY <2>3, FS_Surjection
    <2>5. IsFiniteSet(N) /\ Cardinality(N) = Cardinality(S)
      <3>1. 1 \in Int /\ Cardinality(S) \in Int BY <1>0
      <3>2. IsFiniteSet(N) /\ Cardinality(N) = IF 1 > Cardinality(S) THEN 0 ELSE Cardinality(S) - 1 + 1
        BY <3>1, FS_Interval
      <3> QED BY <1>0, <3>2
    <2> HIDE DEF N
    <2> QED BY <2>1, <2>4, <2>5, FS_Subset
  <1> DEFINE s == InOrder(S, b)
             has(n) == {i \in S : rank[i] = n}
  <1>6. \A n \in N : \E i \in S : rank[i] = n BY <1>5
  <1>7. s = [n \in N |-> CHOOSE i \in S : Cardinality(upto(i)) = n] BY DEF InOrder
  <1>8. \A n \in N : s[n] \in S /\ rank[s[n]] = n
    <2> TAKE n \in N
    <2>1. s[n] = CHOOSE i \in S : Cardinality(upto(i)) = n BY <1>7
    <2>2. \E i \in S : Cardinality(upto(i)) = n BY <1>6
    <2>3. s[n] \in S /\ Cardinality(upto(s[n])) = n BY <2>1, <2>2
    <2> QED BY <2>3
  <1>9. s \in [N -> S]
    <2> HIDE DEF upto, rank
    <2> QED BY <1>7, <1>8
  <1>10. s \in Seq(S) /\ Len(s) = Cardinality(S) BY <1>0, <1>9
  <1>11. \A n \in N : Cardinality({j \in S : b[j] <= b[s[n]]}) = n BY <1>8
  <1>12. \A i \in S : \E n \in N : s[n] = i
    <2> TAKE i \in S
    <2>1. rank[i] \in N BY <1>3
    <2>2. s[rank[i]] \in S /\ rank[s[rank[i]]] = rank[i] BY <1>8, <2>1
    <2> QED BY <1>4, <2>1, <2>2
  <1> QED BY <1>10, <1>11, <1>12

----------------------------------------------------------------------------
(* What a request finds. *)

\* A writer's request, if it has one, is a record.
LEMMA JobsAre ==
    ASSUME KnownTypes, NEW w \in Writers
    PROVE  /\ On(w) => job[w] \in Job
           /\ ~On(w) => job[w] = NoJob
  BY DEF KnownTypes, JobTypes, On

\* No record is the absence of one.
LEMMA AJobIsNotNone == ASSUME NEW j \in Job PROVE j # NoJob
  <1>1. j.pc # "idle" BY DEF Job
  <1>2. NoJob.pc = "idle" BY DEF NoJob
  <1> QED BY <1>1, <1>2

\* The cards in the table are finitely many and have patterns.
LEMMA PresentAre ==
    ASSUME KnownTypes
    PROVE  /\ IsFiniteSet(Ids) /\ IsFiniteSet(Present) /\ Present \subseteq Ids
           /\ \A i \in Present : cards[i] \in CardRecord /\ Fold[cards[i].pat] \in IssueKeys
  <1>1. IsFiniteSet(Ids) BY KnownBounds, FS_Interval DEF Ids
  <1>2. Present \subseteq Ids BY DEF Present
  <1>3. IsFiniteSet(Present) BY <1>1, <1>2, FS_Subset
  <1>4. \A i \in Present : cards[i] \in CardRecord BY DEF Present, KnownTypes, CardTypes
  <1>5. \A i \in Present : Fold[cards[i].pat] \in IssueKeys BY <1>4 DEF CardRecord, IssueKeys
  <1> QED BY <1>1, <1>2, <1>3, <1>4, <1>5

\* What a request plans on seeing these copies.
LEMMA NewJobIs ==
    ASSUME KnownTypes, NEW p \in Patterns, NEW bl \in BOOLEAN, NEW seen \in SUBSET Present
    PROVE  /\ NewJob(p, bl, seen) \in Job
           /\ NewJob(p, bl, seen).pat = p /\ NewJob(p, bl, seen).gone = {}
           /\ (NewJob(p, bl, seen).pc = "delete") <=> (NewJob(p, bl, seen).rest # <<>>)
           /\ NewJob(p, bl, seen).first <= puts
           /\ seen = {} => NewJob(p, bl, seen).keep = 0 /\ NewJob(p, bl, seen).rest = <<>>
           /\ seen # {} =>
                LET j == NewJob(p, bl, seen)
                IN  /\ seen = {j.keep} \cup In(j.rest)
                    /\ j.first # 0 /\ j.first <= cards[j.keep].at
           /\ \A t \in NewJob(p, bl, seen).found :
                 NewJob(p, bl, seen).first # 0 /\ NewJob(p, bl, seen).first <= t
           /\ NewJob(p, bl, seen).alone
                 <=> (Busy(Fold[p]) = {} /\ Cardinality(Present) <= CardPage)
  <1> DEFINE at == [i \in seen |-> cards[i].at]
             dups == InOrder(seen, at)
             al == Busy(Fold[p]) = {} /\ Cardinality(Present) <= CardPage
             keep == IF dups = <<>> THEN 0 ELSE dups[1]
             first == IF dups = <<>> THEN 0
                      ELSE IF cards[dups[1]].first # 0 THEN cards[dups[1]].first
                      ELSE cards[dups[1]].at
             rest == IF dups = <<>> THEN <<>> ELSE Tail(dups)
             pc == IF Len(dups) > 1 THEN "delete" ELSE "put"
             found == {cards[i].at : i \in seen}
             j == [pc |-> pc, pat |-> p, blank |-> bl, keep |-> keep, first |-> first,
                   rest |-> rest, gone |-> {}, found |-> found, alone |-> al]
  <1>1. NewJob(p, bl, seen) = j BY DEF NewJob
  <1>2. IsFiniteSet(seen) /\ seen \subseteq Ids /\ \A i \in seen : cards[i] \in CardRecord
    BY PresentAre, FS_Subset
  <1>3. at \in [seen -> Int] /\ \A h, i \in seen : at[h] = at[i] => h = i
    BY <1>2 DEF KnownTypes, CardTypes, CardRecord, Ids
  <1>4. /\ dups \in Seq(seen) /\ Len(dups) = Cardinality(seen)
        /\ \A i \in seen : \E n \in 1 .. Cardinality(seen) : dups[n] = i
        /\ \A n \in 1 .. Cardinality(seen) : Cardinality({i \in seen : at[i] <= at[dups[n]]}) = n
    <2> HIDE DEF at
    <2> QED BY <1>2, <1>3, InOrderIs
  <1>8. found \subseteq Ids BY <1>2 DEF CardRecord
  <1> HIDE DEF dups, found
  <1>5. seen = In(dups) /\ Len(dups) \in Nat /\ ((dups = <<>>) <=> (Len(dups) = 0))
    BY <1>4, Empty0 DEF In
  <1>9. seen # {} => Cardinality({i \in seen : at[i] <= at[dups[1]]}) = 1
    <2> HIDE DEF at
    <2>1. seen # {} => Cardinality(seen) \in Nat /\ Cardinality(seen) # 0
      BY <1>2, FS_EmptySet, FS_CardinalityType
    <2>2. seen # {} => 1 \in 1 .. Cardinality(seen) BY <2>1
    <2> QED BY <1>4, <2>2
  <1>6. CASE seen = {}
    <2>1. dups = <<>>
      <3>1. Cardinality(seen) = 0 BY <1>6, FS_EmptySet
      <3> QED BY <1>4, <1>5, <3>1
    <2>2. keep = 0 /\ first = 0 /\ rest = <<>> /\ pc = "put" BY <1>5, <2>1
    <2>0. found = {} BY <1>6 DEF found
    <2> HIDE DEF keep, first, rest, pc, al
    <2>3. al \in BOOLEAN BY Zenon DEF al
    <2>4. j \in Job
      <3>1. 0 \in 0 .. MaxPuts BY KnownBounds
      <3>2. <<>> \in Seq(Ids) OBVIOUS
      <3> QED BY <1>8, <2>2, <2>3, <3>1, <3>2 DEF Job
    <2>5. 0 <= puts BY DEF KnownTypes, CardTypes
    <2>6. /\ j.pc = "put" /\ j.rest = <<>> /\ j.keep = 0 /\ j.first = 0 /\ j.pat = p
          /\ j.gone = {} /\ j.found = {} /\ j.alone = al
      BY <2>0, <2>2
    <2> HIDE DEF j, al
    <2>7. j.alone <=> (Busy(Fold[p]) = {} /\ Cardinality(Present) <= CardPage) BY <2>6 DEF al
    <2> QED BY <1>1, <1>6, <2>4, <2>5, <2>6, <2>7
  <1>7. CASE seen # {}
    <2>1. dups # <<>>
      <3> SUFFICES ASSUME dups = <<>> PROVE FALSE OBVIOUS
      <3> QED BY <1>5, <1>7 DEF In
    <2>2. /\ keep = Head(dups) /\ rest = Tail(dups) /\ rest \in Seq(seen) /\ keep \in seen
          /\ seen = {keep} \cup In(rest) /\ ((Len(dups) = 1) <=> (rest = <<>>))
      <3>1. Head(dups) = dups[1] BY <1>4, <2>1
      <3>2. /\ Head(dups) \in seen /\ Tail(dups) \in Seq(seen)
            /\ In(dups) = {Head(dups)} \cup In(Tail(dups))
            /\ (Len(dups) = 1) <=> (Tail(dups) = <<>>)
        BY <1>4, <2>1, InIs
      <3> QED BY <1>5, <2>1, <3>1, <3>2
    <2>3. (pc = "delete") <=> (rest # <<>>)
      <3> HIDE DEF rest
      <3>1. (Len(dups) > 1) <=> (rest # <<>>) BY <1>5, <2>1, <2>2
      <3> QED BY <3>1
    <2>4. first = IF cards[keep].first # 0 THEN cards[keep].first ELSE cards[keep].at
      BY <2>1
    <2> HIDE DEF keep, first, rest
    <2>5. /\ cards[keep].at \in Nat \ {0} /\ cards[keep].first \in Nat
          /\ cards[keep].first < cards[keep].at /\ cards[keep].at <= puts /\ puts \in 0 .. MaxPuts
      BY <1>2, <2>2 DEF CardRecord, Ids, KnownTypes, CardTypes
    <2>6. first # 0 /\ first <= cards[keep].at /\ first <= puts /\ first \in 0 .. MaxPuts
      BY <2>4, <2>5, KnownBounds
    <2>11. \A t \in found : first <= t
      <3>1. ASSUME NEW i \in seen PROVE cards[keep].at <= cards[i].at
        <4> DEFINE upto == {h \in seen : at[h] <= at[keep]}
        <4>1. keep = dups[1] /\ Cardinality(seen) \in Nat /\ Cardinality(seen) # 0
          BY <1>4, <1>5, <2>1 DEF keep
        <4>2. Cardinality(upto) = 1
          <5> HIDE DEF at
          <5> QED BY <1>7, <1>9, <4>1
        <4>3. keep \in upto /\ IsFiniteSet(upto)
          <5>1. at[keep] \in Int BY <1>3, <2>2
          <5>2. upto \subseteq seen /\ keep \in upto BY <2>2, <5>1
          <5> QED BY <1>2, <5>2, FS_Subset
        <4>4. ASSUME ~(at[keep] <= at[i]) PROVE FALSE
          <5>1. i \in upto /\ i # keep BY <1>3, <2>2, <4>4
          <5> HIDE DEF upto
          <5>2. {keep} \subseteq upto /\ {keep} # upto BY <4>3, <5>1
          <5> QED BY <4>2, <4>3, <5>2, FS_Subset, FS_Singleton
        <4> QED BY <2>2, <4>4
      <3> QED BY <1>2, <2>2, <2>5, <2>6, <3>1 DEF found, CardRecord, Ids
    <2>7. j \in Job
      <3>1. keep \in 0 .. MaxPuts BY <1>2, <2>2, KnownBounds DEF Ids
      <3>2. rest \in Seq(Ids) BY <1>2, <2>2
      <3>3. al \in BOOLEAN BY Zenon
      <3>4. pc \in {"delete", "put"} OBVIOUS
      <3> HIDE DEF al, pc
      <3> QED BY <1>8, <2>6, <3>1, <3>2, <3>3, <3>4 DEF Job
    <2> HIDE DEF pc
    <2>8. /\ j.pc = pc /\ j.rest = rest /\ j.keep = keep /\ j.first = first /\ j.pat = p
          /\ j.gone = {} /\ j.found = found
      OBVIOUS
    <2>9. j.alone = al OBVIOUS
    <2> HIDE DEF j, al
    <2>10. j.alone <=> (Busy(Fold[p]) = {} /\ Cardinality(Present) <= CardPage) BY <2>9 DEF al
    <2> QED BY <2>10, <2>11, <1>1, <1>7, <2>2, <2>3, <2>6, <2>7, <2>8
  <1> QED BY <1>6, <1>7

----------------------------------------------------------------------------
(* What the steps do. *)

\* Request w is as it was, except perhaps that it is no longer alone.
Kept(w) ==
    /\ job'[w] \in Job \cup {NoJob}
    /\ (job'[w] # NoJob) <=> On(w)
    /\ On(w) =>
         /\ job'[w].pc = job[w].pc /\ job'[w].pat = job[w].pat /\ job'[w].keep = job[w].keep
         /\ job'[w].first = job[w].first /\ job'[w].rest = job[w].rest /\ job'[w].gone = job[w].gone
         /\ job'[w].alone => job[w].alone

\* Request w has listed the table and found copies of pattern p.
Found(w, p) ==
    /\ job'[w] \in Job /\ job'[w].pat = p /\ job'[w].gone = {}
    /\ (job'[w].pc = "delete") <=> (job'[w].rest # <<>>)
    /\ job'[w].first <= puts
    /\ job'[w].keep \in CardsOf(Fold[p]) \cup {0} /\ In(job'[w].rest) \subseteq CardsOf(Fold[p])
    /\ job'[w].alone =>
         /\ \A v \in Writers : ~(On(v) /\ KeyOf(v) = Fold[p])
         /\ \A i \in Present : Fold[cards[i].pat] = Fold[p] =>
               i \in {job'[w].keep} \cup In(job'[w].rest)
         /\ job'[w].keep \in Present =>
               job'[w].first # 0 /\ job'[w].first <= cards[job'[w].keep].at

\* A request that is not touched is kept.
LEMMA UnchangedIsKept == ASSUME KnownTypes, NEW w \in Writers, job'[w] = job[w] PROVE Kept(w)
  BY DEF Kept, KnownTypes, JobTypes, On

\* Disturb keeps the requests, and leaves none of its pattern alone.
LEMMA DisturbIs ==
    ASSUME KnownTypes, NEW k
    PROVE  /\ Disturb(k) \in [Writers -> Job \cup {NoJob}]
           /\ \A w \in Writers :
                /\ (Disturb(k)[w] # NoJob) <=> On(w)
                /\ On(w) => /\ Disturb(k)[w].pc = job[w].pc /\ Disturb(k)[w].pat = job[w].pat
                            /\ Disturb(k)[w].keep = job[w].keep /\ Disturb(k)[w].first = job[w].first
                            /\ Disturb(k)[w].rest = job[w].rest /\ Disturb(k)[w].gone = job[w].gone
                            /\ Disturb(k)[w].alone => (job[w].alone /\ KeyOf(w) # k)
  <1>1. \A w \in Writers : Disturb(k)[w] = IF w \in Busy(k) THEN [job[w] EXCEPT !.alone = FALSE] ELSE job[w]
    BY DEF Disturb
  <1>2. \A w \in Writers : (w \in Busy(k)) <=> (On(w) /\ KeyOf(w) = k) BY DEF Busy, On, KeyOf
  <1>3. ASSUME NEW w \in Writers
        PROVE  /\ Disturb(k)[w] \in Job \cup {NoJob}
               /\ (Disturb(k)[w] # NoJob) <=> On(w)
               /\ On(w) => /\ Disturb(k)[w].pc = job[w].pc /\ Disturb(k)[w].pat = job[w].pat
                           /\ Disturb(k)[w].keep = job[w].keep /\ Disturb(k)[w].first = job[w].first
                           /\ Disturb(k)[w].rest = job[w].rest /\ Disturb(k)[w].gone = job[w].gone
                           /\ Disturb(k)[w].alone => (job[w].alone /\ KeyOf(w) # k)
    <2>1. CASE w \in Busy(k)
      <3> DEFINE d == [job[w] EXCEPT !.alone = FALSE]
      <3>1. On(w) /\ job[w] \in Job BY <1>2, <2>1, JobsAre
      <3>2. /\ d \in Job /\ d.pc = job[w].pc /\ d.pat = job[w].pat /\ d.keep = job[w].keep
            /\ d.first = job[w].first /\ d.rest = job[w].rest /\ d.gone = job[w].gone /\ d.alone = FALSE
        BY <3>1 DEF Job
      <3>3. Disturb(k)[w] = d BY <1>1, <2>1
      <3> HIDE DEF d
      <3>4. d # NoJob BY <3>2, AJobIsNotNone
      <3> QED BY <3>1, <3>2, <3>3, <3>4
    <2>2. CASE w \notin Busy(k)
      <3>1. Disturb(k)[w] = job[w] BY <1>1, <2>2
      <3>2. job[w] \in Job \cup {NoJob} BY JobsAre
      <3> QED BY <1>2, <2>2, <3>1, <3>2 DEF On
    <2> QED BY <2>1, <2>2
  <1>4. Disturb(k) \in [Writers -> Job \cup {NoJob}]
    <2>1. Disturb(k) = [w \in Writers |-> Disturb(k)[w]] BY DEF Disturb
    <2> QED BY <1>3, <2>1
  <1> QED BY <1>3, <1>4

\* A small table is one page.
LEMMA OnePage ==
    ASSUME KnownTypes, Cardinality(Present) <= CardPage
    PROVE  FirstPage(Present) = Present
  <1> SUFFICES ASSUME NEW i \in Present PROVE Cardinality({j \in Present : j < i}) < CardPage
    BY DEF FirstPage
  <1> DEFINE below == {j \in Present : j < i}
  <1>1. below \subseteq Present /\ i \notin below BY PresentAre DEF Ids
  <1> HIDE DEF below
  <1>2. Cardinality(below) <= Cardinality(Present) /\ Cardinality(below) # Cardinality(Present)
    BY <1>1, PresentAre, FS_Subset
  <1>3. Cardinality(below) \in Nat /\ Cardinality(Present) \in Nat
    BY <1>1, PresentAre, FS_Subset, FS_CardinalityType
  <1>4. Cardinality(below) < CardPage BY <1>2, <1>3, KnownBounds
  <1> QED BY <1>4 DEF below

\* A request starts.
LEMMA StartIs ==
    ASSUME KnownTypes, NEW w \in Writers, NEW p \in Patterns, NEW bl \in BOOLEAN, TeachList(w, p, bl)
    PROVE  /\ job' \in [Writers -> Job \cup {NoJob}]
           /\ ~On(w) /\ Found(w, p)
           /\ \A v \in Writers : v # w => Kept(v)
           /\ \A v \in Writers : (v # w /\ On(v) /\ KeyOf(v) = Fold[p]) => ~job'[v].alone
  <1> DEFINE k == Fold[p]
             seen == {i \in FirstPage(Present) : Fold[cards[i].pat] = k}
             new == NewJob(p, bl, seen)
  <1>1. ~On(w) /\ job' = [Disturb(k) EXCEPT ![w] = new] BY DEF TeachList, On
  <1>2. seen \subseteq CardsOf(k) /\ seen \subseteq Present BY DEF FirstPage, CardsOf
  <1>3. Cardinality(Present) <= CardPage => seen = CardsOf(k) BY OnePage DEF CardsOf
  <1> HIDE DEF k, seen
  <1>4. /\ new \in Job /\ new.pat = p /\ new.gone = {} /\ new.first <= puts
        /\ (new.pc = "delete") <=> (new.rest # <<>>)
        /\ seen = {} => new.keep = 0 /\ new.rest = <<>>
        /\ seen # {} => /\ seen = {new.keep} \cup In(new.rest)
                        /\ new.first # 0 /\ new.first <= cards[new.keep].at
        /\ new.alone <=> (Busy(Fold[p]) = {} /\ Cardinality(Present) <= CardPage)
    BY <1>2, NewJobIs
  <1> HIDE DEF new
  <1>5. job' \in [Writers -> Job \cup {NoJob}] /\ job'[w] = new
        /\ \A v \in Writers : v # w => job'[v] = Disturb(k)[v]
    BY <1>1, <1>4, DisturbIs
  <1>6. Found(w, p)
    <2>1. In(<<>>) = {} BY DEF In
    <2>2. new.keep \in CardsOf(k) \cup {0} /\ In(new.rest) \subseteq CardsOf(k)
      BY <1>2, <1>4, <2>1
    <2>3. ASSUME new.alone
          PROVE  /\ \A v \in Writers : ~(On(v) /\ KeyOf(v) = Fold[p])
                 /\ \A i \in Present : Fold[cards[i].pat] = Fold[p] =>
                       i \in {new.keep} \cup In(new.rest)
                 /\ new.keep \in Present => new.first # 0 /\ new.first <= cards[new.keep].at
      <3>1. \A v \in Writers : ~(On(v) /\ KeyOf(v) = Fold[p])
        BY <1>4, <2>3 DEF Busy, On, KeyOf
      <3>2. \A i \in Present : Fold[cards[i].pat] = Fold[p] => i \in seen
        BY <1>3, <1>4, <2>3 DEF CardsOf, k
      <3>3. CASE seen = {}
        <4>1. 0 \notin Present BY PresentAre DEF Ids
        <4> QED BY <1>4, <3>1, <3>2, <3>3, <4>1
      <3>4. CASE seen # {} BY <1>4, <3>1, <3>2, <3>4
      <3> QED BY <3>3, <3>4
    <2> QED BY <1>4, <1>5, <2>2, <2>3 DEF Found, k
  <1>7. \A v \in Writers : v # w => Kept(v)
    BY <1>5, DisturbIs DEF Kept
  <1>8. \A v \in Writers : (v # w /\ On(v) /\ KeyOf(v) = Fold[p]) => ~job'[v].alone
    BY <1>5, DisturbIs DEF k
  <1> QED BY <1>1, <1>5, <1>6, <1>7, <1>8

\* What Disturb does, said as Kept.
LEMMA DisturbedIsKept ==
    ASSUME KnownTypes, NEW k, job' = Disturb(k)
    PROVE  /\ job' \in [Writers -> Job \cup {NoJob}]
           /\ \A v \in Writers : Kept(v) /\ ((On(v) /\ KeyOf(v) = k) => ~job'[v].alone)
  BY DisturbIs DEF Kept

\* A put adds or replaces one card and makes it the latest of its pattern.
LEMMA PutIs ==
    ASSUME KnownTypes, NEW i \in 1 .. puts + 1, NEW p \in Patterns, NEW f \in 0 .. puts,
           NEW bl \in BOOLEAN, PutCard(i, p, f, bl)
    PROVE  /\ CardTypes' /\ i \in Ids /\ puts' = puts + 1
           /\ cards'[i].pat = p /\ cards'[i].at = puts + 1 /\ cards'[i].first = f
           /\ \A h \in Ids : h # i => cards'[h] = cards[h]
           /\ Present' = Present \cup {i}
           /\ \A k : k # Fold[p] => CardsOf(k)' = CardsOf(k) \ {i}
           /\ CardsOf(Fold[p])' = CardsOf(Fold[p]) \cup {i}
           /\ latest' \in [IssueKeys -> 0 .. puts'] /\ latest'[Fold[p]] = i
           /\ \A k \in IssueKeys : k # Fold[p] => latest'[k] = latest[k]
  <1> DEFINE new == [pat |-> p, at |-> puts + 1, first |-> f, blank |-> bl]
  <1>1. /\ puts \in 0 .. MaxPuts /\ puts < MaxPuts /\ puts' = puts + 1
        /\ cards' = [cards EXCEPT ![i] = new] /\ latest' = [latest EXCEPT ![Fold[p]] = i]
    BY DEF PutCard, KnownTypes, CardTypes
  <1>2. i \in Ids /\ puts + 1 \in Ids /\ puts' \in 0 .. MaxPuts BY <1>1, KnownBounds DEF Ids
  <1>3. new \in CardRecord
    <2>1. f \in 0 .. MaxPuts BY <1>1, KnownBounds
    <2> QED BY <1>2, <2>1 DEF CardRecord
  <1>4. new # NoCard
    <2>1. new.at # 0 BY <1>1
    <2>2. NoCard.at = 0 BY DEF NoCard
    <2> HIDE DEF new
    <2> QED BY <2>1, <2>2
  <1>5. new.pat = p /\ new.at = puts + 1 /\ new.first = f OBVIOUS
  <1> HIDE DEF new
  <1>6. /\ cards' \in [Ids -> CardRecord \cup {NoCard}] /\ cards'[i] = new
        /\ \A h \in Ids : h # i => cards'[h] = cards[h]
    BY <1>1, <1>2, <1>3 DEF KnownTypes, CardTypes
  <1>7. Present' = Present \cup {i} BY <1>2, <1>4, <1>6 DEF Present, NoCard, Ids
  <1>8. \A h \in Present' : h # i => h \in Present /\ cards'[h] = cards[h]
    BY <1>6, <1>7, PresentAre
  <1>9. \A k : k # Fold[p] => CardsOf(k)' = CardsOf(k) \ {i}
    BY <1>5, <1>6, <1>7, <1>8 DEF CardsOf
  <1>10. CardsOf(Fold[p])' = CardsOf(Fold[p]) \cup {i}
    BY <1>5, <1>6, <1>7, <1>8 DEF CardsOf
  <1>11. CardTypes'
    <2>1. \A h \in Present : /\ h <= puts /\ cards[h].first < cards[h].at /\ cards[h].at <= puts
                             /\ cards[h].at \in Nat /\ cards[h].first \in Nat /\ h \in Nat
      BY PresentAre DEF KnownTypes, CardTypes, CardRecord, Ids
    <2>2. \A h \in Present' : h <= puts' /\ cards'[h].first < cards'[h].at /\ cards'[h].at <= puts'
      BY <1>1, <1>5, <1>6, <1>7, <1>8, <2>1
    <2>3. \A g, h \in Present' : cards'[g].at = cards'[h].at => g = h
      <3> SUFFICES ASSUME NEW g \in Present', NEW h \in Present', cards'[g].at = cards'[h].at
                   PROVE  g = h
        OBVIOUS
      <3>1. CASE g = i /\ h # i BY <1>1, <1>5, <1>6, <1>8, <2>1, <3>1
      <3>2. CASE h = i /\ g # i BY <1>1, <1>5, <1>6, <1>8, <2>1, <3>2
      <3>3. CASE g # i /\ h # i BY <1>8, <3>3 DEF KnownTypes, CardTypes
      <3> QED BY <3>1, <3>2, <3>3
    <2>4. Ids' = Ids /\ CardRecord' = CardRecord /\ NoCard' = NoCard BY DEF Ids, CardRecord, NoCard
    <2> QED BY <1>1, <1>2, <1>6, <2>2, <2>3, <2>4 DEF CardTypes
  <1>12. /\ latest' \in [IssueKeys -> 0 .. puts'] /\ latest'[Fold[p]] = i
         /\ \A k \in IssueKeys : k # Fold[p] => latest'[k] = latest[k]
    <2>1. Fold[p] \in IssueKeys BY DEF IssueKeys
    <2> QED BY <1>1, <2>1 DEF KnownTypes
  <1> QED BY <1>1, <1>2, <1>6, <1>7, <1>9, <1>10, <1>11, <1>12, <1>5

\* A deletion takes one card out.
LEMMA OutIs ==
    ASSUME KnownTypes, NEW i \in Ids, TakeOut(i), puts' = puts
    PROVE  /\ CardTypes' /\ Present' = Present \ {i}
           /\ \A h \in Present' : cards'[h] = cards[h]
           /\ \A k : CardsOf(k)' = CardsOf(k) \ {i}
  <1>1. cards' = [cards EXCEPT ![i] = NoCard] BY DEF TakeOut
  <1>2. /\ cards' \in [Ids -> CardRecord \cup {NoCard}] /\ cards'[i] = NoCard
        /\ \A h \in Ids : h # i => cards'[h] = cards[h]
    BY <1>1 DEF KnownTypes, CardTypes
  <1>3. Present' = Present \ {i} BY <1>2 DEF Present, NoCard, Ids
  <1>4. \A h \in Present' : cards'[h] = cards[h] BY <1>2, <1>3, PresentAre
  <1>5. \A k : CardsOf(k)' = CardsOf(k) \ {i} BY <1>3, <1>4 DEF CardsOf
  <1>6. CardTypes'
    <2>1. Ids' = Ids /\ CardRecord' = CardRecord /\ NoCard' = NoCard BY DEF Ids, CardRecord, NoCard
    <2> QED BY <1>2, <1>3, <1>4, <2>1 DEF KnownTypes, CardTypes
  <1> QED BY <1>3, <1>4, <1>5, <1>6

\* The deleting step of a request.
LEMMA DeleteIs ==
    ASSUME KnownTypes, NEW w \in Writers, TeachDelete(w)
    PROVE  /\ On(w) /\ Head(job[w].rest) \in 1 .. puts /\ Head(job[w].rest) \in Ids
           /\ TakeOut(Head(job[w].rest))
           /\ UNCHANGED <<puts, limits, latest, orphaned, import, backup>>
           /\ job' \in [Writers -> Job \cup {NoJob}]
           /\ job'[w] \in Job /\ job'[w].pat = job[w].pat /\ job'[w].keep = job[w].keep
           /\ job'[w].first = job[w].first /\ job'[w].alone = job[w].alone
           /\ In(job[w].rest) = {Head(job[w].rest)} \cup In(job'[w].rest)
           /\ job'[w].gone = job[w].gone \cup {Head(job[w].rest)}
           /\ (job'[w].pc = "delete") <=> (job'[w].rest # <<>>)
           /\ \A v \in Writers : v # w => Kept(v)
  <1> DEFINE j == job[w]
             h == Head(j.rest)
             t == Tail(j.rest)
             g == j.gone \cup {h}
             pc == IF Len(j.rest) = 1 THEN "put" ELSE "delete"
             new == [j EXCEPT !.rest = t, !.gone = g, !.pc = pc]
  <1>1. /\ On(w) /\ j.pc = "delete" /\ TakeOut(h) /\ job' = [job EXCEPT ![w] = new]
        /\ UNCHANGED <<puts, limits, latest, orphaned, import, backup>>
    <2>1. job' = [job EXCEPT ![w] = new] BY DEF TeachDelete
    <2>2. /\ On(w) /\ j.pc = "delete" /\ TakeOut(h)
          /\ UNCHANGED <<puts, limits, latest, orphaned, import, backup>>
      BY DEF TeachDelete, On
    <2> QED BY <2>1, <2>2
  <1>2. j \in Job /\ j.rest # <<>> /\ In(j.rest) \subseteq 1 .. puts /\ puts \in 0 .. MaxPuts
    BY <1>1, JobsAre DEF KnownTypes, JobTypes, CardTypes
  <1>3. j.rest \in Seq(Ids) /\ j.gone \in SUBSET Ids BY <1>2 DEF Job
  <1>4. /\ h \in Ids /\ t \in Seq(Ids) /\ In(j.rest) = {h} \cup In(t)
        /\ (Len(j.rest) = 1) <=> (t = <<>>)
    BY <1>2, <1>3, InIs
  <1>5. h \in 1 .. puts BY <1>2, <1>4
  <1>6. g \in SUBSET Ids /\ pc \in {"put", "delete"} /\ ((pc = "delete") <=> (t # <<>>))
    BY <1>3, <1>4
  <1> HIDE DEF h, t, g, pc
  <1>7. /\ new \in Job /\ new.pat = j.pat /\ new.keep = j.keep /\ new.first = j.first
        /\ new.alone = j.alone /\ new.rest = t /\ new.gone = g /\ new.pc = pc
    BY <1>2, <1>4, <1>6 DEF Job
  <1> HIDE DEF new
  <1>8. /\ job' \in [Writers -> Job \cup {NoJob}] /\ job'[w] = new
        /\ \A v \in Writers : v # w => job'[v] = job[v]
    BY <1>1, <1>7 DEF KnownTypes, JobTypes
  <1>9. \A v \in Writers : v # w => Kept(v) BY <1>8, UnchangedIsKept
  <1> QED BY <1>1, <1>4, <1>5, <1>6, <1>7, <1>8, <1>9 DEF h, g

\* The putting step of a request: nothing is left to delete.
LEMMA PuttingIs ==
    ASSUME KnownTypes, NEW w \in Writers, TeachPut(w)
    PROVE  /\ On(w) /\ In(job[w].rest) = {}
           /\ job[w].first \in 0 .. puts /\ job[w].pat \in Patterns /\ job[w].blank \in BOOLEAN
           /\ \E i \in 1 .. puts + 1 :
                 /\ i = IF job[w].keep = 0 THEN puts + 1 ELSE job[w].keep
                 /\ PutCard(i, job[w].pat, job[w].first, job[w].blank)
           /\ UNCHANGED <<limits, orphaned, import, export, backup>>
           /\ job' \in [Writers -> Job \cup {NoJob}] /\ job'[w] = NoJob
           /\ \A v \in Writers : v # w => Kept(v)
  <1> DEFINE i == IF job[w].keep = 0 THEN puts + 1 ELSE job[w].keep
  <1>1. /\ On(w) /\ job[w].pc = "put" /\ PutCard(i, job[w].pat, job[w].first, job[w].blank)
        /\ job' = [job EXCEPT ![w] = NoJob]
        /\ UNCHANGED <<limits, orphaned, import, export, backup>>
    BY DEF TeachPut, On
  <1>2. job[w] \in Job BY <1>1, JobsAre
  <1>3. /\ job[w].rest = <<>> /\ job[w].first <= puts /\ job[w].keep <= puts /\ puts \in Nat
    BY <1>1 DEF KnownTypes, JobTypes, CardTypes
  <1>4. /\ job[w].keep \in Nat /\ job[w].first \in Nat /\ job[w].pat \in Patterns
        /\ job[w].blank \in BOOLEAN
    BY <1>2 DEF Job
  <1>5. i \in 1 .. puts + 1 /\ job[w].first \in 0 .. puts BY <1>3, <1>4
  <1>6. In(job[w].rest) = {} BY <1>3 DEF In
  <1>7. /\ job' \in [Writers -> Job \cup {NoJob}] /\ job'[w] = NoJob
        /\ \A v \in Writers : v # w => job'[v] = job[v]
    BY <1>1 DEF KnownTypes, JobTypes
  <1>8. \A v \in Writers : v # w => Kept(v) BY <1>7, UnchangedIsKept
  <1> QED BY <1>1, <1>4, <1>5, <1>6, <1>7, <1>8

\* A request dies; what it deleted has been lost.
LEMMA DeathIs ==
    ASSUME KnownTypes, NEW w \in Writers, TeachDies(w)
    PROVE  /\ On(w) /\ orphaned' = orphaned \cup job[w].gone
           /\ job' \in [Writers -> Job \cup {NoJob}] /\ job'[w] = NoJob
           /\ \A v \in Writers : v # w => Kept(v)
           /\ import' = IF w = Importer /\ import # NoJob THEN [import EXCEPT !.failed = TRUE] ELSE import
           /\ UNCHANGED <<cards, puts, latest, export, backup>>
  <1>1. /\ On(w) /\ orphaned' = orphaned \cup job[w].gone /\ job' = [job EXCEPT ![w] = NoJob]
        /\ import' = IF w = Importer /\ import # NoJob THEN [import EXCEPT !.failed = TRUE] ELSE import
        /\ UNCHANGED <<cards, puts, latest, export, backup>>
    BY DEF TeachDies, On
  <1>2. /\ job' \in [Writers -> Job \cup {NoJob}] /\ job'[w] = NoJob
        /\ \A v \in Writers : v # w => job'[v] = job[v]
    BY <1>1 DEF KnownTypes, JobTypes
  <1>3. \A v \in Writers : v # w => Kept(v) BY <1>2, UnchangedIsKept
  <1> QED BY <1>1, <1>2, <1>3

----------------------------------------------------------------------------
(* The types, and whose the ids are. *)

\* The part of the invariant the rest is built upon.
Base == KnownTypes /\ IdsHaveOwners

\* Requests that are kept keep their types and their claims.
LEMMA KeptTypes ==
    ASSUME KnownTypes, puts' \in Nat, puts' >= puts, NEW v \in Writers, Kept(v), On(v)'
    PROVE  /\ job'[v].first <= puts' /\ job'[v].keep <= puts'
           /\ In(job'[v].rest) \cup job'[v].gone \subseteq 1 .. puts'
           /\ (job'[v].pc = "delete") <=> (job'[v].rest # <<>>)
  <1>1. On(v) BY DEF Kept, On
  <1>2. job[v] \in Job BY <1>1, JobsAre
  <1>3. /\ job[v].first <= puts /\ job[v].keep <= puts /\ puts \in Nat
        /\ In(job[v].rest) \cup job[v].gone \subseteq 1 .. puts
        /\ (job[v].pc = "delete") <=> (job[v].rest # <<>>)
    BY <1>1 DEF KnownTypes, JobTypes, CardTypes
  <1>4. job[v].first \in Nat /\ job[v].keep \in Nat BY <1>2 DEF Job
  <1>5. 1 .. puts \subseteq 1 .. puts' BY <1>3
  <1>6. job[v].first <= puts' /\ job[v].keep <= puts' BY <1>3, <1>4
  <1> QED BY <1>1, <1>3, <1>5, <1>6 DEF Kept

\* A request that starts keeps Base.
LEMMA StartBase ==
    ASSUME Base, NEW w \in Writers, NEW p \in Patterns, NEW bl \in BOOLEAN, TeachList(w, p, bl),
           UNCHANGED <<cards, puts, latest, orphaned>>
    PROVE  Base'
  <1> USE DEF Base
  <1>1. /\ job' \in [Writers -> Job \cup {NoJob}] /\ Found(w, p)
        /\ \A v \in Writers : v # w => Kept(v)
    BY StartIs
  <1>2. CardTypes' BY DEF KnownTypes, CardTypes, Present, Ids, CardRecord, NoCard
  <1>3. \A h \in Present : h \in 1 .. puts
    BY PresentAre DEF KnownTypes, CardTypes, Ids
  <1>4. puts \in Nat BY DEF KnownTypes, CardTypes
  <1>5. JobTypes'
    <2>1. \A k : CardsOf(k) \subseteq 1 .. puts BY <1>3 DEF CardsOf
    <2>2. /\ job'[w].first <= puts /\ job'[w].keep <= puts
          /\ In(job'[w].rest) \cup job'[w].gone \subseteq 1 .. puts
          /\ (job'[w].pc = "delete") <=> (job'[w].rest # <<>>)
      BY <1>1, <1>4, <2>1 DEF Found
    <2>3. \A v \in Writers : (v # w /\ On(v)') =>
             /\ job'[v].first <= puts' /\ job'[v].keep <= puts'
             /\ In(job'[v].rest) \cup job'[v].gone \subseteq 1 .. puts'
             /\ (job'[v].pc = "delete") <=> (job'[v].rest # <<>>)
      BY <1>1, <1>4, KeptTypes
    <2>4. Job' = Job /\ NoJob' = NoJob BY DEF Job, NoJob, Ids
    <2> QED BY <1>1, <2>2, <2>3, <2>4 DEF JobTypes
  <1>6. KnownTypes'
    <2>1. latest' \in [IssueKeys -> 0 .. puts'] /\ orphaned' \subseteq Ids' BY DEF KnownTypes, Ids
    <2> QED BY <1>2, <1>5, <2>1 DEF KnownTypes
  <1>7. IdsHaveOwners'
    <2>1. PICK o \in [1 .. puts -> IssueKeys] : Owns(o) BY DEF IdsHaveOwners
    <2>2. \A i \in CardsOf(Fold[p]) : o[i] = Fold[p] BY <2>1 DEF Owns, CardsOf
    <2>3. Owns(o)'
      <3>1. \A i \in Present' : Fold[cards'[i].pat] = o[i] BY <2>1 DEF Owns, Present, Ids, NoCard
      <3>2. ASSUME NEW v \in Writers, On(v)'
            PROVE  /\ job'[v].keep # 0 => o[job'[v].keep] = KeyOf(v)'
                   /\ \A i \in In(job'[v].rest) \cup job'[v].gone : o[i] = KeyOf(v)'
        <4>1. CASE v = w BY <1>1, <2>2, <4>1 DEF Found, KeyOf
        <4>2. CASE v # w
          <5>1. Kept(v) /\ On(v) BY <1>1, <3>2, <4>2 DEF Kept, On
          <5> QED BY <2>1, <5>1 DEF Owns, Kept, KeyOf
        <4> QED BY <4>1, <4>2
      <3>3. \A k \in IssueKeys : latest'[k] # 0 => o[latest'[k]] = k BY <2>1 DEF Owns
      <3> QED BY <3>1, <3>2, <3>3 DEF Owns
    <2> QED BY <2>1, <2>3 DEF IdsHaveOwners
  <1> QED BY <1>6, <1>7

\* A deletion by a user keeps it.
LEMMA OutBase ==
    ASSUME Base, NEW i \in Ids, TakeOut(i), UNCHANGED <<puts, job, orphaned>>,
           latest' = [k \in IssueKeys |-> IF latest[k] = i THEN 0 ELSE latest[k]]
    PROVE  Base'
  <1> USE DEF Base
  <1>1. CardTypes' /\ Present' = Present \ {i} /\ \A h \in Present' : cards'[h] = cards[h]
    BY OutIs
  <1>2. \A k \in IssueKeys : latest'[k] = IF latest[k] = i THEN 0 ELSE latest[k] OBVIOUS
  <1>3. latest' \in [IssueKeys -> 0 .. puts']
    <2>1. puts \in Nat /\ latest \in [IssueKeys -> 0 .. puts] BY DEF KnownTypes, CardTypes
    <2> QED BY <2>1
  <1>4. KnownTypes'
    <2>1. JobTypes' BY DEF KnownTypes, JobTypes, On, Job, NoJob, Ids
    <2> QED BY <1>1, <1>3, <2>1 DEF KnownTypes, Ids
  <1>5. IdsHaveOwners'
    <2>1. PICK o \in [1 .. puts -> IssueKeys] : Owns(o) BY DEF IdsHaveOwners
    <2>2. Owns(o)'
      <3>1. \A h \in Present' : Fold[cards'[h].pat] = o[h] BY <1>1, <2>1 DEF Owns
      <3>2. \A v \in Writers : On(v)' =>
              /\ job'[v].keep # 0 => o[job'[v].keep] = KeyOf(v)'
              /\ \A h \in In(job'[v].rest) \cup job'[v].gone : o[h] = KeyOf(v)'
        BY <2>1 DEF Owns, On, KeyOf, NoJob
      <3>3. \A k \in IssueKeys : latest'[k] # 0 => o[latest'[k]] = k BY <1>2, <2>1 DEF Owns
      <3> QED BY <3>1, <3>2, <3>3 DEF Owns
    <2> QED BY <2>1, <2>2 DEF IdsHaveOwners
  <1> QED BY <1>4, <1>5

\* A deletion by a request keeps it.
LEMMA DeleteBase ==
    ASSUME Base, NEW w \in Writers, TeachDelete(w) PROVE Base'
  <1> USE DEF Base
  <1> DEFINE h == Head(job[w].rest)
  <1>1. /\ On(w) /\ h \in 1 .. puts /\ h \in Ids /\ TakeOut(h)
        /\ UNCHANGED <<puts, limits, latest, orphaned, import, backup>>
        /\ job' \in [Writers -> Job \cup {NoJob}]
        /\ job'[w] \in Job /\ job'[w].pat = job[w].pat /\ job'[w].keep = job[w].keep
        /\ job'[w].first = job[w].first
        /\ In(job[w].rest) = {h} \cup In(job'[w].rest)
        /\ job'[w].gone = job[w].gone \cup {h}
        /\ (job'[w].pc = "delete") <=> (job'[w].rest # <<>>)
        /\ \A v \in Writers : v # w => Kept(v)
    BY DeleteIs
  <1> HIDE DEF h
  <1>2. CardTypes' /\ Present' = Present \ {h} /\ \A i \in Present' : cards'[i] = cards[i]
    BY <1>1, OutIs
  <1>3. JobTypes'
    <2>1. /\ job[w].first <= puts /\ job[w].keep <= puts /\ puts \in Nat
          /\ In(job[w].rest) \cup job[w].gone \subseteq 1 .. puts
      BY <1>1 DEF KnownTypes, JobTypes, CardTypes
    <2>2. /\ job'[w].first <= puts /\ job'[w].keep <= puts
          /\ In(job'[w].rest) \cup job'[w].gone \subseteq 1 .. puts
      BY <1>1, <2>1
    <2>3. \A v \in Writers : (v # w /\ On(v)') =>
             /\ job'[v].first <= puts' /\ job'[v].keep <= puts'
             /\ In(job'[v].rest) \cup job'[v].gone \subseteq 1 .. puts'
             /\ (job'[v].pc = "delete") <=> (job'[v].rest # <<>>)
      BY <1>1, <2>1, KeptTypes
    <2>4. Job' = Job /\ NoJob' = NoJob BY DEF Job, NoJob, Ids
    <2> QED BY <1>1, <2>2, <2>3, <2>4 DEF JobTypes
  <1>4. KnownTypes' BY <1>1, <1>2, <1>3 DEF KnownTypes, Ids
  <1>5. IdsHaveOwners'
    <2>1. PICK o \in [1 .. puts -> IssueKeys] : Owns(o) BY DEF IdsHaveOwners
    <2>2. Owns(o)'
      <3>1. \A i \in Present' : Fold[cards'[i].pat] = o[i] BY <1>2, <2>1 DEF Owns
      <3>2. ASSUME NEW v \in Writers, On(v)'
            PROVE  /\ job'[v].keep # 0 => o[job'[v].keep] = KeyOf(v)'
                   /\ \A i \in In(job'[v].rest) \cup job'[v].gone : o[i] = KeyOf(v)'
        <4>1. CASE v = w BY <1>1, <2>1, <4>1 DEF Owns, KeyOf
        <4>2. CASE v # w
          <5>1. Kept(v) /\ On(v) BY <1>1, <3>2, <4>2 DEF Kept, On
          <5> QED BY <2>1, <5>1 DEF Owns, Kept, KeyOf
        <4> QED BY <4>1, <4>2
      <3>3. \A k \in IssueKeys : latest'[k] # 0 => o[latest'[k]] = k BY <1>1, <2>1 DEF Owns
      <3> QED BY <3>1, <3>2, <3>3 DEF Owns
    <2> QED BY <1>1, <2>1, <2>2 DEF IdsHaveOwners
  <1> QED BY <1>4, <1>5

\* A request that dies keeps it.
LEMMA DeathBase ==
    ASSUME Base, NEW w \in Writers, TeachDies(w) PROVE Base'
  <1> USE DEF Base
  <1>1. /\ On(w) /\ orphaned' = orphaned \cup job[w].gone
        /\ job' \in [Writers -> Job \cup {NoJob}] /\ job'[w] = NoJob
        /\ \A v \in Writers : v # w => Kept(v)
        /\ UNCHANGED <<cards, puts, latest, export, backup>>
    BY DeathIs
  <1>2. CardTypes' BY <1>1 DEF KnownTypes, CardTypes, Present, Ids, CardRecord, NoCard
  <1>3. \A v \in Writers : On(v)' => v # w /\ Kept(v) /\ On(v) BY <1>1 DEF Kept, On, NoJob
  <1>4. JobTypes'
    <2>1. puts' \in Nat /\ puts' >= puts BY <1>1 DEF KnownTypes, CardTypes
    <2>2. Job' = Job /\ NoJob' = NoJob BY DEF Job, NoJob, Ids
    <2> QED BY <1>1, <1>3, <2>1, <2>2, KeptTypes DEF JobTypes
  <1>5. KnownTypes'
    <2>1. job[w].gone \subseteq Ids BY <1>1, JobsAre DEF Job
    <2> QED BY <1>1, <1>2, <1>4, <2>1 DEF KnownTypes, Ids
  <1>6. IdsHaveOwners'
    <2>1. PICK o \in [1 .. puts -> IssueKeys] : Owns(o) BY DEF IdsHaveOwners
    <2>2. Owns(o)'
      <3>1. \A i \in Present' : Fold[cards'[i].pat] = o[i] BY <1>1, <2>1 DEF Owns, Present, Ids, NoCard
      <3>2. \A v \in Writers : On(v)' =>
              /\ job'[v].keep # 0 => o[job'[v].keep] = KeyOf(v)'
              /\ \A i \in In(job'[v].rest) \cup job'[v].gone : o[i] = KeyOf(v)'
        BY <1>3, <2>1 DEF Owns, Kept, KeyOf
      <3>3. \A k \in IssueKeys : latest'[k] # 0 => o[latest'[k]] = k BY <1>1, <2>1 DEF Owns
      <3> QED BY <3>1, <3>2, <3>3 DEF Owns
    <2> QED BY <1>1, <2>1, <2>2 DEF IdsHaveOwners
  <1> QED BY <1>5, <1>6

\* A put either uses an id of its pattern again, or one nobody has claimed yet.
LEMMA PutBase ==
    ASSUME Base, NEW i \in 1 .. puts + 1, NEW p \in Patterns, NEW f \in 0 .. puts, NEW bl \in BOOLEAN,
           PutCard(i, p, f, bl), orphaned' = orphaned,
           job' \in [Writers -> Job \cup {NoJob}],
           \A v \in Writers : On(v)' => Kept(v),
           i = puts + 1 \/ \E w \in Writers : On(w) /\ KeyOf(w) = Fold[p] /\ job[w].keep = i
    PROVE  Base'
  <1> USE DEF Base
  <1>1. /\ CardTypes' /\ i \in Ids /\ puts' = puts + 1 /\ puts \in Nat
        /\ cards'[i].pat = p
        /\ \A h \in Ids : h # i => cards'[h] = cards[h]
        /\ Present' = Present \cup {i}
        /\ latest' \in [IssueKeys -> 0 .. puts'] /\ latest'[Fold[p]] = i
        /\ \A k \in IssueKeys : k # Fold[p] => latest'[k] = latest[k]
    <2>1. puts \in Nat BY DEF KnownTypes, CardTypes
    <2> QED BY <2>1, PutIs
  <1>2. JobTypes'
    <2>1. puts' \in Nat /\ puts' >= puts BY <1>1
    <2>2. Job' = Job /\ NoJob' = NoJob BY DEF Job, NoJob, Ids
    <2> QED BY <2>1, <2>2, KeptTypes DEF JobTypes
  <1>3. KnownTypes' BY <1>1, <1>2 DEF KnownTypes, Ids
  <1>4. IdsHaveOwners'
    <2>1. PICK o \in [1 .. puts -> IssueKeys] : Owns(o) BY DEF IdsHaveOwners
    <2>2. Fold[p] \in IssueKeys BY DEF IssueKeys
    <2>3. PICK q \in [1 .. puts + 1 -> IssueKeys] :
             q = [h \in 1 .. puts + 1 |-> IF h = puts + 1 THEN Fold[p] ELSE o[h]]
      <3>1. \A h \in 1 .. puts + 1 : h # puts + 1 => h \in 1 .. puts BY <1>1
      <3>2. \A h \in 1 .. puts + 1 : (IF h = puts + 1 THEN Fold[p] ELSE o[h]) \in IssueKeys
        BY <2>1, <2>2, <3>1
      <3>3. [h \in 1 .. puts + 1 |-> IF h = puts + 1 THEN Fold[p] ELSE o[h]]
               \in [1 .. puts + 1 -> IssueKeys]
        BY <3>2
      <3> QED BY <3>3
    <2>4. q[i] = Fold[p]
      <3>1. CASE i = puts + 1 BY <1>1, <2>3, <3>1
      <3>2. CASE i # puts + 1
        <4>1. PICK w \in Writers : On(w) /\ KeyOf(w) = Fold[p] /\ job[w].keep = i BY <3>2
        <4>2. o[i] = Fold[p]
          <5>1. job[w].keep # 0 => o[job[w].keep] = KeyOf(w) BY <2>1, <4>1 DEF Owns
          <5>2. i # 0 BY <1>1
          <5> QED BY <4>1, <5>1, <5>2
        <4>3. q[i] = o[i] BY <1>1, <2>3, <3>2
        <4> QED BY <4>2, <4>3
      <3> QED BY <3>1, <3>2
    <2>5. \A h \in 1 .. puts : q[h] = o[h]
      <3> TAKE h \in 1 .. puts
      <3>1. h \in 1 .. puts + 1 /\ h # puts + 1 BY <1>1
      <3> QED BY <2>3, <3>1
    <2>6. Owns(q)'
      <3>1. \A h \in Present' : Fold[cards'[h].pat] = q[h]
        <4> TAKE h \in Present'
        <4>1. CASE h = i BY <1>1, <2>4, <4>1
        <4>2. CASE h # i
          <5>1. h \in Present /\ h \in Ids /\ cards'[h] = cards[h] BY <1>1, <4>2, PresentAre
          <5>2. h \in 1 .. puts BY <1>1, <5>1 DEF KnownTypes, CardTypes, Ids
          <5> QED BY <2>1, <2>5, <5>1, <5>2 DEF Owns
        <4> QED BY <4>1, <4>2
      <3>2. ASSUME NEW v \in Writers, On(v)'
            PROVE  /\ job'[v].keep # 0 => q[job'[v].keep] = KeyOf(v)'
                   /\ \A h \in In(job'[v].rest) \cup job'[v].gone : q[h] = KeyOf(v)'
        <4>1. Kept(v) /\ On(v) BY <3>2 DEF Kept, On
        <4>2. /\ job[v].keep # 0 => job[v].keep \in 1 .. puts
              /\ In(job[v].rest) \cup job[v].gone \subseteq 1 .. puts
          <5>1. job[v] \in Job BY <4>1, JobsAre
          <5>2. job[v].keep \in Nat BY <5>1 DEF Job
          <5> QED BY <1>1, <4>1, <5>2 DEF KnownTypes, JobTypes
        <4>3. /\ job[v].keep # 0 => q[job[v].keep] = KeyOf(v)
              /\ \A h \in In(job[v].rest) \cup job[v].gone : q[h] = KeyOf(v)
          BY <2>1, <2>5, <4>1, <4>2 DEF Owns
        <4> QED BY <4>1, <4>3 DEF Kept, KeyOf
      <3>3. \A k \in IssueKeys : latest'[k] # 0 => q[latest'[k]] = k
        <4> SUFFICES ASSUME NEW k \in IssueKeys, latest'[k] # 0 PROVE q[latest'[k]] = k OBVIOUS
        <4>1. CASE k = Fold[p] BY <1>1, <2>4, <4>1
        <4>2. CASE k # Fold[p]
          <5>1. latest'[k] = latest[k] /\ latest[k] \in 1 .. puts BY <1>1, <4>2 DEF KnownTypes
          <5> QED BY <2>1, <2>5, <5>1 DEF Owns
        <4> QED BY <4>1, <4>2
      <3> QED BY <3>1, <3>2, <3>3 DEF Owns
    <2>7. q \in [1 .. puts' -> IssueKeys] BY <1>1, <2>3
    <2> QED BY <2>6, <2>7 DEF IdsHaveOwners
  <1> QED BY <1>3, <1>4

\* What a put means for the ids: nothing else is claimed for the card's id.
LEMMA PutOwner ==
    ASSUME Base, Base', NEW i \in 1 .. puts + 1, NEW p \in Patterns, NEW f \in 0 .. puts,
           NEW bl \in BOOLEAN, PutCard(i, p, f, bl),
           i = puts + 1 \/ \E w \in Writers : On(w) /\ KeyOf(w) = Fold[p] /\ job[w].keep = i
    PROVE  /\ \A k \in IssueKeys : k # Fold[p] => latest'[k] # i
           /\ \A v \in Writers : (On(v)' /\ KeyOf(v)' # Fold[p]) => job'[v].keep # i
           /\ \A k : k # Fold[p] => i \notin CardsOf(k)
  <1>1. Present' = Present \cup {i} /\ cards'[i].pat = p BY PutIs DEF Base
  <1>2. PICK o \in [1 .. puts' -> IssueKeys] : Owns(o)' BY DEF Base, IdsHaveOwners
  <1>3. o[i] = Fold[p] BY <1>1, <1>2 DEF Owns
  <1>4. i # 0 /\ puts \in Nat BY DEF Base, KnownTypes, CardTypes
  <1>5. \A k \in IssueKeys : k # Fold[p] => latest'[k] # i
    <2>1. \A k \in IssueKeys : latest'[k] # 0 => o[latest'[k]] = k BY <1>2 DEF Owns
    <2> QED BY <1>3, <1>4, <2>1
  <1>6. \A v \in Writers : (On(v)' /\ KeyOf(v)' # Fold[p]) => job'[v].keep # i
    <2>1. \A v \in Writers : On(v)' => (job'[v].keep # 0 => o[job'[v].keep] = KeyOf(v)')
      BY <1>2 DEF Owns
    <2> QED BY <1>3, <1>4, <2>1
  <1>7. \A k : k # Fold[p] => i \notin CardsOf(k)
    <2> SUFFICES ASSUME NEW k, k # Fold[p], i \in CardsOf(k) PROVE FALSE OBVIOUS
    <2>1. PICK q \in [1 .. puts -> IssueKeys] : Owns(q) BY DEF Base, IdsHaveOwners
    <2>2. i \in Present /\ Fold[cards[i].pat] = k BY DEF CardsOf
    <2>3. q[i] = k BY <2>1, <2>2 DEF Owns
    <2>4. i # puts + 1
      <3>1. i <= puts /\ i \in Nat BY <2>2 DEF Base, KnownTypes, CardTypes
      <3> QED BY <1>4, <3>1
    <2>5. PICK w \in Writers : On(w) /\ KeyOf(w) = Fold[p] /\ job[w].keep = i BY <2>4
    <2>6. job[w].keep # 0 => q[job[w].keep] = KeyOf(w) BY <2>1, <2>5 DEF Owns
    <2> QED BY <1>4, <2>3, <2>5, <2>6
  <1> QED BY <1>5, <1>6, <1>7

----------------------------------------------------------------------------
(* The last teaching of a pattern, and the requests that are alone. *)

\* What is inductive about teaching.
Taught == Base /\ LatestTeachingStays /\ AloneCollapses

\* A request that starts and is alone has seen all there is of its pattern.
LEMMA StartTaught ==
    ASSUME Taught, NEW w \in Writers, NEW p \in Patterns, NEW bl \in BOOLEAN, TeachList(w, p, bl),
           UNCHANGED <<cards, puts, latest, orphaned>>
    PROVE  Taught'
  <1> USE DEF Taught
  <1>1. Base' BY StartBase
  <1>2. /\ ~On(w) /\ Found(w, p)
        /\ \A v \in Writers : v # w => Kept(v)
        /\ \A v \in Writers : (v # w /\ On(v) /\ KeyOf(v) = Fold[p]) => ~job'[v].alone
    BY StartIs DEF Base
  <1>3. Present' = Present /\ \A k : CardsOf(k)' = CardsOf(k) BY DEF Present, CardsOf, Ids, NoCard
  <1>4. LatestTeachingStays'
    <2> SUFFICES ASSUME NEW k \in IssueKeys, latest'[k] # 0
                 PROVE  \/ latest'[k] \in Present' /\ Fold[cards'[latest'[k]].pat] = k
                        \/ latest'[k] \in orphaned'
                        \/ \E v \in Writers : On(v)' /\ latest'[k] \in job'[v].gone
      BY DEF LatestTeachingStays, On
    <2>1. ASSUME NEW v \in Writers, On(v), latest[k] \in job[v].gone
          PROVE  On(v)' /\ latest'[k] \in job'[v].gone
      <3>1. Kept(v) BY <1>2, <2>1
      <3> QED BY <2>1, <3>1 DEF Kept, On
    <2> QED BY <1>3, <2>1 DEF LatestTeachingStays, On
  <1>5. AloneCollapses'
    <2> SUFFICES ASSUME NEW v \in Writers, On(v)', job'[v].alone
                 PROVE  /\ \A u \in Writers : (On(u)' /\ KeyOf(u)' = KeyOf(v)') => u = v
                        /\ \A i \in Present : Fold[cards[i].pat] = KeyOf(v)' =>
                              i \in {job'[v].keep} \cup In(job'[v].rest)
                        /\ job'[v].keep \in Present =>
                              job'[v].first # 0 /\ job'[v].first <= cards[job'[v].keep].at
      BY <1>3 DEF AloneCollapses
    <2>1. \A u \in Writers : (u # w /\ On(u)') => On(u) /\ KeyOf(u)' = KeyOf(u) /\ Kept(u)
      BY <1>2 DEF Kept, On, KeyOf
    <2>2. KeyOf(w)' = Fold[p] BY <1>2 DEF Found, KeyOf
    <2>3. CASE v = w
      BY <1>2, <2>1, <2>2, <2>3 DEF Found
    <2>4. CASE v # w
      <3>1. On(v) /\ job[v].alone /\ KeyOf(v)' = KeyOf(v) /\ Kept(v) BY <2>1, <2>4 DEF Kept
      <3>2. KeyOf(v) # Fold[p] BY <1>2, <2>4, <3>1
      <3>3. \A u \in Writers : (On(u)' /\ KeyOf(u)' = KeyOf(v)') => u = v
        <4> SUFFICES ASSUME NEW u \in Writers, On(u)', KeyOf(u)' = KeyOf(v) PROVE u = v
          BY <3>1
        <4>1. u # w BY <2>2, <3>2
        <4>2. On(u) /\ KeyOf(u) = KeyOf(v) BY <2>1, <4>1
        <4> QED BY <3>1, <4>2 DEF AloneCollapses
      <3>4. /\ \A i \in Present : Fold[cards[i].pat] = KeyOf(v) =>
                  i \in {job[v].keep} \cup In(job[v].rest)
            /\ job[v].keep \in Present => job[v].first # 0 /\ job[v].first <= cards[job[v].keep].at
        BY <3>1 DEF AloneCollapses
      <3> QED BY <3>1, <3>3, <3>4 DEF Kept
    <2> QED BY <2>3, <2>4
  <1> QED BY <1>1, <1>4, <1>5

\* A user's deletion takes the latest card's claim with it.
LEMMA OutTaught ==
    ASSUME Taught, NEW i \in Ids, TakeOut(i), UNCHANGED <<puts, job, orphaned>>,
           latest' = [k \in IssueKeys |-> IF latest[k] = i THEN 0 ELSE latest[k]]
    PROVE  Taught'
  <1> USE DEF Taught
  <1>1. Base' BY OutBase
  <1>2. /\ Present' = Present \ {i} /\ \A h \in Present' : cards'[h] = cards[h]
    BY OutIs DEF Base
  <1>3. LatestTeachingStays'
    <2>1. \A k \in IssueKeys : latest'[k] # 0 => latest[k] # 0 /\ latest'[k] = latest[k] /\ latest[k] # i
      OBVIOUS
    <2> QED BY <1>2, <2>1 DEF LatestTeachingStays, NoJob
  <1>4. AloneCollapses'
    <2> SUFFICES ASSUME NEW v \in Writers, On(v), job[v].alone
                 PROVE  /\ \A u \in Writers : (On(u) /\ KeyOf(u) = KeyOf(v)) => u = v
                        /\ \A h \in Present' : Fold[cards'[h].pat] = KeyOf(v) =>
                              h \in {job[v].keep} \cup In(job[v].rest)
                        /\ job[v].keep \in Present' =>
                              job[v].first # 0 /\ job[v].first <= cards'[job[v].keep].at
      BY <1>2 DEF AloneCollapses, On, KeyOf, NoJob
    <2>1. job[v].keep \in Present' => job[v].keep \in Present /\ cards'[job[v].keep] = cards[job[v].keep]
      BY <1>2
    <2> QED BY <1>2, <2>1 DEF AloneCollapses
  <1> QED BY <1>1, <1>3, <1>4

\* A card that a request deletes is among those it has to make up for.
LEMMA DeleteTaught ==
    ASSUME Taught, NEW w \in Writers, TeachDelete(w) PROVE Taught'
  <1> USE DEF Taught
  <1> DEFINE h == Head(job[w].rest)
  <1>1. Base' BY DeleteBase
  <1>2. /\ On(w) /\ h \in Ids /\ TakeOut(h) /\ UNCHANGED <<puts, limits, latest, orphaned, import, backup>>
        /\ job'[w] \in Job /\ job'[w].pat = job[w].pat /\ job'[w].keep = job[w].keep
        /\ job'[w].first = job[w].first /\ job'[w].alone = job[w].alone
        /\ In(job[w].rest) = {h} \cup In(job'[w].rest)
        /\ job'[w].gone = job[w].gone \cup {h}
        /\ \A v \in Writers : v # w => Kept(v)
    BY DeleteIs DEF Base
  <1> HIDE DEF h
  <1>3. /\ Present' = Present \ {h} /\ \A i \in Present' : cards'[i] = cards[i]
    BY <1>2, OutIs DEF Base
  <1>4. On(w)' /\ KeyOf(w)' = KeyOf(w) BY <1>2, AJobIsNotNone DEF On, KeyOf, NoJob
  <1>5. \A v \in Writers : /\ On(v)' <=> On(v)
                           /\ On(v) => /\ KeyOf(v)' = KeyOf(v) /\ job'[v].keep = job[v].keep
                                       /\ job'[v].first = job[v].first
                                       /\ job[v].gone \subseteq job'[v].gone
                                       /\ job'[v].alone => job[v].alone
    <2> TAKE v \in Writers
    <2>1. CASE v = w BY <1>2, <1>4, <2>1
    <2>2. CASE v # w
      <3>1. Kept(v) BY <1>2, <2>2
      <3> QED BY <3>1 DEF Kept, On, KeyOf, NoJob
    <2> QED BY <2>1, <2>2
  <1>6. LatestTeachingStays'
    <2> SUFFICES ASSUME NEW k \in IssueKeys, latest[k] # 0
                 PROVE  \/ latest[k] \in Present' /\ Fold[cards'[latest[k]].pat] = k
                        \/ latest[k] \in orphaned
                        \/ \E v \in Writers : On(v)' /\ latest[k] \in job'[v].gone
      BY <1>2 DEF LatestTeachingStays, On
    <2>1. CASE latest[k] \in Present /\ Fold[cards[latest[k]].pat] = k
      BY <1>2, <1>3, <1>4, <2>1
    <2>2. CASE \E v \in Writers : On(v) /\ latest[k] \in job[v].gone
      BY <1>5, <2>2
    <2> QED BY <2>1, <2>2 DEF LatestTeachingStays, On
  <1>7. AloneCollapses'
    <2> SUFFICES ASSUME NEW v \in Writers, On(v)', job'[v].alone
                 PROVE  /\ \A u \in Writers : (On(u)' /\ KeyOf(u)' = KeyOf(v)') => u = v
                        /\ \A i \in Present' : Fold[cards'[i].pat] = KeyOf(v)' =>
                              i \in {job'[v].keep} \cup In(job'[v].rest)
                        /\ job'[v].keep \in Present' =>
                              job'[v].first # 0 /\ job'[v].first <= cards'[job'[v].keep].at
      BY DEF AloneCollapses
    <2>1. /\ On(v) /\ job[v].alone /\ KeyOf(v)' = KeyOf(v) /\ job'[v].keep = job[v].keep
          /\ job'[v].first = job[v].first
      BY <1>5
    <2>2. /\ \A u \in Writers : (On(u) /\ KeyOf(u) = KeyOf(v)) => u = v
          /\ \A i \in Present : Fold[cards[i].pat] = KeyOf(v) =>
                i \in {job[v].keep} \cup In(job[v].rest)
          /\ job[v].keep \in Present => job[v].first # 0 /\ job[v].first <= cards[job[v].keep].at
      BY <2>1 DEF AloneCollapses
    <2>3. \A u \in Writers : (On(u)' /\ KeyOf(u)' = KeyOf(v)') => u = v BY <1>5, <2>1, <2>2
    <2>4. \A i \in Present' : Fold[cards'[i].pat] = KeyOf(v) => i \in {job[v].keep} \cup In(job'[v].rest)
      <3>1. CASE v = w BY <1>2, <1>3, <2>2, <3>1
      <3>2. CASE v # w
        <4>1. job'[v].rest = job[v].rest BY <1>2, <2>1, <3>2 DEF Kept
        <4> QED BY <1>3, <2>2, <4>1
      <3> QED BY <3>1, <3>2
    <2>5. job[v].keep \in Present' => job[v].keep \in Present /\ cards'[job[v].keep] = cards[job[v].keep]
      BY <1>3
    <2> QED BY <2>1, <2>2, <2>3, <2>4, <2>5
  <1> QED BY <1>1, <1>6, <1>7

\* A request that dies leaves what it deleted orphaned.
LEMMA DeathTaught ==
    ASSUME Taught, NEW w \in Writers, TeachDies(w) PROVE Taught'
  <1> USE DEF Taught
  <1>1. Base' BY DeathBase
  <1>2. /\ On(w) /\ orphaned' = orphaned \cup job[w].gone
        /\ job'[w] = NoJob /\ \A v \in Writers : v # w => Kept(v)
        /\ UNCHANGED <<cards, puts, latest, export, backup>>
    BY DeathIs DEF Base
  <1>3. Present' = Present BY <1>2 DEF Present, Ids, NoCard
  <1>4. \A v \in Writers : On(v)' => v # w /\ Kept(v) /\ On(v) /\ KeyOf(v)' = KeyOf(v)
    BY <1>2 DEF Kept, On, KeyOf, NoJob
  <1>5. LatestTeachingStays'
    <2> SUFFICES ASSUME NEW k \in IssueKeys, latest[k] # 0
                 PROVE  \/ latest[k] \in Present /\ Fold[cards[latest[k]].pat] = k
                        \/ latest[k] \in orphaned'
                        \/ \E v \in Writers : On(v)' /\ latest[k] \in job'[v].gone
      BY <1>2, <1>3 DEF LatestTeachingStays, On
    <2>1. ASSUME NEW v \in Writers, On(v), latest[k] \in job[v].gone
          PROVE  latest[k] \in orphaned' \/ (On(v)' /\ latest[k] \in job'[v].gone)
      <3>1. CASE v = w BY <1>2, <2>1, <3>1
      <3>2. CASE v # w
        <4>1. Kept(v) BY <1>2, <3>2
        <4> QED BY <2>1, <4>1 DEF Kept, On, NoJob
      <3> QED BY <3>1, <3>2
    <2> QED BY <1>2, <2>1 DEF LatestTeachingStays, On
  <1>6. AloneCollapses'
    <2> SUFFICES ASSUME NEW v \in Writers, On(v)', job'[v].alone
                 PROVE  /\ \A u \in Writers : (On(u)' /\ KeyOf(u)' = KeyOf(v)') => u = v
                        /\ \A i \in Present : Fold[cards[i].pat] = KeyOf(v)' =>
                              i \in {job'[v].keep} \cup In(job'[v].rest)
                        /\ job'[v].keep \in Present =>
                              job'[v].first # 0 /\ job'[v].first <= cards[job'[v].keep].at
      BY <1>2, <1>3 DEF AloneCollapses
    <2>1. On(v) /\ job[v].alone /\ Kept(v) /\ KeyOf(v)' = KeyOf(v) BY <1>4 DEF Kept
    <2>2. /\ \A u \in Writers : (On(u) /\ KeyOf(u) = KeyOf(v)) => u = v
          /\ \A i \in Present : Fold[cards[i].pat] = KeyOf(v) =>
                i \in {job[v].keep} \cup In(job[v].rest)
          /\ job[v].keep \in Present => job[v].first # 0 /\ job[v].first <= cards[job[v].keep].at
      BY <2>1 DEF AloneCollapses
    <2>3. \A u \in Writers : (On(u)' /\ KeyOf(u)' = KeyOf(v)') => u = v BY <1>4, <2>1, <2>2
    <2> QED BY <2>1, <2>2, <2>3 DEF Kept
  <1> QED BY <1>1, <1>5, <1>6

\* Requests of the same pattern that a put leaves at work are not alone any more.
LEMMA PutTaught ==
    ASSUME Taught, NEW i \in 1 .. puts + 1, NEW p \in Patterns, NEW f \in 0 .. puts, NEW bl \in BOOLEAN,
           PutCard(i, p, f, bl), orphaned' = orphaned,
           job' \in [Writers -> Job \cup {NoJob}],
           \A v \in Writers : On(v)' => Kept(v),
           \A v \in Writers : (On(v) /\ ~On(v)') => KeyOf(v) = Fold[p],
           \A v \in Writers : (On(v)' /\ KeyOf(v) = Fold[p]) => ~job'[v].alone,
           i = puts + 1 \/ \E w \in Writers : On(w) /\ KeyOf(w) = Fold[p] /\ job[w].keep = i
    PROVE  Taught'
  <1> USE DEF Taught
  <1>1. Base' BY PutBase
  <1>2. /\ i \in Ids /\ puts' = puts + 1 /\ cards'[i].pat = p
        /\ \A h \in Ids : h # i => cards'[h] = cards[h]
        /\ Present' = Present \cup {i}
        /\ latest'[Fold[p]] = i
        /\ \A k \in IssueKeys : k # Fold[p] => latest'[k] = latest[k]
    BY PutIs DEF Base
  <1>3. /\ \A k \in IssueKeys : k # Fold[p] => latest'[k] # i
        /\ \A v \in Writers : (On(v)' /\ KeyOf(v)' # Fold[p]) => job'[v].keep # i
    BY <1>1, PutOwner
  <1>4. \A v \in Writers : On(v)' => Kept(v) /\ On(v) /\ KeyOf(v)' = KeyOf(v)
    BY DEF Kept, On, KeyOf
  <1>5. LatestTeachingStays'
    <2> SUFFICES ASSUME NEW k \in IssueKeys, latest'[k] # 0
                 PROVE  \/ latest'[k] \in Present' /\ Fold[cards'[latest'[k]].pat] = k
                        \/ latest'[k] \in orphaned'
                        \/ \E v \in Writers : On(v)' /\ latest'[k] \in job'[v].gone
      BY DEF LatestTeachingStays, On
    <2>1. CASE k = Fold[p] BY <1>2, <2>1
    <2>2. CASE k # Fold[p]
      <3>1. latest'[k] = latest[k] /\ latest[k] # i /\ latest[k] # 0 BY <1>2, <1>3, <2>2
      <3>2. CASE latest[k] \in Present /\ Fold[cards[latest[k]].pat] = k
        <4>1. cards'[latest[k]] = cards[latest[k]] BY <1>2, <3>1, <3>2, PresentAre DEF Base
        <4> QED BY <1>2, <3>1, <3>2, <4>1
      <3>3. CASE \E v \in Writers : On(v) /\ latest[k] \in job[v].gone
        <4>1. PICK v \in Writers : On(v) /\ latest[k] \in job[v].gone BY <3>3
        <4>2. PICK o \in [1 .. puts -> IssueKeys] : Owns(o) BY DEF Base, IdsHaveOwners
        <4>3. o[latest[k]] = k /\ o[latest[k]] = KeyOf(v) BY <3>1, <4>1, <4>2 DEF Owns
        <4>4. On(v)' BY <2>2, <4>1, <4>3
        <4>5. job'[v].gone = job[v].gone BY <1>4, <4>4 DEF Kept
        <4> QED BY <3>1, <4>1, <4>4, <4>5
      <3> QED BY <3>1, <3>2, <3>3 DEF LatestTeachingStays, On
    <2> QED BY <2>1, <2>2
  <1>6. AloneCollapses'
    <2> SUFFICES ASSUME NEW v \in Writers, On(v)', job'[v].alone
                 PROVE  /\ \A u \in Writers : (On(u)' /\ KeyOf(u)' = KeyOf(v)') => u = v
                        /\ \A h \in Present' : Fold[cards'[h].pat] = KeyOf(v)' =>
                              h \in {job'[v].keep} \cup In(job'[v].rest)
                        /\ job'[v].keep \in Present' =>
                              job'[v].first # 0 /\ job'[v].first <= cards'[job'[v].keep].at
      BY DEF AloneCollapses
    <2>1. On(v) /\ job[v].alone /\ Kept(v) /\ KeyOf(v)' = KeyOf(v) /\ KeyOf(v) # Fold[p]
      BY <1>4 DEF Kept
    <2>2. /\ \A u \in Writers : (On(u) /\ KeyOf(u) = KeyOf(v)) => u = v
          /\ \A h \in Present : Fold[cards[h].pat] = KeyOf(v) =>
                h \in {job[v].keep} \cup In(job[v].rest)
          /\ job[v].keep \in Present => job[v].first # 0 /\ job[v].first <= cards[job[v].keep].at
      BY <2>1 DEF AloneCollapses
    <2>3. \A u \in Writers : (On(u)' /\ KeyOf(u)' = KeyOf(v)') => u = v BY <1>4, <2>1, <2>2
    <2>4. \A h \in Present' : h # i => h \in Present /\ cards'[h] = cards[h]
      BY <1>2, PresentAre DEF Base
    <2>5. \A h \in Present' : Fold[cards'[h].pat] = KeyOf(v) => h \in {job[v].keep} \cup In(job[v].rest)
      <3>1. Fold[cards'[i].pat] # KeyOf(v) BY <1>2, <2>1
      <3> QED BY <2>2, <2>4, <3>1
    <2>6. job[v].keep # i BY <1>3, <2>1 DEF Kept
    <2>7. job[v].keep \in Present' => job[v].first # 0 /\ job[v].first <= cards'[job[v].keep].at
      BY <2>2, <2>4, <2>6
    <2> QED BY <2>1, <2>3, <2>5, <2>7 DEF Kept
  <1> QED BY <1>1, <1>5, <1>6

\* The put that ends a request.
LEMMA PuttingTaught ==
    ASSUME Taught, NEW w \in Writers, TeachPut(w) PROVE Taught'
  <1> USE DEF Taught
  <1>1. /\ On(w) /\ job[w].first \in 0 .. puts /\ job[w].pat \in Patterns /\ job[w].blank \in BOOLEAN
        /\ UNCHANGED <<limits, orphaned, import, export, backup>>
        /\ job' \in [Writers -> Job \cup {NoJob}] /\ job'[w] = NoJob
        /\ \A v \in Writers : v # w => Kept(v)
    BY PuttingIs DEF Base
  <1>2. PICK i \in 1 .. puts + 1 : /\ i = IF job[w].keep = 0 THEN puts + 1 ELSE job[w].keep
                                   /\ PutCard(i, job[w].pat, job[w].first, job[w].blank)
    BY PuttingIs DEF Base
  <1>3. i = puts + 1 \/ (On(w) /\ KeyOf(w) = Fold[job[w].pat] /\ job[w].keep = i)
    BY <1>1, <1>2 DEF KeyOf
  <1>4. \A v \in Writers : On(v)' => v # w BY <1>1 DEF On, NoJob
  <1>5. \A v \in Writers : On(v)' => Kept(v) BY <1>1, <1>4
  <1>6. \A v \in Writers : (On(v) /\ ~On(v)') => KeyOf(v) = Fold[job[w].pat]
    <2> TAKE v \in Writers
    <2>1. CASE v = w BY <2>1 DEF KeyOf
    <2>2. CASE v # w
      <3>1. Kept(v) BY <1>1, <2>2
      <3> QED BY <3>1 DEF Kept, On, NoJob
    <2> QED BY <2>1, <2>2
  <1>7. \A v \in Writers : (On(v)' /\ KeyOf(v) = Fold[job[w].pat]) => ~job'[v].alone
    <2> SUFFICES ASSUME NEW v \in Writers, On(v)', KeyOf(v) = Fold[job[w].pat], job'[v].alone PROVE FALSE
      OBVIOUS
    <2>1. v # w /\ Kept(v) BY <1>4, <1>5
    <2>2. On(v) /\ job[v].alone BY <2>1 DEF Kept, On, NoJob
    <2>3. KeyOf(w) = KeyOf(v) BY DEF KeyOf
    <2> QED BY <1>1, <2>1, <2>2, <2>3 DEF AloneCollapses
  <1> DEFINE p == job[w].pat
             f == job[w].first
             bl == job[w].blank
  <1>8. /\ p \in Patterns /\ f \in 0 .. puts /\ bl \in BOOLEAN /\ PutCard(i, p, f, bl)
        /\ \A v \in Writers : (On(v) /\ ~On(v)') => KeyOf(v) = Fold[p]
        /\ \A v \in Writers : (On(v)' /\ KeyOf(v) = Fold[p]) => ~job'[v].alone
        /\ i = puts + 1 \/ \E u \in Writers : On(u) /\ KeyOf(u) = Fold[p] /\ job[u].keep = i
    BY <1>1, <1>2, <1>3, <1>6, <1>7
  <1> HIDE DEF p, f, bl
  <1> QED BY <1>1, <1>5, <1>8, PutTaught

\* The agent's card, whatever the table holds.
LEMMA RemembersTaught ==
    ASSUME Taught, NEW p \in Patterns, NEW bl \in BOOLEAN, AgentRemembers(p, bl) PROVE Taught'
  <1> USE DEF Taught
  <1> DEFINE i == puts + 1
             f == 0
  <1>1. PutCard(i, p, f, bl) /\ job' = Disturb(Fold[p]) /\ orphaned' = orphaned
    BY DEF AgentRemembers
  <1>2. i \in 1 .. puts + 1 /\ f \in 0 .. puts /\ i = puts + 1 BY DEF Base, KnownTypes, CardTypes
  <1>3. /\ job' \in [Writers -> Job \cup {NoJob}]
        /\ \A v \in Writers : Kept(v) /\ ((On(v) /\ KeyOf(v) = Fold[p]) => ~job'[v].alone)
    BY <1>1, DisturbedIsKept DEF Base
  <1>4. \A v \in Writers : On(v)' <=> On(v) BY <1>3 DEF Kept, On, NoJob
  <1> HIDE DEF i, f
  <1> QED BY <1>1, <1>2, <1>3, <1>4, PutTaught

----------------------------------------------------------------------------
(* The import. *)

\* The import under way stays the same, except that it may have failed.
ImportGoesOn ==
    /\ import # NoJob /\ import' # NoJob
    /\ import'.have = import.have /\ import'.items = import.items /\ import'.done = import.done
    /\ import.failed => import'.failed

\* While it does, patterns that stay restored keep the import's promise.
LEMMA ImportKeeps ==
    ASSUME ImportInv, ImportGoesOn,
           \A k \in IssueKeys : Restored(k) => Restored(k)',
           import'.failed \/ \A k \in IssueKeys : Posting(k) => Restored(k)' \/ Posting(k)'
    PROVE  ImportInv'
  <1>1. \A k \in IssueKeys : (Had(k)' => Had(k)) /\ (Done(k)' => Done(k))
    BY DEF Had, Done, ImportGoesOn
  <1>2. \A k \in IssueKeys : Had(k)' => Restored(k)'
    BY <1>1 DEF ImportInv, ImportGoesOn
  <1>3. import'.failed \/ \A k \in IssueKeys : Done(k)' => Restored(k)' \/ Posting(k)'
    BY <1>1 DEF ImportInv, ImportGoesOn
  <1> QED BY <1>2, <1>3 DEF ImportInv, NoJob, IssueKeys

\* A request that starts restores and undoes nothing.
LEMMA StartRestored ==
    ASSUME Base, NEW w \in Writers, NEW p \in Patterns, NEW bl \in BOOLEAN, TeachList(w, p, bl),
           UNCHANGED <<cards, orphaned>>, import'.forgot = import.forgot
    PROVE  /\ \A k \in IssueKeys : Restored(k) => Restored(k)'
           /\ \A k \in IssueKeys : Posting(k) => Posting(k)'
           /\ w = Importer => Posting(Fold[p])' /\ \A k \in IssueKeys : ~Posting(k)
  <1>1. ~On(w) /\ Found(w, p) /\ \A v \in Writers : v # w => Kept(v)
    BY StartIs DEF Base
  <1>2. \A k \in IssueKeys : CardsOf(k)' = CardsOf(k) BY DEF CardsOf, Present, Ids, NoCard
  <1>3. \A v \in Writers : On(v) => /\ On(v)' /\ KeyOf(v)' = KeyOf(v)
                                    /\ job'[v].gone = job[v].gone
    BY <1>1 DEF Kept, On, KeyOf, NoJob
  <1>4. Importer \in Writers BY DEF Writers
  <1>5. \A k \in IssueKeys : Restored(k) => Restored(k)' BY <1>2, <1>3 DEF Restored
  <1>6. \A k \in IssueKeys : Posting(k) => Posting(k)' BY <1>3, <1>4 DEF Posting
  <1>7. w = Importer => Posting(Fold[p])' /\ \A k \in IssueKeys : ~Posting(k)
    <2>1. On(w)' /\ KeyOf(w)' = Fold[p] BY <1>1, AJobIsNotNone DEF Found, On, KeyOf, NoJob
    <2> QED BY <1>1, <2>1 DEF Posting
  <1> QED BY <1>5, <1>6, <1>7

\* A request that deletes has yet to put.
LEMMA DeleteRestored ==
    ASSUME Base, NEW w \in Writers, TeachDelete(w)
    PROVE  /\ \A k \in IssueKeys : Restored(k) => Restored(k)'
           /\ \A k \in IssueKeys : Posting(k) => Posting(k)'
  <1> DEFINE h == Head(job[w].rest)
  <1>1. /\ On(w) /\ h \in Ids /\ TakeOut(h) /\ UNCHANGED <<puts, limits, latest, orphaned, import, backup>>
        /\ job'[w] \in Job /\ job'[w].pat = job[w].pat
        /\ In(job[w].rest) = {h} \cup In(job'[w].rest)
        /\ job'[w].gone = job[w].gone \cup {h}
        /\ \A v \in Writers : v # w => Kept(v)
    BY DeleteIs DEF Base
  <1> HIDE DEF h
  <1>2. /\ Present' = Present \ {h}
        /\ \A k : CardsOf(k)' = CardsOf(k) \ {h}
    BY <1>1, OutIs DEF Base
  <1>3. On(w)' /\ KeyOf(w)' = KeyOf(w) BY <1>1, AJobIsNotNone DEF On, KeyOf, NoJob
  <1>4. \A v \in Writers : On(v) => /\ On(v)' /\ KeyOf(v)' = KeyOf(v)
                                    /\ job[v].gone \subseteq job'[v].gone
    <2> TAKE v \in Writers
    <2>1. CASE v = w BY <1>1, <1>3, <2>1
    <2>2. CASE v # w
      <3>1. Kept(v) BY <1>1, <2>2
      <3> QED BY <3>1 DEF Kept, On, KeyOf, NoJob
    <2> QED BY <2>1, <2>2
  <1>5. ASSUME NEW k \in IssueKeys, Restored(k) PROVE Restored(k)'
    <2>1. CASE CardsOf(k) # {}
      <3>1. CASE h \in CardsOf(k)
        <4>1. PICK o \in [1 .. puts -> IssueKeys] : Owns(o) BY DEF Base, IdsHaveOwners
        <4>2. o[h] = k BY <3>1, <4>1 DEF Owns, CardsOf
        <4>3. o[h] = KeyOf(w) BY <1>1, <4>1 DEF Owns
        <4> QED BY <1>1, <1>3, <4>2, <4>3 DEF Restored
      <3>2. CASE h \notin CardsOf(k)
        <4>1. CardsOf(k)' = CardsOf(k) BY <1>2, <3>2
        <4> QED BY <2>1, <4>1 DEF Restored
      <3> QED BY <3>1, <3>2
    <2>2. CASE k \in import.forgot BY <1>1, <2>2 DEF Restored
    <2>3. CASE \E v \in Writers : On(v) /\ KeyOf(v) = k /\ job[v].gone # {}
      BY <1>4, <2>3 DEF Restored
    <2>4. CASE orphaned # {} BY <1>1, <2>4 DEF Restored
    <2> QED BY <1>5, <2>1, <2>2, <2>3, <2>4 DEF Restored
  <1>6. Importer \in Writers BY DEF Writers
  <1>7. \A k \in IssueKeys : Posting(k) => Posting(k)' BY <1>4, <1>6 DEF Posting
  <1> QED BY <1>5, <1>7

\* A request that dies after a deletion leaves an orphan.
LEMMA DeathRestored ==
    ASSUME Base, NEW w \in Writers, TeachDies(w), import'.forgot = import.forgot
    PROVE  /\ \A k \in IssueKeys : Restored(k) => Restored(k)'
           /\ w # Importer => \A k \in IssueKeys : Posting(k) => Posting(k)'
  <1>1. /\ On(w) /\ orphaned' = orphaned \cup job[w].gone
        /\ \A v \in Writers : v # w => Kept(v)
        /\ UNCHANGED <<cards, puts, latest, export, backup>>
    BY DeathIs DEF Base
  <1>2. \A k \in IssueKeys : CardsOf(k)' = CardsOf(k) BY <1>1 DEF CardsOf, Present, Ids, NoCard
  <1>3. \A v \in Writers : (On(v) /\ v # w) =>
           On(v)' /\ KeyOf(v)' = KeyOf(v) /\ job'[v].gone = job[v].gone
    BY <1>1 DEF Kept, On, KeyOf, NoJob
  <1>4. ASSUME NEW k \in IssueKeys, Restored(k) PROVE Restored(k)'
    <2>1. CASE CardsOf(k) # {} BY <1>2, <2>1 DEF Restored
    <2>2. CASE k \in import.forgot BY <2>2 DEF Restored
    <2>3. CASE \E v \in Writers : On(v) /\ KeyOf(v) = k /\ job[v].gone # {}
      <3>1. PICK v \in Writers : On(v) /\ KeyOf(v) = k /\ job[v].gone # {} BY <2>3
      <3>2. CASE v = w BY <1>1, <3>1, <3>2 DEF Restored
      <3>3. CASE v # w BY <1>3, <3>1, <3>3 DEF Restored
      <3> QED BY <3>2, <3>3
    <2>4. CASE orphaned # {} BY <1>1, <2>4 DEF Restored
    <2> QED BY <1>4, <2>1, <2>2, <2>3, <2>4 DEF Restored
  <1>5. Importer \in Writers BY DEF Writers
  <1>6. w # Importer => \A k \in IssueKeys : Posting(k) => Posting(k)' BY <1>3, <1>5 DEF Posting
  <1> QED BY <1>4, <1>6

\* A put restores its pattern.
LEMMA PutRestored ==
    ASSUME Base, Base', NEW i \in 1 .. puts + 1, NEW p \in Patterns, NEW f \in 0 .. puts,
           NEW bl \in BOOLEAN, PutCard(i, p, f, bl), UNCHANGED <<orphaned, import>>,
           \A v \in Writers : On(v)' => Kept(v),
           \A v \in Writers : (On(v) /\ ~On(v)') => KeyOf(v) = Fold[p],
           i = puts + 1 \/ \E w \in Writers : On(w) /\ KeyOf(w) = Fold[p] /\ job[w].keep = i
    PROVE  /\ \A k \in IssueKeys : Restored(k) => Restored(k)'
           /\ \A k \in IssueKeys : Posting(k) => Restored(k)' \/ Posting(k)'
  <1>1. /\ \A k : k # Fold[p] => CardsOf(k)' = CardsOf(k) \ {i}
        /\ CardsOf(Fold[p])' = CardsOf(Fold[p]) \cup {i}
    BY PutIs DEF Base
  <1>2. \A k : k # Fold[p] => i \notin CardsOf(k) BY PutOwner
  <1>3. \A v \in Writers : (On(v) /\ KeyOf(v) # Fold[p]) =>
           On(v)' /\ KeyOf(v)' = KeyOf(v) /\ job'[v].gone = job[v].gone
    BY DEF Kept, On, KeyOf, NoJob
  <1>4. \A k \in IssueKeys : k = Fold[p] => Restored(k)' BY <1>1 DEF Restored
  <1>5. ASSUME NEW k \in IssueKeys, Restored(k), k # Fold[p] PROVE Restored(k)'
    <2>1. CardsOf(k)' = CardsOf(k) BY <1>1, <1>2, <1>5
    <2>2. (\E v \in Writers : On(v) /\ KeyOf(v) = k /\ job[v].gone # {}) =>
             \E v \in Writers : On(v)' /\ KeyOf(v)' = k /\ job'[v].gone # {}
      BY <1>3, <1>5
    <2> QED BY <1>5, <2>1, <2>2 DEF Restored
  <1>6. Importer \in Writers BY DEF Writers
  <1>7. \A k \in IssueKeys : (Posting(k) /\ k # Fold[p]) => Posting(k)' BY <1>3, <1>6 DEF Posting
  <1> QED BY <1>4, <1>5, <1>7

\* A pattern that a user deleted is forgotten by the import.
LEMMA OutRestored ==
    ASSUME Base, NEW i \in Present, TakeOut(i), UNCHANGED <<puts, job, orphaned>>,
           import'.forgot = import.forgot \cup {Fold[cards[i].pat]}
    PROVE  /\ \A k \in IssueKeys : Restored(k) => Restored(k)'
           /\ \A k \in IssueKeys : Posting(k) => Posting(k)'
  <1>1. \A k : CardsOf(k)' = CardsOf(k) \ {i} BY PresentAre, OutIs DEF Base
  <1>2. \A k \in IssueKeys : i \in CardsOf(k) => Restored(k)' BY DEF CardsOf, Restored
  <1>3. ASSUME NEW k \in IssueKeys, Restored(k), i \notin CardsOf(k) PROVE Restored(k)'
    <2>1. CardsOf(k)' = CardsOf(k) BY <1>1, <1>3
    <2> QED BY <1>3, <2>1 DEF Restored, On, KeyOf, NoJob
  <1>4. \A k \in IssueKeys : Posting(k) => Posting(k)' BY DEF Posting, On, KeyOf, NoJob
  <1> QED BY <1>2, <1>3, <1>4

\* What the put that ends a request leaves of the others.
LEMMA PuttingRestored ==
    ASSUME Base, Base', NEW w \in Writers, TeachPut(w)
    PROVE  /\ \A k \in IssueKeys : Restored(k) => Restored(k)'
           /\ \A k \in IssueKeys : Posting(k) => Restored(k)' \/ Posting(k)'
  <1>1. /\ On(w) /\ job[w].first \in 0 .. puts /\ job[w].pat \in Patterns /\ job[w].blank \in BOOLEAN
        /\ UNCHANGED <<orphaned, import>> /\ job'[w] = NoJob
        /\ \A v \in Writers : v # w => Kept(v)
    BY PuttingIs DEF Base
  <1> DEFINE p == job[w].pat
             f == job[w].first
             bl == job[w].blank
  <1>2. PICK i \in 1 .. puts + 1 : (i = IF job[w].keep = 0 THEN puts + 1 ELSE job[w].keep) /\ PutCard(i, p, f, bl)
    BY PuttingIs DEF Base
  <1>3. \A v \in Writers : On(v)' => Kept(v) BY <1>1 DEF On, NoJob
  <1>4. \A v \in Writers : (On(v) /\ ~On(v)') => KeyOf(v) = Fold[p]
    <2> TAKE v \in Writers
    <2>1. CASE v = w BY <2>1 DEF KeyOf
    <2>2. CASE v # w
      <3>1. Kept(v) BY <1>1, <2>2
      <3> QED BY <3>1 DEF Kept, On, NoJob
    <2> QED BY <2>1, <2>2
  <1>5. i = puts + 1 \/ \E u \in Writers : On(u) /\ KeyOf(u) = Fold[p] /\ job[u].keep = i
    BY <1>1, <1>2 DEF KeyOf
  <1>6. p \in Patterns /\ f \in 0 .. puts /\ bl \in BOOLEAN /\ PutCard(i, p, f, bl)
    BY <1>1, <1>2
  <1> HIDE DEF p, f, bl
  <1> QED BY <1>1, <1>3, <1>4, <1>5, <1>6, PutRestored

\* The agent's put restores its pattern, too.
LEMMA RemembersRestored ==
    ASSUME Base, Base', NEW p \in Patterns, NEW bl \in BOOLEAN, AgentRemembers(p, bl)
    PROVE  /\ \A k \in IssueKeys : Restored(k) => Restored(k)'
           /\ \A k \in IssueKeys : Posting(k) => Restored(k)' \/ Posting(k)'
  <1> DEFINE i == puts + 1
             f == 0
  <1>1. PutCard(i, p, f, bl) /\ job' = Disturb(Fold[p]) /\ UNCHANGED <<orphaned, import>>
    BY DEF AgentRemembers
  <1>2. i \in 1 .. puts + 1 /\ f \in 0 .. puts /\ i = puts + 1 BY DEF Base, KnownTypes, CardTypes
  <1>3. \A v \in Writers : Kept(v) BY <1>1, DisturbedIsKept DEF Base
  <1>4. \A v \in Writers : On(v)' <=> On(v) BY <1>3 DEF Kept, On, NoJob
  <1> HIDE DEF i, f
  <1> QED BY <1>1, <1>2, <1>3, <1>4, PutRestored

\* Steps that leave the table and the requests alone.
LEMMA QuietRestored ==
    ASSUME UNCHANGED <<cards, job, orphaned>>, import'.forgot = import.forgot
    PROVE  /\ \A k \in IssueKeys : Restored(k)' <=> Restored(k)
           /\ \A k \in IssueKeys : Posting(k)' <=> Posting(k)
  BY DEF Restored, Posting, CardsOf, Present, Ids, NoCard, On, KeyOf, NoJob

\* A step that does not touch the import keeps its promise if it keeps patterns
\* restored.
LEMMA ImportStays ==
    ASSUME ImportTypes, ImportInv, UNCHANGED <<import, backup>>,
           \A k \in IssueKeys : Restored(k) => Restored(k)',
           \A k \in IssueKeys : Posting(k) => Restored(k)' \/ Posting(k)'
    PROVE  ImportTypes' /\ ImportInv'
  <1>1. ImportTypes' BY DEF ImportTypes, ImportRecord, ItemRecord, NoJob, Ids, IssueKeys
  <1>2. CASE import = NoJob BY <1>1, <1>2 DEF ImportInv, NoJob
  <1>3. CASE import # NoJob
    <2>1. ImportGoesOn BY <1>3 DEF ImportGoesOn, NoJob
    <2> QED BY <1>1, <2>1, ImportKeeps
  <1> QED BY <1>1, <1>2, <1>3

\* An import's record is not the absence of one.
LEMMA AnImportIsNotNone == ASSUME NEW r \in ImportRecord PROVE r # NoJob
  <1>1. r.pc # "idle" BY DEF ImportRecord
  <1>2. NoJob.pc = "idle" BY DEF NoJob
  <1> QED BY <1>1, <1>2

\* The import's own request dies: the import has failed.
LEMMA DeathImport ==
    ASSUME Base, ImportTypes, ImportInv, NEW w \in Writers, TeachDies(w)
    PROVE  ImportTypes' /\ ImportInv'
  <1>1. /\ import' = IF w = Importer /\ import # NoJob THEN [import EXCEPT !.failed = TRUE] ELSE import
        /\ UNCHANGED backup
    BY DeathIs DEF Base
  <1>2. CASE w = Importer /\ import # NoJob
    <2>1. import \in ImportRecord /\ import.done <= Len(import.items) BY <1>2 DEF ImportTypes
    <2>2. /\ import' \in ImportRecord /\ import'.have = import.have /\ import'.items = import.items
          /\ import'.done = import.done /\ import'.forgot = import.forgot /\ import'.failed = TRUE
      BY <1>1, <1>2, <2>1 DEF ImportRecord
    <2>3. import' # NoJob BY <2>2, AnImportIsNotNone
    <2>4. ImportTypes'
      BY <1>1, <2>1, <2>2 DEF ImportTypes, ImportRecord, ItemRecord, NoJob, Ids, IssueKeys
    <2>5. ImportGoesOn BY <1>2, <2>2, <2>3 DEF ImportGoesOn
    <2>6. \A k \in IssueKeys : Restored(k) => Restored(k)' BY <2>2, DeathRestored
    <2>7. import'.failed BY <2>2
    <2> QED BY <2>4, <2>5, <2>6, <2>7, ImportKeeps
  <1>3. CASE ~(w = Importer /\ import # NoJob)
    <2>1. UNCHANGED <<import, backup>> BY <1>1, <1>3
    <2>2. CASE import = NoJob
      <3>1. ImportTypes' BY <2>1 DEF ImportTypes, ImportRecord, ItemRecord, NoJob, Ids, IssueKeys
      <3> QED BY <2>1, <2>2, <3>1 DEF ImportInv, NoJob
    <2>3. CASE import # NoJob
      <3>1. \A k \in IssueKeys : Restored(k) => Restored(k)' BY <2>1, DeathRestored
      <3>2. \A k \in IssueKeys : Posting(k) => Posting(k)' BY <1>3, <2>1, <2>3, DeathRestored
      <3> QED BY <2>1, <3>1, <3>2, ImportStays
    <2> QED BY <2>2, <2>3
  <1> QED BY <1>2, <1>3

\* A user deletes a card during the import.
LEMMA ForgetImport ==
    ASSUME Base, ImportTypes, ImportInv, NEW i \in Ids, Forget(i)
    PROVE  ImportTypes' /\ ImportInv'
  <1>1. /\ i \in Present /\ TakeOut(i) /\ UNCHANGED <<puts, job, orphaned, backup>>
        /\ import' = IF import = NoJob THEN NoJob
                     ELSE [import EXCEPT !.forgot = @ \cup {Fold[cards[i].pat]}]
    BY DEF Forget
  <1>2. CASE import = NoJob
    <2>1. ImportTypes' BY <1>1, <1>2 DEF ImportTypes, ItemRecord, NoJob, Ids
    <2> QED BY <1>1, <1>2, <2>1 DEF ImportInv, NoJob
  <1>3. CASE import # NoJob
    <2> DEFINE k == Fold[cards[i].pat]
    <2>0. k \in IssueKeys BY <1>1, PresentAre DEF Base
    <2>1. import \in ImportRecord /\ import.done <= Len(import.items) BY <1>3 DEF ImportTypes
    <2>2. import' = [import EXCEPT !.forgot = import.forgot \cup {k}] BY <1>1, <1>3
    <2> HIDE DEF k
    <2>3. /\ import' \in ImportRecord /\ import'.have = import.have /\ import'.items = import.items
          /\ import'.done = import.done /\ import'.forgot = import.forgot \cup {k}
          /\ import'.failed = import.failed
      BY <2>0, <2>1, <2>2 DEF ImportRecord
    <2>4. import' # NoJob BY <2>3, AnImportIsNotNone
    <2>5. ImportTypes'
      BY <1>1, <2>1, <2>3 DEF ImportTypes, ImportRecord, ItemRecord, NoJob, Ids, IssueKeys
    <2>6. ImportGoesOn BY <1>3, <2>3, <2>4 DEF ImportGoesOn
    <2>7. /\ \A h \in IssueKeys : Restored(h) => Restored(h)'
          /\ \A h \in IssueKeys : Posting(h) => Posting(h)'
      BY <1>1, <2>3, OutRestored DEF k
    <2> QED BY <2>5, <2>6, <2>7, ImportKeeps
  <1> QED BY <1>2, <1>3

\* The import begins with what the table shows on its first page.
LEMMA StartImport ==
    ASSUME Base, ImportTypes, ImportStart
    PROVE  ImportTypes' /\ ImportInv'
  <1> DEFINE have == {cards[i].pat : i \in FirstPage(Present)}
             new == [pc |-> "items", have |-> have, items |-> backup, done |-> 0,
                     failed |-> FALSE, forgot |-> {}]
  <1>1. import' = new /\ UNCHANGED <<cards, job, orphaned, backup>> BY DEF ImportStart
  <1>2. FirstPage(Present) \subseteq Present BY DEF FirstPage
  <1>3. have \subseteq Patterns /\ \A p \in have : \E i \in Present : cards[i].pat = p
    BY <1>2, PresentAre DEF Base, CardRecord
  <1> HIDE DEF have
  <1>4. /\ new \in ImportRecord /\ new.have = have /\ new.done = 0 /\ new.items = backup
        /\ new.failed = FALSE /\ new.forgot = {}
    BY <1>3 DEF ImportRecord, ImportTypes
  <1> HIDE DEF new
  <1>5. 0 <= Len(backup)
    <2>1. Len(backup) \in Nat BY DEF ImportTypes
    <2> QED BY <2>1
  <1>6. ImportTypes'
    BY <1>1, <1>4, <1>5 DEF ImportTypes, ImportRecord, ItemRecord, NoJob, Ids, IssueKeys
  <1>7. \A k \in IssueKeys : CardsOf(k)' = CardsOf(k) BY <1>1 DEF CardsOf, Present, Ids, NoCard
  <1>8. \A k \in IssueKeys : Had(k)' => Restored(k)'
    <2> SUFFICES ASSUME NEW k \in IssueKeys, Had(k)' PROVE CardsOf(k) # {}
      BY <1>7 DEF Restored
    <2>1. PICK p \in have : Fold[p] = k BY <1>1, <1>4 DEF Had
    <2> QED BY <1>3, <2>1 DEF CardsOf
  <1>9. \A k \in IssueKeys : ~Done(k)' BY <1>1, <1>4 DEF Done
  <1> QED BY <1>6, <1>8, <1>9 DEF ImportInv, IssueKeys

\* An item is left out because the table had its pattern, or fails, or is posted.
LEMMA ItemImport ==
    ASSUME Base, ImportTypes, ImportInv, ImportItem
    PROVE  ImportTypes' /\ ImportInv'
  <1> DEFINE n == import.done + 1
             it == import.items[n]
             known == it.pat \in import.have
             fails == import.failed \/ (~known /\ it.blank)
             new == [import EXCEPT !.done = n, !.failed = fails]
  <1>1. /\ import # NoJob /\ import.done < Len(import.items) /\ job[Importer] = NoJob
        /\ UNCHANGED <<cards, orphaned, backup>>
        /\ IF known \/ it.blank THEN UNCHANGED job ELSE TeachList(Importer, it.pat, FALSE)
    BY DEF ImportItem
  <1>2. import' = new BY DEF ImportItem
  <1>3. import \in ImportRecord BY <1>1 DEF ImportTypes
  <1>4. /\ n \in Nat /\ n <= Len(import.items) /\ n \in 1 .. Len(import.items)
        /\ import.items \in Seq(ItemRecord) /\ import.done \in Nat
    BY <1>1, <1>3 DEF ImportRecord
  <1>5. it \in ItemRecord
    <2> HIDE DEF n
    <2> QED BY <1>4
  <1>6. it.pat \in Patterns /\ it.blank \in BOOLEAN BY <1>5 DEF ItemRecord
  <1>16. PICK p \in Patterns : p = it.pat BY <1>6
  <1> DEFINE key == Fold[p]
  <1>17. key \in IssueKeys BY DEF IssueKeys
  <1>7. fails \in BOOLEAN BY <1>3, <1>6, Zenon DEF ImportRecord
  <1>8. import.failed => fails OBVIOUS
  <1> HIDE DEF fails
  <1>9. /\ new \in ImportRecord /\ new.have = import.have /\ new.items = import.items
        /\ new.done = n /\ new.failed = fails /\ new.forgot = import.forgot
    BY <1>3, <1>4, <1>7 DEF ImportRecord
  <1> HIDE DEF new
  <1>10. import' # NoJob BY <1>2, <1>9, AnImportIsNotNone
  <1>11. ImportTypes'
    BY <1>1, <1>2, <1>4, <1>9 DEF ImportTypes, ImportRecord, ItemRecord, NoJob, Ids, IssueKeys
  <1>12. \A k \in IssueKeys : (Had(k)' <=> Had(k)) /\ (Done(k)' => Done(k) \/ k = key)
    <2>1. \A m \in 1 .. n : m \in 1 .. import.done \/ m = n BY <1>4
    <2> QED BY <1>2, <1>9, <1>16, <2>1 DEF Had, Done
  <1>13. Importer \in Writers /\ import'.forgot = import.forgot BY <1>2, <1>9 DEF Writers
  <1>14. CASE known \/ it.blank
    <2>1. /\ \A k \in IssueKeys : Restored(k)' <=> Restored(k)
          /\ \A k \in IssueKeys : Posting(k)' <=> Posting(k)
      BY <1>1, <1>13, <1>14, QuietRestored
    <2>2. fails \/ Restored(key)
      <3>1. CASE known
        <4>1. Had(key) BY <3>1, <1>16 DEF Had
        <4> QED BY <1>1, <1>17, <4>1 DEF ImportInv
      <3>2. CASE ~known BY <1>14, <3>2 DEF fails
      <3> QED BY <3>1, <3>2
    <2>3. \A k \in IssueKeys : Had(k)' => Restored(k)' BY <1>1, <1>12, <2>1 DEF ImportInv
    <2>4. import'.failed \/ \A k \in IssueKeys : Done(k)' => Restored(k)' \/ Posting(k)'
      BY <1>1, <1>2, <1>8, <1>9, <1>12, <2>1, <2>2 DEF ImportInv
    <2> QED BY <1>11, <2>3, <2>4 DEF ImportInv, IssueKeys
  <1>15. CASE ~(known \/ it.blank)
    <2> DEFINE bl == FALSE
    <2>1. bl \in BOOLEAN /\ TeachList(Importer, p, bl) BY <1>1, <1>15, <1>16
    <2> HIDE DEF bl
    <2>2. /\ \A k \in IssueKeys : Restored(k) => Restored(k)'
          /\ \A k \in IssueKeys : Posting(k) => Posting(k)'
          /\ Posting(key)'
      BY <1>1, <1>13, <2>1, StartRestored
    <2>3. \A k \in IssueKeys : Had(k)' => Restored(k)' BY <1>1, <1>12, <2>2 DEF ImportInv
    <2>4. import'.failed \/ \A k \in IssueKeys : Done(k)' => Restored(k)' \/ Posting(k)'
      BY <1>1, <1>2, <1>8, <1>9, <1>12, <2>2 DEF ImportInv
    <2> QED BY <1>11, <2>3, <2>4 DEF ImportInv, IssueKeys
  <1> QED BY <1>14, <1>15

----------------------------------------------------------------------------
(* The export. *)

\* An export's record is not the absence of one.
LEMMA AnExportIsNotNone == ASSUME NEW r \in ExportRecord PROVE r # NoJob
  <1>1. r.pc # "idle" BY DEF ExportRecord
  <1>2. NoJob.pc = "idle" BY DEF NoJob
  <1> QED BY <1>1, <1>2

\* A bounded set of naturals has a greatest member.
LEMMA GreatestIs ==
    ASSUME NEW S \in SUBSET Nat, S # {}, NEW b \in Nat, \A n \in S : n <= b
    PROVE  Max(S) \in S /\ \A n \in S : n <= Max(S)
  <1> DEFINE Bounds == {m \in Nat : \A n \in S : n <= m}
  <1>1. PICK m \in Bounds : \A k \in Bounds : m <= k
    <2>1. Bounds \in SUBSET Nat /\ Bounds # {} OBVIOUS
    <2> HIDE DEF Bounds
    <2> QED BY <2>1, LeastElement
  <1>2. m \in S
    <2> SUFFICES ASSUME m \notin S PROVE FALSE OBVIOUS
    <2>1. m \in Nat /\ \A n \in S : n <= m /\ n # m /\ n \in Nat BY <1>1
    <2>6. PICK x \in S : TRUE OBVIOUS
    <2>2. m \in Nat /\ m # 0 BY <2>1, <2>6
    <2>3. m - 1 \in Nat BY <2>2
    <2>4. \A n \in S : n <= m - 1 BY <2>1, <2>2
    <2>5. m <= m - 1 BY <1>1, <2>3, <2>4
    <2> QED BY <2>2, <2>5
  <1>3. \E x \in S : \A y \in S : x >= y BY <1>1, <1>2
  <1>4. Max(S) \in S /\ \A y \in S : Max(S) >= y BY <1>3 DEF Max
  <1> QED BY <1>4

\* The scan is not disturbed by a card that is put.
LEMMA ExportStays ==
    ASSUME ExportInv, export' = export, Present \subseteq Present'
    PROVE  ExportInv'
  BY DEF ExportInv, ExportRecord, ItemRecord, NoJob, Ids

\* It no longer has to find a card that is taken out.
LEMMA OutExport ==
    ASSUME KnownTypes, ExportInv, NEW i \in Ids, TakeOut(i), puts' = puts
    PROVE  ExportInv'
  <1>1. Present' = Present \ {i} BY OutIs
  <1>2. CASE export = NoJob
    <2>1. export' = NoJob BY <1>2 DEF TakeOut
    <2> QED BY <2>1 DEF ExportInv, NoJob
  <1>3. CASE export # NoJob
    <2> DEFINE stayed == export.stayed \ {i}
    <2>1. export' = [export EXCEPT !.stayed = stayed] BY <1>3 DEF TakeOut
    <2>2. export \in ExportRecord BY <1>3 DEF ExportInv
    <2>3. stayed \in SUBSET Ids BY <2>2 DEF ExportRecord
    <2>4. stayed \subseteq export.stayed /\ i \notin stayed OBVIOUS
    <2> HIDE DEF stayed
    <2>5. /\ export' \in ExportRecord /\ export'.stayed = stayed /\ export'.pc = export.pc
          /\ export'.got = export.got /\ export'.after = export.after
      BY <2>1, <2>2, <2>3 DEF ExportRecord
    <2> QED BY <1>1, <1>3, <2>4, <2>5 DEF ExportInv, ExportRecord, ItemRecord, Ids
  <1> QED BY <1>2, <1>3

\* The scan begins before the first id.
LEMMA StartExport ==
    ASSUME KnownTypes, ExportStart PROVE ExportInv'
  <1> DEFINE new == [pc |-> "scan", after |-> 0, got |-> <<>>, stayed |-> Present]
  <1>1. export' = new /\ UNCHANGED cards BY DEF ExportStart
  <1>2. Present \in SUBSET Ids BY PresentAre
  <1>3. Present' = Present BY <1>1 DEF Present, Ids, NoCard
  <1>4. /\ new \in ExportRecord /\ new.stayed = Present /\ new.pc = "scan" /\ Len(new.got) = 0
        /\ new.after = 0
    BY <1>2 DEF ExportRecord
  <1> HIDE DEF new
  <1>5. \A i \in Present : ~(i <= 0) BY <1>2 DEF Ids
  <1> QED BY <1>1, <1>3, <1>4, <1>5 DEF ExportInv, ExportRecord, ItemRecord, Ids

\* What a page leaves over lies after the page.
LEMMA PageIsFirst ==
    ASSUME NEW S \in SUBSET Ids, NEW a \in S, a \notin FirstPage(S), NEW b \in FirstPage(S)
    PROVE  a > b
  <1> DEFINE below(x) == {c \in S : c < x}
  <1>1. IsFiniteSet(S)
    <2>1. IsFiniteSet(Ids) BY KnownBounds, FS_Interval DEF Ids
    <2> QED BY <2>1, FS_Subset
  <1>2. \A x \in S : IsFiniteSet(below(x)) /\ Cardinality(below(x)) \in Nat
    BY <1>1, FS_Subset, FS_CardinalityType
  <1>3. Cardinality(below(a)) >= CardPage /\ Cardinality(below(b)) < CardPage /\ b \in S
    <2>1. ~(Cardinality(below(a)) < CardPage) /\ b \in S /\ Cardinality(below(b)) < CardPage
      BY DEF FirstPage
    <2>2. Cardinality(below(a)) \in Nat BY <1>2
    <2> HIDE DEF below
    <2> QED BY <2>1, <2>2, KnownBounds
  <1>4. a \in Int /\ b \in Int /\ S \subseteq Int BY <1>3 DEF Ids
  <1> SUFFICES ASSUME ~(a > b) PROVE FALSE OBVIOUS
  <1>5. below(a) \subseteq below(b)
    <2> SUFFICES ASSUME NEW c \in S, c < a PROVE c < b OBVIOUS
    <2>1. c \in Int BY <1>4
    <2> QED BY <1>4, <2>1
  <1>6. Cardinality(below(a)) <= Cardinality(below(b))
    <2> HIDE DEF below
    <2> QED BY <1>2, <1>3, <1>5, FS_Subset
  <1>7. Cardinality(below(a)) \in Nat /\ Cardinality(below(b)) \in Nat BY <1>2, <1>3
  <1> HIDE DEF below
  <1> QED BY <1>3, <1>6, <1>7, KnownBounds

\* A page renders each of its cards once.
LEMMA ItemsAre ==
    ASSUME KnownTypes, NEW page \in SUBSET Present
    PROVE  /\ Items(page) \in Seq(ItemRecord)
           /\ \A n \in 1 .. Len(Items(page)) : Items(page)[n].id \in page
           /\ \A m, n \in 1 .. Len(Items(page)) : Items(page)[m].id = Items(page)[n].id => m = n
           /\ \A i \in page : \E n \in 1 .. Len(Items(page)) : Items(page)[n].id = i
  <1> DEFINE self == [i \in page |-> i]
             ids == InOrder(page, self)
             N == 1 .. Cardinality(page)
  <1>1. IsFiniteSet(page) /\ page \subseteq Ids BY PresentAre, FS_Subset
  <1>2. self \in [page -> Int] /\ \A h, i \in page : self[h] = self[i] => h = i
    BY <1>1 DEF Ids
  <1> HIDE DEF self
  <1>3. /\ ids \in Seq(page) /\ Len(ids) = Cardinality(page)
        /\ \A n \in 1 .. Cardinality(page) : Cardinality({j \in page : self[j] <= self[ids[n]]}) = n
        /\ \A i \in page : \E n \in 1 .. Cardinality(page) : ids[n] = i
    <2>1. ids \in Seq(page) /\ Len(ids) = Cardinality(page) BY <1>1, <1>2, InOrderIs
    <2>2. \A n \in 1 .. Cardinality(page) : Cardinality({j \in page : self[j] <= self[ids[n]]}) = n
      BY <1>1, <1>2, InOrderIs
    <2>3. \A i \in page : \E n \in 1 .. Cardinality(page) : ids[n] = i BY <1>1, <1>2, InOrderIs
    <2> QED BY <2>1, <2>2, <2>3
  <1>4. Items(page) = [n \in N |-> Item(ids[n])] BY DEF Items, self
  <1> HIDE DEF ids
  <1>5. \A m, n \in N : ids[m] = ids[n] => m = n
    <2> SUFFICES ASSUME NEW m \in N, NEW n \in N, ids[m] = ids[n] PROVE m = n OBVIOUS
    <2>1. Cardinality({j \in page : self[j] <= self[ids[m]]}) = m BY <1>3
    <2>2. Cardinality({j \in page : self[j] <= self[ids[n]]}) = n BY <1>3
    <2> QED BY <2>1, <2>2
  <1>6. Cardinality(page) \in Nat BY <1>1, FS_CardinalityType
  <1>7. \A n \in N : ids[n] \in page BY <1>3
  <1>8. \A i \in page : Item(i) \in ItemRecord /\ Item(i).id = i
    BY <1>1, PresentAre DEF Item, ItemRecord, CardRecord
  <1>9. Items(page) \in Seq(ItemRecord) /\ Len(Items(page)) = Cardinality(page)
    BY <1>4, <1>6, <1>7, <1>8
  <1>10. \A n \in N : Items(page)[n].id = ids[n] BY <1>4, <1>7, <1>8
  <1> QED BY <1>3, <1>5, <1>7, <1>9, <1>10

\* A page of the scan.
LEMMA PageExport ==
    ASSUME KnownTypes, ExportInv, ExportPage PROVE ExportInv'
  <1> DEFINE more == {i \in Present : i > export.after}
             page == FirstPage(more)
             items == Items(page)
             got == export.got \o items
             after == Max(page \cup {export.after})
             pc == IF more = page THEN "store" ELSE "scan"
  <1>1. export # NoJob /\ export.pc = "scan" /\ UNCHANGED cards BY DEF ExportPage
  <1>2. export' = [export EXCEPT !.got = got, !.after = after, !.pc = pc] BY DEF ExportPage
  <1>3. /\ export \in ExportRecord /\ export.after \in Nat /\ export.got \in Seq(ItemRecord)
        /\ export.stayed \in SUBSET Ids
    BY <1>1 DEF ExportInv, ExportRecord
  <1>4. /\ \A n \in 1 .. Len(export.got) : export.got[n].id <= export.after
        /\ \A m, n \in 1 .. Len(export.got) : export.got[m].id = export.got[n].id => m = n
        /\ export.stayed \subseteq Present
        /\ \A i \in export.stayed : i <= export.after => \E n \in 1 .. Len(export.got) : export.got[n].id = i
    BY <1>1 DEF ExportInv
  <1>5. page \subseteq more /\ more \subseteq Present /\ Present \subseteq Ids /\ Ids \subseteq Nat
    BY PresentAre DEF FirstPage, Ids
  <1>6. \A i \in more : i > export.after OBVIOUS
  <1>7. \A i \in export.stayed : i <= export.after \/ i \in more BY <1>3, <1>4 DEF Ids
  <1>8. \A i \in more : i \in page \/ \A b \in page : i > b
    <2>1. more \in SUBSET Ids BY <1>5
    <2> HIDE DEF more
    <2> QED BY <2>1, PageIsFirst
  <1>9. pc = "store" => more = page OBVIOUS
  <1>10. pc \in {"store", "scan"} OBVIOUS
  <1> HIDE DEF more, page, pc
  <1>11. after \in page \cup {export.after} /\ \A n \in page \cup {export.after} : n <= after
    <2> DEFINE S == page \cup {export.after}
               b == MaxPuts + export.after
    <2>1. S \in SUBSET Nat /\ S # {}
      <3>1. page \subseteq Nat BY <1>5
      <3> QED BY <1>3, <3>1
    <2>4. b \in Nat BY <1>3, KnownBounds
    <2>2. \A n \in S : n <= b BY <1>3, <1>5, KnownBounds DEF Ids
    <2> HIDE DEF S, b
    <2>3. Max(S) \in S /\ \A n \in S : n <= Max(S) BY <2>1, <2>2, <2>4, GreatestIs
    <2> QED BY <2>3 DEF S
  <1> HIDE DEF after
  <1>12. after \in Nat /\ export.after <= after BY <1>3, <1>5, <1>11
  <1>13. /\ items \in Seq(ItemRecord)
         /\ \A n \in 1 .. Len(items) : items[n].id \in page
         /\ \A m, n \in 1 .. Len(items) : items[m].id = items[n].id => m = n
         /\ \A i \in page : \E n \in 1 .. Len(items) : items[n].id = i
    BY <1>5, ItemsAre
  <1> HIDE DEF items
  <1>14. /\ got \in Seq(ItemRecord) /\ Len(got) = Len(export.got) + Len(items)
         /\ \A n \in 1 .. Len(export.got) + Len(items) :
               got[n] = IF n <= Len(export.got) THEN export.got[n] ELSE items[n - Len(export.got)]
    BY <1>3, <1>13, ConcatProperties
  <1> HIDE DEF got
  <1>15. Len(export.got) \in Nat /\ Len(items) \in Nat BY <1>3, <1>13
  <1>16. \A n \in 1 .. Len(got) :
            \/ n \in 1 .. Len(export.got) /\ got[n] = export.got[n] /\ got[n].id <= export.after
            \/ /\ n - Len(export.got) \in 1 .. Len(items) /\ n > Len(export.got)
               /\ got[n] = items[n - Len(export.got)]
               /\ got[n].id \in page
    BY <1>4, <1>13, <1>14, <1>15
  <1>17. \A i \in page : i > export.after /\ i <= after /\ i \in Nat BY <1>5, <1>6, <1>11
  <1>18. \A n \in 1 .. Len(got) : got[n].id <= after
    <2> TAKE n \in 1 .. Len(got)
    <2>1. got[n] \in ItemRecord BY <1>14
    <2>2. got[n].id \in Nat BY <2>1 DEF ItemRecord, Ids
    <2> QED BY <1>3, <1>12, <1>16, <1>17, <2>2
  <1>19. \A m, n \in 1 .. Len(got) : got[m].id = got[n].id => m = n
    <2> SUFFICES ASSUME NEW m \in 1 .. Len(got), NEW n \in 1 .. Len(got), got[m].id = got[n].id
                 PROVE  m = n
      OBVIOUS
    <2> DEFINE late(x) == x - Len(export.got)
    <2>1. CASE m \in 1 .. Len(export.got) /\ n \in 1 .. Len(export.got)
      <3>1. got[m] = export.got[m] /\ got[n] = export.got[n] BY <1>14, <1>15, <2>1
      <3> QED BY <1>4, <2>1, <3>1
    <2>2. CASE m \notin 1 .. Len(export.got) /\ n \notin 1 .. Len(export.got)
      <3>1. /\ late(m) \in 1 .. Len(items) /\ got[m] = items[late(m)]
            /\ late(n) \in 1 .. Len(items) /\ got[n] = items[late(n)]
        BY <1>16, <2>2
      <3>2. late(m) = late(n) BY <1>13, <3>1
      <3> QED BY <1>15, <3>2
    <2>3. CASE m \in 1 .. Len(export.got) /\ n \notin 1 .. Len(export.got)
      <3>1. got[n].id \in page BY <1>16, <2>3
      <3>2. got[m].id <= export.after BY <1>4, <1>14, <1>15, <2>3
      <3> QED BY <1>3, <1>17, <3>1, <3>2
    <2>4. CASE m \notin 1 .. Len(export.got) /\ n \in 1 .. Len(export.got)
      <3>1. got[m].id \in page BY <1>15, <1>16, <2>4
      <3>2. got[n].id <= export.after BY <1>4, <1>14, <1>15, <1>16, <2>4
      <3> QED BY <1>3, <1>17, <3>1, <3>2
    <2> QED BY <2>1, <2>2, <2>3, <2>4
  <1>20. ASSUME NEW i \in export.stayed, i <= after \/ pc = "store"
         PROVE  \E n \in 1 .. Len(got) : got[n].id = i
    <2>1. CASE i <= export.after
      <3>1. PICK n \in 1 .. Len(export.got) : export.got[n].id = i BY <1>4, <2>1
      <3>2. n \in 1 .. Len(got) /\ got[n] = export.got[n] BY <1>14, <1>15
      <3> QED BY <3>1, <3>2
    <2>2. CASE i \in page
      <3>1. PICK n \in 1 .. Len(items) : items[n].id = i BY <1>13, <2>2
      <3> DEFINE m == n + Len(export.got)
      <3>2. m \in 1 .. Len(got) /\ ~(m <= Len(export.got)) /\ m - Len(export.got) = n
        BY <1>14, <1>15
      <3>3. got[m] = items[m - Len(export.got)] BY <1>14, <3>2
      <3> QED BY <3>1, <3>2, <3>3
    <2>3. CASE ~(i <= export.after) /\ i \notin page
      <3>1. i \in more /\ i \in Nat BY <1>5, <1>7, <2>3
      <3>2. pc # "store" BY <1>9, <2>3, <3>1
      <3>3. \A b \in page : i > b BY <1>8, <2>3, <3>1
      <3>4. i <= after BY <1>20, <3>2
      <3>5. CASE after = export.after BY <2>3, <3>4, <3>5
      <3>6. CASE after \in page
        <4>1. i > after BY <3>3, <3>6
        <4> QED BY <1>12, <3>1, <3>4, <4>1
      <3> QED BY <1>11, <3>5, <3>6
    <2> QED BY <2>1, <2>2, <2>3
  <1>21. /\ export' \in ExportRecord /\ export'.got = got /\ export'.after = after
         /\ export'.pc = pc /\ export'.stayed = export.stayed
    BY <1>2, <1>3, <1>10, <1>12, <1>14 DEF ExportRecord
  <1>22. Present' = Present BY <1>1 DEF Present, Ids, NoCard
  <1>23. export' \in ExportRecord' BY <1>21 DEF ExportRecord, ItemRecord, Ids
  <1> HIDE DEF Present
  <1> QED BY <1>4, <1>18, <1>19, <1>20, <1>21, <1>22, <1>23 DEF ExportInv

----------------------------------------------------------------------------
(* The whole invariant. *)

\* The limits are counters.
LimitTypes == limits \in [Limited -> Nat]

\* The inductive invariant of the known-issues table.
KnownInv == Taught /\ LimitTypes /\ ImportTypes /\ ImportInv /\ ExportInv

\* It holds in the initial states.
LEMMA KnownStarts == KnownInit => KnownInv
  <1> SUFFICES ASSUME KnownInit PROVE KnownInv OBVIOUS
  <1>1. Present = {} BY DEF KnownInit, Present
  <1>2. \A w \in Writers : ~On(w) BY DEF KnownInit, On
  <1>3. /\ puts = 0 /\ puts \in 0 .. MaxPuts /\ cards \in [Ids -> CardRecord \cup {NoCard}]
        /\ job \in [Writers -> Job \cup {NoJob}] /\ latest \in [IssueKeys -> 0 .. puts]
        /\ \A k \in IssueKeys : latest[k] = 0
        /\ orphaned = {} /\ import = NoJob /\ export = NoJob /\ backup = <<>>
    BY KnownBounds DEF KnownInit
  <1>4. KnownTypes BY <1>1, <1>2, <1>3 DEF KnownTypes, CardTypes, JobTypes
  <1>5. IdsHaveOwners
    <2>1. PICK o \in [1 .. puts -> IssueKeys] : TRUE
      <3>1. \A i \in 1 .. puts : FALSE BY <1>3
      <3>2. [i \in 1 .. puts |-> i] \in [1 .. puts -> IssueKeys] BY <3>1
      <3> QED BY <3>2
    <2>2. Owns(o) BY <1>1, <1>2, <1>3 DEF Owns
    <2> QED BY <2>2 DEF IdsHaveOwners
  <1>6. LatestTeachingStays /\ AloneCollapses BY <1>2, <1>3 DEF LatestTeachingStays, AloneCollapses
  <1>7. LimitTypes BY KnownBounds DEF KnownInit, LimitTypes
  <1>8. ImportTypes /\ ImportInv /\ ExportInv BY <1>3 DEF ImportTypes, ImportInv, ExportInv
  <1> QED BY <1>4, <1>5, <1>6, <1>7, <1>8 DEF KnownInv, Taught, Base

\* Limits are only spent.
LEMMA LimitsKeep ==
    ASSUME LimitTypes, KnownNext PROVE LimitTypes'
  <1>1. ASSUME UNCHANGED limits PROVE LimitTypes' BY <1>1 DEF LimitTypes
  <1>2. ASSUME NEW what \in Limited, Spend(what) PROVE LimitTypes'
    <2>1. limits[what] \in Nat /\ limits[what] > 0 /\ limits' = [limits EXCEPT ![what] = limits[what] - 1]
      BY <1>2 DEF Spend, LimitTypes
    <2>2. limits[what] - 1 \in Nat BY <2>1
    <2> QED BY <2>1, <2>2 DEF LimitTypes
  <1>3. ASSUME NEW w \in Teachers, NEW p \in Patterns, Teach(w, p) PROVE LimitTypes'
    BY <1>2, <1>3 DEF Teach, Limited
  <1>4. ASSUME NEW w \in Writers, TeachDelete(w) \/ TeachPut(w) PROVE LimitTypes'
    BY <1>1, <1>4 DEF TeachDelete, TeachPut
  <1>5. ASSUME NEW w \in Writers, TeachDies(w) PROVE LimitTypes'
    BY <1>2, <1>5 DEF TeachDies, Limited
  <1>6. ASSUME NEW p \in Patterns, NEW b \in BOOLEAN, AgentRemembers(p, b) PROVE LimitTypes'
    BY <1>2, <1>6 DEF AgentRemembers, Limited
  <1>7. ASSUME NEW i \in Ids, Forget(i) PROVE LimitTypes' BY <1>2, <1>7 DEF Forget, Limited
  <1>8. CASE ExportStart BY <1>2, <1>8 DEF ExportStart, Limited
  <1>9. CASE ExportPage \/ ExportStore BY <1>1, <1>9 DEF ExportPage, ExportStore
  <1>10. CASE ImportStart \/ ImportItem \/ ImportEnd \/ ImportAborts
    BY <1>1, <1>10 DEF ImportStart, ImportItem, ImportEnd, ImportAborts
  <1> QED BY <1>3, <1>4, <1>5, <1>6, <1>7, <1>8, <1>9, <1>10 DEF KnownNext

\* Steps that touch neither the table nor the requests.
LEMMA QuietTaught ==
    ASSUME Taught, UNCHANGED <<cards, puts, job, latest, orphaned>>
    PROVE  Taught'
  <1>1. KnownTypes'
    BY DEF Taught, Base, KnownTypes, CardTypes, JobTypes, Present, Ids, CardRecord, NoCard, Job, NoJob, On
  <1>2. IdsHaveOwners'
    <2>1. PICK o \in [1 .. puts -> IssueKeys] : Owns(o) BY DEF Taught, Base, IdsHaveOwners
    <2>2. Owns(o)' BY <2>1 DEF Owns, Present, Ids, NoCard, On, KeyOf, NoJob
    <2>3. o \in [1 .. puts' -> IssueKeys] BY <2>1
    <2> QED BY <2>2, <2>3 DEF IdsHaveOwners
  <1>3. LatestTeachingStays' BY DEF Taught, LatestTeachingStays, Present, Ids, NoCard, NoJob
  <1>4. AloneCollapses' BY DEF Taught, AloneCollapses, Present, Ids, NoCard, On, KeyOf, NoJob
  <1> QED BY <1>1, <1>2, <1>3, <1>4 DEF Taught, Base

\* The same cards are present.
LEMMA SamePresent == ASSUME UNCHANGED cards PROVE Present' = Present
  BY DEF Present, Ids, NoCard

\* Every step keeps the invariant.
LEMMA KnownKeeps ==
    ASSUME KnownInv, KnownNext PROVE KnownInv'
  <1> USE DEF KnownInv
  <1>0. LimitTypes' BY LimitsKeep
  <1>1. ASSUME NEW w \in Teachers, NEW p \in Patterns, Teach(w, p) PROVE KnownInv'
    <2> DEFINE bl == FALSE
    <2>1. /\ TeachList(w, p, bl) /\ bl \in BOOLEAN /\ w \in Writers
          /\ UNCHANGED <<cards, puts, latest, orphaned, import, export, backup>>
      BY <1>1 DEF Teach, Writers
    <2> HIDE DEF bl
    <2>2. Taught' BY <2>1, StartTaught
    <2>3. /\ \A k \in IssueKeys : Restored(k) => Restored(k)'
          /\ \A k \in IssueKeys : Posting(k) => Posting(k)'
      BY <2>1, StartRestored DEF Taught
    <2>4. ImportTypes' /\ ImportInv' BY <2>1, <2>3, ImportStays
    <2>5. ExportInv' BY <2>1, SamePresent, ExportStays
    <2> QED BY <1>0, <2>2, <2>4, <2>5
  <1>2. ASSUME NEW w \in Writers, TeachDelete(w) PROVE KnownInv'
    <2> DEFINE h == Head(job[w].rest)
    <2>1. /\ h \in Ids /\ TakeOut(h) /\ puts' = puts /\ UNCHANGED <<import, backup>>
      BY <1>2, DeleteIs DEF Taught, Base
    <2> HIDE DEF h
    <2>2. Taught' BY <1>2, DeleteTaught
    <2>3. ImportTypes' /\ ImportInv' BY <1>2, <2>1, DeleteRestored, ImportStays DEF Taught
    <2>4. ExportInv' BY <2>1, OutExport DEF Taught, Base
    <2> QED BY <1>0, <2>2, <2>3, <2>4
  <1>3. ASSUME NEW w \in Writers, TeachPut(w) PROVE KnownInv'
    <2>1. Taught' BY <1>3, PuttingTaught
    <2>2. UNCHANGED <<import, export, backup>> BY <1>3 DEF TeachPut
    <2>3. ImportTypes' /\ ImportInv' BY <1>3, <2>1, <2>2, PuttingRestored, ImportStays DEF Taught
    <2>4. Present \subseteq Present'
      <3>1. /\ job[w].first \in 0 .. puts /\ job[w].pat \in Patterns /\ job[w].blank \in BOOLEAN
        BY <1>3, PuttingIs DEF Taught, Base
      <3>2. PICK i \in 1 .. puts + 1 : PutCard(i, job[w].pat, job[w].first, job[w].blank)
        BY <1>3, PuttingIs DEF Taught, Base
      <3>3. Present' = Present \cup {i} BY <3>1, <3>2, PutIs DEF Taught, Base
      <3> QED BY <3>3
    <2>5. ExportInv' BY <2>2, <2>4, ExportStays
    <2> QED BY <1>0, <2>1, <2>3, <2>5
  <1>4. ASSUME NEW w \in Writers, TeachDies(w) PROVE KnownInv'
    <2>1. Taught' BY <1>4, DeathTaught
    <2>2. ImportTypes' /\ ImportInv' BY <1>4, DeathImport DEF Taught
    <2>3. UNCHANGED <<cards, export>> BY <1>4 DEF TeachDies
    <2>4. ExportInv' BY <2>3, SamePresent, ExportStays
    <2> QED BY <1>0, <2>1, <2>2, <2>4
  <1>5. ASSUME NEW p \in Patterns, NEW bl \in BOOLEAN, AgentRemembers(p, bl) PROVE KnownInv'
    <2>1. Taught' BY <1>5, RemembersTaught
    <2>2. UNCHANGED <<import, export, backup>> /\ PutCard(puts + 1, p, 0, bl)
      BY <1>5 DEF AgentRemembers
    <2>3. ImportTypes' /\ ImportInv' BY <1>5, <2>1, <2>2, RemembersRestored, ImportStays DEF Taught
    <2>4. Present \subseteq Present'
      <3>1. puts + 1 \in 1 .. puts + 1 /\ 0 \in 0 .. puts
        BY DEF Taught, Base, KnownTypes, CardTypes
      <3>2. Present' = Present \cup {puts + 1} BY <2>2, <3>1, PutIs DEF Taught, Base
      <3> QED BY <3>2
    <2>5. ExportInv' BY <2>2, <2>4, ExportStays
    <2> QED BY <1>0, <2>1, <2>3, <2>5
  <1>6. ASSUME NEW i \in Ids, Forget(i) PROVE KnownInv'
    <2>1. /\ TakeOut(i) /\ UNCHANGED <<puts, job, orphaned>>
          /\ latest' = [k \in IssueKeys |-> IF latest[k] = i THEN 0 ELSE latest[k]]
      BY <1>6 DEF Forget
    <2>2. Taught' BY <2>1, OutTaught
    <2>3. ImportTypes' /\ ImportInv' BY <1>6, ForgetImport DEF Taught
    <2>4. ExportInv' BY <2>1, OutExport DEF Taught, Base
    <2> QED BY <1>0, <2>2, <2>3, <2>4
  <1>7. CASE ExportStart \/ ExportPage \/ ExportStore
    <2>1. UNCHANGED <<cards, puts, job, latest, orphaned, import>>
      BY <1>7 DEF ExportStart, ExportPage, ExportStore
    <2>2. Taught' BY <2>1, QuietTaught
    <2>3. /\ \A k \in IssueKeys : Restored(k)' <=> Restored(k)
          /\ \A k \in IssueKeys : Posting(k)' <=> Posting(k)
      BY <2>1, QuietRestored
    <2>4. CASE ExportStart
      <3>1. UNCHANGED backup BY <2>4 DEF ExportStart
      <3>2. ImportTypes' /\ ImportInv' BY <2>1, <2>3, <3>1, ImportStays
      <3> QED BY <1>0, <2>2, <2>4, <3>2, StartExport DEF Taught, Base
    <2>5. CASE ExportPage
      <3>1. UNCHANGED backup BY <2>5 DEF ExportPage
      <3>2. ImportTypes' /\ ImportInv' BY <2>1, <2>3, <3>1, ImportStays
      <3> QED BY <1>0, <2>2, <2>5, <3>2, PageExport DEF Taught, Base
    <2>6. CASE ExportStore
      <3>1. /\ backup' = export.got /\ export' = NoJob /\ export # NoJob BY <2>6 DEF ExportStore
      <3>2. backup' \in Seq(ItemRecord) BY <3>1 DEF ExportInv, ExportRecord
      <3>3. ImportTypes'
        BY <2>1, <3>2 DEF ImportTypes, ImportRecord, ItemRecord, NoJob, Ids, IssueKeys
      <3>4. ImportInv'
        <4>1. CASE import = NoJob BY <2>1, <4>1 DEF ImportInv, NoJob
        <4>2. CASE import # NoJob
          <5>1. ImportGoesOn BY <2>1, <4>2 DEF ImportGoesOn, NoJob
          <5> QED BY <2>3, <5>1, ImportKeeps
        <4> QED BY <4>1, <4>2
      <3>5. ExportInv' BY <3>1 DEF ExportInv, NoJob
      <3> QED BY <1>0, <2>2, <3>3, <3>4, <3>5
    <2> QED BY <1>7, <2>4, <2>5, <2>6
  <1>8. CASE ImportStart
    <2>1. UNCHANGED <<cards, puts, job, latest, orphaned, export>> BY <1>8 DEF ImportStart
    <2>2. Taught' BY <2>1, QuietTaught
    <2>3. ImportTypes' /\ ImportInv' BY <1>8, StartImport DEF Taught
    <2>4. ExportInv' BY <2>1, SamePresent, ExportStays
    <2> QED BY <1>0, <2>2, <2>3, <2>4
  <1>9. CASE ImportItem
    <2>1. ImportTypes' /\ ImportInv' BY <1>9, ItemImport DEF Taught
    <2>2. UNCHANGED <<cards, puts, latest, orphaned, export>> BY <1>9 DEF ImportItem
    <2>3. ExportInv' BY <2>2, SamePresent, ExportStays
    <2>4. Taught'
      <3> DEFINE it == import.items[import.done + 1]
      <3>1. import # NoJob /\ import.done < Len(import.items) BY <1>9 DEF ImportItem
      <3>2. it.pat \in Patterns
        <4>1. import.done \in Nat /\ import.items \in Seq(ItemRecord)
          BY <3>1 DEF ImportTypes, ImportRecord
        <4>2. import.done + 1 \in 1 .. Len(import.items) BY <3>1, <4>1
        <4>3. it \in ItemRecord BY <4>1, <4>2
        <4> QED BY <4>3 DEF ItemRecord
      <3>3. UNCHANGED job \/ TeachList(Importer, it.pat, FALSE) BY <1>9 DEF ImportItem
      <3>4. CASE UNCHANGED job BY <2>2, <3>4, QuietTaught
      <3>5. CASE TeachList(Importer, it.pat, FALSE)
        <4> DEFINE p == it.pat
                   bl == FALSE
        <4>1. p \in Patterns /\ bl \in BOOLEAN /\ TeachList(Importer, p, bl) /\ Importer \in Writers
          BY <3>2, <3>5 DEF Writers
        <4> HIDE DEF p, bl
        <4> QED BY <2>2, <4>1, StartTaught
      <3> QED BY <3>3, <3>4, <3>5
    <2> QED BY <1>0, <2>1, <2>3, <2>4
  <1>10. CASE ImportEnd \/ ImportAborts
    <2>1. UNCHANGED <<cards, puts, job, latest, orphaned, export, backup>> /\ import' = NoJob
      BY <1>10 DEF ImportEnd, ImportAborts
    <2>2. Taught' BY <2>1, QuietTaught
    <2>3. ImportTypes' /\ ImportInv' BY <2>1 DEF ImportTypes, ImportInv, NoJob, ItemRecord, Ids
    <2>4. ExportInv' BY <2>1, SamePresent, ExportStays
    <2> QED BY <1>0, <2>2, <2>3, <2>4
  <1> QED BY <1>1, <1>2, <1>3, <1>4, <1>5, <1>6, <1>7, <1>8, <1>9, <1>10 DEF KnownNext

\* So does a step that changes nothing.
LEMMA KnownStutters ==
    ASSUME KnownInv, UNCHANGED knownVars PROVE KnownInv'
  <1>1. UNCHANGED <<cards, puts, limits, job, latest, orphaned, import, export, backup>>
    BY DEF knownVars
  <1>2. Taught' BY <1>1, QuietTaught DEF KnownInv
  <1>3. ImportTypes' /\ ImportInv'
    <2>1. import'.forgot = import.forgot BY <1>1
    <2> QED BY <1>1, <2>1, QuietRestored, ImportStays DEF KnownInv
  <1>4. ExportInv' BY <1>1, SamePresent, ExportStays DEF KnownInv
  <1> QED BY <1>1, <1>2, <1>3, <1>4 DEF KnownInv, LimitTypes

\* What the invariant says of the properties.
LEMMA KnownImplies ==
    ASSUME KnownInv
    PROVE  KnownTypeOK /\ LatestTeachingStays /\ ImportRestores /\ ExportHoldsWhatStayed
  <1> USE DEF KnownInv, Taught
  <1>1. KnownTypeOK
    <2>1. DOMAIN limits = Limited /\ \A what \in Limited : limits[what] \in Nat BY DEF LimitTypes
    <2>2. latest \in [IssueKeys -> 0 .. MaxPuts]
      <3>1. 0 .. puts \subseteq 0 .. MaxPuts BY KnownBounds DEF Base, KnownTypes, CardTypes
      <3> QED BY <3>1 DEF Base, KnownTypes
    <2> QED BY <2>1, <2>2 DEF KnownTypeOK, Base, KnownTypes, CardTypes, JobTypes
  <1>2. LatestTeachingStays OBVIOUS
  <1>3. ImportRestores
    <2> SUFFICES ASSUME import # NoJob, import.done = Len(import.items), job[Importer] = NoJob,
                        ~import.failed, NEW n \in DOMAIN import.items
                 PROVE  LET k == Fold[import.items[n].pat]
                        IN  \/ CardsOf(k) # {}
                            \/ k \in import.forgot
                            \/ \E w \in Writers : w \in Busy(k) /\ job[w].gone # {}
                            \/ orphaned # {}
      BY DEF ImportRestores
    <2>1. import.items \in Seq(ItemRecord) BY DEF ImportTypes, ImportRecord
    <2>2. n \in 1 .. Len(import.items) /\ import.items[n] \in ItemRecord BY <2>1
    <2>3. PICK k \in IssueKeys : k = Fold[import.items[n].pat]
      BY <2>2 DEF ItemRecord, IssueKeys
    <2>4. Done(k) BY <2>2, <2>3 DEF Done
    <2>5. ~Posting(k) BY DEF Posting, On
    <2>6. Restored(k) BY <2>4, <2>5 DEF ImportInv
    <2> QED BY <2>3, <2>6 DEF Restored, Busy, On, KeyOf
  <1>4. ExportHoldsWhatStayed
    <2> SUFFICES ASSUME export # NoJob, export.pc = "store"
                 PROVE  /\ \A i \in export.stayed : \E n \in DOMAIN export.got : export.got[n].id = i
                        /\ IsInjective([n \in DOMAIN export.got |-> export.got[n].id])
      BY DEF ExportHoldsWhatStayed
    <2>1. export.got \in Seq(ItemRecord) BY DEF ExportInv, ExportRecord
    <2>2. DOMAIN export.got = 1 .. Len(export.got) BY <2>1
    <2>3. \A i \in export.stayed : \E n \in DOMAIN export.got : export.got[n].id = i
      BY <2>2 DEF ExportInv
    <2>4. \A m, n \in DOMAIN export.got : export.got[m].id = export.got[n].id => m = n
      BY <2>2 DEF ExportInv
    <2>5. IsInjective([n \in DOMAIN export.got |-> export.got[n].id]) BY <2>4 DEF IsInjective
    <2> QED BY <2>3, <2>5
  <1> QED BY <1>1, <1>2, <1>3, <1>4

\* The invariant holds in every reachable state.
LEMMA KnownInvariance == KnownSpec => []KnownInv
  <1>1. KnownInit => KnownInv BY KnownStarts
  <1>2. KnownInv /\ [KnownNext]_knownVars => KnownInv' BY KnownKeeps, KnownStutters
  <1> QED BY <1>1, <1>2, PTL DEF KnownSpec

\* Every variable of the known-issues table keeps its type.
THEOREM KnownTypeSafety == KnownSpec => []KnownTypeOK
  <1>1. KnownInv => KnownTypeOK BY KnownImplies
  <1> QED BY <1>1, KnownInvariance, PTL

\* What was taught last of a pattern is in the table, for any number of
\* overlapping requests, unless a user deleted it or a request did that has yet to
\* put its own card or died first (add_known_issue deletes before it puts).
THEOREM TeachingIsNeverLost == KnownSpec => []LatestTeachingStays
  <1>1. KnownInv => LatestTeachingStays BY KnownImplies
  <1> QED BY <1>1, KnownInvariance, PTL

\* An import that reports no failure leaves every pattern of the backup in the
\* table, but for what is deleted or retaught meanwhile.
THEOREM BackupIsRestored == KnownSpec => []ImportRestores
  <1>1. KnownInv => ImportRestores BY KnownImplies
  <1> QED BY <1>1, KnownInvariance, PTL

\* The export stores every card that stayed in the table for its whole scan, and
\* no card twice, however many pages it takes and whatever is put and deleted
\* between them.
THEOREM ScanMissesNothing == KnownSpec => []ExportHoldsWhatStayed
  <1>1. KnownInv => ExportHoldsWhatStayed BY KnownImplies
  <1> QED BY <1>1, KnownInvariance, PTL

\* No step makes a request's date later than a copy it found: the request that
\* lists the copies takes the date of the oldest, and no other step touches either.
LEMMA DatesStay == KnownInv /\ DatesKept /\ [KnownNext]_knownVars => DatesKept'
  <1> SUFFICES ASSUME KnownInv, DatesKept, [KnownNext]_knownVars PROVE DatesKept' OBVIOUS
  <1> DEFINE Same(v, j) == (j # NoJob) => On(v) /\ j.first = job[v].first /\ j.found = job[v].found
             Dated(j) == \A t \in j.found : j.first # 0 /\ j.first <= t
  <1>0. KnownTypes BY DEF KnownInv, Taught, Base
  <1>1. SUFFICES ASSUME NEW v \in Writers PROVE Same(v, job'[v]) \/ Dated(job'[v])
    BY DEF DatesKept, On
  <1>2. ASSUME NEW k PROVE Same(v, Disturb(k)[v])
    <2>1. Disturb(k)[v] = IF v \in Busy(k) THEN [job[v] EXCEPT !.alone = FALSE] ELSE job[v]
      BY DEF Disturb
    <2>2. CASE v \in Busy(k)
      <3>1. On(v) /\ job[v] \in Job BY <1>0, <2>2, JobsAre DEF Busy, On
      <3> QED BY <2>1, <2>2, <3>1 DEF Job
    <2>3. CASE v \notin Busy(k) BY <2>1, <2>3 DEF On
    <2> QED BY <2>2, <2>3
  <1>3. ASSUME NEW w \in Writers, NEW p \in Patterns, NEW bl \in BOOLEAN, TeachList(w, p, bl)
        PROVE  Same(v, job'[v]) \/ Dated(job'[v])
    <2> DEFINE seen == {i \in FirstPage(Present) : Fold[cards[i].pat] = Fold[p]}
    <2>1. job' = [Disturb(Fold[p]) EXCEPT ![w] = NewJob(p, bl, seen)] BY <1>3 DEF TeachList
    <2>2. seen \in SUBSET Present BY DEF FirstPage
    <2> HIDE DEF seen
    <2>3. Dated(NewJob(p, bl, seen)) BY <1>0, <2>2, NewJobIs
    <2>4. Disturb(Fold[p]) \in [Writers -> Job \cup {NoJob}] BY <1>0, DisturbIs
    <2>5. job'[v] = NewJob(p, bl, seen) \/ job'[v] = Disturb(Fold[p])[v] BY <2>1, <2>4
    <2> QED BY <1>2, <2>3, <2>5
  <1>4. ASSUME NEW w \in Writers, TeachDelete(w) PROVE Same(v, job'[v])
    <2> DEFINE rest == Tail(job[w].rest)
               gone == job[w].gone \cup {Head(job[w].rest)}
               pc == IF Len(job[w].rest) = 1 THEN "put" ELSE "delete"
    <2>1. /\ On(w)
          /\ job' = [job EXCEPT ![w] = [job[w] EXCEPT !.rest = rest, !.gone = gone, !.pc = pc]]
      BY <1>4 DEF TeachDelete, On
    <2>2. job[w] \in Job /\ job \in [Writers -> Job \cup {NoJob}]
      BY <1>0, <2>1, JobsAre DEF KnownTypes, JobTypes
    <2> HIDE DEF rest, gone, pc
    <2>3. CASE v = w BY <2>1, <2>2, <2>3 DEF Job
    <2>4. CASE v # w BY <2>1, <2>2, <2>4 DEF On
    <2> QED BY <2>3, <2>4
  <1>5. ASSUME NEW w \in Writers, TeachPut(w) \/ TeachDies(w) PROVE Same(v, job'[v])
    <2>1. job' = [job EXCEPT ![w] = NoJob] /\ job \in [Writers -> Job \cup {NoJob}]
      BY <1>0, <1>5 DEF TeachPut, TeachDies, KnownTypes, JobTypes
    <2> QED BY <2>1 DEF On
  <1>6. CASE UNCHANGED job BY <1>6 DEF On
  <1>7. ASSUME NEW p \in Patterns, NEW bl \in BOOLEAN, AgentRemembers(p, bl) PROVE Same(v, job'[v])
    BY <1>2, <1>7 DEF AgentRemembers
  <1>8. ASSUME NEW w \in Teachers, NEW p \in Patterns, Teach(w, p)
        PROVE  Same(v, job'[v]) \/ Dated(job'[v])
    <2> DEFINE bl == FALSE
    <2>1. w \in Writers /\ bl \in BOOLEAN /\ TeachList(w, p, bl) BY <1>8 DEF Teach, Writers
    <2> HIDE DEF bl, Same, Dated
    <2> QED BY <1>3, <2>1
  <1>9. CASE ImportItem
    <2> DEFINE it == import.items[import.done + 1]
               p == it.pat
               bl == FALSE
    <2>1. import # NoJob /\ import.done < Len(import.items) BY <1>9 DEF ImportItem
    <2>2. p \in Patterns
      <3>1. import.done \in Nat /\ import.items \in Seq(ItemRecord)
        BY <2>1 DEF KnownInv, ImportTypes, ImportRecord
      <3>2. import.done + 1 \in 1 .. Len(import.items) BY <2>1, <3>1
      <3>3. it \in ItemRecord BY <3>1, <3>2
      <3> QED BY <3>3 DEF ItemRecord
    <2>3. UNCHANGED job \/ TeachList(Importer, p, bl) BY <1>9 DEF ImportItem
    <2>4. Importer \in Writers /\ bl \in BOOLEAN BY DEF Writers
    <2> HIDE DEF p, bl, it, Same, Dated
    <2> QED BY <1>3, <1>6, <2>2, <2>3, <2>4
  <1>10. CASE \/ \E i \in Ids : Forget(i)
             \/ ExportStart \/ ExportPage \/ ExportStore
             \/ ImportStart \/ ImportEnd \/ ImportAborts
             \/ UNCHANGED knownVars
    <2>1. UNCHANGED job
      BY <1>10 DEF Forget, ExportStart, ExportPage, ExportStore, ImportStart, ImportEnd, ImportAborts, knownVars
    <2> QED BY <1>6, <2>1
  <1> HIDE DEF Same, Dated
  <1> QED BY <1>3, <1>4, <1>5, <1>7, <1>8, <1>9, <1>10 DEF KnownNext

\* The step of TeachingCollapses.
LEMMA PutCollapses ==
    ASSUME KnownInv, DatesKept, NEW w \in Writers, NEW k \in IssueKeys,
           job[w] # NoJob, k = Fold[job[w].pat], job[w].alone, TeachPut(w)
    PROVE  /\ Cardinality(CardsOf(k)') = 1
           /\ \A t \in job[w].found : job[w].first # 0 /\ job[w].first <= t
  <1>1. /\ In(job[w].rest) = {} /\ job[w].first \in 0 .. puts /\ job[w].pat \in Patterns
        /\ job[w].blank \in BOOLEAN
    BY PuttingIs DEF KnownInv, Taught, Base
  <1>2. PICK i \in 1 .. puts + 1 : /\ i = IF job[w].keep = 0 THEN puts + 1 ELSE job[w].keep
                                   /\ PutCard(i, job[w].pat, job[w].first, job[w].blank)
    BY PuttingIs DEF KnownInv, Taught, Base
  <1>3. CardsOf(k) \subseteq {job[w].keep}
    BY <1>1 DEF KnownInv, Taught, AloneCollapses, On, KeyOf, CardsOf
  <1>4. 0 \notin Present BY PresentAre DEF KnownInv, Taught, Base, Ids
  <1>5. CardsOf(k) \subseteq {i} BY <1>2, <1>3, <1>4 DEF CardsOf
  <1>6. CardsOf(k)' = {i}
    <2>1. PICK p \in Patterns, f \in 0 .. puts, bl \in BOOLEAN :
             k = Fold[p] /\ PutCard(i, p, f, bl)
      BY <1>1, <1>2
    <2>2. CardsOf(Fold[p])' = CardsOf(Fold[p]) \cup {i} BY <2>1, PutIs DEF KnownInv, Taught, Base
    <2> QED BY <1>5, <2>1, <2>2
  <1>7. Cardinality(CardsOf(k)') = 1 BY <1>6, FS_Singleton
  <1> QED BY <1>7 DEF DatesKept, On

\* A teach that ran alone on a table of one page leaves one card of its pattern, and
\* dates it no later than any copy it found, for any number of copies, written in
\* whichever order.
THEOREM AloneTeachingCollapses == KnownSpec => TeachingCollapses
  <1>1. KnownInit => DatesKept BY DEF KnownInit, DatesKept, On
  <1>2. KnownInv /\ DatesKept /\ [KnownNext]_knownVars
          => [\A w \in Writers, k \in IssueKeys :
                (job[w] # NoJob /\ k = Fold[job[w].pat] /\ job[w].alone /\ TeachPut(w)) =>
                    /\ Cardinality(CardsOf(k)') = 1
                    /\ \A t \in job[w].found : job[w].first # 0 /\ job[w].first <= t]_knownVars
    BY PutCollapses
  <1> QED BY <1>1, <1>2, DatesStay, KnownInvariance, PTL DEF KnownSpec, TeachingCollapses
===============================================================================
