------------------------------ MODULE LogPages ------------------------------
(* A container's log as the dashboard follows it: each poll sends back the time of the *)
(* newest line it has and the hashes of the lines it has of that time, and gets what is   *)
(* newer, bounded by Docker's tail, by a number of lines and by a deadline that stops      *)
(* the redaction, newest first.  Lines may share a time; an answer may be lost.             *)
EXTENDS Naturals, Sequences, FiniteSets, SequencesExt

CONSTANTS Texts, TailCap, MaxLines, HashCap,   \* Docker's tail, a page, the hashes sent back
          MaxLog, MaxTime, MaxFaults            \* bounds

VARIABLES clock,
          lines,       \* the container's log: a sequence of [at, text]
          page,        \* what the browser has: [cursor, hashes]
          shown,       \* the indexes of the lines it has shown (history)
          twice,       \* some line was shown twice (history)
          gaps,        \* the lines some of which it was told were skipped (history)
          asked,       \* the answer under way: [at, over, kept, skipped], over the lines since the cursor
          faults
logVars == <<clock, lines, page, shown, twice, gaps, asked, faults>>

Start == 0
NoAsk == [at |-> "none", kept |-> <<>>, skipped |-> FALSE, over |-> {}]
Init == /\ clock = 1 /\ lines = <<>> /\ page = [cursor |-> Start, hashes |-> <<>>]
        /\ shown = {} /\ twice = FALSE /\ gaps = {} /\ asked = NoAsk /\ faults = 0

Writes(text) == /\ Len(lines) < MaxLog /\ lines' = Append(lines, [at |-> clock, text |-> text])
                /\ UNCHANGED <<clock, page, shown, twice, gaps, asked, faults>>
Tick == /\ clock < MaxTime /\ clock' = clock + 1
        /\ UNCHANGED <<lines, page, shown, twice, gaps, asked, faults>>

-----------------------------------------------------------------------------
Newest(set, n) == {i \in set : Cardinality({j \in set : j >= i}) <= n}
(* docker logs --since is inclusive, and its tail drops what is older *)
Since == {i \in DOMAIN lines : lines[i].at >= page.cursor}
Records == Newest(Since, TailCap)
(* A line at the cursor's own time is old when its hash, of time and text, was sent along *)
Old(i) == lines[i].at = page.cursor /\ lines[i].text \in {page.hashes[k] : k \in DOMAIN page.hashes}
(* Newest first, until the page is full or time is up *)
New == {i \in Records : ~Old(i)}
Poll == /\ asked = NoAsk
        /\ \E n \in 0..MaxLines :
             LET kept == Newest(New, n) IN
             /\ n = MaxLines \/ (n < Cardinality(New) /\ faults < MaxFaults)
             /\ faults' = IF n = MaxLines THEN faults ELSE faults + 1
             /\ asked' = [at |-> "answer", over |-> Since, kept |-> SetToSortSeq(kept, <),
                          skipped |-> Cardinality(Records) >= TailCap \/ kept # New]
        /\ UNCHANGED <<clock, lines, page, shown, twice, gaps>>
(* The newest line's time, and the lines of that time; if the cursor does not move, the *)
(* lines seen at it stay seen.                                                              *)
Remembered(newest, hashes) ==
  IF newest # page.cursor THEN hashes
  ELSE LET all == page.hashes \o SelectSeq(hashes, LAMBDA h : h \notin Range(page.hashes))
       IN  SubSeq(all, IF Len(all) > HashCap THEN Len(all) - HashCap + 1 ELSE 1, Len(all))
Answer ==
  /\ asked.at = "answer"
  /\ LET kept == asked.kept
         newest == IF kept = <<>> THEN page.cursor ELSE lines[kept[Len(kept)]].at
         hashes == LET at == SelectSeq(kept, LAMBDA i : lines[i].at = newest)
                   IN  [k \in DOMAIN at |-> lines[at[k]].text]
     IN  /\ page' = [cursor |-> newest, hashes |-> Remembered(newest, hashes)]
         /\ twice' = (twice \/ Range(kept) \cap shown # {})
         /\ shown' = shown \cup Range(kept)
  /\ gaps' = IF asked.skipped THEN gaps \cup asked.over ELSE gaps
  /\ asked' = NoAsk
  /\ UNCHANGED <<clock, lines, faults>>
(* The browser keeps its page and asks again *)
Lost == /\ asked # NoAsk /\ faults < MaxFaults /\ faults' = faults + 1 /\ asked' = NoAsk
        /\ UNCHANGED <<clock, lines, page, shown, twice, gaps>>

Next == (\E text \in Texts : Writes(text)) \/ Tick \/ Poll \/ Answer \/ Lost
Spec == Init /\ [][Next]_logVars

-----------------------------------------------------------------------------
(* Following a log neither repeats a line nor loses one in silence, lost answers and equal *)
(* times included: a line older than the newest one shown was shown itself, or the operator *)
(* was told that lines were skipped, or a line of the same time that reads the same was.        *)
EveryLineOnce ==
  /\ ~twice
  /\ \A i \in DOMAIN lines : (\E j \in shown : j > i) /\ i \notin shown \cup gaps =>
       \E j \in shown : lines[j] = lines[i]
=============================================================================
