--------------------------- MODULE DaySheet_proofs ---------------------------
(***************************************************************************)
(* What the day sheet promises for any number of captures, tasks, days and *)
(* planning runs and for every habit, proved: a later day's word on a      *)
(* capture is never overruled, an open capture stays on the sheet, and no  *)
(* moved row and no finished task is forgotten.                            *)
(*                                                                         *)
(* After it three parts of the sum of MC_Planning: what an ad-hoc session  *)
(* took stays off the schedule (CycleSchedule), and what the user wrote    *)
(* and what was drafted to him stays through runs, reviews and the passes  *)
(* of the migration (CycleDocs, Migration).                                *)
(***************************************************************************)
EXTENDS MC_Planning, FiniteSetTheorems, TLAPS

\* No day after the last one that spoke of a row has left it in a state.
SpokeIsLast ==
  \A d \in Days, r \in Rows : state[d][r] # "none" => d <= spoke[r]

\* A capture that is not written down yet is on no sheet, in no run and in no
\* ledger.
UnwrittenUnknown ==
  \A c \in Captures : inbox[c] = "none" =>
    /\ spoke[c] = 0
    /\ \A d \in Days : c \notin plan[d] /\ c \notin moved[d]
    /\ \A run \in runs : c \notin run.candidates

IInv == TypeOK /\ SpokeIsLast /\ UnwrittenUnknown /\ LastWordWins

LEMMA InitInv == Init => IInv
<1>. SUFFICES ASSUME Init PROVE IInv
  OBVIOUS
<1>. USE DaySheetAssumption DEF Init
<1>1. TypeOK
  BY DEF TypeOK, Days, Settled
<1>2. SpokeIsLast /\ UnwrittenUnknown /\ LastWordWins
  BY DEF SpokeIsLast, UnwrittenUnknown, LastWordWins, Rows
<1>. QED  BY <1>1, <1>2 DEF IInv

LEMMA DayFacts ==
  /\ \A d \in Days : d \in Nat /\ d > 0
  /\ TypeOK => today \in Nat /\ today \in Days /\ 0..today \subseteq Days \cup {0}
<1>1. \A d \in Days : d \in Nat /\ d > 0 /\ 0..d \subseteq Days \cup {0}
  BY DaySheetAssumption DEF Days
<1>2. TypeOK => today \in Days
  BY DEF TypeOK
<1>. QED  BY <1>1, <1>2

\* What an entry of the feedback ledger changes.
LEMMA RecordEffect ==
  ASSUME TypeOK, NEW d \in Days, d <= today, NEW r \in Rows, NEW e \in Events,
         Record(d, r, e)
  PROVE  /\ state' \in [Days -> [Rows -> Settled \cup {"none"}]]
         /\ removed' \in [Days -> SUBSET Rows]
         /\ completedOn' \in [Rows -> 0..today]
         /\ spoke' \in [Rows -> 0..today]
         /\ state'[d][r] = StateAfter(state[d][r], e)
         /\ \A f \in Days, x \in Rows : <<f, x>> # <<d, r>> => state'[f][x] = state[f][x]
         /\ spoke'[r] = IF d > spoke[r] THEN d ELSE spoke[r]
         /\ \A x \in Rows : x # r => spoke'[x] = spoke[x]
<1>1. /\ today \in Nat /\ d \in 0..today /\ d > 0
  BY DaySheetAssumption DEF TypeOK, Days
<1>2. /\ state' \in [Days -> [Rows -> Settled \cup {"none"}]]
      /\ state'[d][r] = StateAfter(state[d][r], e)
      /\ \A f \in Days, x \in Rows : <<f, x>> # <<d, r>> => state'[f][x] = state[f][x]
  <2>1. state \in [Days -> [Rows -> Settled \cup {"none"}]]
    BY DEF TypeOK
  <2>2. StateAfter(state[d][r], e) \in Settled \cup {"none"}
    BY <2>1 DEF StateAfter
  <2>3. state' = [state EXCEPT ![d][r] = StateAfter(@, e)]
    BY DEF Record
  <2>. QED  BY <2>1, <2>2, <2>3
<1>3. removed' \in [Days -> SUBSET Rows]
  BY DEF Record, TypeOK
<1>4. completedOn' \in [Rows -> 0..today]
  <2>1. completedOn \in [Rows -> 0..today]
    BY DEF TypeOK
  <2>2. TickAfter(completedOn[r], e, d) \in 0..today
    BY <1>1, <2>1 DEF TickAfter
  <2>3. completedOn' = [completedOn EXCEPT ![r] = TickAfter(@, e, d)]
    BY DEF Record
  <2>. QED  BY <2>1, <2>2, <2>3
<1>5. /\ spoke' \in [Rows -> 0..today]
      /\ spoke'[r] = IF d > spoke[r] THEN d ELSE spoke[r]
      /\ \A x \in Rows : x # r => spoke'[x] = spoke[x]
  BY <1>1 DEF Record, TypeOK
<1>. QED  BY <1>2, <1>3, <1>4, <1>5

\* The ledger part of the invariant after an entry of row r on day d, when the
\* inbox moves at most for r.
LEMMA RecordInv ==
  ASSUME IInv, NEW d \in Days, d <= today, NEW r \in Rows, NEW e \in Events,
         Record(d, r, e), inbox' \in [Captures -> {"none", "open", "done", "deferred", "deleted"}],
         \A c \in Captures : c # r => inbox'[c] = inbox[c],
         r \in Captures =>
           \/ inbox'[r] # "open"
           \/ (StateAfter(state[d][r], e) # "complete" /\ spoke[r] <= d)
           \/ inbox'[r] = inbox[r] /\ (d < spoke[r] \/ StateAfter(state[d][r], e) = state[d][r])
  PROVE  SpokeIsLast' /\ LastWordWins'
<1>1. TypeOK /\ today \in Nat /\ d \in Nat
  BY DayFacts DEF IInv
<1>2. /\ state'[d][r] = StateAfter(state[d][r], e)
      /\ \A f \in Days, x \in Rows : <<f, x>> # <<d, r>> => state'[f][x] = state[f][x]
      /\ spoke'[r] = IF d > spoke[r] THEN d ELSE spoke[r]
      /\ \A x \in Rows : x # r => spoke'[x] = spoke[x]
  BY <1>1, RecordEffect
<1>3. spoke \in [Rows -> 0..today] /\ \A f \in Days : f \in Nat
  <2>1. spoke \in [Rows -> 0..today]
    BY <1>1 DEF TypeOK
  <2>. QED  BY <2>1, DayFacts
<1>4. SpokeIsLast'
  <2>. SUFFICES ASSUME NEW f \in Days, NEW x \in Rows, state'[f][x] # "none"
                PROVE  f <= spoke'[x]
    BY DEF SpokeIsLast
  <2>1. CASE x = r
    BY <1>1, <1>2, <1>3, <2>1 DEF IInv, SpokeIsLast
  <2>2. CASE x # r
    BY <1>2, <1>3, <2>2 DEF IInv, SpokeIsLast
  <2>. QED  BY <2>1, <2>2
<1>5. LastWordWins'
  <2>. SUFFICES ASSUME NEW c \in Captures, spoke'[c] > 0, state'[spoke'[c]][c] = "complete",
                       inbox'[c] = "open"
                PROVE  FALSE
    BY DEF LastWordWins
  <2>0. c \in Rows
    BY DEF Rows
  <2>1. CASE c # r
    <3>1. spoke[c] \in Days
      BY <1>1, <1>2, <1>3, <2>0, <2>1, DayFacts
    <3>. QED  BY <1>2, <2>0, <2>1, <3>1 DEF IInv, LastWordWins
  <2>2. CASE c = r
    <3>1. CASE StateAfter(state[d][r], e) # "complete" /\ spoke[r] <= d
      BY <1>1, <1>2, <1>3, <2>0, <2>2, <3>1
    <3>2. CASE inbox'[r] = inbox[r] /\ d < spoke[r]
      <4>1. spoke[r] \in Days /\ spoke'[r] = spoke[r] /\ spoke[r] # d
        BY <1>1, <1>2, <1>3, <2>0, <2>2, <3>2, DayFacts
      <4>2. state'[spoke[r]][r] = state[spoke[r]][r]
        BY <1>2, <4>1
      <4>. QED  BY <2>2, <3>2, <4>1, <4>2 DEF IInv, LastWordWins
    <3>3. CASE inbox'[r] = inbox[r] /\ StateAfter(state[d][r], e) = state[d][r] /\ spoke[r] <= d
      <4>1. spoke'[r] = d /\ state'[d][r] = state[d][r]
        BY <1>1, <1>2, <1>3, <3>3
      <4>2. spoke[r] = d
        BY <1>1, <1>3, <2>2, <3>3, <4>1 DEF IInv, SpokeIsLast
      <4>. QED  BY <2>2, <3>3, <4>1, <4>2 DEF IInv, LastWordWins
    <3>. QED  BY <1>1, <1>3, <2>2, <3>1, <3>2, <3>3
  <2>. QED  BY <2>1, <2>2
<1>. QED  BY <1>4, <1>5

\* A step that leaves the feedback ledger alone and opens only captures nothing
\* has been said of.
LEMMA LedgerAlone ==
  ASSUME IInv, UNCHANGED ledger,
         \A c \in Captures : inbox'[c] = "open" => inbox[c] = "open" \/ spoke[c] = 0
  PROVE  SpokeIsLast' /\ LastWordWins'
  BY DEF IInv, ledger, SpokeIsLast, LastWordWins

\* A step that leaves the sheets' rows among those known does not disturb
\* UnwrittenUnknown.
LEMMA KnownRows ==
  ASSUME IInv, NEW new \in SUBSET Rows, UNCHANGED spoke,
         \A c \in Captures : inbox'[c] = "none" => inbox[c] = "none" /\ c \notin new,
         \A d \in Days : plan'[d] \subseteq plan[d] \cup moved[d] \cup new,
         \A d \in Days : moved'[d] \subseteq moved[d] \cup new,
         \A run \in runs' : run \in runs \/ run.candidates \subseteq new
  PROVE  UnwrittenUnknown'
  BY DEF IInv, UnwrittenUnknown

LEMMA RowEventInv ==
  ASSUME IInv, NEW d \in Days, NEW r \in Rows, NEW e \in Events, RowEvent(d, r, e)
  PROVE  IInv'
<1>1. /\ d <= today /\ r \in plan[d] /\ Record(d, r, e) /\ (d = today \/ e # "defer")
      /\ inbox' = IF r \in Captures /\ Follows(d, r, e)
                  THEN [inbox EXCEPT ![r] = StatusOf(@, e)] ELSE inbox
      /\ UNCHANGED <<habits, today, sheets, movedTo, closing, runs>>
  BY DayFacts DEF RowEvent, MaySay, IInv
<1>2. /\ inbox \in [Captures -> {"none", "open", "done", "deferred", "deleted"}]
      /\ r \in Captures => inbox[r] # "none"
      /\ today \in Nat /\ d \in Nat /\ spoke \in [Rows -> 0..today]
  <2>1. TypeOK
    BY DEF IInv
  <2>2. /\ inbox \in [Captures -> {"none", "open", "done", "deferred", "deleted"}]
        /\ spoke \in [Rows -> 0..today]
    BY <2>1 DEF TypeOK
  <2>3. r \in Captures => inbox[r] # "none"
    BY <1>1 DEF IInv, UnwrittenUnknown
  <2>. QED  BY <2>1, <2>2, <2>3, DayFacts
<1>3. \A old \in {"open", "done", "deferred", "deleted"} :
        /\ StatusOf(old, e) \in {"open", "done", "deferred", "deleted"}
        /\ StatusOf(old, e) = "open" =>
             e \in {"reopen", "partial", "missed"} \/ (e = "defer" /\ old = "open")
  BY DEF StatusOf, Events, Settled
<1>4. /\ inbox' \in [Captures -> {"none", "open", "done", "deferred", "deleted"}]
      /\ \A c \in Captures : c # r => inbox'[c] = inbox[c]
      /\ \A c \in Captures : inbox'[c] = "none" => inbox[c] = "none" /\ c # r
  BY <1>1, <1>2, <1>3
<1>5. r \in Captures =>
        \/ inbox'[r] # "open"
        \/ (StateAfter(state[d][r], e) # "complete" /\ spoke[r] <= d)
        \/ inbox'[r] = inbox[r] /\ (d < spoke[r] \/ StateAfter(state[d][r], e) = state[d][r])
  <2>. SUFFICES ASSUME r \in Captures, inbox'[r] = "open"
                PROVE  \/ StateAfter(state[d][r], e) # "complete" /\ spoke[r] <= d
                       \/ /\ inbox'[r] = inbox[r]
                          /\ d < spoke[r] \/ StateAfter(state[d][r], e) = state[d][r]
    OBVIOUS
  <2>0. r \in Rows /\ spoke[r] \in 0..today
    BY <1>2
  <2>1. CASE Follows(d, r, e)
    <3>1. inbox'[r] = StatusOf(inbox[r], e)
      BY <1>1, <1>2, <2>1
    <3>2. e \in {"reopen", "partial", "missed", "defer"}
      BY <1>2, <1>3, <3>1
    <3>3. StateAfter(state[d][r], e) # "complete"
      BY <3>2 DEF StateAfter, Settled
    <3>4. spoke[r] <= d
      BY <1>2, <2>0, <2>1 DEF Follows
    <3>. QED  BY <3>3, <3>4
  <2>2. CASE ~Follows(d, r, e)
    <3>1. inbox'[r] = inbox[r]
      BY <1>1, <2>2
    <3>2. CASE e = "remove"
      BY <3>1, <3>2 DEF StateAfter, Settled
    <3>3. CASE e # "remove"
      BY <1>2, <2>0, <2>2, <3>1, <3>3 DEF Follows
    <3>. QED  BY <3>2, <3>3
  <2>. QED  BY <2>1, <2>2
<1>6. SpokeIsLast' /\ LastWordWins'
  BY <1>1, <1>4, <1>5, RecordInv
<1>7. TypeOK'
  <2>1. /\ state' \in [Days -> [Rows -> Settled \cup {"none"}]]
        /\ removed' \in [Days -> SUBSET Rows]
        /\ completedOn' \in [Rows -> 0..today] /\ spoke' \in [Rows -> 0..today]
    BY <1>1, RecordEffect DEF IInv
  <2>. QED  BY <1>1, <1>4, <2>1 DEF IInv, TypeOK, sheets, closing
<1>8. UnwrittenUnknown'
  <2>1. \A c \in Captures : c # r => spoke'[c] = spoke[c]
    BY <1>1, RecordEffect DEF IInv, Rows
  <2>. QED  BY <1>1, <1>4, <2>1 DEF IInv, UnwrittenUnknown, sheets
<1>. QED  BY <1>6, <1>7, <1>8 DEF IInv

\* A capture at the end of today's sheet, if there is one.
LEMMA PlanWithEffect ==
  ASSUME TypeOK, NEW r \in Rows, plan' = PlanWith(r)
  PROVE  /\ plan' \in [Days -> SUBSET Rows]
         /\ \A d \in Days : plan[d] \subseteq plan'[d] /\ plan'[d] \subseteq plan[d] \cup {r}
         /\ \A d \in Days \ planned : plan'[d] = plan[d]
  BY DEF TypeOK, PlanWith

LEMMA CaptureInv ==
  ASSUME IInv, NEW c \in Captures, Capture(c) \/ AddToPlan(c)
  PROVE  IInv'
<1>0. c \in Rows
  BY DEF Rows
<1>1. /\ plan' = PlanWith(c) /\ UNCHANGED <<habits, today, planned, moved, ledger, movedTo, closing, runs>>
      /\ inbox' \in [Captures -> {"none", "open", "done", "deferred", "deleted"}]
      /\ inbox'[c] = "open" /\ (inbox[c] = "none" \/ inbox[c] = "open")
      /\ \A x \in Captures : x # c => inbox'[x] = inbox[x]
  BY DEF Capture, AddToPlan, IInv, TypeOK
<1>2. /\ plan' \in [Days -> SUBSET Rows]
      /\ \A d \in Days : plan'[d] \subseteq plan[d] \cup {c}
      /\ \A d \in Days \ planned : plan'[d] = plan[d]
  BY <1>0, <1>1, PlanWithEffect DEF IInv
<1>3. TypeOK'
  BY <1>1, <1>2 DEF IInv, TypeOK, ledger, closing
<1>4. SpokeIsLast' /\ LastWordWins'
  BY <1>1, LedgerAlone DEF IInv, UnwrittenUnknown
<1>5. UnwrittenUnknown'
  <2>1. {c} \in SUBSET Rows /\ UNCHANGED spoke
    BY <1>0, <1>1 DEF ledger
  <2>. QED  BY <1>1, <1>2, <2>1, KnownRows
<1>. QED  BY <1>3, <1>4, <1>5 DEF IInv

LEMMA CloseCaptureInv ==
  ASSUME IInv, NEW c \in Captures, NEW s \in {"done", "deferred", "deleted"},
         CloseCapture(c, s)
  PROVE  IInv'
<1>1. /\ inbox[c] = "open" /\ inbox' = [inbox EXCEPT ![c] = s]
      /\ UNCHANGED <<habits, today, sheets, movedTo, closing, runs>>
      /\ UNCHANGED ledger \/ Record(today, c, "complete")
  BY DEF CloseCapture, MirrorTick
<1>2. /\ inbox' \in [Captures -> {"none", "open", "done", "deferred", "deleted"}]
      /\ \A x \in Captures : x # c => inbox'[x] = inbox[x]
      /\ inbox'[c] # "open" /\ inbox'[c] # "none"
  BY <1>1 DEF IInv, TypeOK
<1>3. TypeOK /\ today \in Days /\ today <= today /\ c \in Rows /\ "complete" \in Events
  BY DayFacts DEF IInv, Rows, Events, Settled
<1>4. CASE UNCHANGED ledger
  <2>1. TypeOK'
    BY <1>1, <1>2, <1>4 DEF IInv, TypeOK, ledger, sheets, closing
  <2>2. SpokeIsLast' /\ LastWordWins'
    BY <1>2, <1>4, LedgerAlone
  <2>3. UnwrittenUnknown'
    BY <1>1, <1>2, <1>4 DEF IInv, UnwrittenUnknown, ledger, sheets
  <2>. QED  BY <2>1, <2>2, <2>3 DEF IInv
<1>5. CASE Record(today, c, "complete")
  <2>1. /\ state' \in [Days -> [Rows -> Settled \cup {"none"}]]
        /\ removed' \in [Days -> SUBSET Rows]
        /\ completedOn' \in [Rows -> 0..today] /\ spoke' \in [Rows -> 0..today]
        /\ \A x \in Rows : x # c => spoke'[x] = spoke[x]
    BY <1>3, <1>5, RecordEffect
  <2>2. TypeOK'
    BY <1>1, <1>2, <2>1 DEF IInv, TypeOK, sheets, closing
  <2>3. SpokeIsLast' /\ LastWordWins'
    BY <1>2, <1>3, <1>5, RecordInv
  <2>4. UnwrittenUnknown'
    BY <1>1, <1>2, <2>1 DEF IInv, UnwrittenUnknown, sheets, Rows
  <2>. QED  BY <2>2, <2>3, <2>4 DEF IInv
<1>. QED  BY <1>1, <1>4, <1>5

LEMMA RestoreInv ==
  ASSUME IInv, NEW c \in Captures, Restore(c)
  PROVE  IInv'
<1>1. /\ inbox[c] \in {"done", "deferred"} /\ inbox' = [inbox EXCEPT ![c] = "open"]
      /\ Record(today, c, "reopen")
      /\ UNCHANGED <<habits, today, sheets, movedTo, closing, runs>>
  BY DEF Restore
<1>2. /\ inbox' \in [Captures -> {"none", "open", "done", "deferred", "deleted"}]
      /\ \A x \in Captures : x # c => inbox'[x] = inbox[x]
      /\ inbox'[c] # "none"
  BY <1>1 DEF IInv, TypeOK
<1>3. TypeOK /\ today \in Days /\ today <= today /\ c \in Rows /\ "reopen" \in Events
  BY DayFacts DEF IInv, Rows, Events
<1>4. StateAfter(state[today][c], "reopen") # "complete" /\ spoke[c] <= today
  <2>1. spoke[c] \in 0..today /\ today \in Nat
    BY <1>3, DayFacts DEF TypeOK
  <2>. QED  BY <2>1 DEF StateAfter, Settled
<1>5. /\ state' \in [Days -> [Rows -> Settled \cup {"none"}]]
      /\ removed' \in [Days -> SUBSET Rows]
      /\ completedOn' \in [Rows -> 0..today] /\ spoke' \in [Rows -> 0..today]
      /\ \A x \in Rows : x # c => spoke'[x] = spoke[x]
  BY <1>1, <1>3, RecordEffect
<1>6. TypeOK'
  BY <1>1, <1>2, <1>5 DEF IInv, TypeOK, sheets, closing
<1>7. SpokeIsLast' /\ LastWordWins'
  BY <1>1, <1>2, <1>3, <1>4, RecordInv
<1>8. UnwrittenUnknown'
  BY <1>1, <1>2, <1>5 DEF IInv, UnwrittenUnknown, sheets, Rows
<1>. QED  BY <1>6, <1>7, <1>8 DEF IInv

LEMMA StartPlanInv ==
  ASSUME IInv, NEW id \in 1..MaxRuns, NEW d \in Days, StartPlan(id, d)
  PROVE  IInv'
<1>1. /\ runs' = runs \cup {[id |-> id, date |-> d, candidates |-> Candidates(d)]}
      /\ UNCHANGED <<habits, today, inbox, ledger, sheets, movedTo, closing>>
  BY DEF StartPlan
<1>2. /\ Candidates(d) \in SUBSET Rows
      /\ \A c \in Captures : c \in Candidates(d) => inbox[c] = "open"
  BY DaySheetAssumption DEF Candidates, Open, Rows, Scheduled
<1>3. TypeOK'
  BY <1>1, <1>2 DEF IInv, TypeOK, ledger, sheets, closing
<1>4. SpokeIsLast' /\ LastWordWins'
  BY <1>1, LedgerAlone
<1>5. UnwrittenUnknown'
  BY <1>1, <1>2 DEF IInv, UnwrittenUnknown, ledger, sheets
<1>. QED  BY <1>3, <1>4, <1>5 DEF IInv

LEMMA FailPlanInv ==
  ASSUME IInv, NEW run \in runs, FailPlan(run)
  PROVE  IInv'
<1>1. runs' \subseteq runs /\ UNCHANGED <<habits, today, inbox, ledger, sheets, movedTo, closing>>
  BY DEF FailPlan
<1>2. TypeOK'
  BY <1>1 DEF IInv, TypeOK, ledger, sheets, closing
<1>3. SpokeIsLast' /\ LastWordWins'
  BY <1>1, LedgerAlone
<1>4. UnwrittenUnknown'
  BY <1>1 DEF IInv, UnwrittenUnknown, ledger, sheets
<1>. QED  BY <1>2, <1>3, <1>4 DEF IInv

\* The rows of a saved plan: what was chosen, open captures, waiting rows.
LEMMA SavePlanInv ==
  ASSUME IInv, NEW run \in runs, NEW chosen \in SUBSET Rows, SavePlan(run, chosen)
  PROVE  IInv'
<1>. DEFINE d == run.date
            new == WithMoved(WithCaptures(chosen, run), d)
<1>1. /\ chosen \subseteq run.candidates /\ runs' \subseteq runs
      /\ plan' = [plan EXCEPT ![d] = new] /\ planned' = planned \cup {d}
      /\ moved' = [moved EXCEPT ![d] = {}]
      /\ UNCHANGED <<habits, today, inbox, ledger, movedTo, closing>>
  BY DEF SavePlan, StillWaiting
<1>2. TypeOK /\ d \in Days
  BY DEF IInv, TypeOK
<1>3. new \subseteq chosen \cup Open \cup moved[d]
  BY DEF WithMoved, WithCaptures
<1>4. /\ new \in SUBSET Rows
      /\ \A c \in Captures : c \in new => inbox[c] # "none"
  <2>1. moved[d] \subseteq Rows /\ Open \subseteq Rows
    BY <1>2 DEF TypeOK, Open, Rows
  <2>2. \A c \in Captures : c \in run.candidates \cup Open \cup moved[d] => inbox[c] # "none"
    BY <1>2 DEF IInv, UnwrittenUnknown, Open
  <2>. QED  BY <1>1, <1>3, <2>1, <2>2
<1>. HIDE DEF new
<1>5. TypeOK'
  BY <1>1, <1>2, <1>4 DEF TypeOK, ledger, closing
<1>6. SpokeIsLast' /\ LastWordWins'
  BY <1>1, LedgerAlone
<1>7. UnwrittenUnknown'
  BY <1>1, <1>2, <1>4 DEF TypeOK, IInv, UnwrittenUnknown, ledger
<1>. QED  BY <1>5, <1>6, <1>7 DEF IInv

LEMMA MoveInv ==
  ASSUME IInv, NEW d \in Days, NEW r \in Rows, Move(d, r)
  PROVE  IInv'
<1>1. /\ d < today /\ r \in plan[d] /\ Record(d, r, "defer")
      /\ movedTo' = [movedTo EXCEPT ![d][r] = today]
      /\ UNCHANGED <<habits, today, inbox, planned, closing, runs>>
  BY DEF Move, Undecided, Visible, IInv, TypeOK
<1>2. /\ TypeOK /\ today \in Days /\ d <= today /\ "defer" \in Events
      /\ today \in 0..today /\ d \in Nat /\ today \in Nat
  BY <1>1, DayFacts DEF IInv, Events, Settled
<1>3. /\ state' \in [Days -> [Rows -> Settled \cup {"none"}]]
      /\ removed' \in [Days -> SUBSET Rows]
      /\ completedOn' \in [Rows -> 0..today] /\ spoke' \in [Rows -> 0..today]
      /\ \A x \in Rows : x # r => spoke'[x] = spoke[x]
  BY <1>1, <1>2, RecordEffect
<1>4. movedTo' \in [Days -> [Rows -> 0..today]]
  <2>1. movedTo \in [Days -> [Rows -> 0..today]]
    BY <1>2 DEF TypeOK
  <2>. QED  BY <1>1, <1>2, <2>1
<1>5. /\ plan' \in [Days -> SUBSET Rows] /\ moved' \in [Days -> SUBSET Rows]
      /\ \A f \in Days : plan'[f] \subseteq plan[f] \cup {r} /\ moved'[f] \subseteq moved[f] \cup {r}
      /\ \A f \in Days \ planned : plan'[f] = plan[f]
      /\ \A f \in planned : moved'[f] = moved[f]
  <2>1. CASE today \in planned
    <3>1. plan' = PlanWith(r) /\ UNCHANGED moved
      BY <2>1 DEF Move
    <3>. QED  BY <1>2, <3>1, PlanWithEffect DEF TypeOK
  <2>2. CASE today \notin planned
    <3>1. moved' = [moved EXCEPT ![today] = @ \cup {r}] /\ UNCHANGED plan
      BY <2>2 DEF Move
    <3>2. moved \in [Days -> SUBSET Rows] /\ plan \in [Days -> SUBSET Rows] /\ planned \subseteq Days
      BY <1>2 DEF TypeOK
    <3>. QED  BY <1>2, <2>2, <3>1, <3>2
  <2>. QED  BY <2>1, <2>2
<1>6. TypeOK'
  BY <1>1, <1>3, <1>4, <1>5 DEF IInv, TypeOK, closing
<1>7. SpokeIsLast' /\ LastWordWins'
  <2>1. spoke[r] \in 0..today
    BY <1>2 DEF TypeOK
  <2>2. inbox' \in [Captures -> {"none", "open", "done", "deferred", "deleted"}]
    BY <1>1, <1>2 DEF TypeOK
  <2>3. StateAfter(state[d][r], "defer") # "complete"
    BY DEF StateAfter, Settled
  <2>. QED  BY <1>1, <1>2, <2>1, <2>2, <2>3, RecordInv
<1>8. UnwrittenUnknown'
  <2>. SUFFICES ASSUME NEW c \in Captures, inbox[c] = "none"
                PROVE  /\ spoke'[c] = 0
                       /\ \A f \in Days : c \notin plan'[f] /\ c \notin moved'[f]
                       /\ \A run \in runs : c \notin run.candidates
    BY <1>1 DEF UnwrittenUnknown
  <2>1. /\ spoke[c] = 0 /\ \A f \in Days : c \notin plan[f] /\ c \notin moved[f]
        /\ \A run \in runs : c \notin run.candidates
    BY DEF IInv, UnwrittenUnknown
  <2>2. c # r /\ c \in Rows
    BY <1>1, <2>1 DEF Rows
  <2>. QED  BY <1>3, <1>5, <2>1, <2>2
<1>. QED  BY <1>6, <1>7, <1>8 DEF IInv

\* Closing out, reviewing and midnight touch neither ledger nor sheet.
LEMMA ClosingInv ==
  ASSUME IInv, UNCHANGED <<habits, inbox, ledger, sheets, movedTo, runs>>,
         today' \in Days, today <= today',
         wrap' \in [Days -> {"open", "done", "skipped"}],
         reviewed' \subseteq sections', sections' \subseteq 1..today', reviews' \subseteq 1..today'
  PROVE  IInv'
<1>1. TypeOK /\ today \in Nat /\ today' \in Nat /\ 0..today \subseteq 0..today'
  BY DayFacts DEF IInv
<1>2. TypeOK'
  <2>1. /\ completedOn \in [Rows -> 0..today] /\ spoke \in [Rows -> 0..today]
        /\ movedTo \in [Days -> [Rows -> 0..today]]
    BY <1>1 DEF TypeOK
  <2>2. /\ completedOn \in [Rows -> 0..today'] /\ spoke \in [Rows -> 0..today']
        /\ movedTo \in [Days -> [Rows -> 0..today']]
    BY <1>1, <2>1
  <2>. QED  BY <1>1, <2>2 DEF TypeOK, ledger, sheets
<1>3. SpokeIsLast' /\ LastWordWins'
  BY LedgerAlone
<1>4. UnwrittenUnknown'
  BY DEF IInv, UnwrittenUnknown, ledger, sheets
<1>. QED  BY <1>2, <1>3, <1>4 DEF IInv

LEMMA CloseOutInv ==
  ASSUME IInv, NEW d \in Days,
         CloseDay(d) \/ SkipDay(d) \/ EndReview(d) \/ StartReview \/ NoteReview
  PROVE  IInv'
<1>1. /\ wrap \in [Days -> {"open", "done", "skipped"}] /\ reviewed \subseteq sections
      /\ sections \subseteq 1..today /\ reviews \subseteq 1..today
    BY DEF IInv, TypeOK
<1>2. today \in Days /\ today \in Nat /\ today \in 1..today
  BY DayFacts DEF IInv
<1>3. d < today => d \in 1..today
  BY <1>2, DayFacts
<1>4. /\ wrap' \in [Days -> {"open", "done", "skipped"}] /\ reviewed' \subseteq sections'
      /\ sections' \subseteq 1..today /\ reviews' \subseteq 1..today
  BY <1>1, <1>2, <1>3 DEF CloseDay, SkipDay, Pending, EndReview, StartReview, NoteReview
<1>5. UNCHANGED <<habits, today, inbox, ledger, sheets, movedTo, runs>>
  BY DEF CloseDay, SkipDay, Pending, EndReview, StartReview, NoteReview
<1>. QED  BY <1>2, <1>4, <1>5, ClosingInv

LEMMA NextDayInv == IInv /\ NextDay => IInv'
<1>. SUFFICES ASSUME IInv, NextDay PROVE IInv'
  OBVIOUS
<1>1. /\ wrap \in [Days -> {"open", "done", "skipped"}] /\ reviewed \subseteq sections
      /\ sections \subseteq 1..today /\ reviews \subseteq 1..today
    BY DEF IInv, TypeOK
<1>2. today \in Nat /\ today > 0
  BY DayFacts DEF IInv
<1>3. /\ today' = today + 1 /\ today < LastDay
      /\ UNCHANGED <<habits, inbox, ledger, sheets, movedTo, closing, runs>>
  BY DEF NextDay
<1>5. today' \in Days /\ today <= today'
  BY <1>2, <1>3, DaySheetAssumption DEF Days
<1>4. 1..today \subseteq 1..today'
  BY <1>2, <1>3
<1>. QED  BY <1>1, <1>3, <1>4, <1>5, ClosingInv DEF closing

LEMMA StepInv == IInv /\ [Next]_vars => IInv'
<1>. SUFFICES ASSUME IInv, [Next]_vars PROVE IInv'
  OBVIOUS
<1>1. CASE UNCHANGED vars
  <2>1. today \in Days /\ today \in Nat
    BY DayFacts DEF IInv
  <2>2. /\ wrap \in [Days -> {"open", "done", "skipped"}] /\ reviewed \subseteq sections
        /\ sections \subseteq 1..today /\ reviews \subseteq 1..today
    BY DEF IInv, TypeOK
  <2>. QED  BY <1>1, <2>1, <2>2, ClosingInv DEF vars, closing
<1>2. ASSUME NEW d \in Days, NEW r \in Rows, NEW e \in Events, RowEvent(d, r, e)
      PROVE  IInv'
  BY <1>2, RowEventInv
<1>3. ASSUME NEW c \in Captures, Capture(c) \/ AddToPlan(c) \/ Restore(c) PROVE IInv'
  BY <1>3, CaptureInv, RestoreInv
<1>4. ASSUME NEW c \in Captures, NEW s \in {"done", "deferred", "deleted"}, CloseCapture(c, s)
      PROVE  IInv'
  BY <1>4, CloseCaptureInv
<1>5. ASSUME NEW id \in 1..MaxRuns, NEW d \in Days, StartPlan(id, d) PROVE IInv'
  BY <1>5, StartPlanInv
<1>6. ASSUME NEW run \in runs, FailPlan(run) PROVE IInv'
  BY <1>6, FailPlanInv
<1>7. ASSUME NEW run \in runs, NEW chosen \in SUBSET Rows, SavePlan(run, chosen) PROVE IInv'
  BY <1>7, SavePlanInv
<1>8. ASSUME NEW d \in Days, NEW r \in Rows, Move(d, r) PROVE IInv'
  BY <1>8, MoveInv
<1>9. ASSUME NEW d \in Days, CloseDay(d) \/ SkipDay(d) \/ EndReview(d) PROVE IInv'
  BY <1>9, CloseOutInv
<1>10. StartReview \/ NoteReview => IInv'
  BY CloseOutInv, DayFacts DEF IInv
<1>. QED  BY <1>1, <1>2, <1>3, <1>4, <1>5, <1>6, <1>7, <1>8, <1>9, <1>10, NextDayInv DEF Next

LEMMA Inductive == Spec => []IInv
  BY InitInv, StepInv, PTL DEF Spec

\* The variables have their types; rows wait only for days without a plan.
THEOREM TypeCorrect == Spec => []TypeOK
<1>1. IInv => TypeOK
  BY DEF IInv
<1>. QED  BY <1>1, Inductive, PTL

\* Whatever is ticked, undone, corrected in the past, moved or planned again:
\* where the latest sheet that spoke of a capture says complete, it is not open.
THEOREM LastWordAlwaysWins == Spec => []LastWordWins
<1>1. IInv => LastWordWins
  BY DEF IInv
<1>. QED  BY <1>1, Inductive, PTL

\* An open capture stays on today's sheet through every planning run that keeps
\* a row, whatever was captured or ticked while its agent worked.
THEOREM CapturesStay == Spec => CaptureStays
<1>. DEFINE A == \A c \in Captures :
       ("empty" \notin habits /\ inbox[c] = "open" /\ inbox'[c] = "open" /\ today' = today /\ c \in plan[today])
         => c \in plan'[today]
<1>1. ASSUME IInv, [Next]_vars PROVE A
  <2>. SUFFICES ASSUME NEW c \in Captures, "empty" \notin habits, inbox[c] = "open", c \in plan[today]
                PROVE  c \in plan'[today]
    OBVIOUS
  <2>1. TypeOK /\ today \in Days /\ c \in Rows /\ plan \in [Days -> SUBSET Rows]
    BY <1>1, DayFacts DEF IInv, TypeOK, Rows
  <2>2. ASSUME NEW r \in Rows, plan' = PlanWith(r) PROVE c \in plan'[today]
    BY <2>1, <2>2, PlanWithEffect
  <2>3. ASSUME NEW run \in runs, NEW chosen \in SUBSET Rows, SavePlan(run, chosen)
        PROVE  c \in plan'[today]
    <3>1. /\ chosen # {}
          /\ plan' = [plan EXCEPT ![run.date] = WithMoved(WithCaptures(chosen, run), run.date)]
      BY <2>3 DEF SavePlan
    <3>2. c \in WithMoved(WithCaptures(chosen, run), run.date)
      BY <3>1 DEF WithMoved, WithCaptures, Open
    <3>. QED  BY <2>1, <3>1, <3>2
  <2>4. ASSUME NEW x \in Captures, Capture(x) \/ AddToPlan(x) PROVE c \in plan'[today]
    <3>1. x \in Rows /\ plan' = PlanWith(x)
      BY <2>4 DEF Capture, AddToPlan, Rows
    <3>. QED  BY <3>1, <2>2
  <2>5. ASSUME NEW d \in Days, NEW r \in Rows, Move(d, r) PROVE c \in plan'[today]
    <3>1. plan' = PlanWith(r) \/ UNCHANGED plan
      BY <2>5 DEF Move
    <3>. QED  BY <3>1, <2>2
  <2>6. ASSUME \/ \E d \in Days, r \in Rows, e \in Events : RowEvent(d, r, e)
               \/ \E x \in Captures : Restore(x)
               \/ \E x \in Captures, s \in {"done", "deferred", "deleted"} : CloseCapture(x, s)
               \/ \E id \in 1..MaxRuns, d \in Days : StartPlan(id, d)
               \/ \E run \in runs : FailPlan(run)
               \/ \E d \in Days : CloseDay(d) \/ SkipDay(d) \/ EndReview(d)
               \/ StartReview \/ NoteReview \/ NextDay \/ UNCHANGED vars
        PROVE  UNCHANGED plan
    BY <2>6 DEF RowEvent, MaySay, Restore, CloseCapture, StartPlan, FailPlan, CloseDay, SkipDay, Pending,
       EndReview, StartReview, NoteReview, NextDay, vars, sheets
  <2>. QED  BY <1>1, <2>3, <2>4, <2>5, <2>6 DEF Next
<1>2. IInv /\ [Next]_vars => [A]_vars
  BY <1>1
<1>. QED  BY <1>2, Inductive, PTL DEF Spec, CaptureStays

-----------------------------------------------------------------------------
(* What a day closes with and what the next one starts from.               *)

\* The runs under way, as far as the habits bound them: none of an earlier day
\* unless one outlasts midnight, none of a later day unless days are planned
\* ahead, and without reruns one at most for a day, which has no plan yet.
RunsTimed ==
  \A run \in runs :
    /\ "late" \notin habits => run.date >= today
    /\ "ahead" \notin habits => run.date <= today
    /\ "rerun" \notin habits =>
         run.date \notin planned /\ \A other \in runs : other.date = run.date => other = run

\* Nothing waits for a day to come or is closed before its end, and without
\* planning ahead no day to come is planned.
NothingAhead ==
  \A d \in Days :
    /\ d > today => moved[d] = {} /\ ("ahead" \notin habits => d \notin planned)
    /\ wrap[d] = "done" => d < today

\* A task's standing tick is of today, if it has one, or it has a session today.
Fresh(r) == completedOn[r] \in {0, today} \/ ("sessions" \in habits /\ <<today, r>> \in OwnDays)
CarriedOver(r) == \E d \in Days : movedTo[d][r] = today

\* The tasks that today's runs may choose, that are on today's sheet and that
\* wait for it.
TasksFresh ==
  {"past", "ahead"} \cap habits = {} =>
    /\ \A run \in runs : run.date = today => \A r \in Tasks \cap run.candidates : Fresh(r)
    /\ \A r \in Tasks \cap plan[today] : Fresh(r) \/ CarriedOver(r)
    /\ \A r \in moved[today] : CarriedOver(r)

SheetInv == RunsTimed /\ NothingAhead /\ TasksFresh /\ MovedOnSheet /\ ClosedMeansDecided

\* What a step that only writes down, ticks, moves or closes does to the times.
LEMMA TimedFrame ==
  ASSUME IInv, RunsTimed, NothingAhead, UNCHANGED <<habits, today, planned>>, runs' \subseteq runs,
         \A d \in Days : d > today => moved'[d] = moved[d],
         \A d \in Days : wrap'[d] = "done" => wrap[d] = "done" \/ d < today
  PROVE  RunsTimed' /\ NothingAhead'
  BY DEF RunsTimed, NothingAhead

LEMMA TimedStep == IInv /\ RunsTimed /\ NothingAhead /\ [Next]_vars => RunsTimed' /\ NothingAhead'
<1>. SUFFICES ASSUME IInv, RunsTimed, NothingAhead, [Next]_vars PROVE RunsTimed' /\ NothingAhead'
  OBVIOUS
<1>0. /\ TypeOK /\ today \in Nat /\ today \in Days /\ \A d \in Days : d \in Nat
      /\ \A run \in runs : run.date \in Days
  BY DayFacts DEF IInv, TypeOK
<1>1. CASE /\ UNCHANGED <<habits, today, planned, moved, wrap>> /\ runs' \subseteq runs
  BY <1>1, TimedFrame
<1>2. ASSUME NEW d \in Days, NEW r \in Rows, NEW e \in Events, RowEvent(d, r, e)
      PROVE  RunsTimed' /\ NothingAhead'
  BY <1>1, <1>2 DEF RowEvent, MaySay, sheets, closing
<1>3. ASSUME NEW c \in Captures, Capture(c) \/ AddToPlan(c) \/ Restore(c)
      PROVE  RunsTimed' /\ NothingAhead'
  BY <1>1, <1>3 DEF Capture, AddToPlan, Restore, sheets, closing
<1>4. ASSUME NEW c \in Captures, NEW s \in {"done", "deferred", "deleted"}, CloseCapture(c, s)
      PROVE  RunsTimed' /\ NothingAhead'
  BY <1>1, <1>4 DEF CloseCapture, sheets, closing
<1>5. ASSUME NEW id \in 1..MaxRuns, NEW d \in Days, StartPlan(id, d)
      PROVE  RunsTimed' /\ NothingAhead'
  <2>1. PICK new : /\ new.date = d /\ runs' = runs \cup {new}
                   /\ UNCHANGED <<habits, today, planned, moved, wrap>>
                   /\ d - today \in 0..1 /\ (d > today => "ahead" \in habits)
                   /\ "rerun" \in habits \/ (d \notin planned /\ \A run \in runs : run.date # d)
    BY <1>5 DEF StartPlan, sheets, closing
  <2>2. d >= today
    BY <1>0, <2>1
  <2>3. RunsTimed'
    BY <1>0, <2>1, <2>2 DEF RunsTimed
  <2>. QED  BY <2>1, <2>3 DEF NothingAhead
<1>6. ASSUME NEW run \in runs, FailPlan(run) PROVE RunsTimed' /\ NothingAhead'
  BY <1>1, <1>6 DEF FailPlan, sheets, closing
<1>7. ASSUME NEW run \in runs, NEW chosen \in SUBSET Rows, SavePlan(run, chosen)
      PROVE  RunsTimed' /\ NothingAhead'
  <2>1. /\ runs' = runs \ {run} /\ planned' = planned \cup {run.date}
        /\ moved' = [moved EXCEPT ![run.date] = {}] /\ UNCHANGED <<habits, today, wrap>>
    BY <1>7 DEF SavePlan, StillWaiting, closing
  <2>2. RunsTimed'
    BY <2>1 DEF RunsTimed
  <2>3. \A d \in Days : moved[d] = {} => moved'[d] = {}
    BY <1>0, <2>1 DEF TypeOK
  <2>4. \A d \in Days : d > today /\ "ahead" \notin habits => d # run.date
    BY <1>0 DEF RunsTimed
  <2>5. NothingAhead'
    BY <2>1, <2>3, <2>4 DEF NothingAhead
  <2>. QED  BY <2>2, <2>5
<1>8. ASSUME NEW d \in Days, NEW r \in Rows, Move(d, r) PROVE RunsTimed' /\ NothingAhead'
  <2>1. /\ UNCHANGED <<habits, today, planned, wrap, runs>>
        /\ \/ UNCHANGED moved
           \/ moved' = [moved EXCEPT ![today] = @ \cup {r}]
    BY <1>8 DEF Move, closing
  <2>2. \A f \in Days : f > today => moved'[f] = moved[f]
    BY <1>0, <2>1 DEF TypeOK
  <2>. QED  BY <2>1, <2>2, TimedFrame
<1>9. ASSUME NEW d \in Days, CloseDay(d) \/ SkipDay(d) \/ EndReview(d) \/ StartReview \/ NoteReview
      PROVE  RunsTimed' /\ NothingAhead'
  <2>1. UNCHANGED <<habits, today, planned, moved, runs>>
    BY <1>9 DEF CloseDay, SkipDay, Pending, EndReview, StartReview, NoteReview, sheets
  <2>2. \A f \in Days : wrap'[f] = "done" => wrap[f] = "done" \/ f < today
    BY <1>0, <1>9 DEF CloseDay, SkipDay, Pending, EndReview, StartReview, NoteReview, TypeOK
  <2>. QED  BY <2>1, <2>2, TimedFrame
<1>10. CASE NextDay
  <2>1. /\ today' = today + 1 /\ UNCHANGED <<habits, planned, moved, wrap, runs>>
        /\ "late" \in habits \/ \A run \in runs : run.date > today
    BY <1>10 DEF NextDay, sheets, closing
  <2>2. \A run \in runs : run.date \in Nat
    BY <1>0
  <2>3. \A d \in Days : (d > today' => d > today) /\ (d < today => d < today')
    BY <1>0, <2>1
  <2>4. RunsTimed'
    BY <1>0, <2>1, <2>2 DEF RunsTimed
  <2>5. NothingAhead'
    BY <2>1, <2>3 DEF NothingAhead
  <2>. QED  BY <2>4, <2>5
<1>11. CASE UNCHANGED vars
  BY <1>1, <1>11 DEF vars, sheets, closing
<1>. QED  BY <1>0, <1>2, <1>3, <1>4, <1>5, <1>6, <1>7, <1>8, <1>9, <1>10, <1>11 DEF Next

\* What was moved to today is on its sheet or waits: a plan that is saved takes
\* what waits with it, and a second plan of the day would need a rerun.
LEMMA MovedStep ==
  IInv /\ RunsTimed /\ MovedOnSheet /\ [Next]_vars => MovedOnSheet'
<1>. SUFFICES ASSUME IInv, RunsTimed, MovedOnSheet, [Next]_vars, "rerun" \notin habits'
              PROVE  MovedOnSheet'
  BY DEF MovedOnSheet
<1>0. /\ TypeOK /\ today \in Nat /\ today \in Days
      /\ \A run \in runs : run.date \in Days
      /\ \A d \in Days, r \in Rows : movedTo[d][r] \in 0..today
  BY DayFacts DEF IInv, TypeOK
<1>1. CASE UNCHANGED <<habits, today, movedTo, moved, planned, plan>>
  BY <1>1 DEF MovedOnSheet
<1>2. ASSUME NEW d \in Days, NEW r \in Rows, NEW e \in Events, RowEvent(d, r, e)
      PROVE  MovedOnSheet'
  BY <1>1, <1>2 DEF RowEvent, MaySay, sheets
<1>3. ASSUME NEW c \in Captures, Capture(c) \/ AddToPlan(c) PROVE MovedOnSheet'
  <2>1. c \in Rows /\ plan' = PlanWith(c) /\ UNCHANGED <<habits, today, movedTo, moved, planned>>
    BY <1>3 DEF Capture, AddToPlan, Rows
  <2>2. \A d \in Days : plan[d] \subseteq plan'[d]
    BY <1>0, <2>1, PlanWithEffect
  <2>. QED  BY <1>0, <2>1, <2>2 DEF MovedOnSheet
<1>4. ASSUME NEW c \in Captures, NEW s \in {"done", "deferred", "deleted"},
             CloseCapture(c, s) \/ Restore(c)
      PROVE  MovedOnSheet'
  BY <1>1, <1>4 DEF CloseCapture, Restore, sheets
<1>5. ASSUME NEW id \in 1..MaxRuns, NEW d \in Days, StartPlan(id, d) PROVE MovedOnSheet'
  BY <1>1, <1>5 DEF StartPlan, sheets
<1>6. ASSUME NEW run \in runs, FailPlan(run) PROVE MovedOnSheet'
  BY <1>1, <1>6 DEF FailPlan, sheets
<1>7. ASSUME NEW run \in runs, NEW chosen \in SUBSET Rows, SavePlan(run, chosen)
      PROVE  MovedOnSheet'
  <2>1. /\ UNCHANGED <<habits, today, movedTo>> /\ planned' = planned \cup {run.date}
        /\ plan' = [plan EXCEPT ![run.date] = WithMoved(WithCaptures(chosen, run), run.date)]
        /\ moved' = [moved EXCEPT ![run.date] = {}]
    BY <1>7 DEF SavePlan, StillWaiting
  <2>2. run.date \notin planned
    BY <2>1 DEF RunsTimed
  <2>3. CASE run.date = today
    <3>1. today \notin planned /\ today \in planned'
      BY <2>1, <2>2, <2>3
    <3>2. moved[today] \subseteq plan'[today]
      BY <1>0, <2>1, <2>3 DEF WithMoved, TypeOK
    <3>. QED  BY <2>1, <3>1, <3>2 DEF MovedOnSheet
  <2>4. CASE run.date # today
    BY <1>0, <2>1, <2>4 DEF MovedOnSheet, TypeOK
  <2>. QED  BY <2>3, <2>4
<1>8. ASSUME NEW d \in Days, NEW r \in Rows, Move(d, r) PROVE MovedOnSheet'
  <2>1. /\ UNCHANGED <<habits, today, planned>>
        /\ movedTo' = [movedTo EXCEPT ![d][r] = today]
    BY <1>8 DEF Move
  <2>2. \A f \in Days, x \in Rows : movedTo'[f][x] = today => movedTo[f][x] = today \/ x = r
    BY <1>0, <2>1 DEF TypeOK
  <2>3. CASE today \in planned
    <3>1. plan' = PlanWith(r) /\ UNCHANGED moved
      BY <1>8, <2>3 DEF Move
    <3>2. plan[today] \subseteq plan'[today] /\ r \in plan'[today]
      BY <1>0, <2>3, <3>1 DEF PlanWith, TypeOK
    <3>. QED  BY <2>1, <2>2, <2>3, <3>2 DEF MovedOnSheet
  <2>4. CASE today \notin planned
    <3>1. moved' = [moved EXCEPT ![today] = @ \cup {r}]
      BY <1>8, <2>4 DEF Move
    <3>2. moved[today] \subseteq moved'[today] /\ r \in moved'[today]
      BY <1>0, <3>1 DEF TypeOK
    <3>. QED  BY <2>1, <2>2, <2>4, <3>2 DEF MovedOnSheet
  <2>. QED  BY <2>3, <2>4
<1>9. ASSUME NEW d \in Days, CloseDay(d) \/ SkipDay(d) \/ EndReview(d) \/ StartReview \/ NoteReview
      PROVE  MovedOnSheet'
  BY <1>1, <1>9 DEF CloseDay, SkipDay, Pending, EndReview, StartReview, NoteReview, sheets
<1>10. CASE NextDay
  <2>1. today' = today + 1 /\ UNCHANGED <<movedTo, plan, moved, planned>>
    BY <1>10 DEF NextDay, sheets
  <2>2. \A d \in Days, r \in Rows : movedTo'[d][r] # today'
    BY <1>0, <2>1
  <2>. QED  BY <2>2 DEF MovedOnSheet
<1>11. CASE UNCHANGED vars
  BY <1>1, <1>11 DEF vars, sheets
<1>. QED  BY <1>0, <1>2, <1>3, <1>4, <1>5, <1>6, <1>7, <1>8, <1>9, <1>10, <1>11 DEF Next

\* What else an entry of the feedback ledger changes: the tick of its row only,
\* the rows taken off only on its day, and a settled row only by an undoing.
LEMMA TickEffect ==
  ASSUME TypeOK, NEW d \in Days, NEW r \in Rows, NEW e \in Events, Record(d, r, e)
  PROVE  /\ completedOn'[r] \in {0, d, completedOn[r]}
         /\ e = "defer" => completedOn'[r] = completedOn[r]
         /\ \A x \in Rows : x # r => completedOn'[x] = completedOn[x]
         /\ \A f \in Days : f # d => removed'[f] = removed[f] /\ state'[f] = state[f]
         /\ e = "defer" => removed' = removed /\ state'[d][r] \in Settled
         /\ \A x \in Rows : x # r => state'[d][x] = state[d][x]
<1>1. completedOn' = [completedOn EXCEPT ![r] = TickAfter(completedOn[r], e, d)]
  BY DEF Record
<1>2. /\ TickAfter(completedOn[r], e, d) \in {0, d, completedOn[r]}
      /\ e = "defer" => TickAfter(completedOn[r], e, d) = completedOn[r]
  BY DEF TickAfter
<1>3. completedOn \in [Rows -> 0..today]
  BY DEF TypeOK
<1>4. /\ completedOn'[r] \in {0, d, completedOn[r]}
      /\ e = "defer" => completedOn'[r] = completedOn[r]
      /\ \A x \in Rows : x # r => completedOn'[x] = completedOn[x]
  BY <1>1, <1>2, <1>3
<1>5. \A f \in Days : f # d => removed'[f] = removed[f] /\ state'[f] = state[f]
  BY DEF Record, TypeOK
<1>6. e = "defer" => removed' = removed /\ state'[d][r] \in Settled
  BY DEF Record, TypeOK, StateAfter, Settled
<1>7. \A x \in Rows : x # r => state'[d][x] = state[d][x]
  BY DEF Record, TypeOK
<1>. QED  BY <1>4, <1>5, <1>6, <1>7

\* A day keeps what was decided on its rows when its sheet stays, nothing comes
\* back onto it and no decision is undone.
Keeps(d) ==
  /\ d \in planned' => d \in planned
  /\ plan'[d] = plan[d] /\ removed[d] \subseteq removed'[d]
  /\ \A r \in Rows : state[d][r] \in Settled => state'[d][r] \in Settled

LEMMA KeepsDecided ==
  ASSUME IInv, ClosedMeansDecided, UNCHANGED habits,
         \A d \in Days : wrap'[d] = "done" /\ {"late", "past"} \cap habits = {} =>
           wrap[d] = "done" /\ Keeps(d)
  PROVE  ClosedMeansDecided'
<1>. SUFFICES ASSUME {"late", "past"} \cap habits = {}, NEW d \in Days, wrap'[d] = "done",
                     NEW r \in Undecided(d)'
              PROVE  FALSE
  BY DEF ClosedMeansDecided
<1>1. wrap[d] = "done" /\ Keeps(d) /\ Undecided(d) = {}
  BY DEF ClosedMeansDecided
<1>2. r \in plan'[d] /\ r \notin removed'[d] /\ d \in planned' /\ state'[d][r] \notin Settled
  BY DEF Undecided, Visible
<1>3. r \in Rows
  BY <1>1, <1>2 DEF Keeps, IInv, TypeOK
<1>4. r \in Undecided(d)
  BY <1>1, <1>2, <1>3 DEF Keeps, Undecided, Visible
<1>. QED  BY <1>1, <1>4

\* A closed day has no undecided row left: it lies in the past, where rows are
\* only carried on, unless they are corrected, and no run of it is under way.
LEMMA ClosedStep ==
  IInv /\ RunsTimed /\ NothingAhead /\ ClosedMeansDecided /\ [Next]_vars => ClosedMeansDecided'
<1>. SUFFICES ASSUME IInv, RunsTimed, NothingAhead, ClosedMeansDecided, [Next]_vars
              PROVE  ClosedMeansDecided'
  OBVIOUS
<1>0. /\ TypeOK /\ today \in Nat /\ today \in Days /\ \A d \in Days : d \in Nat
      /\ \A run \in runs : run.date \in Days
  BY DayFacts DEF IInv, TypeOK
<1>1. \A d \in Days : wrap[d] = "done" => d < today
  BY DEF NothingAhead
<1>2. CASE UNCHANGED <<habits, planned, plan, removed, state, wrap>>
  BY <1>2, KeepsDecided DEF Keeps
<1>3. ASSUME NEW d \in Days, NEW r \in Rows, NEW e \in Events, Record(d, r, e),
             d = today \/ e = "defer" \/ "past" \in habits,
             UNCHANGED <<habits, planned, wrap>>,
             \A f \in Days : f < today => plan'[f] = plan[f]
      PROVE  ClosedMeansDecided'
  <2>1. ASSUME NEW f \in Days, wrap[f] = "done", "past" \notin habits PROVE Keeps(f)
    <3>1. f < today /\ plan'[f] = plan[f]
      BY <1>1, <1>3, <2>1
    <3>2. CASE f # d
      BY <1>0, <1>3, <3>1, <3>2, TickEffect DEF Keeps
    <3>3. CASE f = d
      <4>1. e = "defer"
        BY <1>0, <1>3, <2>1, <3>1, <3>3
      <4>. QED  BY <1>0, <1>3, <3>1, <3>3, <4>1, TickEffect DEF Keeps
    <3>. QED  BY <3>2, <3>3
  <2>. QED  BY <1>3, <2>1, KeepsDecided
<1>4. ASSUME NEW d \in Days, NEW r \in Rows, NEW e \in Events, RowEvent(d, r, e)
      PROVE  ClosedMeansDecided'
  BY <1>3, <1>4 DEF RowEvent, MaySay, sheets, closing
<1>5. ASSUME NEW c \in Captures, Capture(c) \/ AddToPlan(c) PROVE ClosedMeansDecided'
  <2>1. plan' = PlanWith(c) /\ UNCHANGED <<habits, planned, removed, state, wrap>>
    BY <1>5 DEF Capture, AddToPlan, ledger, closing
  <2>2. \A f \in Days : f < today => plan'[f] = plan[f]
    BY <1>0, <2>1 DEF PlanWith, TypeOK
  <2>. QED  BY <1>1, <2>1, <2>2, KeepsDecided DEF Keeps
<1>6. ASSUME NEW c \in Captures, NEW s \in {"done", "deferred", "deleted"}, CloseCapture(c, s)
      PROVE  ClosedMeansDecided'
  <2>1. c \in Rows /\ "complete" \in Events
    BY DEF Rows, Events, Settled
  <2>2. UNCHANGED <<habits, planned, plan, wrap>> /\ (UNCHANGED ledger \/ Record(today, c, "complete"))
    BY <1>6 DEF CloseCapture, MirrorTick, sheets, closing
  <2>3. CASE UNCHANGED ledger
    BY <1>2, <2>2, <2>3 DEF ledger
  <2>4. CASE Record(today, c, "complete")
    BY <1>0, <1>3, <2>1, <2>2, <2>4
  <2>. QED  BY <2>2, <2>3, <2>4
<1>7. ASSUME NEW c \in Captures, Restore(c) PROVE ClosedMeansDecided'
  <2>1. c \in Rows /\ "reopen" \in Events
    BY DEF Rows, Events
  <2>. QED  BY <1>0, <1>3, <1>7, <2>1 DEF Restore, sheets, closing
<1>8. ASSUME NEW id \in 1..MaxRuns, NEW d \in Days, StartPlan(id, d) PROVE ClosedMeansDecided'
  BY <1>2, <1>8 DEF StartPlan, sheets, closing, ledger
<1>9. ASSUME NEW run \in runs, FailPlan(run) PROVE ClosedMeansDecided'
  BY <1>2, <1>9 DEF FailPlan, sheets, closing, ledger
<1>10. ASSUME NEW run \in runs, NEW chosen \in SUBSET Rows, SavePlan(run, chosen)
       PROVE  ClosedMeansDecided'
  <2>1. PICK new : plan' = [plan EXCEPT ![run.date] = new]
    BY <1>10 DEF SavePlan
  <2>2. planned' = planned \cup {run.date} /\ UNCHANGED <<habits, removed, state, wrap>>
    BY <1>10 DEF SavePlan, ledger, closing
  <2>3. ASSUME NEW f \in Days, wrap[f] = "done", "late" \notin habits PROVE Keeps(f)
    <3>1. f # run.date
      BY <1>0, <1>1, <2>3 DEF RunsTimed
    <3>. QED  BY <1>0, <2>1, <2>2, <3>1 DEF Keeps, TypeOK
  <2>. QED  BY <2>2, <2>3, KeepsDecided
<1>11. ASSUME NEW d \in Days, NEW r \in Rows, Move(d, r) PROVE ClosedMeansDecided'
  <2>1. /\ Record(d, r, "defer") /\ "defer" \in Events /\ UNCHANGED <<habits, planned, wrap>>
        /\ plan' = PlanWith(r) \/ plan' = plan
    BY <1>11 DEF Move, closing, Events, Settled
  <2>2. \A f \in Days : f < today => plan'[f] = plan[f]
    BY <1>0, <2>1 DEF PlanWith, TypeOK
  <2>. QED  BY <1>3, <2>1, <2>2
<1>12. ASSUME NEW d \in Days, CloseDay(d) PROVE ClosedMeansDecided'
  <2>1. /\ UNCHANGED <<habits, planned, plan, removed, state>>
        /\ wrap' = [wrap EXCEPT ![d] = "done"] /\ Undecided(d) = {}
    BY <1>12 DEF CloseDay, MayClose, sheets, ledger
  <2>2. \A f \in Days : Undecided(f)' = Undecided(f) /\ (wrap'[f] = "done" => f = d \/ wrap[f] = "done")
    BY <1>0, <2>1 DEF Undecided, Visible, TypeOK
  <2>. QED  BY <2>1, <2>2 DEF ClosedMeansDecided
<1>13. ASSUME NEW d \in Days, SkipDay(d) \/ EndReview(d) \/ StartReview \/ NoteReview
       PROVE  ClosedMeansDecided'
  <2>1. UNCHANGED <<habits, planned, plan, removed, state>>
    BY <1>13 DEF SkipDay, Pending, EndReview, StartReview, NoteReview, sheets, ledger
  <2>2. \A f \in Days : wrap'[f] = "done" => wrap[f] = "done"
    BY <1>0, <1>13 DEF SkipDay, Pending, EndReview, StartReview, NoteReview, TypeOK
  <2>. QED  BY <2>1, <2>2, KeepsDecided DEF Keeps
<1>14. CASE NextDay
  BY <1>2, <1>14 DEF NextDay, sheets, ledger, closing
<1>15. CASE UNCHANGED vars
  BY <1>2, <1>15 DEF vars, sheets, ledger, closing
<1>. QED
  BY <1>0, <1>4, <1>5, <1>6, <1>7, <1>8, <1>9, <1>10, <1>11, <1>12, <1>13, <1>14, <1>15 DEF Next

\* A tick that is new, or cleared, is of today; none falls on another day.
LEMMA FreshAfter ==
  ASSUME TypeOK, NEW r \in Rows, NEW e \in Events, NEW d \in Days, Record(d, r, e),
         d = today \/ e = "defer", UNCHANGED <<habits, today>>,
         NEW x \in Rows, Fresh(x)
  PROVE  Fresh(x)'
  BY TickEffect DEF Fresh

\* TasksFresh outlives a step of the day that ticks nothing for another day,
\* puts no task onto the sheet and lets nothing wait but what is carried over.
LEMMA FreshFrame ==
  ASSUME IInv, TasksFresh, UNCHANGED <<habits, today>>, {"past", "ahead"} \cap habits = {},
         \A x \in Tasks : Fresh(x) => Fresh(x)',
         \A x \in Rows : CarriedOver(x) => CarriedOver(x)',
         \A run \in runs' : run \in runs,
         \A x \in plan'[today] \cap Tasks : x \in plan[today] \/ CarriedOver(x)',
         \A x \in moved'[today] : x \in moved[today] \/ CarriedOver(x)'
  PROVE  TasksFresh'
<1>. today \in Days
  BY DayFacts DEF IInv
<1>1. \A x \in Tasks : x \in Rows
  BY DEF Rows
<1>2. \A x \in moved[today] : x \in Rows
  BY DEF IInv, TypeOK
<1>3. /\ \A run \in runs : run.date = today => \A x \in Tasks \cap run.candidates : Fresh(x)
      /\ \A x \in Tasks \cap plan[today] : Fresh(x) \/ CarriedOver(x)
      /\ \A x \in moved[today] : CarriedOver(x)
  BY DEF TasksFresh
<1>4. \A run \in runs' : run.date = today' => \A x \in Tasks \cap run.candidates : Fresh(x)'
  BY <1>3
<1>5. \A x \in Tasks \cap plan'[today'] : Fresh(x)' \/ CarriedOver(x)'
  BY <1>1, <1>3
<1>6. \A x \in moved'[today'] : CarriedOver(x)'
  BY <1>2, <1>3
<1>. QED  BY <1>4, <1>5, <1>6 DEF TasksFresh

LEMMA FreshStep ==
  IInv /\ RunsTimed /\ NothingAhead /\ TasksFresh /\ [Next]_vars => TasksFresh'
<1>. SUFFICES ASSUME IInv, RunsTimed, NothingAhead, TasksFresh, [Next]_vars,
                     {"past", "ahead"} \cap habits' = {}
              PROVE  TasksFresh'
  BY DEF TasksFresh
<1>0. /\ TypeOK /\ today \in Nat /\ today \in Days /\ \A d \in Days : d \in Nat
      /\ \A run \in runs : run.date \in Days
  BY DayFacts DEF IInv, TypeOK
<1>a. Tasks \subseteq Rows /\ Captures \subseteq Rows /\ Captures \cap Tasks = {}
  BY DaySheetAssumption DEF Rows
<1>h. habits' = habits
  BY DEF Next, vars, RowEvent, MaySay, Capture, AddToPlan, Restore, CloseCapture, StartPlan, FailPlan,
     SavePlan, Move, CloseDay, SkipDay, Pending, EndReview, StartReview, NoteReview, NextDay
<1>1. CASE UNCHANGED <<today, completedOn, movedTo, plan, moved>> /\ runs' \subseteq runs
  BY <1>h, <1>1, FreshFrame DEF Fresh, CarriedOver
<1>2. ASSUME NEW d \in Days, NEW r \in Rows, NEW e \in Events, Record(d, r, e),
             d = today \/ e = "defer",
             UNCHANGED <<today, movedTo, plan, moved, runs>>
      PROVE  TasksFresh'
  <2>1. \A x \in Tasks : Fresh(x) => Fresh(x)'
    BY <1>0, <1>a, <1>h, <1>2, FreshAfter
  <2>. QED  BY <1>h, <1>2, <2>1, FreshFrame DEF CarriedOver
<1>3. ASSUME NEW d \in Days, NEW r \in Rows, NEW e \in Events, RowEvent(d, r, e)
      PROVE  TasksFresh'
  <2>1. d = today
    BY <1>h, <1>3 DEF RowEvent, MaySay
  <2>. QED  BY <1>2, <1>3, <2>1 DEF RowEvent, MaySay, sheets
<1>4. ASSUME NEW c \in Captures, Capture(c) \/ AddToPlan(c) PROVE TasksFresh'
  <2>1. plan' = PlanWith(c) /\ UNCHANGED <<today, completedOn, movedTo, moved, runs>>
    BY <1>4 DEF Capture, AddToPlan, ledger
  <2>2. \A x \in plan'[today] : x \in plan[today] \/ x = c
    BY <1>0, <1>a, <2>1, PlanWithEffect
  <2>. QED  BY <1>h, <1>a, <2>1, <2>2, FreshFrame DEF Fresh, CarriedOver
<1>5. ASSUME NEW c \in Captures, NEW s \in {"done", "deferred", "deleted"}, CloseCapture(c, s)
      PROVE  TasksFresh'
  <2>1. c \in Rows /\ "complete" \in Events
    BY DEF Rows, Events, Settled
  <2>2. /\ UNCHANGED <<today, movedTo, plan, moved, runs>>
        /\ UNCHANGED ledger \/ Record(today, c, "complete")
    BY <1>5 DEF CloseCapture, MirrorTick, sheets
  <2>3. CASE UNCHANGED ledger
    BY <1>1, <2>2, <2>3 DEF ledger
  <2>4. CASE Record(today, c, "complete")
    BY <1>0, <1>2, <2>1, <2>2, <2>4
  <2>. QED  BY <2>2, <2>3, <2>4
<1>6. ASSUME NEW c \in Captures, Restore(c) PROVE TasksFresh'
  <2>1. c \in Rows /\ "reopen" \in Events
    BY DEF Rows, Events
  <2>. QED  BY <1>0, <1>2, <1>6, <2>1 DEF Restore, sheets
<1>7. ASSUME NEW id \in 1..MaxRuns, NEW d \in Days, StartPlan(id, d) PROVE TasksFresh'
  <2>1. PICK new : /\ new.date = d /\ new.candidates = Candidates(d) /\ runs' = runs \cup {new}
                   /\ UNCHANGED <<today, completedOn, movedTo, plan, moved>>
    BY <1>7 DEF StartPlan, ledger, sheets
  <2>2. \A x \in Tasks \cap Candidates(d) :
          completedOn[x] = 0 \/ ("sessions" \in habits /\ <<d, x>> \in OwnDays)
    BY <1>a DEF Candidates, Scheduled
  <2>3. new.date = today => \A x \in Tasks \cap new.candidates : Fresh(x)
    BY <2>1, <2>2 DEF Fresh
  <2>4. \A run \in runs' : run.date = today => \A x \in Tasks \cap run.candidates : Fresh(x)
    BY <1>h, <2>1, <2>3 DEF TasksFresh
  <2>5. \A x \in Rows : (Fresh(x) <=> Fresh(x)') /\ (CarriedOver(x) <=> CarriedOver(x)')
    BY <1>h, <2>1 DEF Fresh, CarriedOver
  <2>. QED  BY <1>0, <1>a, <1>h, <2>1, <2>4, <2>5 DEF TasksFresh, TypeOK
<1>8. ASSUME NEW run \in runs, FailPlan(run) PROVE TasksFresh'
  BY <1>1, <1>8 DEF FailPlan, ledger, sheets
<1>9. ASSUME NEW run \in runs, NEW chosen \in SUBSET Rows, SavePlan(run, chosen)
      PROVE  TasksFresh'
  <2>. DEFINE new == WithMoved(WithCaptures(chosen, run), run.date)
  <2>1. /\ chosen \subseteq run.candidates /\ runs' \subseteq runs
        /\ plan' = [plan EXCEPT ![run.date] = new] /\ moved' = [moved EXCEPT ![run.date] = {}]
        /\ UNCHANGED <<today, completedOn, movedTo>>
    BY <1>9 DEF SavePlan, StillWaiting, ledger
  <2>2. \A x \in Tasks \cap new : x \in chosen \/ x \in moved[run.date]
    BY <1>a DEF WithMoved, WithCaptures, Open
  <2>. HIDE DEF new
  <2>3. \A x \in moved'[today] : x \in moved[today]
    BY <1>0, <2>1 DEF TypeOK
  <2>4. ASSUME NEW x \in Tasks \cap plan'[today] PROVE Fresh(x) \/ CarriedOver(x)
    <3>1. CASE run.date = today
      BY <1>0, <1>h, <2>1, <2>2, <2>4, <3>1 DEF TasksFresh, TypeOK
    <3>2. CASE run.date # today
      BY <1>0, <1>h, <2>1, <2>4, <3>2 DEF TasksFresh, TypeOK
    <3>. QED  BY <3>1, <3>2
  <2>. QED  BY <1>h, <2>1, <2>3, <2>4 DEF TasksFresh, Fresh, CarriedOver
<1>10. ASSUME NEW d \in Days, NEW r \in Rows, Move(d, r) PROVE TasksFresh'
  <2>1. /\ Record(d, r, "defer") /\ "defer" \in Events /\ UNCHANGED <<today, runs>>
        /\ movedTo' = [movedTo EXCEPT ![d][r] = today]
    BY <1>10 DEF Move, Events, Settled
  <2>2. \A x \in Tasks : Fresh(x) => Fresh(x)'
    BY <1>0, <1>a, <1>h, <2>1, FreshAfter
  <2>3. CarriedOver(r)' /\ \A x \in Rows : CarriedOver(x) => CarriedOver(x)'
    BY <1>0, <2>1 DEF CarriedOver, TypeOK
  <2>4. \A x \in plan'[today] : x \in plan[today] \/ x = r
    BY <1>0, <1>10, PlanWithEffect DEF Move
  <2>5. \A x \in moved'[today] : x \in moved[today] \/ x = r
    BY <1>0, <1>10 DEF Move, TypeOK
  <2>. QED  BY <1>h, <2>1, <2>2, <2>3, <2>4, <2>5, FreshFrame
<1>11. ASSUME NEW d \in Days, CloseDay(d) \/ SkipDay(d) \/ EndReview(d) \/ StartReview \/ NoteReview
       PROVE  TasksFresh'
  BY <1>1, <1>11 DEF CloseDay, SkipDay, Pending, EndReview, StartReview, NoteReview, ledger, sheets
<1>12. CASE NextDay
  <2>1. /\ today' = today + 1 /\ today' \in Days
        /\ UNCHANGED <<completedOn, movedTo, plan, moved, planned, runs>>
    BY <1>0, <1>12, DaySheetAssumption DEF NextDay, ledger, sheets, Days
  <2>2. today' > today
    BY <1>0, <2>1
  <2>3. moved'[today'] = {} /\ plan'[today'] = {}
    BY <1>0, <1>h, <2>1, <2>2 DEF NothingAhead, TypeOK
  <2>4. \A run \in runs' : run.date # today'
    <3>1. \A run \in runs : run.date \in Nat /\ run.date <= today
      BY <1>0, <1>h DEF RunsTimed
    <3>. QED  BY <1>0, <2>1, <3>1
  <2>. QED  BY <2>3, <2>4 DEF TasksFresh
<1>13. CASE UNCHANGED vars
  BY <1>1, <1>13 DEF vars, ledger, sheets
<1>. QED
  BY <1>0, <1>3, <1>4, <1>5, <1>6, <1>7, <1>8, <1>9, <1>10, <1>11, <1>12, <1>13 DEF Next

\* A tick and a row's leaving the sheet are words of a day, and a run was offered
\* the sessions of its day that nothing had been said of.
OfferInv ==
  /\ \A r \in Rows : completedOn[r] <= spoke[r]
  /\ \A d \in Days : \A r \in removed[d] : d <= spoke[r]
  /\ SessionsOffered

LEMMA OfferFrame ==
  ASSUME OfferInv, UNCHANGED <<habits, ledger>>, runs' \subseteq runs
  PROVE  OfferInv'
  BY DEF OfferInv, SessionsOffered, Scheduled, ledger

LEMMA OfferRecord ==
  ASSUME TypeOK, OfferInv, NEW d \in Days, d <= today, NEW r \in Rows, NEW e \in Events,
         Record(d, r, e), UNCHANGED <<habits, runs>>
  PROVE  OfferInv'
<1>1. /\ today \in Nat /\ d \in Nat /\ \A f \in Days : f \in Nat
      /\ spoke \in [Rows -> 0..today] /\ completedOn \in [Rows -> 0..today]
      /\ removed \in [Days -> SUBSET Rows]
  BY DayFacts DEF TypeOK
<1>2. \A x \in Rows : spoke'[x] >= spoke[x] /\ spoke'[x] \in Nat /\ spoke'[r] >= d
  BY <1>1, RecordEffect
<1>3. \A x \in Rows : completedOn'[x] <= spoke'[x]
  <2>1. \A x \in Rows : completedOn[x] <= spoke[x]
    BY DEF OfferInv
  <2>2. \A x \in Rows : x # r => completedOn'[x] = completedOn[x]
    BY TickEffect
  <2>3. completedOn'[r] \in {0, d, completedOn[r]}
    BY TickEffect
  <2>. QED  BY <1>1, <1>2, <2>1, <2>2, <2>3
<1>4. \A f \in Days : \A x \in removed'[f] : f <= spoke'[x]
  <2>1. \A f \in Days : removed'[f] \subseteq removed[f] \cup (IF f = d THEN {r} ELSE {})
    BY <1>1 DEF Record
  <2>2. \A f \in Days : \A x \in removed[f] : x \in Rows /\ f <= spoke[x]
    BY <1>1 DEF OfferInv
  <2>3. ASSUME NEW f \in Days, NEW x \in removed'[f] PROVE f <= spoke'[x]
    <3>1. CASE x \in removed[f]
      <4>1. x \in Rows /\ f <= spoke[x] /\ f \in Nat
        BY <1>1, <2>2, <3>1
      <4>2. spoke[x] \in Nat /\ spoke'[x] \in Nat /\ spoke'[x] >= spoke[x]
        BY <1>1, <1>2, <4>1
      <4>. QED  BY <4>1, <4>2
    <3>2. CASE x \notin removed[f]
      <4>1. f = d /\ x = r
        BY <2>1, <2>3, <3>2
      <4>. QED  BY <1>1, <1>2, <4>1
    <3>. QED  BY <3>1, <3>2
  <2>. QED  BY <2>3
<1>5. SessionsOffered'
  <2>1. \A run \in runs : run.date \in Nat
    BY <1>1 DEF TypeOK
  <2>2. \A run \in runs : \A x \in Tasks : "sessions" \in habits /\ <<run.date, x>> \in OwnDays =>
          x \in run.candidates \/ spoke[x] >= run.date
    BY DEF OfferInv, SessionsOffered, Scheduled
  <2>3. \A x \in Tasks : x \in Rows
    BY DEF Rows
  <2>4. \A run \in runs : \A x \in Tasks : spoke[x] >= run.date => spoke'[x] >= run.date
    BY <1>1, <1>2, <2>1, <2>3
  <2>. QED  BY <2>2, <2>4 DEF SessionsOffered, Scheduled
<1>. QED  BY <1>3, <1>4, <1>5 DEF OfferInv

\* What the scorer leaves out of a day's sessions was ticked or taken off that day.
LEMMA OfferStart ==
  ASSUME TypeOK, OfferInv, NEW id \in 1..MaxRuns, NEW d \in Days, StartPlan(id, d)
  PROVE  OfferInv'
<1>1. PICK new : /\ new.date = d /\ new.candidates = Candidates(d) /\ runs' = runs \cup {new}
                 /\ UNCHANGED <<habits, ledger>>
  BY DEF StartPlan
<1>2. \A r \in Tasks : "sessions" \in habits /\ <<d, r>> \in OwnDays =>
        r \in Candidates(d) \/ completedOn[r] = d \/ r \in removed[d]
  BY DEF Candidates, Scheduled
<1>3. \A r \in Rows : completedOn[r] = d \/ r \in removed[d] => spoke[r] >= d
  <2>1. \A r \in Rows : spoke[r] \in Nat /\ d \in Nat
    BY DayFacts DEF TypeOK
  <2>. QED  BY <2>1 DEF OfferInv
<1>4. \A run \in runs' : \A r \in Tasks : "sessions" \in habits /\ <<run.date, r>> \in OwnDays =>
        r \in run.candidates \/ spoke[r] >= run.date
  <2>1. \A run \in runs : \A r \in Tasks : "sessions" \in habits /\ <<run.date, r>> \in OwnDays =>
          r \in run.candidates \/ spoke[r] >= run.date
    BY DEF OfferInv, SessionsOffered, Scheduled
  <2>2. \A r \in Tasks : r \in Rows
    BY DEF Rows
  <2>. QED  BY <1>1, <1>2, <1>3, <2>1, <2>2
<1>5. SessionsOffered'
  BY <1>1, <1>4 DEF SessionsOffered, Scheduled, ledger
<1>. QED  BY <1>1, <1>5 DEF OfferInv, ledger

LEMMA OfferStep == TypeOK /\ OfferInv /\ [Next]_vars => OfferInv'
<1>. SUFFICES ASSUME TypeOK, OfferInv, [Next]_vars PROVE OfferInv'
  OBVIOUS
<1>0. today \in Nat /\ today \in Days /\ today <= today /\ \A d \in Days : d \in Nat
  BY DayFacts
<1>1. ASSUME NEW d \in Days, NEW r \in Rows, NEW e \in Events, RowEvent(d, r, e) PROVE OfferInv'
  <2>1. d <= today
    BY <1>0, <1>1 DEF RowEvent, MaySay
  <2>. QED  BY <1>1, <2>1, OfferRecord DEF RowEvent
<1>2. ASSUME NEW c \in Captures, Capture(c) \/ AddToPlan(c) PROVE OfferInv'
  BY <1>2, OfferFrame DEF Capture, AddToPlan
<1>3. ASSUME NEW c \in Captures, Restore(c) PROVE OfferInv'
  <2>1. c \in Rows /\ "reopen" \in Events
    BY DEF Rows, Events
  <2>. QED  BY <1>0, <1>3, <2>1, OfferRecord DEF Restore
<1>4. ASSUME NEW c \in Captures, NEW s \in {"done", "deferred", "deleted"}, CloseCapture(c, s) PROVE OfferInv'
  <2>1. c \in Rows /\ "complete" \in Events
    BY DEF Rows, Events, Settled
  <2>2. UNCHANGED <<habits, runs>> /\ (UNCHANGED ledger \/ Record(today, c, "complete"))
    BY <1>4 DEF CloseCapture, MirrorTick
  <2>3. CASE UNCHANGED ledger
    BY <2>2, <2>3, OfferFrame
  <2>4. CASE Record(today, c, "complete")
    BY <1>0, <2>1, <2>2, <2>4, OfferRecord
  <2>. QED  BY <2>2, <2>3, <2>4
<1>5. ASSUME NEW run \in runs, NEW chosen \in SUBSET Rows, FailPlan(run) \/ SavePlan(run, chosen) PROVE OfferInv'
  BY <1>5, OfferFrame DEF FailPlan, SavePlan
<1>6. ASSUME NEW d \in Days, NEW r \in Rows, Move(d, r) PROVE OfferInv'
  <2>1. d <= today /\ "defer" \in Events /\ Record(d, r, "defer") /\ UNCHANGED <<habits, runs>>
    BY <1>0, <1>6 DEF Move, Events, Settled
  <2>. QED  BY <2>1, OfferRecord
<1>7. ASSUME NEW d \in Days, CloseDay(d) \/ SkipDay(d) \/ EndReview(d) \/ StartReview \/ NoteReview \/ NextDay
      PROVE  OfferInv'
  BY <1>7, OfferFrame DEF CloseDay, SkipDay, EndReview, StartReview, NoteReview, NextDay
<1>8. CASE UNCHANGED vars
  BY <1>8, OfferFrame DEF vars
<1>. QED  BY <1>0, <1>1, <1>2, <1>3, <1>4, <1>5, <1>6, <1>7, <1>8, OfferStart DEF Next

LEMMA SheetInductive == Spec => [](IInv /\ SheetInv /\ OfferInv)
<1>1. Init => SheetInv
  BY DaySheetAssumption DEF Init, SheetInv, RunsTimed, NothingAhead, TasksFresh, MovedOnSheet,
     ClosedMeansDecided, Days
<1>2. IInv /\ SheetInv /\ [Next]_vars => SheetInv'
  BY TimedStep, MovedStep, ClosedStep, FreshStep DEF SheetInv
<1>3. Init => OfferInv
  BY DaySheetAssumption DEF Init, OfferInv, SessionsOffered
<1>4. IInv /\ OfferInv /\ [Next]_vars => OfferInv'
  BY OfferStep DEF IInv
<1>. QED  BY <1>1, <1>2, <1>3, <1>4, InitInv, StepInv, PTL DEF Spec

\* A row that was moved to today is on its sheet or waits for its plan, and a
\* day that was closed as done has a decision on each of its rows, for any
\* number of days, rows and runs under way.
THEOREM NoRowForgotten == Spec => []RowsNotForgotten
<1>1. SheetInv => RowsNotForgotten
  BY DEF SheetInv, RowsNotForgotten
<1>. QED  BY <1>1, SheetInductive, PTL

\* A task that was ticked on an earlier day is not on today's sheet, whatever
\* run was under way when it was ticked, unless it has a session today or was
\* carried over; and no run is refused a session of its day because of another
\* day's tick.
THEOREM FinishedStaysOffAlways == Spec => []FinishedStaysOff
<1>1. IInv /\ SheetInv => TickedStaysOff
  <2>. SUFFICES ASSUME IInv, SheetInv, {"past", "ahead"} \cap habits = {},
                       NEW r \in Tasks \cap Visible(today)
                PROVE  \/ completedOn[r] \in {0, today} \/ r \in Scheduled(today)
                       \/ \E d \in Days : movedTo[d][r] = today
    BY DEF TickedStaysOff
  <2>1. r \in plan[today]
    BY DEF Visible
  <2>. QED  BY <2>1 DEF SheetInv, TasksFresh, Fresh, CarriedOver, Scheduled
<1>2. IInv /\ SheetInv /\ OfferInv => FinishedStaysOff
  BY <1>1 DEF OfferInv, FinishedStaysOff
<1>. QED  BY <1>2, SheetInductive, PTL

(***************************************************************************)
(* The schedule of a cycle                                                 *)
(***************************************************************************)
\* One session in a copy of the schedule.
Session == [day : Nat, skipped : BOOLEAN, from : Nat, by : Adhocs \union {Plan!Nobody}]
Taken(x) == x.by # Plan!Nobody

\* A copy of the schedule: what was taken was taken by an ad-hoc session of the
\* same priority, one of those that were added, and by each of them one at most.
Copy(S, added) ==
  /\ S \in [Plan!Sessions -> Session]
  /\ \A s \in Plan!Sessions : Taken(S[s]) => S[s].skipped /\ ItemOf[s] = ItemOf[S[s].by] /\ S[s].by \in added
  /\ \A s, t \in Plan!Sessions : Taken(S[s]) /\ S[s].by = S[t].by => s = t

Added == {a \in Adhocs : extras[a] # Plan!Unadded}

ScheduleInv ==
  /\ cycleDay \in Plan!Days /\ DOMAIN extras = Adhocs
  /\ Copy(sched, Added)
  /\ page.open => Copy(page.sessions, Added)
  /\ job # Plan!NoJob => Copy(job.seen, Added) /\ job.day \in Plan!Days

\* T comes from S by a change that takes nothing: what is taken in T was so.
Derived(S, T) ==
  /\ T \in [Plan!Sessions -> Session]
  /\ \A s \in Plan!Sessions : Taken(T[s]) => T[s].by = S[s].by /\ T[s].skipped

LEMMA DerivedIsCopy == ASSUME NEW S, NEW T, NEW added, Copy(S, added), Derived(S, T) PROVE Copy(T, added)
BY DEF Copy, Derived, Taken

LEMMA OffersAreFree ==
  ASSUME NEW S, NEW added, Copy(S, added), NEW d \in Plan!Days
  PROVE  \A s \in Plan!OnDay(S, d) : s \in Plan!Sessions /\ S[s].by = Plan!Nobody
  BY DEF Copy, Taken, Plan!OnDay

\* The changes of a session.
Moved(x, d, e) == [x EXCEPT !.day = d, !.from = e]
Marked(x, b) == [x EXCEPT !.skipped = b]
LEMMA MovedSession ==
  ASSUME NEW x \in Session, NEW d \in Nat, NEW e \in Nat
  PROVE  Moved(x, d, e) \in Session /\ Moved(x, d, e).by = x.by /\ Moved(x, d, e).skipped = x.skipped
  BY DEF Session, Moved

LEMMA MarkedSession ==
  ASSUME NEW x \in Session, NEW b \in BOOLEAN
  PROVE  Marked(x, b) \in Session /\ Marked(x, b).by = x.by /\ Marked(x, b).skipped = b
  BY DEF Session, Marked

LEMMA NewSessions ==
  ASSUME NEW d \in Nat
  PROVE  /\ Plan!Planned(d) \in Session /\ Plan!Planned(d).by = Plan!Nobody
         /\ Plan!Absent \in Session /\ Plan!Absent.by = Plan!Nobody
  BY DEF Session, Plan!Planned, Plan!Absent

\* A session stays as it is, is moved or marked, marked as on only if it is not
\* taken, or is one that nobody took.
Allowed(x, y) ==
  \/ y = x \/ (\E d, e \in Nat : y = Moved(x, d, e)) \/ y = Marked(x, TRUE)
  \/ ~Taken(x) /\ y = Marked(x, FALSE)
  \/ y \in Session /\ ~Taken(y)

LEMMA AllowedKeeps ==
  ASSUME NEW x \in Session, Taken(x) => x.skipped, NEW y, Allowed(x, y)
  PROVE  y \in Session /\ (Taken(y) => y.by = x.by /\ y.skipped)
<1>1. ASSUME NEW d \in Nat, NEW e \in Nat, y = Moved(x, d, e) PROVE y \in Session /\ y.by = x.by /\ y.skipped = x.skipped
  BY <1>1, MovedSession
<1>2. ASSUME NEW b \in BOOLEAN, y = Marked(x, b) PROVE y \in Session /\ y.by = x.by /\ y.skipped = b
  BY <1>2, MarkedSession
<1>. QED  BY <1>1, <1>2 DEF Allowed, Taken

LEMMA ChangesDerived ==
  ASSUME NEW S, NEW added, Copy(S, added), NEW T, T = [s \in Plan!Sessions |-> T[s]],
         \A s \in Plan!Sessions : Allowed(S[s], T[s])
  PROVE  Derived(S, T)
<1>1. ASSUME NEW s \in Plan!Sessions PROVE T[s] \in Session /\ (Taken(T[s]) => T[s].by = S[s].by /\ T[s].skipped)
  <2>1. S[s] \in Session /\ (Taken(S[s]) => S[s].skipped)
    BY DEF Copy
  <2>. QED  BY <2>1, AllowedKeeps
<1>. QED  BY <1>1 DEF Derived

LEMMA DeferredDerived ==
  ASSUME NEW S, NEW added, Copy(S, added), NEW d \in Plan!Days, NEW I
  PROVE  Derived(S, Plan!Deferred(S, d, I))
<1>. DEFINE T == Plan!Deferred(S, d, I)
            Off == {r \in Plan!OnDay(S, d) : ItemOf[r] \in I}
<1>1. T = [s \in Plan!Sessions |->
             IF s \in Off THEN IF d + 1 \in Plan!Days THEN Moved(S[s], d + 1, d) ELSE Marked(S[s], TRUE) ELSE S[s]]
  BY DEF Plan!Deferred, Plan!Change, Moved, Marked
<1>2. d \in Nat /\ d + 1 \in Nat
  BY ScheduleAssumption DEF Plan!Days
<1>. HIDE DEF T, Off
<1>3. T = [s \in Plan!Sessions |-> T[s]] /\ \A s \in Plan!Sessions : Allowed(S[s], T[s])
  BY <1>1, <1>2 DEF Allowed
<1>4. Derived(S, T)
  BY <1>3, ChangesDerived
<1>. QED  BY <1>4 DEF T

LEMMA MovedDerived ==
  ASSUME NEW S, NEW added, Copy(S, added), NEW d \in Nat, NEW e \in Nat, NEW i
  PROVE  Derived(S, Plan!MovedTo(S, d, e, i))
<1>. DEFINE T == Plan!MovedTo(S, d, e, i)
<1>1. T = [s \in Plan!Sessions |-> IF s \in Plan!OnFor(S, d, i) THEN Moved(S[s], e, d) ELSE S[s]]
  BY DEF Plan!MovedTo, Plan!Change, Moved
<1>. HIDE DEF T
<1>2. T = [s \in Plan!Sessions |-> T[s]] /\ \A s \in Plan!Sessions : Allowed(S[s], T[s])
  BY <1>1 DEF Allowed
<1>3. Derived(S, T)
  BY <1>2, ChangesDerived
<1>. QED  BY <1>3 DEF T

LEMMA SkippedDerived ==
  ASSUME NEW S, NEW added, Copy(S, added), NEW d, NEW I
  PROVE  Derived(S, Plan!Skipped(S, d, I))
<1>. DEFINE T == Plan!Skipped(S, d, I)
            Off == {r \in Plan!OnDay(S, d) : ItemOf[r] \in I}
<1>1. T = [s \in Plan!Sessions |-> IF s \in Off THEN Marked(S[s], TRUE) ELSE S[s]]
  BY DEF Plan!Skipped, Plan!Change, Marked
<1>. HIDE DEF T, Off
<1>2. T = [s \in Plan!Sessions |-> T[s]] /\ \A s \in Plan!Sessions : Allowed(S[s], T[s])
  BY <1>1 DEF Allowed
<1>3. Derived(S, T)
  BY <1>2, ChangesDerived
<1>. QED  BY <1>3 DEF T

\* What an ad-hoc session took is not among what comes back.
LEMMA RestoredDerived ==
  ASSUME NEW S, NEW added, Copy(S, added), NEW d \in Nat, NEW I
  PROVE  Derived(S, Plan!Restored(S, d, I))
<1>. DEFINE T == Plan!Restored(S, d, I)
            Back == {s \in Plan!Sessions : ItemOf[s] \in I /\
                       ((S[s].day # 0 /\ S[s].from = d) \/ (S[s].day = d /\ S[s].skipped /\ S[s].by = Plan!Nobody))}
<1>1. T = [s \in Plan!Sessions |->
             IF s \in Back THEN IF S[s].from = d THEN Moved(S[s], d, 0) ELSE Marked(S[s], FALSE) ELSE S[s]]
  BY DEF Plan!Restored, Plan!Change, Moved, Marked
<1>2. \A s \in Back : S[s].from # d => ~Taken(S[s])
  BY DEF Taken
<1>. HIDE DEF T, Back
<1>3. T = [s \in Plan!Sessions |-> T[s]] /\ \A s \in Plan!Sessions : Allowed(S[s], T[s])
  BY <1>1, <1>2 DEF Allowed
<1>4. Derived(S, T)
  BY <1>3, ChangesDerived
<1>. QED  BY <1>4 DEF T

\* A row of today is dealt with.
LEMMA EffectDerived ==
  ASSUME NEW S, NEW added, Copy(S, added), cycleDay \in Plan!Days, NEW row, NEW event \in {"defer", "remove", "reopen"}, NEW I
  PROVE  Derived(S, Plan!RowEffect(S, row, event, I))
<1>1. cycleDay \in Nat
  BY ScheduleAssumption DEF Plan!Days
<1>. QED  BY <1>1, DeferredDerived, SkippedDerived, RestoredDerived DEF Plan!RowEffect

\* What an ad-hoc session took is given back when it goes.
LEMMA RemovedDerived ==
  ASSUME NEW S, NEW added, Copy(S, added), NEW a
  PROVE  Derived(S, Plan!RemovedAdhoc(S, a))
<1>. DEFINE Back(x) == [x EXCEPT !.skipped = FALSE, !.by = Plan!Nobody]
            T == [s \in Plan!Sessions |-> IF s = a THEN Plan!Absent ELSE IF S[s].by = a THEN Back(S[s]) ELSE S[s]]
<1>1. ASSUME NEW x \in Session PROVE Back(x) \in Session /\ ~Taken(Back(x))
  BY DEF Session, Taken
<1>2. Plan!Absent \in Session /\ ~Taken(Plan!Absent)
  BY NewSessions DEF Taken
<1>3. S = [s \in Plan!Sessions |-> S[s]] /\ \A s \in Plan!Sessions : S[s] \in Session
  BY DEF Copy
<1>4. Plan!RemovedAdhoc(S, a) = IF S[a].day = 0 THEN S ELSE T
  BY DEF Plan!RemovedAdhoc
<1>5. T = [s \in Plan!Sessions |-> T[s]] /\ \A s \in Plan!Sessions : Allowed(S[s], T[s])
  <2>1. \A s \in Plan!Sessions : T[s] = IF s = a THEN Plan!Absent ELSE IF S[s].by = a THEN Back(S[s]) ELSE S[s]
    OBVIOUS
  <2>2. T = [s \in Plan!Sessions |-> T[s]]
    OBVIOUS
  <2>. HIDE DEF T, Back
  <2>. QED  BY <1>1, <1>2, <1>3, <2>1, <2>2 DEF Allowed
<1>. HIDE DEF T
<1>6. Derived(S, T)
  BY <1>5, ChangesDerived
<1>7. Derived(S, S)
  BY <1>3, ChangesDerived DEF Allowed
<1>. QED  BY <1>4, <1>6, <1>7

\* The session nearest in time is taken, if there is one, by a new ad-hoc one.
LEMMA AddedIsCopy ==
  ASSUME NEW S, NEW added, Copy(S, added), NEW a \in Adhocs \ added, NEW d \in Nat, NEW extra \in BOOLEAN,
         NEW T \in Plan!AddedAdhoc(S, a, d, extra)
  PROVE  Copy(T, added \union {a})
<1>. DEFINE Took(x) == [[x EXCEPT !.skipped = TRUE] EXCEPT !.by = a]
<1>1. \A s \in Plan!Sessions : S[s] \in Session /\ S[s].by # a
  BY ScheduleAssumption DEF Copy, Taken
<1>2. Plan!Planned(d) \in Session /\ ~Taken(Plan!Planned(d))
  BY NewSessions DEF Taken
<1>3. CASE T = [S EXCEPT ![a] = Plan!Planned(d)]
  BY <1>2, <1>3 DEF Copy, Taken
<1>4. ASSUME NEW s \in Plan!Nearest(S, d, ItemOf[a]),
             T = [[S EXCEPT ![s].skipped = TRUE, ![s].by = a] EXCEPT ![a] = Plan!Planned(d)]
      PROVE  Copy(T, added \union {a})
  <2>1. s \in Plan!Sessions /\ ItemOf[s] = ItemOf[a]
    BY <1>4 DEF Plan!Nearest
  <2>2. [S EXCEPT ![s].skipped = TRUE, ![s].by = a] = [S EXCEPT ![s] = Took(S[s])]
    BY <1>1, <2>1 DEF Copy
  <2>3. Took(S[s]) \in Session /\ Took(S[s]).by = a /\ Took(S[s]).skipped
    BY <1>1, <2>1 DEF Session
  <2>. HIDE DEF Took
  <2>4. ASSUME NEW r \in Plan!Sessions PROVE T[r] = IF r = a THEN Plan!Planned(d) ELSE IF r = s THEN Took(S[s]) ELSE S[r]
    BY <1>4, <2>2, <2>1 DEF Copy
  <2>5. T \in [Plan!Sessions -> Session]
    BY <1>2, <1>4, <2>2, <2>3 DEF Copy
  <2>. QED  BY <1>1, <1>2, <2>1, <2>3, <2>4, <2>5 DEF Copy, Taken
<1>. QED  BY <1>3, <1>4 DEF Plan!AddedAdhoc

LEMMA CopyGrows == ASSUME NEW S, NEW A, NEW B, Copy(S, A), A \subseteq B PROVE Copy(S, B)
  BY DEF Copy

\* The copies of the client and of the model stay, end, or are made of what is.
SameOrCopied ==
  /\ page' = page \/ ~page'.open \/ page'.sessions = sched
  /\ job' = job \/ job' = Plan!NoJob \/ (job'.seen = sched /\ job'.day \in Plan!Days)

LEMMA ScheduleFacts == ScheduleInv => cycleDay \in Plan!Days /\ DOMAIN extras = Adhocs /\ Copy(sched, Added)
  BY DEF ScheduleInv

\* What is needed of a step.
LEMMA ScheduleStep ==
  ASSUME ScheduleInv, cycleDay' \in Plan!Days, DOMAIN extras' = Adhocs, Added \subseteq Added', Copy(sched', Added'),
         SameOrCopied
  PROVE  ScheduleInv'
<1>1. Copy(sched, Added')
  BY CopyGrows DEF ScheduleInv
<1>2. page'.open => Copy(page'.sessions, Added')
  BY <1>1, CopyGrows DEF ScheduleInv, SameOrCopied
<1>3. job' # Plan!NoJob => Copy(job'.seen, Added') /\ job'.day \in Plan!Days
  BY <1>1, CopyGrows DEF ScheduleInv, SameOrCopied
<1>. QED  BY <1>2, <1>3 DEF ScheduleInv, Plan!NoJob, Plan!Days

\* The rest stays while the schedule changes.
LEMMA DerivedStep ==
  ASSUME ScheduleInv, Derived(sched, sched'), UNCHANGED <<cycleDay, extras, page, job>>
  PROVE  ScheduleInv'
<1>1. Added' = Added
  BY DEF Added, Plan!Unadded
<1>2. Copy(sched', Added')
  BY <1>1, DerivedIsCopy DEF ScheduleInv
<1>3. SameOrCopied /\ cycleDay' \in Plan!Days /\ DOMAIN extras' = Adhocs
  BY ScheduleFacts DEF SameOrCopied
<1>. QED  BY <1>1, <1>2, <1>3, ScheduleStep

LEMMA ScheduleInit == Plan!Init => ScheduleInv
<1>. SUFFICES ASSUME Plan!Init PROVE ScheduleInv
  OBVIOUS
<1>1. PICK p \in [Regular -> Plan!Days] :
        sched = [s \in Plan!Sessions |-> IF s \in Regular THEN Plan!Planned(p[s]) ELSE Plan!Absent]
  BY DEF Plan!Init
<1>2. \A s \in Plan!Sessions : sched[s] \in Session /\ ~Taken(sched[s])
  <2>1. \A s \in Regular : p[s] \in Nat
    BY ScheduleAssumption DEF Plan!Days
  <2>. QED  BY <1>1, <2>1, NewSessions DEF Taken
<1>3. Copy(sched, Added)
  BY <1>1, <1>2 DEF Copy
<1>. QED  BY <1>3, ScheduleAssumption DEF Plan!Init, ScheduleInv, Plan!NoPage, Plan!NoJob, Plan!Days

LEMMA AddAdhocKeeps ==
  ASSUME ScheduleInv, NEW a \in Adhocs, NEW extra \in BOOLEAN, NEW row \in Plan!Rows \union {"none"},
         NEW event \in {"defer", "remove"}, Plan!AddAdhoc(a, extra, row, event)
  PROVE  ScheduleInv'
<1>1. /\ extras[a] = Plan!Unadded /\ row \in Plan!Shown \union {"none"}
      /\ extras' = [extras EXCEPT ![a] = [row |-> row]] /\ UNCHANGED <<cycleDay, page, job>>
  BY DEF Plan!AddAdhoc
<1>2. row # "unadded"
  BY <1>1, ScheduleAssumption DEF Plan!Shown, Plan!Slot, Plan!Unadded
<1>3. Added' = Added \union {a} /\ a \notin Added /\ DOMAIN extras' = Adhocs
  BY <1>1, <1>2 DEF ScheduleInv, Added, Plan!Unadded
<1>4. PICK S \in Plan!AddedAdhoc(sched, a, cycleDay, extra) :
        sched' = IF row = "none" THEN S
                 ELSE Plan!RowEffect(S, row, event, IF row = Plan!Slot THEN Plan!Covered(S, fixed, cycleDay) ELSE {row})
  BY DEF Plan!AddAdhoc
<1>5. Copy(S, Added')
  <2>1. cycleDay \in Nat
    BY ScheduleAssumption DEF ScheduleInv, Plan!Days
  <2>. QED  BY <1>3, <2>1, AddedIsCopy DEF ScheduleInv
<1>6. Copy(sched', Added')
  BY <1>4, <1>5, EffectDerived, DerivedIsCopy DEF ScheduleInv
<1>7. SameOrCopied /\ cycleDay' \in Plan!Days
  BY <1>1, ScheduleFacts DEF SameOrCopied
<1>. QED  BY <1>3, <1>6, <1>7, ScheduleStep

LEMMA GoneKeeps ==
  ASSUME ScheduleInv, NEW a \in Adhocs, Plan!UndoAdhoc(a) \/ Plan!RemoveAdhocRow(a)
  PROVE  ScheduleInv'
<1>1. extras' = [extras EXCEPT ![a] = [row |-> "undone"]] /\ UNCHANGED <<cycleDay, page, job>>
  BY DEF Plan!UndoAdhoc, Plan!RemoveAdhocRow
<1>2. Added \subseteq Added' /\ DOMAIN extras' = Adhocs
  BY <1>1 DEF ScheduleInv, Added, Plan!Unadded
<1>. DEFINE S == Plan!RemovedAdhoc(sched, a)
            row == extras[a].row
<1>3. \/ sched' = S
      \/ sched' = Plan!RowEffect(S, row, "reopen", IF row = Plan!Slot THEN Plan!Covered(S, fixed, cycleDay) ELSE {row})
  BY DEF Plan!UndoAdhoc, Plan!RemoveAdhocRow
<1>4. Copy(S, Added)
  BY RemovedDerived, DerivedIsCopy DEF ScheduleInv
<1>. HIDE DEF S, row
<1>5. Copy(sched', Added)
  BY <1>3, <1>4, EffectDerived, DerivedIsCopy DEF ScheduleInv
<1>6. SameOrCopied /\ cycleDay' \in Plan!Days
  BY <1>1, ScheduleFacts DEF SameOrCopied
<1>. QED  BY <1>2, <1>5, <1>6, CopyGrows, ScheduleStep

\* The client's copy is edited in one session.
LEMMA SavePageKeeps ==
  ASSUME ScheduleInv, NEW s \in Plan!Sessions, NEW d \in 0..LastPlanned, NEW f, Plan!SavePage(s, d, f)
  PROVE  ScheduleInv'
<1>1. /\ page.open /\ page' = Plan!NoPage /\ UNCHANGED <<cycleDay, extras, job>>
      /\ sched' = IF d = 0 THEN [page.sessions EXCEPT ![s] = Plan!Absent] ELSE [page.sessions EXCEPT ![s].day = d]
  BY DEF Plan!SavePage
<1>. DEFINE S == page.sessions
<1>2. Copy(S, Added)
  BY <1>1 DEF ScheduleInv
<1>3. d \in Nat
  BY ScheduleAssumption
<1>4. \A x \in Session : [x EXCEPT !.day = d] \in Session /\ [x EXCEPT !.day = d].by = x.by
                         /\ [x EXCEPT !.day = d].skipped = x.skipped
  BY <1>3 DEF Session
<1>5. Plan!Absent \in Session /\ ~Taken(Plan!Absent)
  BY NewSessions DEF Taken
<1>. HIDE DEF S
<1>6. ASSUME d = 0 PROVE Copy(sched', Added)
  <2>1. sched' = [S EXCEPT ![s] = Plan!Absent]
    BY <1>1, <1>6 DEF S
  <2>2. Derived(S, sched')
    BY <1>2, <1>5, <2>1 DEF Derived, Copy
  <2>. QED  BY <1>2, <2>2, DerivedIsCopy
<1>7. ASSUME d # 0 PROVE Copy(sched', Added)
  <2>. DEFINE x == [S[s] EXCEPT !.day = d]
  <2>1. sched' = [S EXCEPT ![s] = x]
    BY <1>1, <1>7 DEF S
  <2>2. x \in Session /\ x.by = S[s].by /\ x.skipped = S[s].skipped
    BY <1>2, <1>4 DEF Copy
  <2>. HIDE DEF x
  <2>3. Derived(S, sched')
    BY <1>2, <2>1, <2>2 DEF Derived, Copy, Taken
  <2>. QED  BY <1>2, <2>3, DerivedIsCopy
<1>8. Copy(sched', Added)
  BY <1>6, <1>7
<1>9. Added' = Added
  BY <1>1 DEF Added, Plan!Unadded
<1>10. SameOrCopied /\ cycleDay' \in Plan!Days /\ DOMAIN extras' = Adhocs
  BY <1>1, ScheduleFacts DEF SameOrCopied, Plan!NoPage
<1>. QED  BY <1>8, <1>9, <1>10, ScheduleStep

\* A generation keeps what was past as it saw it; nobody took what is fresh.
LEMMA GenerationKeeps == ASSUME ScheduleInv, Plan!GenerationEnds PROVE ScheduleInv'
<1>1. job # Plan!NoJob /\ job' = Plan!NoJob /\ UNCHANGED <<cycleDay, extras, page>>
  BY DEF Plan!GenerationEnds
<1>2. Copy(job.seen, Added) /\ job.day \in Nat
  BY <1>1, ScheduleAssumption DEF ScheduleInv, Plan!Days
<1>. DEFINE past == {s \in Plan!Sessions : job.seen[s].day \in 1..(job.day - 1)}
<1>3. PICK new \in Plan!Fresh(past, job.day) :
        sched' = [s \in Plan!Sessions |-> IF s \in past THEN job.seen[s] ELSE new[s]]
  BY DEF Plan!GenerationEnds
<1>. HIDE DEF past
<1>4. ASSUME NEW s \in Plan!Sessions PROVE new[s] \in Session /\ ~Taken(new[s])
  <2>1. PICK p \in [Regular -> {0} \union (job.day..LastPlanned)] :
          new = [r \in Plan!Sessions |-> IF r \in past \/ r \in Adhocs THEN Plan!Absent
                                         ELSE IF p[r] = 0 THEN Plan!Absent ELSE Plan!Planned(p[r])]
    BY <1>3 DEF Plan!Fresh
  <2>2. s \in Adhocs \/ p[s] \in Nat
    BY <1>2, <2>1 DEF Plan!Sessions
  <2>. QED  BY <2>1, <2>2, NewSessions DEF Taken
<1>5. Derived(job.seen, sched')
  BY <1>2, <1>3, <1>4 DEF Derived, Copy
<1>6. Copy(sched', Added)
  BY <1>2, <1>5, DerivedIsCopy
<1>7. Added' = Added
  BY <1>1 DEF Added, Plan!Unadded
<1>8. SameOrCopied /\ cycleDay' \in Plan!Days /\ DOMAIN extras' = Adhocs
  BY <1>1, ScheduleFacts DEF SameOrCopied
<1>. QED  BY <1>6, <1>7, <1>8, ScheduleStep

LEMMA ScheduleNext == ScheduleInv /\ [Plan!Next]_Plan!vars => ScheduleInv'
<1>. SUFFICES ASSUME ScheduleInv, [Plan!Next]_Plan!vars PROVE ScheduleInv'
  OBVIOUS
<1>0. cycleDay \in Plan!Days /\ DOMAIN extras = Adhocs
  BY ScheduleFacts
<1>1. ASSUME UNCHANGED <<sched, extras>>, cycleDay' \in Plan!Days, SameOrCopied PROVE ScheduleInv'
  <2>1. Added' = Added
    BY <1>1 DEF Added, Plan!Unadded
  <2>2. Copy(sched', Added') /\ DOMAIN extras' = Adhocs
    BY <1>0, <1>1, <2>1, ScheduleFacts
  <2>. QED  BY <1>1, <2>1, <2>2, ScheduleStep
<1>2. ASSUME NEW row \in Plan!Rows, NEW event \in {"defer", "remove"}, Plan!TurnOff(row, event) PROVE ScheduleInv'
  BY <1>2, EffectDerived, DerivedStep DEF Plan!TurnOff, ScheduleInv
<1>3. ASSUME NEW row \in Plan!Rows, Plan!Reopen(row) PROVE ScheduleInv'
  BY <1>3, EffectDerived, DerivedStep DEF Plan!Reopen, ScheduleInv
<1>4. ASSUME NEW I \in SUBSET Items, Plan!Squeeze(I) PROVE ScheduleInv'
  BY <1>4, DeferredDerived, DerivedStep DEF Plan!Squeeze, ScheduleInv
<1>5. ASSUME NEW d \in Plan!Days, NEW i \in Items, Plan!MoveIn(d, i) PROVE ScheduleInv'
  <2>1. d \in Nat /\ cycleDay \in Nat
    BY ScheduleAssumption DEF ScheduleInv, Plan!Days
  <2>. QED  BY <1>5, <2>1, MovedDerived, DerivedStep DEF Plan!MoveIn, ScheduleInv
<1>6. CASE Plan!OpenPage
  BY <1>0, <1>1, <1>6 DEF Plan!OpenPage, SameOrCopied
<1>7. CASE Plan!Generate
  BY <1>0, <1>1, <1>7 DEF Plan!Generate, SameOrCopied
<1>8. CASE Plan!GenerationFails
  BY <1>0, <1>1, <1>8 DEF Plan!GenerationFails, SameOrCopied
<1>9. CASE Plan!NextDay
  BY <1>0, <1>1, <1>9, ScheduleAssumption DEF Plan!NextDay, SameOrCopied, Plan!Days
<1>10. CASE UNCHANGED Plan!vars
  BY <1>0, <1>1, <1>10 DEF Plan!vars, SameOrCopied
<1>. QED  BY <1>2, <1>3, <1>4, <1>5, <1>6, <1>7, <1>8, <1>9, <1>10, AddAdhocKeeps, GoneKeeps, SavePageKeeps,
             GenerationKeeps DEF Plan!Next

\* The operator of the instance is the one of the library.
LEMMA PlanCardinality == ASSUME NEW S PROVE Plan!Cardinality(S) = Cardinality(S)
  BY Zenon DEF Plan!Cardinality, Cardinality

LEMMA ScheduleHolds == ScheduleInv => Plan!TakenStaysOff
<1>. SUFFICES ASSUME ScheduleInv PROVE Plan!TakenStaysOff
  OBVIOUS
<1>1. \A s \in Plan!Sessions : sched[s].by # Plan!Nobody => sched[s].skipped /\ ItemOf[s] = ItemOf[sched[s].by]
  BY DEF ScheduleInv, Copy, Taken
<1>2. ASSUME NEW a \in Adhocs PROVE Plan!Cardinality({s \in Plan!Sessions : sched[s].by = a}) <= 1
  <2>. DEFINE T == {s \in Plan!Sessions : sched[s].by = a}
  <2>1. \A s, t \in T : s = t
    BY ScheduleAssumption DEF ScheduleInv, Copy, Taken
  <2>. HIDE DEF T
  <2>2. T = {} => Cardinality(T) = 0
    BY FS_EmptySet
  <2>3. ASSUME NEW s, T = {s} PROVE Cardinality(T) = 1
    BY <2>3, FS_Singleton
  <2>4. Cardinality(T) <= 1
    <3>1. T # {} => \E s : T = {s}
      BY <2>1
    <3>. QED  BY <2>2, <2>3, <3>1
  <2>. QED  BY <2>4, PlanCardinality DEF T
<1>. QED  BY <1>1, <1>2 DEF Plan!TakenStaysOff

\* What an ad-hoc session took stays off until it gives it back, and it takes one
\* session of its own priority at most, whatever is deferred, restored, saved
\* from an old copy or generated anew meanwhile (cycles/schedule-writeback.ts).
THEOREM TakenAlwaysOff == Plan!Spec => []Plan!TakenStaysOff
<1>. QED  BY ScheduleInit, ScheduleNext, ScheduleHolds, PTL DEF Plan!Spec

\* The same of the sum of the parts, of which one runs at a time.
THEOREM TakenStaysOffAlways == PartsSpec => []TakenStaysOff
<1>. DEFINE Inv == part = "schedule" => ScheduleInv
            all == <<part, sheetVars, docVars, schedVars, scoreVars, frameVars, pastVars, keptVars, inboxVars>>
<1>1. Parts => Inv
  BY ScheduleInit DEF Parts
<1>2. Inv /\ [Step]_all => Inv'
  <2>. SUFFICES ASSUME Inv, [Step]_all, part' = "schedule" PROVE ScheduleInv'
    OBVIOUS
  <2>1. part = "schedule" /\ [Plan!Next]_Plan!vars
    BY DEF Step, schedVars, Plan!vars
  <2>. QED  BY <2>1, ScheduleNext
<1>3. Inv => TakenStaysOff
  BY ScheduleHolds DEF TakenStaysOff
<1>. QED  BY <1>1, <1>2, <1>3, PTL DEF PartsSpec

(***************************************************************************)
(* The cycle files, and the passes of the migration                        *)
(***************************************************************************)
LEMMA Least ==
  ASSUME NEW S \in SUBSET Nat, S # {}
  PROVE  \E x \in S : \A y \in S : x <= y
<1>. DEFINE R == {ss \in Nat \X Nat : ss[1] < ss[2]}
<1>0. IsWellFoundedOn(R, Nat)
  BY NatLessThanWellFounded DEF OpToRel
<1>1. PICK x \in S : \A y \in S : ~(<<y, x>> \in R)
  BY <1>0, WFMin
<1>2. \A y \in S : ~(y < x)
  BY <1>1
<1>. QED  BY <1>2

LEMMA Greatest ==
  ASSUME NEW n \in Nat, NEW S \in SUBSET (1..n), S # {}
  PROVE  \E x \in S : \A y \in S : y <= x
<1>. DEFINE T == {n - x : x \in S}
<1>1. T \in SUBSET Nat /\ T # {}
  <2>1. \A x \in S : x \in Nat /\ n - x \in Nat
    OBVIOUS
  <2>. QED  BY <2>1
<1>2. PICK t \in T : \A u \in T : t <= u
  <2>. HIDE DEF T
  <2>. QED  BY <1>1, Least
<1>3. PICK x \in S : t = n - x
  OBVIOUS
<1>4. ASSUME NEW y \in S PROVE y <= x
  <2>0. n - y \in T
    <3>1. \E z \in S : n - y = n - z
      BY <1>4, Zenon
    <3>. QED  BY <3>1, Zenon
  <2>1. x \in 1..n /\ y \in 1..n
    BY <1>4, Zenon
  <2>2. t <= n - y
    BY <1>2, <2>0, Zenon
  <2>. QED  BY <1>3, <2>1, <2>2
<1>. QED  BY <1>4

\* A section of a cycle file: who wrote it, and a draft that somebody wrote.
DocSection == [body : SUBSET Docs!Line, by : {"unset", "user", "planner", "ai"},
               draft : [body : SUBSET Docs!Line, by : {"planner", "ai"}] \union {Docs!NoDraft}]
DocFiles == [Docs!Cycles -> [Docs!Sections -> DocSection]]

\* What waits for a model is about a cycle that has a file.
DocJob(entry) ==
  \/ entry = Docs!Idle
  \/ entry.kind = "run" /\ entry.target \in Docs!Cycles /\ entry.reviewed \in files \union {0}
  \/ entry.kind \in {"review", "diagnosis"} /\ entry.cycle \in files
  \/ entry.kind = "promote" /\ entry.cycle \in files /\ entry.what \in Things /\ entry.seen \in SUBSET Docs!Line
  \/ entry.kind = "refile" /\ entry.cycle \in files /\ entry.seen \in SUBSET Docs!Line

DocsInv ==
  /\ now \in Docs!Cycles /\ files \in SUBSET Docs!Cycles /\ files # {} /\ broken \in SUBSET files
  /\ docs \in DocFiles
  /\ \A c \in Docs!Cycles, s \in Docs!Sections : c \notin files => docs[c][s] = Docs!Unwritten
  /\ Docs!DraftBesideKept
  /\ reflections \in [Docs!Cycles -> {"none", "run", "review"}]
  /\ DOMAIN jobs = Jobs /\ \A j \in Jobs : DocJob(jobs[j])
  /\ left \in Docs!Load

LEMMA DocsInit == Docs!Init => DocsInv
<1>. SUFFICES ASSUME Docs!Init PROVE DocsInv
  OBVIOUS
<1>1. 1 \in Docs!Cycles
  BY CyclesAssumption DEF Docs!Cycles
<1>2. Docs!Unwritten \in DocSection
  BY DEF Docs!Unwritten, Docs!NoDraft, DocSection
<1>3. docs = [c \in Docs!Cycles |-> [s \in Docs!Sections |-> Docs!Unwritten]]
  BY DEF Docs!Init, Docs!Blank
<1>4. docs \in DocFiles
  BY <1>2, <1>3 DEF DocFiles
<1>5. Docs!DraftBesideKept
  BY <1>3 DEF Docs!DraftBesideKept, Docs!Unwritten
<1>6. left \in Docs!Load
  BY LoadsAssumption DEF Docs!Init
<1>. QED  BY <1>1, <1>3, <1>4, <1>5, <1>6 DEF Docs!Init, DocsInv, DocJob

\* A section is put in a file.
Put(d, s, x) == [d EXCEPT ![s] = x]
SectionOf(body, by, draft) == [body |-> body, by |-> by, draft |-> draft]

\* A change of one section that keeps the files in shape and drafts beside what
\* a run may not replace.
LEMMA DocsEffect ==
  ASSUME DocsInv, NEW c \in files, NEW s \in Docs!Sections, NEW x \in DocSection,
         x.draft # Docs!NoDraft => Docs!Kept(x, s),
         docs' = [docs EXCEPT ![c] = Put(@, s, x)], files' \in SUBSET Docs!Cycles, files \in SUBSET files'
  PROVE  /\ docs' \in DocFiles
         /\ \A d \in Docs!Cycles, t \in Docs!Sections : d \notin files' => docs'[d][t] = Docs!Unwritten
         /\ Docs!DraftBesideKept'
         /\ \A d \in Docs!Cycles, t \in Docs!Sections : docs'[d][t] = IF d = c /\ t = s THEN x ELSE docs[d][t]
<1>0. c \in Docs!Cycles /\ docs \in [Docs!Cycles -> [Docs!Sections -> DocSection]]
  BY DEF DocsInv, DocFiles
<1>1. \A d \in Docs!Cycles, t \in Docs!Sections : docs'[d][t] = IF d = c /\ t = s THEN x ELSE docs[d][t]
  BY <1>0 DEF Put
<1>2. docs' \in [Docs!Cycles -> [Docs!Sections -> DocSection]]
  BY <1>0 DEF Put
<1>3. Docs!DraftBesideKept'
  BY <1>1 DEF Docs!DraftBesideKept, DocsInv, Docs!Kept
<1>4. \A d \in Docs!Cycles, t \in Docs!Sections : d \notin files' => docs'[d][t] = Docs!Unwritten
  BY <1>1 DEF DocsInv
<1>. QED  BY <1>1, <1>2, <1>3, <1>4 DEF DocFiles

LEMMA OneIsPut ==
  ASSUME DocsInv, NEW c \in files, NEW s \in Docs!Sections, NEW x, docs' = [docs EXCEPT ![c] = Put(@, s, x)]
  PROVE  \A d \in Docs!Cycles, t \in Docs!Sections : docs'[d][t] = IF d = c /\ t = s THEN x ELSE docs[d][t]
<1>0. c \in Docs!Cycles /\ docs \in [Docs!Cycles -> [Docs!Sections -> DocSection]]
  BY DEF DocsInv, DocFiles
<1>. QED  BY <1>0 DEF Put

\* The jobs stay about cycles that have a file.
LEMMA JobStays ==
  ASSUME files \in SUBSET files', NEW x, DocJob(x) PROVE DocJob(x)'
<1>1. \A y : y \in files => y \in files'
  OBVIOUS
<1>. QED  BY <1>1 DEF DocJob

LEMMA JobsKeep ==
  ASSUME DocsInv, files \in SUBSET files',
         NEW j, NEW entry, jobs' = [jobs EXCEPT ![j] = entry], DocJob(entry)'
  PROVE  DOMAIN jobs' = Jobs /\ \A k \in Jobs : DocJob(jobs[k])'
<1>1. \A k \in Jobs : DocJob(jobs[k])
  BY DEF DocsInv
<1>2. ASSUME NEW k \in Jobs PROVE DocJob(jobs[k])'
  <2>1. CASE k = j
    <3>1. jobs'[k] = entry
      BY <2>1 DEF DocsInv
    <3>. QED  BY <3>1 DEF DocJob
  <2>2. CASE k # j
    <3>1. jobs'[k] = jobs[k]
      BY <2>2 DEF DocsInv
    <3>2. DocJob(jobs[k])
      BY <1>1
    <3>. QED  BY <3>1, <3>2 DEF DocJob
  <2>. QED  BY <2>1, <2>2
<1>. QED  BY <1>2 DEF DocsInv

LEMMA Shaped ==
  ASSUME DocsInv, NEW c \in Docs!Cycles, NEW s \in Docs!Sections
  PROVE  /\ docs[c][s] \in DocSection /\ docs[c][s].body \in SUBSET Docs!Line
         /\ docs[c][s].by \in {"unset", "user", "planner", "ai"}
         /\ docs[c][s].draft \in [body : SUBSET Docs!Line, by : {"planner", "ai"}] \union {Docs!NoDraft}
         /\ docs[c][s].draft # Docs!NoDraft => Docs!Kept(docs[c][s], s)
<1>1. docs[c][s] \in DocSection
  BY DEF DocsInv, DocFiles
<1>. QED  BY <1>1 DEF DocSection, DocsInv, Docs!DraftBesideKept

\* What a writer of a section makes of it.
LEMMA WrittenIs ==
  ASSUME NEW d \in [Docs!Sections -> DocSection], NEW s \in Docs!Sections, NEW body \in SUBSET Docs!Line,
         NEW by \in {"unset", "user", "planner", "ai"}
  PROVE  /\ Docs!Written(d, s, body, by, FALSE) = Put(d, s, SectionOf(body, by, Docs!NoDraft))
         /\ Docs!Written(d, s, body, by, TRUE) = Put(d, s, SectionOf(body, by, d[s].draft))
         /\ SectionOf(body, by, Docs!NoDraft) \in DocSection
         /\ SectionOf(body, by, d[s].draft) \in DocSection
<1>1. d[s] \in DocSection
  OBVIOUS
<1>. QED  BY <1>1 DEF DocSection, Docs!Written, Put, SectionOf

LEMMA SectionIs ==
  ASSUME NEW body, NEW by, NEW draft
  PROVE  /\ SectionOf(body, by, draft).body = body /\ SectionOf(body, by, draft).by = by
         /\ SectionOf(body, by, draft).draft = draft
BY DEF SectionOf

\* The two actions of the property; a step that leaves the files alone is one of neither.
DocsStep == Docs!KeepsOwnedWords /\ Docs!KeepsDraft

LEMMA FilesAlone == ASSUME docs' = docs PROVE DocsStep
BY DEF DocsStep, Docs!KeepsOwnedWords, Docs!KeepsDraft

\* A step that changes one section only.
LEMMA OneSection ==
  ASSUME DocsInv, NEW c \in Docs!Cycles, NEW s \in Docs!Sections,
         \A d \in Docs!Cycles, t \in Docs!Sections : d # c \/ t # s => docs'[d][t] = docs[d][t],
         Docs!Kept(docs[c][s], s) /\ docs'[c][s].body # docs[c][s].body =>
             \/ left' # left /\ (left'.saves < left.saves \/ (s = "priorities" /\ left'.syncs < left.syncs))
             \/ docs'[c][s].body = docs[c][s].draft.body /\ docs'[c][s].by = docs[c][s].draft.by
             \/ (s = "review" /\ Docs!Answered({"review"}, c))
             \/ (s = "priorities" /\ Docs!Answered({"promote", "refile"}, c)),
         docs[c][s].draft # Docs!NoDraft /\ docs'[c][s].draft = Docs!NoDraft =>
             \/ jobs' = jobs /\ left'.syncs = left.syncs
             \/ s = "review" /\ Docs!Answered({"review"}, c)
  PROVE  DocsStep
<1>1. Docs!KeepsDraft
  BY DEF Docs!KeepsDraft
<1>2. Docs!KeepsOwnedWords
  BY DEF Docs!KeepsOwnedWords
<1>. QED  BY <1>1, <1>2 DEF DocsStep

LEMMA LineFacts ==
  /\ \A t \in Things \union Docs!Texts, g \in Docs!Groups \union {"pen"} : Docs!Item(t, g) \in Docs!Line
  /\ \A l \in Docs!Line, g \in Docs!Groups \union {"pen"} :
       [l EXCEPT !.done = TRUE] \in Docs!Line /\ [l EXCEPT !.at = g] \in Docs!Line
  /\ Docs!Plans \in SUBSET SUBSET Docs!Line /\ Docs!Drafted \in SUBSET SUBSET Docs!Line
  /\ Docs!Free("mine") \in SUBSET Docs!Line
  /\ \A body \in Docs!Drafted : body # {}
<1>1. \A t \in Things \union Docs!Texts, g \in Docs!Groups \union {"pen"} : Docs!Item(t, g) \in Docs!Line
  BY DEF Docs!Item, Docs!Line
<1>2. \A l \in Docs!Line, g \in Docs!Groups \union {"pen"} :
        [l EXCEPT !.done = TRUE] \in Docs!Line /\ [l EXCEPT !.at = g] \in Docs!Line
  BY DEF Docs!Line
<1>3. Docs!Plans \in SUBSET SUBSET Docs!Line
  <2>1. ASSUME NEW S \in SUBSET Things, NEW t \in S PROVE Docs!Item(t, Docs!Group(t)) \in Docs!Line
    BY <1>1 DEF Docs!Group, Docs!Groups
  <2>. QED  BY <2>1 DEF Docs!Plans, Docs!Planned
<1>4. Docs!Drafted \in SUBSET SUBSET Docs!Line /\ Docs!Free("mine") \in SUBSET Docs!Line
  BY <1>1 DEF Docs!Drafted, Docs!Free, Docs!Texts, Docs!Groups
<1>5. \A body \in Docs!Drafted : body # {}
  BY DEF Docs!Drafted, Docs!Free
<1>. QED  BY <1>1, <1>2, <1>3, <1>4, <1>5

LEMMA TypedLines ==
  ASSUME DocsInv, NEW c \in Docs!Cycles, NEW s \in Docs!Sections, NEW body \in Docs!Typed(c, s)
  PROVE  body \in SUBSET Docs!Line
<1>1. docs[c]["priorities"].body \in SUBSET Docs!Line
  BY Shaped DEF Docs!Sections
<1>2. ASSUME NEW l \in docs[c]["priorities"].body
      PROVE  (docs[c]["priorities"].body \ {l}) \union {[l EXCEPT !.done = TRUE]} \in SUBSET Docs!Line
  <2>1. l \in Docs!Line
    BY <1>1, <1>2
  <2>2. [l EXCEPT !.done = TRUE] \in Docs!Line
    BY <2>1, LineFacts DEF Docs!Groups
  <2>. QED  BY <1>1, <2>2
<1>3. CASE s # "priorities"
  BY <1>3, LineFacts DEF Docs!Typed
<1>4. CASE s = "priorities"
  <2>1. \/ body \in Docs!Plans \/ body = {}
        \/ \E l \in docs[c]["priorities"].body :
             body = (docs[c]["priorities"].body \ {l}) \union {[l EXCEPT !.done = TRUE]}
    BY <1>4 DEF Docs!Typed
  <2>. QED  BY <1>2, <2>1, LineFacts
<1>. QED  BY <1>3, <1>4

\* A step that leaves the load, the cycle and the jobs, or spends of the load.
LEMMA Spent ==
  ASSUME DocsInv, NEW what \in {"saves", "runs", "asks", "syncs", "faults"}, Docs!Spend(what)
  PROVE  /\ left' \in Docs!Load /\ left' # left /\ left'[what] < left[what]
         /\ \A other \in {"saves", "runs", "asks", "syncs", "faults"} \ {what} : left'[other] = left[other]
<1>1. left \in [saves : Nat, runs : Nat, asks : Nat, syncs : Nat, faults : Nat]
  BY DEF DocsInv, Docs!Load
<1>2. left[what] \in Nat /\ left[what] > 0 /\ left' = [left EXCEPT ![what] = left[what] - 1]
  BY <1>1 DEF Docs!Spend
<1>3. left'[what] = left[what] - 1
  BY <1>1, <1>2
<1>4. \A other \in {"saves", "runs", "asks", "syncs", "faults"} \ {what} : left'[other] = left[other]
  BY <1>1, <1>2
<1>5. left' \in Docs!Load
  BY <1>1, <1>2 DEF Docs!Load
<1>. QED  BY <1>2, <1>3, <1>4, <1>5

LEMMA WritingKeeps ==
  ASSUME DocsInv, NEW c \in files, NEW s \in Docs!Sections, NEW x \in DocSection,
         x.draft # Docs!NoDraft => Docs!Kept(x, s),
         docs' = [docs EXCEPT ![c] = Put(@, s, x)], UNCHANGED <<now, files, broken>>,
         reflections' \in [Docs!Cycles -> {"none", "run", "review"}], left' \in Docs!Load,
         DOMAIN jobs' = Jobs /\ \A k \in Jobs : DocJob(jobs[k])'
  PROVE  DocsInv'
<1>1. files' \in SUBSET Docs!Cycles /\ files \in SUBSET files'
  BY DEF DocsInv
<1>. QED  BY <1>1, DocsEffect DEF DocsInv, Docs!DraftBesideKept, DocFiles

LEMMA JobsAlone == ASSUME DocsInv, UNCHANGED <<files, jobs>> PROVE DOMAIN jobs' = Jobs /\ \A k \in Jobs : DocJob(jobs[k])'
BY DEF DocsInv, DocJob

LEMMA SaveKeeps ==
  ASSUME DocsInv, NEW c \in Docs!Cycles, NEW s \in Docs!Sections, NEW body \in Docs!Typed(c, s), Docs!Save(c, s, body)
  PROVE  DocsInv' /\ DocsStep
<1>0. PICK x : x = SectionOf(body, "user", Docs!NoDraft)
  OBVIOUS
<1>1. body \in SUBSET Docs!Line
  BY TypedLines
<1>2. c \in files /\ docs[c] \in [Docs!Sections -> DocSection]
  BY DEF Docs!Save, Docs!Writable, DocsInv, DocFiles
<1>3. x \in DocSection /\ docs' = [docs EXCEPT ![c] = Put(@, s, x)]
  <2>1. x \in DocSection /\ Docs!Written(docs[c], s, body, "user", FALSE) = Put(docs[c], s, x)
    BY <1>0, <1>1, <1>2, WrittenIs
  <2>2. docs' = [docs EXCEPT ![c] = Docs!Written(docs[c], s, body, "user", FALSE)]
    BY DEF Docs!Save
  <2>. QED  BY <2>1, <2>2
<1>4. UNCHANGED <<now, files, broken, jobs, reflections>> /\ reflections \in [Docs!Cycles -> {"none", "run", "review"}]
  BY DEF Docs!Save, DocsInv
<1>5. left' \in Docs!Load /\ left' # left /\ left'.saves < left.saves /\ left'.syncs = left.syncs
  BY Spent DEF Docs!Save
<1>6. x.draft = Docs!NoDraft
  BY <1>0, SectionIs
<1>7. DocsInv'
  BY <1>2, <1>3, <1>4, <1>5, <1>6, WritingKeeps, JobsAlone
<1>8. files' \in SUBSET Docs!Cycles /\ files \in SUBSET files'
  BY <1>4 DEF DocsInv
<1>9. \A d \in Docs!Cycles, t \in Docs!Sections : docs'[d][t] = IF d = c /\ t = s THEN x ELSE docs[d][t]
  <2>1. docs \in [Docs!Cycles -> [Docs!Sections -> DocSection]] /\ c \in Docs!Cycles
    BY DEF DocsInv, DocFiles
  <2>. QED  BY <1>2, <1>3, <2>1 DEF Put
<1>. QED  BY <1>4, <1>5, <1>7, <1>9, OneSection

LEMMA DecideKeeps ==
  ASSUME DocsInv, NEW c \in Docs!Cycles, NEW s \in Docs!Sections, Docs!Accept(c, s) \/ Docs!Discard(c, s)
  PROVE  DocsInv' /\ DocsStep
<1>. DEFINE y == docs[c][s]
            e == y.draft
            taken == Docs!Accept(c, s)
<1>1. c \in files /\ docs[c] \in [Docs!Sections -> DocSection] /\ y \in DocSection /\ e # Docs!NoDraft
  <2>1. c \in files /\ e # Docs!NoDraft
    BY DEF Docs!Accept, Docs!Discard, Docs!Pending, Docs!Writable
  <2>2. docs[c] \in [Docs!Sections -> DocSection]
    BY DEF DocsInv, DocFiles
  <2>. QED  BY <2>1, <2>2
<1>2. e.body \in SUBSET Docs!Line /\ e.by \in {"unset", "user", "planner", "ai"}
  BY <1>1 DEF DocSection
<1>3. PICK x \in DocSection :
        /\ docs' = [docs EXCEPT ![c] = Put(@, s, x)] /\ x.draft = Docs!NoDraft
        /\ (taken => x.body = e.body /\ x.by = e.by) /\ (~taken => x.body = y.body)
  <2>1. CASE taken
    <3>1. /\ SectionOf(e.body, e.by, Docs!NoDraft) \in DocSection
          /\ Docs!Written(docs[c], s, e.body, e.by, FALSE) = Put(docs[c], s, SectionOf(e.body, e.by, Docs!NoDraft))
      <4>. HIDE DEF e
      <4>. QED  BY <1>1, <1>2, WrittenIs
    <3>2. docs' = [docs EXCEPT ![c] = Docs!Written(docs[c], s, e.body, e.by, FALSE)]
      BY <2>1 DEF Docs!Accept, Docs!Pending
    <3>. DEFINE x == SectionOf(e.body, e.by, Docs!NoDraft)
    <3>3. x.draft = Docs!NoDraft /\ x.body = e.body /\ x.by = e.by
      BY SectionIs
    <3>4. docs' = [docs EXCEPT ![c] = Put(@, s, x)] /\ x \in DocSection
      BY <3>1, <3>2
    <3>. HIDE DEF x
    <3>. QED  BY <2>1, <3>3, <3>4
  <2>2. CASE ~taken
    <3>. DEFINE x == [y EXCEPT !.draft = Docs!NoDraft]
    <3>1. docs' = [docs EXCEPT ![c][s].draft = Docs!NoDraft]
      BY <2>2 DEF Docs!Discard
    <3>2. x \in DocSection /\ x.draft = Docs!NoDraft /\ x.body = y.body
      BY <1>1 DEF DocSection
    <3>3. docs' = [docs EXCEPT ![c] = Put(@, s, x)]
      BY <3>1 DEF Put
    <3>. QED  BY <2>2, <3>2, <3>3
  <2>. QED  BY <2>1, <2>2
<1>4. UNCHANGED <<now, files, broken, jobs, reflections, left>> /\ reflections \in [Docs!Cycles -> {"none", "run", "review"}]
      /\ left \in Docs!Load
  BY DEF Docs!Accept, Docs!Discard, DocsInv
<1>6. DocsInv'
  BY <1>1, <1>3, <1>4, WritingKeeps, JobsAlone
<1>7. files' \in SUBSET Docs!Cycles /\ files \in SUBSET files'
  BY <1>4 DEF DocsInv
<1>8. \A d \in Docs!Cycles, t \in Docs!Sections : docs'[d][t] = IF d = c /\ t = s THEN x ELSE docs[d][t]
  BY <1>1, <1>3, <1>7, DocsEffect
<1>9. docs'[c][s] = x
  BY <1>8
<1>. QED  BY <1>3, <1>4, <1>6, <1>8, <1>9, OneSection

\* The entry that is queued, and the one that ends.
LEMMA QueueKeeps ==
  ASSUME DocsInv, NEW j \in Jobs, NEW entry, Docs!Queued(j, entry), files \in SUBSET files', DocJob(entry)'
  PROVE  DOMAIN jobs' = Jobs /\ \A k \in Jobs : DocJob(jobs[k])'
BY JobsKeep DEF Docs!Queued

LEMMA IdleJob == DocJob(Docs!Idle)'
BY DEF DocJob, Docs!Idle

\* The file before a cycle, and the one after.
LEMMA BeforeIs == ASSUME DocsInv, NEW c \in Docs!Cycles PROVE Docs!Before(c) \in files \union {0}
<1>. DEFINE S == {d \in files : d < c}
<1>1. CASE S = {}
  BY <1>1 DEF Docs!Before
<1>2. CASE S # {}
  <2>1. S \in SUBSET (1..LastCycle) /\ LastCycle \in Nat
    BY CyclesAssumption DEF DocsInv, Docs!Cycles
  <2>2. PICK d \in S : \A e \in S : e <= d
    BY <1>2, <2>1, Greatest
  <2>3. Docs!Before(c) = CHOOSE x \in files : x < c /\ \A e \in files : e < c => e <= x
    BY <1>2 DEF Docs!Before
  <2>. QED  BY <2>2, <2>3
<1>. QED  BY <1>1, <1>2

LEMMA AfterIs ==
  ASSUME NEW all \in SUBSET Docs!Cycles, NEW c \in Docs!Cycles, \E d \in all : d > c
  PROVE  (CHOOSE d \in all : d > c /\ \A e \in all : e > c => d <= e) \in all
<1>. DEFINE S == {d \in all : d > c}
<1>0. Docs!Cycles \subseteq Nat
  BY CyclesAssumption DEF Docs!Cycles
<1>1. S \in SUBSET Nat /\ S # {}
  BY <1>0
<1>2. PICK d \in S : \A e \in S : d <= e
  BY <1>1, Least
<1>. QED  BY <1>2

LEMMA RunJob ==
  ASSUME DocsInv, NEW why, NEW closed \in files \union {0}, NEW only, NEW all \in SUBSET Docs!Cycles,
         closed # 0 => \E d \in all : d > closed, files \in SUBSET files',
         NEW entry, entry = Docs!RunOf(why, closed, only, all)
  PROVE  DocJob(entry)'
<1>0. now \in Docs!Cycles /\ files \in SUBSET Docs!Cycles
  BY DEF DocsInv
<1>1. entry.kind = "run"
  BY DEF Docs!RunOf
<1>2. entry.reviewed \in files \union {0}
  BY <1>0, BeforeIs DEF Docs!RunOf
<1>3. entry.target \in Docs!Cycles
  <2>1. CASE closed = 0
    BY <1>0, <2>1 DEF Docs!RunOf
  <2>2. CASE closed # 0
    <3>1. entry.target = CHOOSE d \in all : d > closed /\ \A e \in all : e > closed => d <= e
      BY <2>2 DEF Docs!RunOf
    <3>. QED  BY <1>0, <2>2, <3>1, AfterIs
  <2>. QED  BY <2>1, <2>2
<1>. QED  BY <1>1, <1>2, <1>3 DEF DocJob

\* A step that leaves every file as it is.
LEMMA UnwrittenKeeps ==
  ASSUME DocsInv, docs' = docs, now' \in Docs!Cycles, files' \in SUBSET Docs!Cycles, files \in SUBSET files',
         broken' \in SUBSET files', reflections' \in [Docs!Cycles -> {"none", "run", "review"}], left' \in Docs!Load,
         DOMAIN jobs' = Jobs /\ \A k \in Jobs : DocJob(jobs[k])'
  PROVE  DocsInv' /\ DocsStep
<1>1. Docs!DraftBesideKept'
  BY DEF DocsInv, Docs!DraftBesideKept
<1>2. docs' \in DocFiles /\ \A c \in Docs!Cycles, s \in Docs!Sections : c \notin files' => docs'[c][s] = Docs!Unwritten
  BY DEF DocsInv
<1>3. files' # {}
  BY DEF DocsInv
<1>. QED  BY <1>1, <1>2, <1>3, FilesAlone DEF DocsInv, DocFiles

LEMMA CreateKeeps == ASSUME DocsInv, NEW j \in Jobs, Docs!Create(j) \/ Docs!Replan(j) PROVE DocsInv' /\ DocsStep
<1>1. left' \in Docs!Load /\ UNCHANGED <<now, broken, docs, reflections>>
  BY Spent DEF Docs!Create, Docs!Replan
<1>2. files' \in SUBSET Docs!Cycles /\ files \in SUBSET files'
  BY DEF Docs!Create, Docs!Replan, DocsInv
<1>3. PICK why, only, entry : entry = Docs!RunOf(why, 0, only, files) /\ Docs!Queued(j, entry)
  BY DEF Docs!Create, Docs!Replan
<1>4. DocJob(entry)'
  BY <1>2, <1>3, RunJob DEF DocsInv
<1>5. DOMAIN jobs' = Jobs /\ \A k \in Jobs : DocJob(jobs[k])'
  BY <1>2, <1>3, <1>4, QueueKeeps
<1>6. now \in Docs!Cycles /\ broken \in SUBSET files /\ reflections \in [Docs!Cycles -> {"none", "run", "review"}]
  BY DEF DocsInv
<1>. QED  BY <1>1, <1>2, <1>5, <1>6, UnwrittenKeeps

LEMMA CloseKeeps == ASSUME DocsInv, NEW c \in Docs!Cycles, NEW j \in Jobs, Docs!Close(c, j) PROVE DocsInv' /\ DocsStep
<1>1. left' \in Docs!Load /\ UNCHANGED <<now, broken, docs, reflections>> /\ c \in files
  BY Spent DEF Docs!Close
<1>2. /\ files' = IF \E d \in files : d > c THEN files ELSE files \union {c + 1}
      /\ files' \in SUBSET Docs!Cycles /\ Docs!Queued(j, Docs!RunOf("close", c, TRUE, files'))
  BY DEF Docs!Close
<1>0. PICK all, entry : all = files' /\ entry = Docs!RunOf("close", c, TRUE, all) /\ Docs!Queued(j, entry)
  BY <1>2
<1>3. files \in SUBSET files' /\ \E d \in files' : d > c
  BY <1>2 DEF Docs!Cycles
<1>4. DocJob(entry)'
  BY <1>0, <1>1, <1>2, <1>3, RunJob
<1>5. DOMAIN jobs' = Jobs /\ \A k \in Jobs : DocJob(jobs[k])'
  BY <1>0, <1>3, <1>4, QueueKeeps
<1>6. now \in Docs!Cycles /\ broken \in SUBSET files /\ reflections \in [Docs!Cycles -> {"none", "run", "review"}]
  BY DEF DocsInv
<1>. QED  BY <1>1, <1>2, <1>3, <1>5, <1>6, UnwrittenKeeps

LEMMA AskKeeps ==
  ASSUME DocsInv, NEW c \in Docs!Cycles, NEW j \in Jobs,
         \/ Docs!Refile(c, j) \/ \E replace \in BOOLEAN : Docs!AskReview(c, replace, j)
         \/ \E t \in Captured : Docs!Promote(c, t, j)
  PROVE  DocsInv' /\ DocsStep
<1>1. left' \in Docs!Load /\ UNCHANGED <<now, files, broken, docs, reflections>> /\ c \in files
  BY Spent DEF Docs!Refile, Docs!AskReview, Docs!Promote, Docs!Writable
<1>2. now \in Docs!Cycles /\ broken \in SUBSET files /\ files \in SUBSET Docs!Cycles
      /\ reflections \in [Docs!Cycles -> {"none", "run", "review"}] /\ Docs!Priorities(c) \in SUBSET Docs!Line
  BY Shaped DEF DocsInv, Docs!Priorities, Docs!Sections
<1>3. \E entry : Docs!Queued(j, entry) /\ DocJob(entry)'
  <2>1. CASE Docs!Refile(c, j)
    <3>1. PICK entry : entry = [kind |-> "refile", cycle |-> c, seen |-> Docs!Priorities(c)]
      OBVIOUS
    <3>2. Docs!Queued(j, entry)
      BY <2>1, <3>1 DEF Docs!Refile
    <3>3. DocJob(entry)'
      BY <1>1, <1>2, <3>1, ThingsAssumption DEF DocJob
    <3>. QED  BY <3>2, <3>3
  <2>2. ASSUME NEW replace \in BOOLEAN, Docs!AskReview(c, replace, j) PROVE \E entry : Docs!Queued(j, entry) /\ DocJob(entry)'
    <3>1. DocJob([kind |-> "review", cycle |-> c, replace |-> replace])'
      BY <1>1 DEF DocJob
    <3>. QED  BY <2>2, <3>1 DEF Docs!AskReview
  <2>3. ASSUME NEW t \in Captured, Docs!Promote(c, t, j) PROVE \E entry : Docs!Queued(j, entry) /\ DocJob(entry)'
    <3>1. PICK entry : entry = [kind |-> "promote", cycle |-> c, what |-> t, seen |-> Docs!Priorities(c)]
      OBVIOUS
    <3>2. Docs!Queued(j, entry)
      BY <2>3, <3>1 DEF Docs!Promote
    <3>3. DocJob(entry)'
      BY <1>1, <1>2, <3>1, ThingsAssumption DEF DocJob
    <3>. QED  BY <3>2, <3>3
  <2>. QED  BY <2>1, <2>2, <2>3
<1>4. files \in SUBSET files' /\ files' \in SUBSET Docs!Cycles
  BY <1>1, <1>2
<1>5. DOMAIN jobs' = Jobs /\ \A k \in Jobs : DocJob(jobs[k])'
  BY <1>3, <1>4, QueueKeeps
<1>. QED  BY <1>1, <1>2, <1>4, <1>5, UnwrittenKeeps

LEMMA FaultKeeps ==
  ASSUME DocsInv, \/ \E c \in Docs!Cycles : Docs!BreakByHand(c) \/ Docs!RepairByHand(c)
                  \/ Docs!NextCycle \/ Docs!Crash \/ \E j \in Jobs : Docs!JobFails(j) \/ Docs!DiagnosisEnds(j)
  PROVE  DocsInv' /\ DocsStep
<1>1. /\ now \in Docs!Cycles /\ files \in SUBSET Docs!Cycles /\ broken \in SUBSET files
      /\ reflections \in [Docs!Cycles -> {"none", "run", "review"}] /\ left \in Docs!Load
  BY DEF DocsInv
<1>2. ASSUME NEW c \in Docs!Cycles, Docs!BreakByHand(c) \/ Docs!RepairByHand(c) PROVE DocsInv' /\ DocsStep
  <2>1. left' \in Docs!Load /\ UNCHANGED <<now, files, docs, reflections, jobs>>
    BY <1>1, <1>2, Spent DEF Docs!BreakByHand, Docs!RepairByHand
  <2>2. broken' \in SUBSET files'
    BY <1>1, <1>2 DEF Docs!BreakByHand, Docs!RepairByHand, Docs!Writable
  <2>. QED  BY <1>1, <2>1, <2>2, JobsAlone, UnwrittenKeeps
<1>3. CASE Docs!NextCycle
  <2>1. now' \in Docs!Cycles
    BY <1>1, <1>3, CyclesAssumption DEF Docs!NextCycle, Docs!Cycles
  <2>2. UNCHANGED <<files, broken, docs, reflections, jobs, left>>
    BY <1>3 DEF Docs!NextCycle
  <2>. QED  BY <1>1, <2>1, <2>2, JobsAlone, UnwrittenKeeps
<1>4. CASE Docs!Crash
  <2>1. left' \in Docs!Load /\ UNCHANGED <<now, files, broken, docs, reflections>> /\ jobs' = [j \in Jobs |-> Docs!Idle]
    BY <1>4, Spent DEF Docs!Crash
  <2>2. DOMAIN jobs' = Jobs /\ \A k \in Jobs : DocJob(jobs[k])'
    BY <2>1 DEF DocJob
  <2>. QED  BY <1>1, <2>1, <2>2, UnwrittenKeeps
<1>5. ASSUME NEW j \in Jobs, Docs!JobFails(j) \/ Docs!DiagnosisEnds(j) PROVE DocsInv' /\ DocsStep
  <2>1. UNCHANGED <<now, files, broken, docs, left>> /\ jobs' = [jobs EXCEPT ![j] = Docs!Idle]
    BY <1>5 DEF Docs!JobFails, Docs!DiagnosisEnds
  <2>2. reflections' \in [Docs!Cycles -> {"none", "run", "review"}]
    BY <1>1, <1>5 DEF Docs!JobFails, Docs!DiagnosisEnds
  <2>3. files \in SUBSET files'
    BY <2>1
  <2>4. DOMAIN jobs' = Jobs /\ \A k \in Jobs : DocJob(jobs[k])'
    BY <2>1, <2>3, IdleJob, JobsKeep
  <2>. QED  BY <1>1, <2>1, <2>2, <2>3, <2>4, UnwrittenKeeps
<1>. QED  BY <1>2, <1>3, <1>4, <1>5

\* What lands in a section: what a run may not replace stays, and so does a draft,
\* unless a newer one takes its place.
Lands(x, y, s) ==
  /\ Docs!Kept(x, s) => y.body = x.body /\ Docs!Kept(y, s)
  /\ x.draft # Docs!NoDraft => y.draft # Docs!NoDraft

LEMMA AppliedIs ==
  ASSUME NEW d \in [Docs!Sections -> DocSection], NEW s \in {"priorities", "review"}, NEW body \in SUBSET Docs!Line,
         \A t \in Docs!Sections : d[t].draft # Docs!NoDraft => Docs!Kept(d[t], t)
  PROVE  /\ Docs!Applied(d, s, body) \in [Docs!Sections -> DocSection]
         /\ \A t \in Docs!Sections : Lands(d[t], Docs!Applied(d, s, body)[t], t)
         /\ \A t \in Docs!Sections : Docs!Applied(d, s, body)[t].draft # Docs!NoDraft
                                       => Docs!Kept(Docs!Applied(d, s, body)[t], t)
<1>. DEFINE e == Docs!Applied(d, s, body)
            by == Docs!SourceFor(s)
<1>0. s \in Docs!Sections /\ by \in {"planner", "ai"} /\ d[s] \in DocSection
  BY DEF Docs!Sections, Docs!SourceFor
<1>1. CASE e = d
  BY <1>1 DEF Lands
<1>2. CASE ~Docs!Kept(d[s], s) /\ e = Docs!Written(d, s, body, by, FALSE)
  <2>. DEFINE x == SectionOf(body, by, Docs!NoDraft)
  <2>1. x \in DocSection /\ e = Put(d, s, x)
    <3>1. by \in {"unset", "user", "planner", "ai"}
      BY <1>0
    <3>. HIDE DEF by
    <3>. QED  BY <1>0, <1>2, <3>1, WrittenIs
  <2>2. x.draft = Docs!NoDraft /\ d[s].draft = Docs!NoDraft
    BY <1>0, <1>2, SectionIs
  <2>. HIDE DEF x, e, by
  <2>3. e \in [Docs!Sections -> DocSection] /\ \A t \in Docs!Sections : e[t] = IF t = s THEN x ELSE d[t]
    BY <1>0, <2>1 DEF Put
  <2>4. \A t \in Docs!Sections : Lands(d[t], e[t], t)
    BY <1>2, <2>2, <2>3 DEF Lands
  <2>5. \A t \in Docs!Sections : e[t].draft # Docs!NoDraft => Docs!Kept(e[t], t)
    BY <2>2, <2>3
  <2>. QED  BY <2>3, <2>4, <2>5 DEF e
<1>3. CASE Docs!Kept(d[s], s) /\ e = Docs!Staged(d, s, body, by)
  <2>. DEFINE x == [d[s] EXCEPT !.draft = [body |-> body, by |-> by]]
  <2>1. x \in DocSection /\ x.body = d[s].body /\ x.by = d[s].by /\ x.draft = [body |-> body, by |-> by]
    <3>. HIDE DEF by
    <3>. QED  BY <1>0 DEF DocSection
  <2>2. e = Put(d, s, x)
    BY <1>3 DEF Docs!Staged, Put
  <2>3. x.draft # Docs!NoDraft
    BY <1>0, <2>1 DEF Docs!NoDraft
  <2>4. Docs!Kept(x, s)
    BY <1>3, <2>1 DEF Docs!Kept
  <2>. HIDE DEF x, e, by
  <2>5. e \in [Docs!Sections -> DocSection] /\ \A t \in Docs!Sections : e[t] = IF t = s THEN x ELSE d[t]
    BY <1>0, <2>1, <2>2 DEF Put
  <2>6. \A t \in Docs!Sections : Lands(d[t], e[t], t)
    BY <2>1, <2>3, <2>4, <2>5 DEF Lands
  <2>7. \A t \in Docs!Sections : e[t].draft # Docs!NoDraft => Docs!Kept(e[t], t)
    BY <2>4, <2>5
  <2>. QED  BY <2>5, <2>6, <2>7 DEF e
<1>4. \/ e = d
      \/ ~Docs!Kept(d[s], s) /\ e = Docs!Written(d, s, body, by, FALSE)
      \/ Docs!Kept(d[s], s) /\ e = Docs!Staged(d, s, body, by)
  <2>1. CASE (d[s].by # "unset" /\ d[s].body = body) \/ (Docs!Kept(d[s], s) /\ d[s].draft.body = body)
    <3>1. Docs!Applied(d, s, body) = d
      BY <2>1 DEF Docs!Applied, Docs!Kept
    <3>. QED  BY <3>1
  <2>2. CASE ~(d[s].by # "unset" /\ d[s].body = body) /\ ~Docs!Kept(d[s], s)
    BY <2>2 DEF Docs!Applied
  <2>3. CASE ~(d[s].by # "unset" /\ d[s].body = body) /\ Docs!Kept(d[s], s) /\ d[s].draft.body # body
    BY <2>3 DEF Docs!Applied
  <2>. QED  BY <2>1, <2>2, <2>3
<1>. QED  BY <1>1, <1>2, <1>3, <1>4

LEMMA LandsTwice ==
  ASSUME NEW x, NEW y, NEW z, NEW s, Lands(x, y, s), Lands(y, z, s) PROVE Lands(x, z, s)
BY DEF Lands

\* The files stay in shape when a chosen lands in one of them.
Shapely(D) ==
  /\ D \in DocFiles
  /\ \A c \in Docs!Cycles, s \in Docs!Sections : D[c][s].draft # Docs!NoDraft => Docs!Kept(D[c][s], s)

LEMMA LandKeeps ==
  ASSUME NEW D, Shapely(D), NEW c, NEW s \in {"priorities", "review"}, NEW body \in SUBSET Docs!Line
  PROVE  /\ Shapely(Docs!Land(D, c, s, body))
         /\ \A d \in Docs!Cycles, t \in Docs!Sections : Lands(D[d][t], Docs!Land(D, c, s, body)[d][t], t)
         /\ \A d \in Docs!Cycles : d # c \/ body = {} \/ c \in broken => Docs!Land(D, c, s, body)[d] = D[d]
<1>. DEFINE E == Docs!Land(D, c, s, body)
<1>1. CASE E = D
  BY <1>1 DEF Lands
<1>2. CASE c \notin Docs!Cycles
  <2>1. E = D
    BY <1>2 DEF Docs!Land, Shapely, DocFiles
  <2>. QED  BY <1>1, <2>1
<1>3. CASE c \in Docs!Cycles /\ ~(body = {} \/ c = 0 \/ c \in broken)
  <2>. DEFINE e == Docs!Applied(D[c], s, body)
  <2>0. D \in [Docs!Cycles -> [Docs!Sections -> DocSection]] /\ D[c] \in [Docs!Sections -> DocSection]
    BY <1>3 DEF Shapely, DocFiles
  <2>1. /\ e \in [Docs!Sections -> DocSection] /\ \A t \in Docs!Sections : Lands(D[c][t], e[t], t)
        /\ \A t \in Docs!Sections : e[t].draft # Docs!NoDraft => Docs!Kept(e[t], t)
    <3>1. \A t \in Docs!Sections : D[c][t].draft # Docs!NoDraft => Docs!Kept(D[c][t], t)
      BY <1>3 DEF Shapely
    <3>. QED  BY <2>0, <3>1, AppliedIs
  <2>2. E = [D EXCEPT ![c] = e]
    BY <1>3 DEF Docs!Land
  <2>. HIDE DEF e, E
  <2>3. E \in [Docs!Cycles -> [Docs!Sections -> DocSection]] /\ \A d \in Docs!Cycles : E[d] = IF d = c THEN e ELSE D[d]
    BY <1>3, <2>0, <2>1, <2>2
  <2>4. \A d \in Docs!Cycles, t \in Docs!Sections : Lands(D[d][t], E[d][t], t)
    BY <2>1, <2>3 DEF Lands
  <2>5. Shapely(E)
    BY <2>1, <2>3 DEF Shapely, DocFiles
  <2>. QED  BY <1>3, <2>3, <2>4, <2>5 DEF E
<1>4. body = {} \/ c = 0 \/ c \in broken => E = D
  BY DEF Docs!Land
<1>. QED  BY <1>1, <1>2, <1>3, <1>4

LEMMA LandElsewhere ==
  ASSUME NEW D, Shapely(D), NEW c, NEW s, NEW body, NEW d \in Docs!Cycles, d # c \/ body = {} \/ c \in broken
  PROVE  Docs!Land(D, c, s, body)[d] = D[d]
BY DEF Docs!Land, Shapely, DocFiles

LEMMA RunEndsKeeps == ASSUME DocsInv, NEW j \in Jobs, Docs!RunEnds(j) PROVE DocsInv' /\ DocsStep
<1>0. DocJob(jobs[j]) /\ jobs[j].kind = "run"
  BY DEF DocsInv, Docs!RunEnds
<1>1. jobs[j].target \in Docs!Cycles /\ jobs[j].reviewed \in files \union {0}
  BY <1>0 DEF DocJob, Docs!Idle
<1>2. PICK chosen \in Docs!Plans \union {{}}, text \in Docs!Drafted \union {{}} :
        LET review == IF jobs[j].only THEN {} ELSE text
        IN /\ docs' = Docs!Land(Docs!Land(docs, jobs[j].target, "priorities", chosen), jobs[j].reviewed, "review", review)
           /\ files' = files \union {c \in {jobs[j].target} : chosen # {} /\ c \notin broken}
           /\ reflections' \in {reflections} \union
                {[reflections EXCEPT ![c] = "run"] : c \in {jobs[j].reviewed} \ {0}}
  BY DEF Docs!RunEnds
<1>3. PICK t, r, review : /\ t = jobs[j].target /\ r = jobs[j].reviewed
                          /\ review = IF jobs[j].only THEN {} ELSE text
  OBVIOUS
<1>4. PICK D : D = Docs!Land(docs, t, "priorities", chosen)
  OBVIOUS
<1>5. PICK E : E = Docs!Land(D, r, "review", review)
  OBVIOUS
<1>6. chosen \in SUBSET Docs!Line /\ review \in SUBSET Docs!Line
  BY <1>3, LineFacts
<1>7. Shapely(docs)
  BY DEF Shapely, DocsInv, Docs!DraftBesideKept
<1>8. /\ Shapely(D) /\ \A d \in Docs!Cycles, s \in Docs!Sections : Lands(docs[d][s], D[d][s], s)
      /\ \A d \in Docs!Cycles : d # t \/ chosen = {} \/ t \in broken => D[d] = docs[d]
  <2>1. Shapely(Docs!Land(docs, t, "priorities", chosen))
    BY <1>6, <1>7, LandKeeps
  <2>2. \A d \in Docs!Cycles, s \in Docs!Sections :
          Lands(docs[d][s], Docs!Land(docs, t, "priorities", chosen)[d][s], s)
    BY <1>6, <1>7, LandKeeps
  <2>3. \A d \in Docs!Cycles : d # t \/ chosen = {} \/ t \in broken => Docs!Land(docs, t, "priorities", chosen)[d] = docs[d]
    BY <1>7, LandElsewhere
  <2>. QED  BY <1>4, <2>1, <2>2, <2>3
<1>9. /\ Shapely(E) /\ \A d \in Docs!Cycles, s \in Docs!Sections : Lands(D[d][s], E[d][s], s)
      /\ \A d \in Docs!Cycles : d # r => E[d] = D[d]
  <2>1. Shapely(Docs!Land(D, r, "review", review))
    BY <1>6, <1>8, LandKeeps
  <2>2. \A d \in Docs!Cycles, s \in Docs!Sections :
          Lands(D[d][s], Docs!Land(D, r, "review", review)[d][s], s)
    BY <1>6, <1>8, LandKeeps
  <2>3. \A d \in Docs!Cycles : d # r => Docs!Land(D, r, "review", review)[d] = D[d]
    BY <1>8, LandElsewhere
  <2>. QED  BY <1>5, <2>1, <2>2, <2>3
<1>10. docs' = E
  BY <1>2, <1>3, <1>4, <1>5
<1>11. files' \in SUBSET Docs!Cycles /\ files \in SUBSET files' /\ files' = files \union {c \in {t} : chosen # {} /\ c \notin broken}
  BY <1>1, <1>2, <1>3 DEF DocsInv
<1>12. reflections' \in [Docs!Cycles -> {"none", "run", "review"}]
  <2>1. reflections \in [Docs!Cycles -> {"none", "run", "review"}]
    BY DEF DocsInv
  <2>2. \A c : [reflections EXCEPT ![c] = "run"] \in [Docs!Cycles -> {"none", "run", "review"}]
    BY <2>1
  <2>3. reflections' = reflections \/ \E c : reflections' = [reflections EXCEPT ![c] = "run"]
    BY <1>2
  <2>. QED  BY <2>1, <2>2, <2>3
<1>13. UNCHANGED <<now, broken, left>> /\ jobs' = [jobs EXCEPT ![j] = Docs!Idle]
  BY DEF Docs!RunEnds
<1>14. DOMAIN jobs' = Jobs /\ \A k \in Jobs : DocJob(jobs[k])'
  BY <1>11, <1>13, IdleJob, JobsKeep
<1>15. r \in files \union {0} /\ t \in Docs!Cycles
  BY <1>1, <1>3
<1>16. \A d \in Docs!Cycles, s \in Docs!Sections : Lands(docs[d][s], docs'[d][s], s)
  BY <1>8, <1>9, <1>10, LandsTwice
<1>17. \A c \in Docs!Cycles, s \in Docs!Sections : c \notin files' => docs'[c][s] = Docs!Unwritten
  <2>. SUFFICES ASSUME NEW c \in Docs!Cycles, NEW s \in Docs!Sections, c \notin files' PROVE docs'[c][s] = Docs!Unwritten
    OBVIOUS
  <2>1. c \notin files /\ (c = t => chosen = {} \/ t \in broken)
    BY <1>11
  <2>2. docs[c][s] = Docs!Unwritten /\ c \notin broken /\ c # 0
    BY <2>1, CyclesAssumption DEF DocsInv, Docs!Cycles
  <2>3. D[c] = docs[c] /\ c # r
    BY <1>8, <1>15, <2>1, <2>2
  <2>. QED  BY <1>9, <1>10, <2>2, <2>3
<1>18. DocsInv'
  <2>1. docs' \in DocFiles /\ Docs!DraftBesideKept'
    BY <1>9, <1>10 DEF Shapely, Docs!DraftBesideKept
  <2>2. now' \in Docs!Cycles /\ files' # {} /\ broken' \in SUBSET files' /\ left' \in Docs!Load
    BY <1>11, <1>13 DEF DocsInv
  <2>. QED  BY <1>11, <1>12, <1>14, <1>17, <2>1, <2>2 DEF DocsInv, DocFiles
<1>19. DocsStep
  BY <1>16 DEF DocsStep, Docs!KeepsOwnedWords, Docs!KeepsDraft, Lands
<1>. QED  BY <1>18, <1>19

\* The answer about the section of one cycle.
LEMMA AnswerKeeps ==
  ASSUME DocsInv, NEW j \in Jobs, NEW c \in files, NEW s \in Docs!Sections, NEW x \in DocSection,
         docs' = [docs EXCEPT ![c] = Put(@, s, x)], UNCHANGED <<now, files, broken, reflections, left>>,
         x.draft # Docs!NoDraft => Docs!Kept(x, s),
         \/ s = "review" /\ Docs!Answered({"review"}, c)
         \/ s = "priorities" /\ Docs!Answered({"promote", "refile"}, c) /\ x.draft = docs[c][s].draft,
         DOMAIN jobs' = Jobs /\ \A k \in Jobs : DocJob(jobs[k])'
  PROVE  DocsInv' /\ DocsStep
<1>1. reflections' \in [Docs!Cycles -> {"none", "run", "review"}] /\ left' \in Docs!Load /\ c \in Docs!Cycles
  BY DEF DocsInv
<1>2. DocsInv'
  BY <1>1, WritingKeeps
<1>3. files' \in SUBSET Docs!Cycles /\ files \in SUBSET files'
  BY DEF DocsInv
<1>4. \A d \in Docs!Cycles, t \in Docs!Sections : docs'[d][t] = IF d = c /\ t = s THEN x ELSE docs[d][t]
  BY <1>3, DocsEffect
<1>5. docs'[c][s] = x
  BY <1>1, <1>4
<1>. QED  BY <1>1, <1>2, <1>4, <1>5, OneSection

LEMMA ReviewEndsKeeps == ASSUME DocsInv, NEW j \in Jobs, Docs!ReviewEnds(j) PROVE DocsInv' /\ DocsStep
<1>. DEFINE entry == jobs[j]
            c == entry.cycle
<1>0. DocJob(entry) /\ entry.kind = "review"
  BY DEF DocsInv, Docs!ReviewEnds
<1>1. c \in files
  BY <1>0 DEF DocJob, Docs!Idle
<1>2. PICK next : next = [kind |-> "diagnosis", cycle |-> c]
  OBVIOUS
<1>3. jobs' = [jobs EXCEPT ![j] = next] /\ UNCHANGED <<now, files, broken, reflections, left>>
  BY <1>2 DEF Docs!ReviewEnds
<1>4. DocJob(next)'
  BY <1>1, <1>2, <1>3 DEF DocJob
<1>5. DOMAIN jobs' = Jobs /\ \A k \in Jobs : DocJob(jobs[k])'
  <2>1. files \in SUBSET files'
    BY <1>3
  <2>. QED  BY <1>3, <1>4, <2>1, JobsKeep
<1>6. Docs!Answered({"review"}, c)
  <2>1. jobs'[j] = next /\ next.kind = "diagnosis" /\ DOMAIN jobs = Jobs
    BY <1>2, <1>3 DEF DocsInv
  <2>. QED  BY <1>0, <2>1 DEF Docs!Answered
<1>7. PICK text \in Docs!Drafted :
        docs' = IF Docs!Writable(c) THEN [docs EXCEPT ![c] = Docs!Written(@, "review", text, "ai", FALSE)] ELSE docs
  BY DEF Docs!ReviewEnds
<1>8. CASE docs' = docs
  <2>1. /\ now' \in Docs!Cycles /\ files' \in SUBSET Docs!Cycles /\ files \in SUBSET files' /\ broken' \in SUBSET files'
        /\ reflections' \in [Docs!Cycles -> {"none", "run", "review"}] /\ left' \in Docs!Load
    BY <1>3 DEF DocsInv
  <2>. QED  BY <1>5, <1>8, <2>1, UnwrittenKeeps
<1>9. CASE docs' = [docs EXCEPT ![c] = Docs!Written(@, "review", text, "ai", FALSE)]
  <2>1. PICK x : x = SectionOf(text, "ai", Docs!NoDraft)
    OBVIOUS
  <2>2. docs[c] \in [Docs!Sections -> DocSection] /\ text \in SUBSET Docs!Line /\ "review" \in Docs!Sections
    BY <1>1, LineFacts DEF DocsInv, DocFiles, Docs!Sections
  <2>3. x \in DocSection /\ Docs!Written(docs[c], "review", text, "ai", FALSE) = Put(docs[c], "review", x)
    <3>. HIDE DEF c
    <3>. QED  BY <2>1, <2>2, WrittenIs
  <2>4. docs' = [docs EXCEPT ![c] = Put(@, "review", x)]
    BY <1>9, <2>3
  <2>5. x.draft = Docs!NoDraft
    BY <2>1, SectionIs
  <2>. HIDE DEF c
  <2>. QED  BY <1>1, <1>3, <1>5, <1>6, <2>2, <2>3, <2>4, <2>5, AnswerKeeps
<1>. QED  BY <1>7, <1>8, <1>9

\* What files a line leaves the words to the user, and the draft where it is.
LEMMA FilingKeeps ==
  ASSUME DocsInv, NEW j \in Jobs, NEW c \in files, NEW body \in SUBSET Docs!Line,
         jobs[j].kind \in {"promote", "refile"}, jobs[j].cycle = c, jobs' = [jobs EXCEPT ![j] = Docs!Idle],
         UNCHANGED <<now, files, broken, reflections, left>>, docs' = docs \/ docs' = Docs!Refiled(c, body)
  PROVE  DocsInv' /\ DocsStep
<1>1. DOMAIN jobs' = Jobs /\ \A k \in Jobs : DocJob(jobs[k])'
  <2>1. files \in SUBSET files'
    OBVIOUS
  <2>. QED  BY <2>1, IdleJob, JobsKeep
<1>2. Docs!Answered({"promote", "refile"}, c)
  <2>1. jobs'[j].kind = "idle"
    BY DEF DocsInv, Docs!Idle
  <2>. QED  BY <2>1 DEF Docs!Answered
<1>3. CASE docs' = docs
  <2>1. /\ now' \in Docs!Cycles /\ files' \in SUBSET Docs!Cycles /\ files \in SUBSET files' /\ broken' \in SUBSET files'
        /\ reflections' \in [Docs!Cycles -> {"none", "run", "review"}] /\ left' \in Docs!Load
    BY DEF DocsInv
  <2>. QED  BY <1>1, <1>3, <2>1, UnwrittenKeeps
<1>4. CASE docs' = Docs!Refiled(c, body)
  <2>1. PICK x : x = SectionOf(body, "user", docs[c]["priorities"].draft)
    OBVIOUS
  <2>2. docs[c] \in [Docs!Sections -> DocSection] /\ "priorities" \in Docs!Sections
    BY DEF DocsInv, DocFiles, Docs!Sections
  <2>3. x \in DocSection /\ Docs!Written(docs[c], "priorities", body, "user", TRUE) = Put(docs[c], "priorities", x)
    BY <2>1, <2>2, WrittenIs
  <2>4. docs' = [docs EXCEPT ![c] = Put(@, "priorities", x)]
    BY <1>4, <2>3 DEF Docs!Refiled
  <2>5. x.draft = docs[c]["priorities"].draft /\ x.by = "user"
    BY <2>1, SectionIs
  <2>6. Docs!Kept(x, "priorities")
    BY <2>5 DEF Docs!Kept
  <2>. QED  BY <1>1, <1>2, <2>2, <2>3, <2>4, <2>5, <2>6, AnswerKeeps
<1>. QED  BY <1>3, <1>4

LEMMA LineEndsKeeps ==
  ASSUME DocsInv, NEW j \in Jobs, Docs!PromoteEnds(j) \/ Docs!RefileEnds(j) PROVE DocsInv' /\ DocsStep
<1>. DEFINE r == jobs[j]
<1>0. DocJob(r) /\ r.kind \in {"promote", "refile"}
  BY DEF DocsInv, Docs!PromoteEnds, Docs!RefileEnds
<1>1. r.cycle \in files /\ r.seen \in SUBSET Docs!Line /\ (r.kind = "promote" => r.what \in Things)
  BY <1>0 DEF DocJob, Docs!Idle
<1>2. jobs' = [jobs EXCEPT ![j] = Docs!Idle] /\ UNCHANGED <<now, files, broken, reflections, left>>
  BY DEF Docs!PromoteEnds, Docs!RefileEnds
<1>3. \E body \in SUBSET Docs!Line : docs' = docs \/ docs' = Docs!Refiled(r.cycle, body)
  <2>0. {} \in SUBSET Docs!Line /\ \A l \in r.seen : l.at \in Docs!Groups \union {"pen"}
    BY <1>1 DEF Docs!Line
  <2>1. CASE docs' = docs
    BY <2>0, <2>1
  <2>2. ASSUME NEW g \in {l.at : l \in r.seen} \union {"pen"}, r.kind = "promote",
               docs' = Docs!Refiled(r.cycle, r.seen \union {Docs!Item(r.what, g)})
        PROVE  \E body \in SUBSET Docs!Line : docs' = Docs!Refiled(r.cycle, body)
    <3>1. Docs!Item(r.what, g) \in Docs!Line
      BY <1>1, <2>0, <2>2, LineFacts
    <3>2. r.seen \union {Docs!Item(r.what, g)} \in SUBSET Docs!Line
      BY <1>1, <3>1
    <3>. QED  BY <2>2, <3>2
  <2>3. ASSUME NEW picked \in SUBSET r.seen, NEW g \in {l.at : l \in r.seen},
               docs' = Docs!Refiled(r.cycle, (r.seen \ picked) \union {[l EXCEPT !.at = g] : l \in picked})
        PROVE  \E body \in SUBSET Docs!Line : docs' = Docs!Refiled(r.cycle, body)
    <3>1. \A l \in picked : [l EXCEPT !.at = g] \in Docs!Line
      BY <1>1, <2>0, <2>3, LineFacts
    <3>2. (r.seen \ picked) \union {[l EXCEPT !.at = g] : l \in picked} \in SUBSET Docs!Line
      BY <1>1, <3>1
    <3>. QED  BY <2>3, <3>2
  <2>4. CASE Docs!PromoteEnds(j)
    BY <2>1, <2>2, <2>4 DEF Docs!PromoteEnds
  <2>5. CASE Docs!RefileEnds(j)
    <3>1. CASE docs' # docs
      <4>1. PICK picked \in SUBSET {l \in r.seen : l.at = "pen"} \ {{}},
                 g \in {l.at : l \in r.seen \ {l \in r.seen : l.at = "pen"}} :
              docs' = Docs!Refiled(r.cycle, (r.seen \ picked) \union {[l EXCEPT !.at = g] : l \in picked})
        BY <2>5, <3>1 DEF Docs!RefileEnds
      <4>2. picked \in SUBSET r.seen /\ g \in {l.at : l \in r.seen}
        OBVIOUS
      <4>. QED  BY <2>3, <4>1, <4>2
    <3>. QED  BY <2>1, <3>1
  <2>. QED  BY <2>4, <2>5
<1>4. PICK body \in SUBSET Docs!Line : docs' = docs \/ docs' = Docs!Refiled(r.cycle, body)
  BY <1>3
<1>. QED  BY <1>0, <1>1, <1>2, <1>4, FilingKeeps

\* The daily step with Linear: the text is kept in shape, and who wrote it stays.
LEMMA SteppedLines ==
  ASSUME NEW body \in SUBSET Docs!Line, NEW started \in SUBSET Issues, NEW completed,
         NEW next \in Docs!Stepped(body, started, completed)
  PROVE  next \in SUBSET Docs!Line
<1>. DEFINE ticked == {IF l.what \in completed THEN [l EXCEPT !.done = TRUE] ELSE l : l \in body}
            new == started \ Docs!Named(body)
            opened(g) == {Docs!Item(t, g) : t \in new}
<1>1. ticked \in SUBSET Docs!Line
  <2>1. \A l \in body : l \in Docs!Line /\ [l EXCEPT !.done = TRUE] \in Docs!Line
    BY LineFacts DEF Docs!Groups
  <2>. QED  BY <2>1
<1>2. \A g \in Docs!WorkHeadings(body) : opened(g) \in SUBSET Docs!Line
  <2>1. Docs!WorkHeadings(body) \subseteq Docs!Groups
    BY DEF Docs!WorkHeadings, Docs!Groups
  <2>2. ASSUME NEW g \in Docs!WorkHeadings(body), NEW t \in new PROVE Docs!Item(t, g) \in Docs!Line
    <3>1. t \in Things \union Docs!Texts /\ g \in Docs!Groups \union {"pen"}
      BY <2>1, <2>2, ThingsAssumption
    <3>. QED  BY <3>1, LineFacts
  <2>. QED  BY <2>2
<1>3. next = ticked \/ \E g \in Docs!WorkHeadings(body) : next = ticked \union opened(g)
  BY DEF Docs!Stepped
<1>. HIDE DEF ticked, opened
<1>. QED  BY <1>1, <1>2, <1>3

LEMMA SyncKeeps ==
  ASSUME DocsInv, NEW started \in SUBSET Issues, NEW completed \in SUBSET Issues, Docs!SyncLinear(started, completed)
  PROVE  DocsInv' /\ DocsStep
<1>1. now \in files /\ left' \in Docs!Load /\ left' # left /\ left'.syncs < left.syncs
      /\ UNCHANGED <<now, files, broken, reflections, jobs>>
  BY Spent DEF Docs!SyncLinear, Docs!Writable
<1>2. PICK text \in Docs!Stepped(Docs!Priorities(now), started, completed) :
        docs' = [docs EXCEPT ![now] = Docs!Written(@, "priorities", text, @["priorities"].by, TRUE)]
  BY DEF Docs!SyncLinear
<1>3. now \in Docs!Cycles /\ "priorities" \in Docs!Sections /\ docs[now] \in [Docs!Sections -> DocSection]
      /\ docs[now]["priorities"].by \in {"unset", "user", "planner", "ai"}
  <2>1. "priorities" \in Docs!Sections /\ now \in Docs!Cycles
    BY DEF Docs!Sections, DocsInv
  <2>. QED  BY <2>1, Shaped DEF DocsInv, DocFiles
<1>4. text \in SUBSET Docs!Line
  <2>1. Docs!Priorities(now) \in SUBSET Docs!Line
    BY <1>3, Shaped DEF Docs!Priorities
  <2>. QED  BY <1>2, <2>1, SteppedLines
<1>5. PICK c, s, by, draft : c = now /\ s = "priorities" /\ by = docs[c][s].by /\ draft = docs[c][s].draft
  OBVIOUS
<1>6. PICK x : x = SectionOf(text, by, draft)
  OBVIOUS
<1>7. x \in DocSection /\ Docs!Written(docs[c], s, text, by, TRUE) = Put(docs[c], s, x)
  BY <1>3, <1>4, <1>5, <1>6, WrittenIs
<1>8. docs' = [docs EXCEPT ![c] = Put(@, s, x)]
  BY <1>2, <1>5, <1>7
<1>9. x.by = by /\ x.draft = draft
  BY <1>6, SectionIs
<1>10. x.draft # Docs!NoDraft => Docs!Kept(x, s)
  <2>1. draft # Docs!NoDraft => Docs!Kept(docs[c][s], s)
    BY <1>3, <1>5, Shaped
  <2>. QED  BY <1>5, <1>9, <2>1 DEF Docs!Kept
<1>11. DocsInv'
  <2>1. reflections' \in [Docs!Cycles -> {"none", "run", "review"}]
    BY <1>1 DEF DocsInv
  <2>. QED  BY <1>1, <1>3, <1>5, <1>7, <1>8, <1>10, <2>1, JobsAlone, WritingKeeps
<1>12. \A d \in Docs!Cycles, t \in Docs!Sections : docs'[d][t] = IF d = c /\ t = s THEN x ELSE docs[d][t]
  <2>1. docs \in [Docs!Cycles -> [Docs!Sections -> DocSection]]
    BY DEF DocsInv, DocFiles
  <2>. QED  BY <1>3, <1>5, <1>8, <2>1 DEF Put
<1>13. docs'[c][s] = x /\ c \in Docs!Cycles /\ s \in Docs!Sections
  BY <1>3, <1>5, <1>12
<1>. QED  BY <1>1, <1>5, <1>9, <1>11, <1>12, <1>13, OneSection

LEMMA DocsNext == DocsInv /\ [Docs!Next]_Docs!vars => DocsInv' /\ DocsStep
<1>. SUFFICES ASSUME DocsInv, [Docs!Next]_Docs!vars PROVE DocsInv' /\ DocsStep
  OBVIOUS
<1>1. CASE UNCHANGED Docs!vars
  <2>1. UNCHANGED <<now, files, broken, docs, reflections, jobs, left>>
    BY <1>1 DEF Docs!vars
  <2>2. /\ now' \in Docs!Cycles /\ files' \in SUBSET Docs!Cycles /\ files \in SUBSET files' /\ broken' \in SUBSET files'
        /\ reflections' \in [Docs!Cycles -> {"none", "run", "review"}] /\ left' \in Docs!Load
    BY <2>1 DEF DocsInv
  <2>. QED  BY <2>1, <2>2, JobsAlone, UnwrittenKeeps
<1>2. ASSUME NEW c \in Docs!Cycles, NEW s \in Docs!Sections, Docs!UserActs(c, s) PROVE DocsInv' /\ DocsStep
  BY <1>2, SaveKeeps, DecideKeeps DEF Docs!UserActs
<1>3. ASSUME NEW j \in Jobs, Docs!Create(j) \/ Docs!Replan(j) \/ Docs!JobEnds(j) \/ Docs!JobFails(j)
      PROVE  DocsInv' /\ DocsStep
  BY <1>3, CreateKeeps, RunEndsKeeps, ReviewEndsKeeps, LineEndsKeeps, FaultKeeps DEF Docs!JobEnds
<1>4. ASSUME NEW j \in Jobs, NEW c \in Docs!Cycles,
             \/ Docs!Close(c, j) \/ Docs!Refile(c, j)
             \/ \E replace \in BOOLEAN : Docs!AskReview(c, replace, j)
             \/ \E t \in Captured : Docs!Promote(c, t, j)
      PROVE  DocsInv' /\ DocsStep
  BY <1>4, CloseKeeps, AskKeeps
<1>5. ASSUME NEW started \in SUBSET Issues, NEW completed \in SUBSET Issues, Docs!SyncLinear(started, completed)
      PROVE  DocsInv' /\ DocsStep
  BY <1>5, SyncKeeps
<1>6. CASE Docs!NextCycle \/ Docs!Crash \/ \E c \in Docs!Cycles : Docs!BreakByHand(c) \/ Docs!RepairByHand(c)
  BY <1>6, FaultKeeps
<1>. QED  BY <1>1, <1>2, <1>3, <1>4, <1>5, <1>6 DEF Docs!Next

LEMMA DocsHold == DocsInv => Docs!TypeOK /\ Docs!DraftBesideKept
<1>. SUFFICES ASSUME DocsInv PROVE Docs!TypeOK /\ Docs!DraftBesideKept
  OBVIOUS
<1>1. ASSUME NEW c \in Docs!Cycles, NEW s \in Docs!Sections
      PROVE  LET x == docs[c][s]
             IN /\ x.body \subseteq Docs!Line /\ x.by \in {"unset", "user", "planner", "ai"}
                /\ x.draft.body \subseteq Docs!Line /\ x.draft.by \in {"none", "planner", "ai"}
                /\ c \notin files => x = Docs!Unwritten
  <2>1. c \notin files => docs[c][s] = Docs!Unwritten
    BY DEF DocsInv
  <2>. QED  BY <2>1, Shaped DEF Docs!NoDraft
<1>2. ASSUME NEW j \in Jobs
      PROVE  jobs[j].kind \in {"idle", "run", "review", "diagnosis", "promote", "refile"}
  <2>1. DocJob(jobs[j])
    BY DEF DocsInv
  <2>. QED  BY <2>1 DEF DocJob, Docs!Idle
<1>. QED  BY <1>1, <1>2 DEF DocsInv, Docs!TypeOK

\* A pass of the migration puts beside what it may not replace (cycles/migration.ts).
PastShape ==
  /\ DOMAIN archive = Past!Owners
  /\ \A o \in Past!Owners : /\ DOMAIN archive[o] = Past!Cycles
                            /\ \A c \in Past!Cycles :
                                 /\ DOMAIN archive[o][c] = Past!Sections
                                 /\ \A s \in Past!Sections :
                                      DOMAIN archive[o][c][s] = {"content", "source", "draft", "there"}

Fields == {"content", "source", "draft", "there"}

LEMMA MergedIs ==
  ASSUME NEW s, NEW stored, DOMAIN stored = Fields, NEW content
  PROVE  /\ DOMAIN Past!Merged(s, stored, content) = Fields
         /\ stored.there /\ Past!Kept(s, stored) => Past!Merged(s, stored, content).content = stored.content
<1>1. CASE stored.there /\ Past!Kept(s, stored) /\ stored.content # content
  <2>1. Past!Merged(s, stored, content) = [stored EXCEPT !.draft = content]
    BY <1>1 DEF Past!Merged
  <2>. QED  BY <1>1, <2>1 DEF Fields
<1>2. CASE ~(stored.there /\ Past!Kept(s, stored) /\ stored.content # content) /\ stored.there /\ stored.content = content
  <2>1. Past!Merged(s, stored, content) = stored
    BY <1>2 DEF Past!Merged
  <2>. QED  BY <1>2, <2>1
<1>3. CASE /\ ~(stored.there /\ Past!Kept(s, stored) /\ stored.content # content)
           /\ ~(stored.there /\ stored.content = content)
  <2>1. Past!Merged(s, stored, content)
          = [content |-> content, source |-> Past!SourceFor(s), draft |-> Past!Nothing, there |-> TRUE]
    BY <1>3 DEF Past!Merged
  <2>. QED  BY <1>3, <2>1 DEF Fields
<1>. QED  BY <1>1, <1>2, <1>3

LEMMA AppliedKeepsWords ==
  ASSUME NEW p, NEW d, DOMAIN d = Past!Sections, \A s \in Past!Sections : DOMAIN d[s] = Fields
  PROVE  /\ DOMAIN Past!Applied(p, d) = Past!Sections
         /\ \A s \in Past!Sections : /\ DOMAIN Past!Applied(p, d)[s] = Fields
                                     /\ d[s].there /\ Past!Kept(s, d[s]) => Past!Applied(p, d)[s].content = d[s].content
<1>1. DOMAIN Past!Applied(p, d) = Past!Sections
  BY DEF Past!Applied
<1>2. ASSUME NEW s \in Past!Sections
      PROVE  /\ DOMAIN Past!Applied(p, d)[s] = Fields
             /\ d[s].there /\ Past!Kept(s, d[s]) => Past!Applied(p, d)[s].content = d[s].content
  <2>1. Past!Applied(p, d)[s] = d[s] \/ Past!Applied(p, d)[s] = Past!Merged(s, d[s], p.sections[s])
    BY DEF Past!Applied
  <2>2. DOMAIN d[s] = Fields
    OBVIOUS
  <2>3. PICK stored, text : stored = d[s] /\ text = p.sections[s]
    OBVIOUS
  <2>4. CASE Past!Applied(p, d)[s] = d[s]
    BY <2>2, <2>4
  <2>5. CASE Past!Applied(p, d)[s] = Past!Merged(s, stored, text)
    <3>1. DOMAIN stored = Fields
      BY <2>2, <2>3
    <3>2. /\ DOMAIN Past!Merged(s, stored, text) = Fields
          /\ stored.there /\ Past!Kept(s, stored) => Past!Merged(s, stored, text).content = stored.content
      BY <3>1, MergedIs
    <3>. QED  BY <2>3, <2>5, <3>2
  <2>. QED  BY <2>1, <2>3, <2>4, <2>5
<1>. QED  BY <1>1, <1>2

LEMMA PastInit == Past!Init => PastShape
<1>. SUFFICES ASSUME Past!Init PROVE PastShape
  OBVIOUS
<1>1. archive = [o \in Past!Owners |-> [c \in Past!Cycles |-> [s \in Past!Sections |-> Past!NoSection]]]
  BY DEF Past!Init, Past!Blank
<1>2. DOMAIN Past!NoSection = Fields
  BY DEF Past!NoSection, Fields
<1>. QED  BY <1>1, <1>2 DEF PastShape, Fields

\* One file of the archive is replaced by another of the same shape.
LEMMA ShapeStays ==
  ASSUME PastShape, NEW o \in Past!Owners, NEW c \in Past!Cycles, NEW d,
         DOMAIN d = Past!Sections, \A s \in Past!Sections : DOMAIN d[s] = Fields,
         archive' = [archive EXCEPT ![o][c] = d]
  PROVE  /\ PastShape'
         /\ \A p \in Past!Owners, e \in Past!Cycles : archive'[p][e] = IF p = o /\ e = c THEN d ELSE archive[p][e]
<1>1. DOMAIN archive = Past!Owners /\ \A p \in Past!Owners : DOMAIN archive[p] = Past!Cycles
  BY DEF PastShape
<1>2. DOMAIN archive' = Past!Owners /\ \A p \in Past!Owners : DOMAIN archive'[p] = Past!Cycles
  BY <1>1
<1>3. \A p \in Past!Owners, e \in Past!Cycles : archive'[p][e] = IF p = o /\ e = c THEN d ELSE archive[p][e]
  BY <1>1
<1>. QED  BY <1>2, <1>3 DEF PastShape, Fields

\* The user writes a section of his own file.
LEMMA UserShape ==
  ASSUME PastShape, NEW c \in Past!Cycles, NEW s \in Past!Sections, NEW x, DOMAIN x = Fields,
         archive' = [archive EXCEPT !.self[c][s] = x]
  PROVE  PastShape'
<1>. DEFINE d == [archive["self"][c] EXCEPT ![s] = x]
<1>1. "self" \in Past!Owners /\ DOMAIN archive["self"][c] = Past!Sections
      /\ \A t \in Past!Sections : DOMAIN archive["self"][c][t] = Fields
  BY DEF PastShape, Past!Owners, Fields
<1>2. DOMAIN d = Past!Sections /\ \A t \in Past!Sections : DOMAIN d[t] = Fields
  BY <1>1
<1>3. archive' = [archive EXCEPT !["self"][c] = d]
  OBVIOUS
<1>. HIDE DEF d
<1>. QED  BY <1>1, <1>2, <1>3, ShapeStays

LEMMA PutKeepsWords == ASSUME PastShape, Past!Put PROVE PastShape' /\ Past!KeepsWords
<1>. DEFINE p == CHOOSE q \in pass.plans : \A r \in pass.plans \ {q} : Past!Before(q, r)
            readable == ~(p.owner = "self" /\ p.cycle \in torn)
<1>1. archive' = IF readable THEN [archive EXCEPT ![p.owner][p.cycle] = Past!Applied(p, @)] ELSE archive
  BY DEF Past!Put
<1>2. CASE archive' = archive
  BY <1>2 DEF PastShape, Past!KeepsWords
<1>3. PICK q, o, c : q = p /\ o = q.owner /\ c = q.cycle
  OBVIOUS
<1>4. CASE archive' = [archive EXCEPT ![o][c] = Past!Applied(q, @)]
  <2>1. CASE o \in Past!Owners /\ c \in Past!Cycles
    <3>1. PICK d : d = Past!Applied(q, archive[o][c])
      OBVIOUS
    <3>2. DOMAIN archive[o][c] = Past!Sections /\ \A s \in Past!Sections : DOMAIN archive[o][c][s] = Fields
      BY <2>1 DEF PastShape, Fields
    <3>3. /\ DOMAIN d = Past!Sections
          /\ \A s \in Past!Sections :
               /\ DOMAIN d[s] = Fields
               /\ archive[o][c][s].there /\ Past!Kept(s, archive[o][c][s]) => d[s].content = archive[o][c][s].content
      BY <3>1, <3>2, AppliedKeepsWords
    <3>4. archive' = [archive EXCEPT ![o][c] = d]
      BY <1>4, <3>1
    <3>5. PastShape' /\ \A e \in Past!Owners, f \in Past!Cycles :
                          archive'[e][f] = IF e = o /\ f = c THEN d ELSE archive[e][f]
      <4>1. DOMAIN d = Past!Sections /\ \A s \in Past!Sections : DOMAIN d[s] = Fields
        BY <3>3
      <4>2. PastShape'
        BY <2>1, <3>4, <4>1, ShapeStays
      <4>3. DOMAIN archive = Past!Owners /\ \A e \in Past!Owners : DOMAIN archive[e] = Past!Cycles
        BY DEF PastShape
      <4>4. \A e \in Past!Owners, f \in Past!Cycles :
              archive'[e][f] = IF e = o /\ f = c THEN d ELSE archive[e][f]
        BY <2>1, <3>4, <4>3
      <4>. QED  BY <4>2, <4>4
    <3>6. Past!KeepsWords
      BY <3>3, <3>5 DEF Past!KeepsWords, Past!Kept
    <3>. QED  BY <3>5, <3>6
  <2>2. CASE o \notin Past!Owners \/ c \notin Past!Cycles
    <3>1. DOMAIN archive = Past!Owners /\ \A e \in Past!Owners : DOMAIN archive[e] = Past!Cycles
      BY DEF PastShape
    <3>2. DOMAIN archive' = Past!Owners /\ \A e \in Past!Owners : DOMAIN archive'[e] = Past!Cycles
      BY <1>4, <3>1
    <3>3. \A e \in Past!Owners, f \in Past!Cycles : archive'[e][f] = archive[e][f]
      BY <1>4, <2>2, <3>1
    <3>. QED  BY <3>2, <3>3 DEF PastShape, Past!KeepsWords
  <2>. QED  BY <2>1, <2>2
<1>. QED  BY <1>1, <1>2, <1>3, <1>4

LEMMA PastNext == PastShape /\ [Past!Next]_Past!vars => PastShape' /\ Past!KeepsWords
<1>. SUFFICES ASSUME PastShape, [Past!Next]_Past!vars PROVE PastShape' /\ Past!KeepsWords
  OBVIOUS
<1>1. ASSUME pass'.plans = pass.plans \/ pass.pc # "files" PROVE Past!KeepsWords
  BY <1>1 DEF Past!KeepsWords
<1>2. ASSUME archive' = archive PROVE PastShape'
  BY <1>2 DEF PastShape
<1>3. CASE UNCHANGED Past!vars \/ Past!PlannerRuns \/ Past!WritesRetro \/ Past!Tears
  BY <1>1, <1>2, <1>3 DEF Past!vars, Past!PlannerRuns, Past!WritesRetro, Past!Tears
<1>4. CASE Past!Start \/ Past!Plan \/ Past!End
  <2>1. archive' = archive /\ (pass'.plans = pass.plans \/ pass.pc # "files")
    <3>1. CASE Past!Start
      BY <3>1 DEF Past!Start, Past!Idle
    <3>2. CASE Past!Plan
      BY <3>2 DEF Past!Plan
    <3>3. CASE Past!End
      BY <3>3 DEF Past!End, Past!Idle
    <3>. QED  BY <1>4, <3>1, <3>2, <3>3
  <2>. QED  BY <1>1, <1>2, <2>1
<1>5. CASE Past!Edits
  <2>0. PICK c \in Past!Cycles, s \in Past!Sections :
          \E text : archive' = [archive EXCEPT !.self[c][s] = [content |-> text, source |-> "user", draft |-> Past!Nothing, there |-> TRUE]]
    BY <1>5 DEF Past!Edits
  <2>1. PICK text :
          archive' = [archive EXCEPT !.self[c][s] = [content |-> text, source |-> "user", draft |-> Past!Nothing, there |-> TRUE]]
    BY <2>0
  <2>2. PICK x : x = [content |-> text, source |-> "user", draft |-> Past!Nothing, there |-> TRUE]
    OBVIOUS
  <2>3. DOMAIN x = Fields
    BY <2>2 DEF Fields
  <2>4. PastShape'
    BY <2>1, <2>2, <2>3, UserShape
  <2>. QED  BY <1>1, <1>5, <2>4 DEF Past!Edits
<1>6. CASE Past!Accepts
  <2>1. PICK c \in Past!Cycles, s \in Past!Sections :
          archive' = [archive EXCEPT !.self[c][s] = [content |-> archive.self[c][s].draft, source |-> Past!SourceFor(s),
                                                     draft |-> Past!Nothing, there |-> TRUE]]
    BY <1>6 DEF Past!Accepts
  <2>2. PICK x : x = [content |-> archive.self[c][s].draft, source |-> Past!SourceFor(s), draft |-> Past!Nothing, there |-> TRUE]
    OBVIOUS
  <2>3. DOMAIN x = Fields
    BY <2>2 DEF Fields
  <2>4. PastShape'
    BY <2>1, <2>2, <2>3, UserShape
  <2>. QED  BY <1>1, <1>6, <2>4 DEF Past!Accepts
<1>7. CASE Past!Discards
  <2>1. PICK c \in Past!Cycles, s \in Past!Sections : archive' = [archive EXCEPT !.self[c][s].draft = Past!Nothing]
    BY <1>7 DEF Past!Discards
  <2>2. PICK x : x = [archive["self"][c][s] EXCEPT !.draft = Past!Nothing]
    OBVIOUS
  <2>3. DOMAIN x = Fields
    BY <2>2 DEF PastShape, Past!Owners, Fields
  <2>4. archive' = [archive EXCEPT !.self[c][s] = x]
    BY <2>1, <2>2
  <2>5. PastShape'
    BY <2>3, <2>4, UserShape
  <2>. QED  BY <1>1, <1>7, <2>5 DEF Past!Discards
<1>. QED  BY <1>3, <1>4, <1>5, <1>6, <1>7, PutKeepsWords DEF Past!Next

\* No draft of a run is beside what the next run may write over, and every step
\* leaves what the user wrote and what was drafted to the user: it is changed by what
\* the user does, by the review that is drafted, by what files or ticks a line
\* (cycles/file.ts, cycles/migration.ts, cycles/unplanned.ts, cycles/linear-sync.ts).
THEOREM DraftsAlwaysKept ==
  Docs!Spec => [](Docs!TypeOK /\ Docs!DraftBesideKept) /\ Docs!OwnedWordsKept /\ Docs!DraftWaits
<1>1. Docs!Spec => []DocsInv
  BY DocsInit, DocsNext, PTL DEF Docs!Spec
<1>2. DocsInv /\ [Docs!Next]_Docs!vars => [Docs!KeepsOwnedWords]_Docs!vars /\ [Docs!KeepsDraft]_Docs!vars
  BY DocsNext DEF DocsStep
<1>. QED  BY <1>1, <1>2, DocsHold, PTL DEF Docs!Spec, Docs!OwnedWordsKept, Docs!DraftWaits

\* The same of the sum of the parts, of which one runs at a time, with the passes
\* of the migration.
THEOREM WordsAlwaysKept == PartsSpec => WordsKept
<1>. DEFINE Inv == (part = "docs" => DocsInv) /\ (part = "history" => PastShape)
            all == <<part, sheetVars, docVars, schedVars, scoreVars, frameVars, pastVars, keptVars, inboxVars>>
            Kept == part = "docs" => Docs!KeepsOwnedWords /\ Docs!KeepsDraft
            Past1 == part = "history" => Past!KeepsWords
<1>1. Parts => Inv
  BY DocsInit, PastInit DEF Parts
<1>2. Inv /\ [Step]_all => Inv' /\ [Kept]_docVars /\ [Past1]_pastVars
  <2>. SUFFICES ASSUME Inv, [Step]_all PROVE Inv' /\ Kept /\ Past1
    OBVIOUS
  <2>1. part' = part
    BY DEF Step
  <2>2. CASE part = "docs"
    <3>1. [Docs!Next]_Docs!vars
      BY <2>2 DEF Step, docVars, Docs!vars
    <3>. QED  BY <2>1, <2>2, <3>1, DocsNext DEF DocsStep
  <2>3. CASE part = "history"
    <3>1. [Past!Next]_Past!vars
      BY <2>3 DEF Step, pastVars, Past!vars
    <3>. QED  BY <2>1, <2>3, <3>1, PastNext
  <2>4. CASE part \notin {"docs", "history"}
    BY <2>1, <2>4
  <2>. QED  BY <2>2, <2>3, <2>4
<1>3. Inv => (part = "docs" => Docs!DraftBesideKept)
  BY DocsHold
<1>. QED  BY <1>1, <1>2, <1>3, PTL DEF PartsSpec, WordsKept

=============================================================================
