--------------------------- MODULE TelemetryProofs ---------------------------
(***************************************************************************)
(* Theorems about the ingester, for any runs, submissions, stream length,   *)
(* number of kills and combination of what can go wrong: rows are complete  *)
(* and finished submissions stay on the board.                              *)
(***************************************************************************)
EXTENDS Telemetry, SequenceTheorems, WellFoundedInduction, TLAPS

-----------------------------------------------------------------------------
(* What a step does to the list of aggregates.                             *)

\* The lists of messages and aggregates have members of their kind.
LEMMA Members ==
  ASSUME TypeOK
  PROVE  /\ Len(RUNS) \in Nat /\ Len(stream) \in Nat
         /\ \A k \in 1..Len(RUNS) : RUNS[k] \in Snapshot
         /\ \A i \in 1..Len(stream) : stream[i] \in Runs
         /\ \A i \in 1..Len(control) : control[i] \in Runs
         /\ \A i \in 1..Len(events) : events[i] \in Runs
<1>1. RUNS \in Seq(Snapshot) /\ stream \in Seq(Runs) /\ control \in Seq(Runs) /\ events \in Seq(Runs)
  BY DEF TypeOK
<1>2. Len(RUNS) \in Nat /\ Len(stream) \in Nat
  BY <1>1, LenProperties
<1>3. \A k \in 1..Len(RUNS) : RUNS[k] \in Snapshot
  BY <1>1, ElementOfSeq
<1>4. \A i \in 1..Len(stream) : stream[i] \in Runs
  BY <1>1, ElementOfSeq
<1>5. \A i \in 1..Len(control) : control[i] \in Runs
  BY <1>1, ElementOfSeq
<1>6. \A i \in 1..Len(events) : events[i] \in Runs
  BY <1>1, ElementOfSeq
<1> QED BY <1>2, <1>3, <1>4, <1>5, <1>6

\* The stream's length is a position, and None is none.
LEMMA StreamLength ==
  ASSUME TypeOK
  PROVE  Len(stream) \in 0..MaxSamples /\ None \notin 0..MaxSamples /\ Len(stream) # None
<1>1. Len(stream) \in Nat /\ Len(stream) <= MaxSamples /\ MaxSamples \in Nat
  BY Members, TelemetryAssumption DEF TypeOK
<1>2. None \notin 0..MaxSamples
  BY TelemetryAssumption
<1>3. Len(stream) \in 0..MaxSamples
  BY <1>1
<1> QED BY <1>2, <1>3

\* What is appended comes last, and the rest stays where it is.
LEMMA Appended ==
  ASSUME NEW S, NEW s \in Seq(S), NEW e \in S
  PROVE  /\ Append(s, e) \in Seq(S)
         /\ Len(s) \in Nat
         /\ Len(Append(s, e)) = Len(s) + 1
         /\ \A k \in 1..Len(s) : Append(s, e)[k] = s[k]
         /\ Append(s, e)[Len(s) + 1] = e
  BY AppendProperties, LenProperties

\* What is left of a list when its first element is taken.
LEMMA TakenFirst ==
  ASSUME NEW S, NEW s \in Seq(S), s # <<>>
  PROVE  /\ Head(s) \in S /\ Tail(s) \in Seq(S)
         /\ 1 \in 1..Len(s) /\ Head(s) = s[1]
         /\ Len(Tail(s)) = Len(s) - 1 /\ Len(s) \in Nat
         /\ \A i \in 1..Len(Tail(s)) : Tail(s)[i] = s[i + 1] /\ i + 1 \in 1..Len(s)
<1>1. /\ Head(s) = s[1] /\ Tail(s) \in Seq(S) /\ Len(Tail(s)) = Len(s) - 1
      /\ \A i \in 1..Len(Tail(s)) : Tail(s)[i] = s[i + 1]
      /\ Head(s) \in S
  BY HeadTailProperties
<1>2. Len(s) \in Nat /\ Len(s) # 0
  BY LenProperties, EmptySeq
<1> QED BY <1>1, <1>2

\* The aggregate of run r, and what the others are after agg took its place.
LEMMA LearnedRuns ==
  ASSUME TypeOK, Sent, LearnStart
  PROVE  LET r   == Head(control)
             agg == [run |-> r, sub |-> subOf[r], got |-> {}]
         IN  /\ r \in Runs /\ subOf[r] \in Subs
             /\ RUNS' \in Seq(Snapshot)
             /\ \A j, k \in 1..Len(RUNS') : RUNS'[j].run = RUNS'[k].run => j = k
             /\ Len(RUNS') >= Len(RUNS)
             /\ \A k \in 1..Len(RUNS') :
                   RUNS'[k] = agg \/ (k \in 1..Len(RUNS) /\ RUNS'[k] = RUNS[k])
             /\ \A k \in 1..Len(RUNS) :
                   RUNS'[k] = RUNS[k] \/ (RUNS[k].run = r /\ RUNS'[k] = agg)
<1> DEFINE r   == Head(control)
           agg == [run |-> r, sub |-> subOf[r], got |-> {}]
<1>1. r \in Runs /\ subOf[r] \in Subs /\ None \notin Subs
  <2>1. control \in Seq(Runs) /\ control # <<>>
    BY DEF TypeOK, LearnStart
  <2>2. r \in Runs /\ 1 \in 1..Len(control) /\ r = control[1]
    BY <2>1, TakenFirst
  <2>3. subOf[r] # None
    BY <2>2 DEF Sent
  <2> QED BY <2>2, <2>3, TelemetryAssumption DEF TypeOK
<1>2. agg \in Snapshot
  BY <1>1 DEF Snapshot, Labels
<1>3. /\ RUNS \in Seq(Snapshot) /\ Len(RUNS) \in Nat
      /\ \A j, k \in 1..Len(RUNS) : RUNS[j].run = RUNS[k].run => j = k
  BY Members DEF TypeOK
<1>4. /\ At(r) \subseteq 1..Len(RUNS)
      /\ \A k \in 1..Len(RUNS) : k \in At(r) <=> RUNS[k].run = r
  BY DEF At
<1>5. agg.run = r
  OBVIOUS
<1>6. CASE At(r) = {}
  <2>1. RUNS' = Append(RUNS, agg)
    BY <1>6 DEF LearnStart
  <2> HIDE DEF r, agg
  <2>2. /\ Append(RUNS, agg) \in Seq(Snapshot)
        /\ Len(Append(RUNS, agg)) = Len(RUNS) + 1
        /\ \A k \in 1..Len(RUNS) : Append(RUNS, agg)[k] = RUNS[k]
        /\ Append(RUNS, agg)[Len(RUNS) + 1] = agg
    BY <1>2, <1>3, Appended
  <2>3. /\ RUNS' \in Seq(Snapshot) /\ Len(RUNS') = Len(RUNS) + 1
        /\ \A k \in 1..Len(RUNS) : RUNS'[k] = RUNS[k]
        /\ RUNS'[Len(RUNS) + 1] = agg
    BY <2>1, <2>2
  <2>4. \A k \in 1..Len(RUNS') : k \in 1..Len(RUNS) \/ k = Len(RUNS) + 1
    BY <1>3, <2>3
  <2>5. \A k \in 1..Len(RUNS) : RUNS[k].run # r
    BY <1>4, <1>6
  <2>6. \A j, k \in 1..Len(RUNS') : RUNS'[j].run = RUNS'[k].run => j = k
    BY <1>3, <1>5, <2>3, <2>4, <2>5
  <2>7. Len(RUNS') >= Len(RUNS)
    BY <1>3, <2>3
  <2> QED BY <1>1, <2>3, <2>4, <2>6, <2>7 DEF r, agg
<1>7. CASE At(r) # {}
  <2>1. RUNS' = [k \in 1..Len(RUNS) |-> IF k \in At(r) THEN agg ELSE RUNS[k]]
    BY <1>7 DEF LearnStart
  <2> HIDE DEF r, agg
  <2>2. \A k \in 1..Len(RUNS) : (IF k \in At(r) THEN agg ELSE RUNS[k]) \in Snapshot
    BY <1>2, <1>3, ElementOfSeq
  <2>3. RUNS' \in Seq(Snapshot) /\ Len(RUNS') = Len(RUNS)
    BY <1>3, <2>1, <2>2, IsASeq
  <2>4. \A k \in 1..Len(RUNS) : RUNS'[k] = IF RUNS[k].run = r THEN agg ELSE RUNS[k]
    BY <1>4, <2>1
  <2>5. \A k \in 1..Len(RUNS) : RUNS'[k].run = RUNS[k].run
    BY <1>5, <2>4
  <2>6. \A j, k \in 1..Len(RUNS') : RUNS'[j].run = RUNS'[k].run => j = k
    BY <1>3, <2>3, <2>5
  <2>7. \A k \in 1..Len(RUNS) :
           RUNS'[k] = RUNS[k] \/ (RUNS[k].run = r /\ RUNS'[k] = agg)
    BY <2>4
  <2>8. \A k \in 1..Len(RUNS') :
           RUNS'[k] = agg \/ (k \in 1..Len(RUNS) /\ RUNS'[k] = RUNS[k])
    BY <2>3, <2>4
  <2>9. Len(RUNS') >= Len(RUNS)
    BY <1>3, <2>3
  <2> QED BY <1>1, <2>3, <2>6, <2>7, <2>8, <2>9 DEF r, agg
<1> QED BY <1>6, <1>7

\* The same for a sample: it is in the aggregate of its run afterwards.
LEMMA SampledRuns ==
  ASSUME TypeOK, ReadSample
  PROVE  LET i == from + 1
         IN  /\ i \in 1..Len(stream) /\ i \in 1..MaxSamples
             /\ RUNS' \in Seq(Snapshot)
             /\ \A j, k \in 1..Len(RUNS') : RUNS'[j].run = RUNS'[k].run => j = k
             /\ Len(RUNS') >= Len(RUNS)
             /\ \A k \in 1..Len(RUNS) :
                   /\ RUNS'[k].run = RUNS[k].run /\ RUNS'[k].sub = RUNS[k].sub
                   /\ RUNS'[k].got = IF RUNS[k].run = stream[i]
                                       THEN RUNS[k].got \cup {i} ELSE RUNS[k].got
             /\ \A k \in 1..Len(RUNS') : k \in 1..Len(RUNS) \/ RUNS'[k].sub = Unknown
<1> DEFINE i   == from + 1
           agg == [run |-> stream[i], sub |-> Unknown, got |-> {i}]
<1>1. from \in 0..MaxSamples /\ from < Len(stream) /\ Len(stream) \in Nat /\ Len(stream) <= MaxSamples
  BY Members DEF TypeOK, ReadSample
<1>2. i \in 1..Len(stream) /\ i \in 1..MaxSamples /\ stream[i] \in Runs
  BY <1>1, Members, TelemetryAssumption
<1>3. /\ RUNS \in Seq(Snapshot) /\ Len(RUNS) \in Nat
      /\ \A j, k \in 1..Len(RUNS) : RUNS[j].run = RUNS[k].run => j = k
      /\ \A k \in 1..Len(RUNS) : RUNS[k] \in Snapshot
  BY Members DEF TypeOK
<1>4. agg \in Snapshot
  BY <1>2 DEF Snapshot, Labels
<1>5. agg.run = stream[i] /\ agg.sub = Unknown
  OBVIOUS
<1>6. CASE \E k \in 1..Len(RUNS) : RUNS[k].run = stream[i]
  <2>1. RUNS' = [k \in 1..Len(RUNS) |->
                   IF RUNS[k].run = stream[i]
                     THEN [RUNS[k] EXCEPT !.got = @ \cup {i}] ELSE RUNS[k]]
    BY <1>6 DEF ReadSample, Apply
  <2> HIDE DEF i
  <2>2. \A k \in 1..Len(RUNS) :
           /\ [RUNS[k] EXCEPT !.got = @ \cup {i}] \in Snapshot
           /\ [RUNS[k] EXCEPT !.got = @ \cup {i}].run = RUNS[k].run
           /\ [RUNS[k] EXCEPT !.got = @ \cup {i}].sub = RUNS[k].sub
           /\ [RUNS[k] EXCEPT !.got = @ \cup {i}].got = RUNS[k].got \cup {i}
    BY <1>2, <1>3 DEF Snapshot
  <2>3. \A k \in 1..Len(RUNS) :
           (IF RUNS[k].run = stream[i]
              THEN [RUNS[k] EXCEPT !.got = @ \cup {i}] ELSE RUNS[k]) \in Snapshot
    BY <1>3, <2>2
  <2>4. RUNS' \in Seq(Snapshot) /\ Len(RUNS') = Len(RUNS)
    BY <1>3, <2>1, <2>3, IsASeq
  <2>5. \A k \in 1..Len(RUNS) :
           RUNS'[k] = IF RUNS[k].run = stream[i]
                        THEN [RUNS[k] EXCEPT !.got = @ \cup {i}] ELSE RUNS[k]
    BY <2>1
  <2>6. \A k \in 1..Len(RUNS) :
           /\ RUNS'[k].run = RUNS[k].run /\ RUNS'[k].sub = RUNS[k].sub
           /\ RUNS'[k].got = IF RUNS[k].run = stream[i]
                               THEN RUNS[k].got \cup {i} ELSE RUNS[k].got
    BY <2>2, <2>5
  <2>7. \A j, k \in 1..Len(RUNS') : RUNS'[j].run = RUNS'[k].run => j = k
    BY <1>3, <2>4, <2>6
  <2>8. Len(RUNS') >= Len(RUNS) /\ 1..Len(RUNS') = 1..Len(RUNS)
    BY <1>3, <2>4
  <2> QED BY <1>2, <2>4, <2>6, <2>7, <2>8 DEF i
<1>7. CASE ~ \E k \in 1..Len(RUNS) : RUNS[k].run = stream[i]
  <2>1. RUNS' = Append(RUNS, agg)
    BY <1>7 DEF ReadSample, Apply
  <2> HIDE DEF i, agg
  <2>2. /\ Append(RUNS, agg) \in Seq(Snapshot)
        /\ Len(Append(RUNS, agg)) = Len(RUNS) + 1
        /\ \A k \in 1..Len(RUNS) : Append(RUNS, agg)[k] = RUNS[k]
        /\ Append(RUNS, agg)[Len(RUNS) + 1] = agg
    BY <1>3, <1>4, Appended
  <2>3. /\ RUNS' \in Seq(Snapshot) /\ Len(RUNS') = Len(RUNS) + 1
        /\ \A k \in 1..Len(RUNS) : RUNS'[k] = RUNS[k]
        /\ RUNS'[Len(RUNS) + 1] = agg
    BY <2>1, <2>2
  <2>4. \A k \in 1..Len(RUNS') : k \in 1..Len(RUNS) \/ k = Len(RUNS) + 1
    BY <1>3, <2>3
  <2>5. \A k \in 1..Len(RUNS) : RUNS[k].run # stream[i]
    BY <1>7
  <2>6. \A j, k \in 1..Len(RUNS') : RUNS'[j].run = RUNS'[k].run => j = k
    BY <1>3, <1>5, <2>3, <2>4, <2>5
  <2>7. \A k \in 1..Len(RUNS') : k \in 1..Len(RUNS) \/ RUNS'[k].sub = Unknown
    BY <1>5, <2>3, <2>4
  <2>8. Len(RUNS') >= Len(RUNS)
    BY <1>3, <2>3
  <2> QED BY <1>2, <2>3, <2>5, <2>6, <2>7, <2>8 DEF i
<1> QED BY <1>6, <1>7
\* A nonempty set of positions has a greatest.
LEMMA Greatest ==
  ASSUME NEW n \in Nat, NEW T, T \subseteq 1..n, T # {}
  PROVE  \E k \in T : \A j \in T : j <= k
<1> DEFINE U == {n - k : k \in T}
           R == OpToRel(<, Nat)
<1>1. U \subseteq Nat /\ U # {}
  <2>1. \A k \in T : k \in 1..n /\ n - k \in Nat
    OBVIOUS
  <2>2. PICK k \in T : TRUE
    OBVIOUS
  <2>3. n - k \in U
    OBVIOUS
  <2> QED BY <2>1, <2>3
<1>2. IsWellFoundedOn(R, Nat)
  BY NatLessThanWellFounded
<1>3. \A x, y \in Nat : y < x => <<y, x>> \in R
  BY DEF OpToRel
<1> HIDE DEF R
<1>4. PICK x \in U : \A y \in U : ~(<<y, x>> \in R)
  <2> HIDE DEF U
  <2> QED BY <1>1, <1>2, WFMin
<1>5. PICK k \in T : x = n - k
  BY <1>4
<1>6. \A j \in T : n - j \in U /\ ~(n - j < n - k)
  BY <1>1, <1>3, <1>4, <1>5
<1>7. \A j \in T : j <= k
  BY <1>6
<1> QED BY <1>7

\* The next board: the last aggregate of a submission, or what was there.
LEMMA NextBoard ==
  ASSUME TypeOK
  PROVE  /\ Latest \in [Labels -> Snapshot \cup {None}]
         /\ \A s \in Labels : OnBoard(s) => Latest[s] # None
<1>1. ASSUME NEW s \in Labels
      PROVE  LET mine == {k \in 1..Len(RUNS) : RUNS[k].sub = s}
             IN  /\ mine = {} => Latest[s] = BEST[s]
                 /\ mine # {} => Latest[s] \in Snapshot
  <2> DEFINE mine == {k \in 1..Len(RUNS) : RUNS[k].sub = s}
             last == CHOOSE k \in mine : \A j \in mine : j <= k
  <2>1. Latest[s] = IF mine = {} THEN BEST[s] ELSE RUNS[last]
    BY DEF Latest
  <2>2. ASSUME mine # {} PROVE last \in mine
    <3>1. mine \subseteq 1..Len(RUNS) /\ Len(RUNS) \in Nat
      BY Members
    <3> HIDE DEF mine
    <3>2. \E k \in mine : \A j \in mine : j <= k
      BY <2>2, <3>1, Greatest
    <3> QED BY <3>2
  <2>3. mine # {} => RUNS[last] \in Snapshot
    BY <2>2, Members
  <2> QED BY <2>1, <2>3
<1>2. BEST \in [Labels -> Snapshot \cup {None}]
  BY DEF TypeOK
<1>3. \A s \in Labels : Latest[s] \in Snapshot \cup {None}
  BY <1>1, <1>2
<1>4. Latest \in [Labels -> Snapshot \cup {None}]
  BY <1>3 DEF Latest
<1>5. \A s \in Labels : OnBoard(s) => Latest[s] # None
  BY <1>1, TelemetryAssumption DEF OnBoard
<1> QED BY <1>4, <1>5

-----------------------------------------------------------------------------
(* Types.                                                                  *)

LEMMA InitType == Init => TypeOK
<1> SUFFICES ASSUME Init PROVE TypeOK
  OBVIOUS
<1>1. /\ stream \in Seq(Runs) /\ control \in Seq(Runs) /\ events \in Seq(Runs)
      /\ RUNS \in Seq(Snapshot) /\ Len(stream) = 0 /\ Len(RUNS) = 0
  BY EmptySeq DEF Init
<1>2. NoBoard \in [Labels -> Snapshot \cup {None}]
  BY DEF NoBoard
<1>3. \A j, k \in 1..Len(RUNS) : RUNS[j].run = RUNS[k].run => j = k
  <2>1. 1..Len(RUNS) = {}
    BY <1>1
  <2> QED BY <2>1
<1>4. /\ setting \in Settings /\ subOf \in [Runs -> Subs \cup {None}]
      /\ doneAt \in [Runs -> 0..MaxSamples \cup {None}] /\ Len(stream) <= MaxSamples
      /\ proc \in {"down", "boot", "up"} /\ pool \in BOOLEAN
      /\ listens \subseteq {"control", "events"} /\ from \in 0..MaxSamples \cup {None}
      /\ anchored \in BOOLEAN /\ crashes \in 0..MaxCrashes
  <2>1. MaxSamples \in Nat /\ MaxCrashes \in Nat
    BY TelemetryAssumption
  <2>2. Len(stream) <= MaxSamples /\ 0 \in 0..MaxCrashes
    BY <1>1, <2>1
  <2>3. /\ subOf = [r \in Runs |-> None] /\ doneAt = [r \in Runs |-> None] /\ setting \in Settings
        /\ proc = "up" /\ pool = TRUE /\ listens = {"control", "events"} /\ from = None
        /\ anchored = FALSE /\ crashes = 0
    BY DEF Init
  <2> QED BY <2>2, <2>3
<1>5. /\ BEST \in [Labels -> Snapshot \cup {None}]
      /\ saving \in Runs \cup {None} /\ snap \in Snapshot \cup {None}
      /\ db \subseteq Snapshot /\ shown \in [Labels -> Snapshot \cup {None}]
  BY <1>2 DEF Init
<1> QED BY <1>1, <1>3, <1>4, <1>5 DEF TypeOK

LEMMA NextType == TypeOK /\ Sent /\ [Next]_vars => TypeOK'
<1> SUFFICES ASSUME TypeOK, Sent, [Next]_vars PROVE TypeOK'
  OBVIOUS
<1>1. ASSUME NEW r \in Runs, NEW s \in Subs, StartRun(r, s) PROVE TypeOK'
  <2>1. control' \in Seq(Runs)
    BY <1>1, AppendProperties DEF StartRun, Published, TypeOK
  <2>2. subOf' \in [Runs -> Subs \cup {None}]
    BY <1>1 DEF StartRun, TypeOK
  <2> QED
    BY <1>1, <2>1, <2>2 DEF StartRun, TypeOK, procVars, readVars, boardVars, saveVars
<1>2. ASSUME NEW r \in Runs, AddSample(r) PROVE TypeOK'
  <2>1. stream' \in Seq(Runs) /\ Len(stream') = Len(stream) + 1 /\ Len(stream) \in Nat
    BY <1>2, Appended DEF AddSample, TypeOK
  <2>2. Len(stream') <= MaxSamples
    BY <1>2, <2>1, TelemetryAssumption DEF AddSample
  <2> QED
    BY <1>2, <2>1, <2>2
    DEF AddSample, TypeOK, procVars, brokerVars, readVars, boardVars, saveVars
<1>3. ASSUME NEW r \in Runs, ReportDone(r) PROVE TypeOK'
  <2>1. Len(stream) \in 0..MaxSamples
    BY Members, TelemetryAssumption DEF TypeOK
  <2>2. doneAt' \in [Runs -> 0..MaxSamples \cup {None}]
    BY <1>3, <2>1 DEF ReportDone, TypeOK
  <2>3. events' \in Seq(Runs)
    BY <1>3, AppendProperties DEF ReportDone, Published, TypeOK
  <2> QED
    BY <1>3, <2>2, <2>3 DEF ReportDone, TypeOK, procVars, readVars, boardVars, saveVars
<1>4. CASE LearnStart
  <2>1. /\ RUNS' \in Seq(Snapshot)
        /\ \A j, k \in 1..Len(RUNS') : RUNS'[j].run = RUNS'[k].run => j = k
    BY <1>4, LearnedRuns
  <2>2. control' \in Seq(Runs)
    BY <1>4, TakenFirst DEF LearnStart, TypeOK
  <2> QED
    BY <1>4, <2>1, <2>2 DEF LearnStart, TypeOK, fleetVars, procVars, readVars, saveVars
<1>5. ASSUME NEW c \in {"control", "events"}, Subscribe(c) PROVE TypeOK'
  BY <1>5 DEF Subscribe, TypeOK, fleetVars, procVars, readVars, boardVars, saveVars
<1>6. CASE SendRead
  <2>1. Len(stream) \in 0..MaxSamples
    BY Members, TelemetryAssumption DEF TypeOK
  <2> QED
    BY <1>6, <2>1 DEF SendRead, TypeOK, fleetVars, procVars, brokerVars, boardVars, saveVars
<1>7. CASE ReadNothing
  BY <1>7 DEF ReadNothing, TypeOK, fleetVars, procVars, brokerVars, boardVars, saveVars
<1>8. CASE ReadSample
  <2>1. /\ from + 1 \in 1..MaxSamples /\ RUNS' \in Seq(Snapshot)
        /\ \A j, k \in 1..Len(RUNS') : RUNS'[j].run = RUNS'[k].run => j = k
    BY <1>8, SampledRuns
  <2>2. from' \in 0..MaxSamples
    BY <1>8, <2>1 DEF ReadSample
  <2> QED
    BY <1>8, <2>1, <2>2 DEF ReadSample, TypeOK, fleetVars, procVars, brokerVars, saveVars
<1>9. CASE TakeDone
  <2>1. Head(events) \in Runs /\ events' \in Seq(Runs)
    BY <1>9, TakenFirst DEF TakeDone, TypeOK
  <2> QED
    BY <1>9, <2>1 DEF TakeDone, TypeOK, fleetVars, procVars, readVars, boardVars
<1>10. CASE TakeSnapshot
  <2>1. snap' \in Snapshot
    BY <1>10, Members DEF TakeSnapshot, At
  <2> QED
    BY <1>10, <2>1
    DEF TakeSnapshot, TypeOK, fleetVars, procVars, brokerVars, readVars, boardVars
<1>11. CASE Persist
  <2>1. db' \subseteq Snapshot
    BY <1>11 DEF Persist, TypeOK
  <2> QED
    BY <1>11, <2>1 DEF Persist, TypeOK, fleetVars, procVars, brokerVars, readVars, boardVars
<1>12. CASE Publish
  <2>1. BEST' \in [Labels -> Snapshot \cup {None}] /\ shown' \in {shown, BEST'}
    BY <1>12, NextBoard DEF Publish
  <2> QED
    BY <1>12, <2>1 DEF Publish, TypeOK, fleetVars, procVars, brokerVars, readVars, saveVars
<1>13. CASE Connect
  BY <1>13 DEF Connect, TypeOK, fleetVars, brokerVars, readVars, boardVars, saveVars
<1>14. CASE Recover
  <2>1. BEST' \in [Labels -> Snapshot \cup {None}]
    <3>1. BEST' \in [Labels -> db \cup {None}] /\ db \subseteq Snapshot
      BY <1>14 DEF Recover, TypeOK
    <3> QED BY <3>1
  <2> QED
    BY <1>14, <2>1 DEF Recover, TypeOK, fleetVars, brokerVars, readVars, saveVars
<1>15. CASE Crash
  <2>1. <<>> \in Seq(Runs) /\ <<>> \in Seq(Snapshot) /\ Len(<<>>) = 0
    BY EmptySeq
  <2>2. crashes' \in 0..MaxCrashes
    BY <1>15, TelemetryAssumption DEF Crash, TypeOK
  <2>3. NoBoard \in [Labels -> Snapshot \cup {None}]
    BY DEF NoBoard
  <2>4. /\ control' \in Seq(Runs) /\ events' \in Seq(Runs) /\ RUNS' \in Seq(Snapshot)
        /\ 1..Len(RUNS') = {}
    BY <1>15, <2>1 DEF Crash
  <2>5. \A j, k \in 1..Len(RUNS') : RUNS'[j].run = RUNS'[k].run => j = k
    BY <2>4
  <2>6. /\ BEST' = NoBoard /\ proc' = "down" /\ pool' = FALSE /\ listens' = {}
        /\ from' = None /\ anchored' = FALSE /\ saving' = None /\ snap' = None
        /\ UNCHANGED <<setting, subOf, doneAt, stream, db, shown>>
    BY <1>15 DEF Crash, fleetVars
  <2> QED BY <2>2, <2>3, <2>4, <2>5, <2>6 DEF TypeOK
<1>16. CASE StatusEvent
  <2>1. shown' \in [Labels -> Snapshot \cup {None}]
    BY <1>16 DEF StatusEvent, NoBoard
  <2> QED
    BY <1>16, <2>1
    DEF StatusEvent, TypeOK, fleetVars, procVars, brokerVars, readVars, saveVars
<1>17. CASE UNCHANGED vars
  BY <1>17 DEF vars, TypeOK
<1> QED
  BY <1>1, <1>2, <1>3, <1>4, <1>5, <1>6, <1>7, <1>8, <1>9, <1>10, <1>11, <1>12, <1>13,
     <1>14, <1>15, <1>16, <1>17
  DEF Next, Fleet, ControlListener, PersistListener, Consumer, Main

-----------------------------------------------------------------------------
(* Messages and samples are of started runs.                               *)

\* What a message list has after one was published.
LEMMA PublishedTo ==
  ASSUME TypeOK, NEW r \in Runs, NEW channel, NEW buffer \in Seq(Runs),
         NEW i \in 1..Len(Published(channel, buffer, r))
  PROVE  Published(channel, buffer, r)[i] = r
           \/ (i \in 1..Len(buffer) /\ Published(channel, buffer, r)[i] = buffer[i])
<1>1. CASE Published(channel, buffer, r) = buffer
  BY <1>1
<1>2. CASE Published(channel, buffer, r) = Append(buffer, r)
  <2> DEFINE new == Append(buffer, r)
  <2>1. /\ Len(buffer) \in Nat /\ Len(new) = Len(buffer) + 1
        /\ \A k \in 1..Len(buffer) : new[k] = buffer[k]
        /\ new[Len(buffer) + 1] = r
    BY Appended
  <2>2. i \in 1..Len(new) /\ Published(channel, buffer, r)[i] = new[i]
    BY <1>2
  <2> HIDE DEF new
  <2> QED BY <2>1, <2>2
<1> QED BY <1>1, <1>2 DEF Published

LEMMA NextSent == TypeOK /\ Sent /\ [Next]_vars => Sent'
<1> SUFFICES ASSUME TypeOK, Sent, [Next]_vars PROVE Sent'
  OBVIOUS
<1>0. /\ control \in Seq(Runs) /\ events \in Seq(Runs) /\ stream \in Seq(Runs)
      /\ \A i \in 1..Len(control) : control[i] \in Runs /\ subOf[control[i]] # None
      /\ \A i \in 1..Len(events) : events[i] \in Runs /\ doneAt[events[i]] # None
      /\ \A i \in 1..Len(stream) : stream[i] \in Runs /\ subOf[stream[i]] # None
      /\ \A r \in Runs : doneAt[r] # None => doneAt[r] <= Len(stream)
      /\ Len(stream) \in Nat /\ None \notin Subs
  BY Members, TelemetryAssumption DEF TypeOK, Sent
<1>1. ASSUME NEW r \in Runs, NEW s \in Subs, StartRun(r, s) PROVE Sent'
  <2>1. \A q \in Runs : subOf'[q] # None <=> (q = r \/ subOf[q] # None)
    BY <1>0, <1>1 DEF StartRun, TypeOK
  <2>2. /\ control' = Published("control", control, r)
        /\ events' = events /\ doneAt' = doneAt /\ stream' = stream
    BY <1>1 DEF StartRun
  <2>3. \A i \in 1..Len(control') : subOf'[control'[i]] # None
    BY <1>0, <2>1, <2>2, PublishedTo
  <2> QED BY <1>0, <2>1, <2>2, <2>3 DEF Sent
<1>2. ASSUME NEW r \in Runs, AddSample(r) PROVE Sent'
  <2>1. /\ stream' = Append(stream, r) /\ subOf[r] # None
        /\ UNCHANGED <<control, events, doneAt, subOf>>
    BY <1>2 DEF AddSample, brokerVars
  <2>2. /\ Len(stream') = Len(stream) + 1
        /\ \A i \in 1..Len(stream) : stream'[i] = stream[i]
        /\ stream'[Len(stream) + 1] = r
    BY <1>0, <2>1, Appended
  <2>3. \A i \in 1..Len(stream') : subOf'[stream'[i]] # None
    BY <1>0, <2>1, <2>2
  <2>4. \A q \in Runs : doneAt'[q] # None => doneAt'[q] <= Len(stream')
    <3>1. \A q \in Runs : doneAt[q] \in Nat \cup {None}
      BY DEF TypeOK
    <3> QED BY <1>0, <2>1, <2>2, <3>1
  <2> QED BY <1>0, <2>1, <2>3, <2>4 DEF Sent
<1>3. ASSUME NEW r \in Runs, ReportDone(r) PROVE Sent'
  <2>1. /\ events' = Published("events", events, r)
        /\ UNCHANGED <<control, stream, subOf>>
        /\ doneAt' = [doneAt EXCEPT ![r] = Len(stream)]
    BY <1>3 DEF ReportDone
  <2>2. Len(stream) # None /\ Len(stream) <= Len(stream)
    BY <1>0, StreamLength
  <2>3. \A q \in Runs : doneAt'[q] = IF q = r THEN Len(stream) ELSE doneAt[q]
    BY <2>1 DEF TypeOK
  <2>4. \A i \in 1..Len(events') : doneAt'[events'[i]] # None
    <3> SUFFICES ASSUME NEW i \in 1..Len(events') PROVE doneAt'[events'[i]] # None
      OBVIOUS
    <3>1. \/ events'[i] = r
          \/ i \in 1..Len(events) /\ events'[i] = events[i]
      BY <1>0, <2>1, PublishedTo
    <3>2. CASE events'[i] = r
      BY <2>2, <2>3, <3>2
    <3>3. CASE i \in 1..Len(events) /\ events'[i] = events[i]
      BY <1>0, <2>2, <2>3, <3>3
    <3> QED BY <3>1, <3>2, <3>3
  <2>5. \A q \in Runs : doneAt'[q] # None => doneAt'[q] <= Len(stream')
    BY <2>1, <2>2, <2>3 DEF Sent
  <2>6. \A i \in 1..Len(control') : subOf'[control'[i]] # None
    BY <2>1 DEF Sent
  <2>7. \A i \in 1..Len(stream') : subOf'[stream'[i]] # None
    BY <2>1 DEF Sent
  <2> QED BY <2>4, <2>5, <2>6, <2>7 DEF Sent
<1>4. CASE LearnStart
  <2>1. /\ UNCHANGED <<events, stream, subOf, doneAt>> /\ control' = Tail(control)
        /\ control # <<>>
    BY <1>4 DEF LearnStart, fleetVars
  <2>2. \A i \in 1..Len(Tail(control)) : Tail(control)[i] = control[i + 1] /\ i + 1 \in 1..Len(control)
    BY <1>0, <2>1, TakenFirst
  <2> QED BY <1>0, <2>1, <2>2 DEF Sent
<1>5. CASE TakeDone
  <2>1. /\ UNCHANGED <<control, stream, subOf, doneAt>> /\ events' = Tail(events)
        /\ events # <<>>
    BY <1>5 DEF TakeDone, fleetVars
  <2>2. \A i \in 1..Len(Tail(events)) : Tail(events)[i] = events[i + 1] /\ i + 1 \in 1..Len(events)
    BY <1>0, <2>1, TakenFirst
  <2> QED BY <1>0, <2>1, <2>2 DEF Sent
<1>6. CASE Crash
  <2>1. control' = <<>> /\ events' = <<>> /\ UNCHANGED <<stream, subOf, doneAt>>
    BY <1>6 DEF Crash, fleetVars
  <2>2. 1..Len(control') = {} /\ 1..Len(events') = {}
    BY <2>1, EmptySeq
  <2> QED BY <1>0, <2>1, <2>2 DEF Sent
<1>7. ASSUME \/ SendRead \/ ReadNothing \/ ReadSample \/ TakeSnapshot \/ Persist \/ Publish
             \/ Connect \/ Recover \/ (\E c \in {"control", "events"} : Subscribe(c))
             \/ StatusEvent \/ UNCHANGED vars
      PROVE  Sent'
  <2>1. UNCHANGED <<control, events, stream, subOf, doneAt>>
    BY <1>7
    DEF SendRead, ReadNothing, ReadSample, TakeSnapshot, Persist, Publish, Connect, Recover,
        Subscribe, StatusEvent, vars, fleetVars, brokerVars
  <2> QED BY <2>1 DEF Sent
<1> QED
  BY <1>1, <1>2, <1>3, <1>4, <1>5, <1>6, <1>7
  DEF Next, Fleet, ControlListener, PersistListener, Consumer, Main

\* A process that is not up holds nothing.
LEMMA NextBlank == TypeOK /\ Blank /\ [Next]_vars => Blank'
<1> SUFFICES ASSUME TypeOK, Blank, [Next]_vars PROVE Blank'
  OBVIOUS
<1>1. ASSUME NEW r \in Runs, (\E s \in Subs : StartRun(r, s)) \/ AddSample(r) \/ ReportDone(r)
      PROVE  Blank'
  <2>1. /\ UNCHANGED <<setting, proc, pool, RUNS, saving, snap, from, listens>>
        /\ control' = control \/ control' = Published("control", control, r)
        /\ events' = events \/ events' = Published("events", events, r)
    BY <1>1
    DEF StartRun, AddSample, ReportDone, procVars, brokerVars, readVars, boardVars, saveVars
  <2>2. listens = {} => control' = control /\ events' = events
    BY <2>1 DEF Published
  <2> QED BY <2>1, <2>2 DEF Blank
<1>2. CASE LearnStart
  BY <1>2 DEF LearnStart, Blank, procVars, readVars, saveVars
<1>3. CASE TakeDone
  BY <1>3 DEF TakeDone, Blank, procVars, readVars, boardVars
<1>4. CASE TakeSnapshot
  BY <1>4 DEF TakeSnapshot, Blank, procVars, brokerVars, readVars, boardVars
<1>5. CASE Persist
  BY <1>5 DEF Persist, Blank, procVars, brokerVars, readVars, boardVars
<1>6. CASE SendRead \/ Publish \/ StatusEvent
  BY <1>6 DEF SendRead, Publish, StatusEvent, Blank, procVars, brokerVars, readVars, boardVars, saveVars
<1>7. CASE ReadNothing \/ ReadSample
  <2>1. from # None
    <3>1. Len(stream) # None
      BY StreamLength
    <3> QED BY <1>7, <3>1 DEF ReadNothing, ReadSample
  <2>2. proc = "up" /\ UNCHANGED <<proc, pool, setting>>
    BY <1>7, <2>1 DEF ReadNothing, ReadSample, Blank, procVars
  <2> QED BY <2>2 DEF Blank
<1>8. CASE Connect
  BY <1>8 DEF Connect, Blank, brokerVars, readVars, boardVars, saveVars
<1>9. CASE Recover
  BY <1>9 DEF Recover, Blank
<1>10. CASE Crash
  BY <1>10 DEF Crash, Blank
<1>11. ASSUME NEW c \in {"control", "events"}, Subscribe(c) PROVE Blank'
  BY <1>11 DEF Subscribe, Blank, procVars
<1>12. CASE UNCHANGED vars
  BY <1>12 DEF vars, Blank
<1> QED
  BY <1>1, <1>2, <1>3, <1>4, <1>5, <1>6, <1>7, <1>8, <1>9, <1>10, <1>11, <1>12
  DEF Next, Fleet, ControlListener, PersistListener, Consumer, Main
-----------------------------------------------------------------------------
(* What the aggregates hold.                                               *)

\* The steps that touch neither the aggregates nor what they are made from.
Elsewhere == TakeDone \/ TakeSnapshot \/ Persist \/ Publish \/ Connect \/ Recover
             \/ StatusEvent
             \/ (\E c \in {"control", "events"} : Subscribe(c)) \/ UNCHANGED vars

\* An aggregate's members.
LEMMA InSnapshot ==
  ASSUME NEW x \in Snapshot
  PROVE  x.run \in Runs /\ x.sub \in Labels /\ x.sub # None
  BY TelemetryAssumption DEF Snapshot, Labels

LEMMA NextAggregates ==
  ASSUME TypeOK, Sent, Blank, Aggregates, [Next]_vars
  PROVE  Aggregates'
<1> DEFINE fast == "slow" \notin setting
           whole == setting \cap {"slow", "gap"} = {}
           Gathered(x, upto) ==
             x.sub # Unknown => \A i \in 1..upto : stream[i] = x.run => i \in x.got
<1>a. /\ Read \in 0..Len(stream) /\ Len(stream) \in 0..MaxSamples
      /\ None \notin 0..MaxSamples /\ Len(stream) # None
  <2>1. from \in 0..MaxSamples \cup {None} /\ MaxSamples \in Nat
    BY TelemetryAssumption DEF TypeOK
  <2> QED BY <2>1, StreamLength DEF Read, Aggregates
<1>b. \A k \in 1..Len(RUNS) : /\ RUNS[k].sub \in {Unknown, subOf[RUNS[k].run]}
                             /\ RUNS[k].run \in Runs /\ RUNS[k].sub # None
  BY Members, InSnapshot DEF Aggregates
<1>c. fast => \A i \in 1..Len(control), j \in 1..Len(stream) : stream[j] # control[i]
  BY DEF Aggregates
<1>d. whole => \A k \in 1..Len(RUNS) : Gathered(RUNS[k], Read)
  BY DEF Aggregates
<1>e. whole => fast /\ "gap" \notin setting
  OBVIOUS
<1>f. /\ \A i \in 1..Len(stream) : stream[i] \in Runs /\ subOf[stream[i]] # None
      /\ stream \in Seq(Runs) /\ control \in Seq(Runs)
      /\ \A i \in 1..Len(control) : control[i] \in Runs
  BY Members DEF TypeOK, Sent
<1>1. ASSUME NEW r \in Runs, NEW s \in Subs, StartRun(r, s) PROVE Aggregates'
  <2>1. /\ UNCHANGED <<setting, stream, from, RUNS>> /\ subOf[r] = None
        /\ control' = Published("control", control, r)
        /\ \A q \in Runs : subOf'[q] = IF q = r THEN s ELSE subOf[q]
    BY <1>1 DEF StartRun, TypeOK, readVars, boardVars
  <2>2. \A k \in 1..Len(RUNS) : RUNS[k].sub \in {Unknown, subOf'[RUNS[k].run]}
    BY <1>b, <2>1
  <2>3. \A i \in 1..Len(control') : control'[i] = r \/ (i \in 1..Len(control) /\ control'[i] = control[i])
    BY <1>f, <2>1, PublishedTo
  <2>4. \A j \in 1..Len(stream) : stream[j] # r
    BY <1>f, <2>1
  <2>5. fast => \A i \in 1..Len(control'), j \in 1..Len(stream) : stream[j] # control'[i]
    BY <1>c, <2>3, <2>4
  <2>6. Read' = Read
    BY <2>1 DEF Read
  <2> QED BY <1>a, <1>d, <2>1, <2>2, <2>5, <2>6 DEF Aggregates
<1>2. ASSUME NEW r \in Runs, AddSample(r) PROVE Aggregates'
  <2>1. /\ UNCHANGED <<setting, subOf, control, from, RUNS>>
        /\ stream' = Append(stream, r)
        /\ fast => control = <<>>
        /\ proc = "up" /\ from = None => "gap" \in setting
    BY <1>2 DEF AddSample, StartHandled, brokerVars, readVars, boardVars
  <2>2. /\ Len(stream') = Len(stream) + 1 /\ Len(stream) \in Nat
        /\ \A i \in 1..Len(stream) : stream'[i] = stream[i]
    <3>1. stream' = Append(stream, r) /\ stream \in Seq(Runs)
      BY <1>f, <2>1
    <3> QED BY <3>1, Appended
  <2>3. fast => 1..Len(control) = {}
    <3>1. ASSUME control = <<>> PROVE 1..Len(control) = {}
      BY <3>1, EmptySeq
    <3> QED BY <2>1, <3>1
  <2>4. from = None => Read' = Len(stream') /\ Read' \in Nat
    BY <2>1, <2>2 DEF Read
  <2>5. from # None => Read' = Read
    BY <2>1 DEF Read
  <2>6. Read' <= Len(stream')
    BY <1>a, <2>2, <2>4, <2>5
  <2>7. whole => \A k \in 1..Len(RUNS) : RUNS[k].sub # Unknown =>
                    \A i \in 1..Read' : stream'[i] = RUNS[k].run => i \in RUNS[k].got
    <3>1. CASE from = None
      <4>1. whole => 1..Len(RUNS) = {}
        BY <1>e, <2>1, <3>1, EmptySeq DEF Blank
      <4> QED BY <4>1
    <3>2. CASE from # None
      BY <1>a, <1>d, <2>2, <2>5, <3>2
    <3> QED BY <3>1, <3>2
  <2> QED BY <1>b, <2>1, <2>3, <2>6, <2>7 DEF Aggregates
<1>3. ASSUME NEW r \in Runs, ReportDone(r) PROVE Aggregates'
  BY <1>3 DEF ReportDone, Aggregates, Read, readVars, boardVars
<1>4. CASE LearnStart
  <2> DEFINE r   == Head(control)
             agg == [run |-> r, sub |-> subOf[r], got |-> {}]
  <2>1. /\ UNCHANGED <<setting, stream, from, subOf>> /\ control' = Tail(control)
        /\ control # <<>>
    BY <1>4 DEF LearnStart, fleetVars, readVars
  <2>2. \A k \in 1..Len(RUNS') :
           RUNS'[k] = agg \/ (k \in 1..Len(RUNS) /\ RUNS'[k] = RUNS[k])
    BY <1>4, LearnedRuns
  <2>3. /\ 1 \in 1..Len(control) /\ r = control[1]
        /\ \A i \in 1..Len(Tail(control)) :
              Tail(control)[i] = control[i + 1] /\ i + 1 \in 1..Len(control)
    BY <1>f, <2>1, TakenFirst
  <2>4. agg.run = r /\ agg.sub = subOf[r]
    OBVIOUS
  <2>5. \A k \in 1..Len(RUNS') : RUNS'[k].sub \in {Unknown, subOf[RUNS'[k].run]}
    BY <1>b, <2>2, <2>4
  <2>6. fast => \A i \in 1..Len(control'), j \in 1..Len(stream) : stream[j] # control'[i]
    BY <1>c, <2>1, <2>3
  <2>7. whole => \A i \in 1..Read : stream[i] # r
    BY <1>a, <1>c, <1>e, <2>3
  <2> HIDE DEF r, agg
  <2>8. whole => \A k \in 1..Len(RUNS') : Gathered(RUNS'[k], Read)
    BY <1>d, <2>2, <2>4, <2>7
  <2>9. Read' = Read
    BY <2>1 DEF Read
  <2> QED BY <1>a, <2>1, <2>5, <2>6, <2>8, <2>9 DEF Aggregates
<1>5. CASE SendRead \/ ReadNothing
  <2>1. UNCHANGED <<setting, stream, subOf, control, RUNS>>
    BY <1>5 DEF SendRead, ReadNothing, fleetVars, brokerVars, boardVars
  <2>2. Read' = Read
    BY <1>a, <1>5, <2>1 DEF SendRead, ReadNothing, Read
  <2> QED BY <1>a, <1>b, <1>c, <1>d, <2>1, <2>2 DEF Aggregates
<1>6. CASE ReadSample
  <2> DEFINE i == from + 1
  <2>1. UNCHANGED <<setting, stream, subOf, control>> /\ from # None /\ from' = i
    BY <1>6 DEF ReadSample, fleetVars, brokerVars
  <2>2. /\ i \in 1..Len(stream) /\ i \in 1..MaxSamples
        /\ Len(RUNS') >= Len(RUNS)
        /\ \A k \in 1..Len(RUNS) :
              /\ RUNS'[k].run = RUNS[k].run /\ RUNS'[k].sub = RUNS[k].sub
              /\ RUNS'[k].got = IF RUNS[k].run = stream[i]
                                  THEN RUNS[k].got \cup {i} ELSE RUNS[k].got
        /\ \A k \in 1..Len(RUNS') : k \in 1..Len(RUNS) \/ RUNS'[k].sub = Unknown
    BY <1>6, SampledRuns
  <2>3. Read = from /\ Read' = i /\ Read' <= Len(stream)
    BY <1>a, <2>1, <2>2 DEF Read
  <2>4. \A k \in 1..Len(RUNS') : RUNS'[k].sub \in {Unknown, subOf[RUNS'[k].run]}
    BY <1>b, <2>2
  <2>5. \A j \in 1..i : j = i \/ j \in 1..Read
    BY <1>a, <2>3
  <2> HIDE DEF i
  <2>6. whole => \A k \in 1..Len(RUNS') : Gathered(RUNS'[k], i)
    <3> SUFFICES ASSUME whole, NEW k \in 1..Len(RUNS'), RUNS'[k].sub # Unknown,
                        NEW j \in 1..i, stream[j] = RUNS'[k].run
                 PROVE  j \in RUNS'[k].got
      OBVIOUS
    <3>1. k \in 1..Len(RUNS) /\ RUNS[k].sub # Unknown /\ stream[j] = RUNS[k].run
      BY <2>2
    <3>2. CASE j = i
      BY <2>2, <3>1, <3>2
    <3>3. CASE j # i
      <4>1. j \in RUNS[k].got
        BY <1>d, <2>5, <3>1, <3>3
      <4> QED BY <2>2, <3>1, <4>1
    <3> QED BY <3>2, <3>3
  <2> QED BY <1>c, <2>1, <2>3, <2>4, <2>6 DEF Aggregates
<1>7. CASE Crash
  <2>1. /\ UNCHANGED stream /\ RUNS' = <<>> /\ control' = <<>> /\ from' = None
    BY <1>7 DEF Crash, fleetVars
  <2>2. 1..Len(RUNS') = {} /\ 1..Len(control') = {}
    BY <2>1, EmptySeq
  <2>3. Read' <= Len(stream')
    BY <1>a, <2>1 DEF Read
  <2> QED BY <2>2, <2>3 DEF Aggregates
<1>8. CASE Elsewhere
  <2>1. UNCHANGED <<setting, stream, subOf, control, RUNS, from>>
    BY <1>8
    DEF Elsewhere, TakeDone, TakeSnapshot, Persist, Publish, Connect, Recover, Subscribe,
        StatusEvent, vars, fleetVars, brokerVars, readVars, boardVars
  <2> QED BY <2>1 DEF Aggregates, Read
<1> QED
  BY <1>1, <1>2, <1>3, <1>4, <1>5, <1>6, <1>7, <1>8
  DEF Next, Fleet, ControlListener, PersistListener, Consumer, Main, Elsewhere
-----------------------------------------------------------------------------
(* Rows are complete.                                                      *)

\* A full row stays full: what is added after the report does not count.
LEMMA CurveStays ==
  ASSUME TypeOK, Sent, [Next]_vars, NEW row \in Snapshot, doneAt[row.run] # None, Curve(row)
  PROVE  doneAt'[row.run] = doneAt[row.run] /\ Curve(row)'
<1>1. row.run \in Runs /\ doneAt[row.run] \in 0..MaxSamples /\ doneAt[row.run] <= Len(stream)
  BY InSnapshot DEF TypeOK, Sent
<1>2. doneAt'[row.run] = doneAt[row.run]
  <2>1. ASSUME NEW r \in Runs, ReportDone(r) PROVE doneAt'[row.run] = doneAt[row.run]
    BY <2>1 DEF ReportDone, TypeOK
  <2>2. ASSUME ~ \E r \in Runs : ReportDone(r) PROVE doneAt' = doneAt
    BY <2>2
    DEF Next, Fleet, StartRun, AddSample, ControlListener, PersistListener, Consumer, Main,
        LearnStart, Subscribe, TakeDone, TakeSnapshot, Persist, SendRead, ReadNothing,
        ReadSample, Publish, Connect, Recover, Crash, StatusEvent, vars, fleetVars
  <2> QED BY <2>1, <2>2
<1>3. \A i \in 1..Len(stream) : stream'[i] = stream[i]
  <2>1. ASSUME NEW r \in Runs, AddSample(r)
        PROVE  \A i \in 1..Len(stream) : stream'[i] = stream[i]
    <3>1. stream' = Append(stream, r) /\ stream \in Seq(Runs)
      BY <2>1 DEF AddSample, TypeOK
    <3> QED BY <3>1, Appended
  <2>2. ASSUME ~ \E r \in Runs : AddSample(r) PROVE stream' = stream
    BY <2>2
    DEF Next, Fleet, StartRun, ReportDone, ControlListener, PersistListener, Consumer, Main,
        LearnStart, Subscribe, TakeDone, TakeSnapshot, Persist, SendRead, ReadNothing,
        ReadSample, Publish, Connect, Recover, Crash, StatusEvent, vars, fleetVars
  <2> QED BY <2>1, <2>2
<1>4. \A i \in 1..doneAt[row.run] : i \in 1..Len(stream)
  BY <1>1, Members
<1> QED BY <1>2, <1>3, <1>4 DEF Curve

\* An aggregate that is snapshot is complete by then.
LEMMA TakenWhole ==
  ASSUME TypeOK, Sent, Aggregates, Saving, TakeSnapshot
  PROVE  /\ snap' \in Snapshot /\ doneAt[snap'.run] # None
         /\ setting \cap {"slow", "gap"} = {} =>
               (snap'.sub # Unknown =>
                  \A i \in 1..doneAt[snap'.run] : stream[i] = snap'.run => i \in snap'.got)
         /\ \E k \in 1..Len(RUNS) : RUNS[k].sub = snap'.sub
<1>1. PICK k \in At(saving) : snap' = RUNS[k]
  BY DEF TakeSnapshot
<1>2. k \in 1..Len(RUNS) /\ snap' \in Snapshot /\ snap'.run = saving
  BY <1>1, Members DEF At
<1>3. doneAt[saving] # None /\ saving \in Runs
  BY <1>2, InSnapshot DEF Saving, TakeSnapshot
<1>4. doneAt[saving] \in 0..MaxSamples /\ doneAt[saving] <= Len(stream)
  BY <1>3 DEF Sent, TypeOK
<1>5. ASSUME setting \cap {"slow", "gap"} = {}
      PROVE  doneAt[saving] <= Read /\ Read \in Nat
  <2>1. from # None => from >= doneAt[saving]
    BY <1>5 DEF TakeSnapshot
  <2>2. from \in 0..MaxSamples \cup {None} /\ MaxSamples \in Nat /\ Len(stream) \in Nat
    BY TelemetryAssumption, Members DEF TypeOK
  <2> QED BY <1>4, <2>1, <2>2 DEF Read
<1>6. ASSUME setting \cap {"slow", "gap"} = {}, snap'.sub # Unknown,
             NEW i \in 1..doneAt[saving], stream[i] = saving
      PROVE  i \in snap'.got
  <2>1. i \in 1..Read
    BY <1>4, <1>5, <1>6
  <2>2. \A j \in 1..Read : stream[j] = RUNS[k].run => j \in RUNS[k].got
    BY <1>1, <1>2, <1>6 DEF Aggregates
  <2> QED BY <1>1, <1>2, <1>6, <2>1, <2>2
<1> QED BY <1>1, <1>2, <1>3, <1>6

LEMMA NextSaving ==
  ASSUME TypeOK, TypeOK', Sent, Aggregates, Saving, RowsComplete, [Next]_vars
  PROVE  Saving' /\ RowsComplete'
<1> DEFINE whole == setting \cap {"slow", "gap"} = {}
<1>1. setting' = setting
  BY DEF Next, Fleet, StartRun, AddSample, ReportDone, ControlListener, PersistListener,
         Consumer, Main, LearnStart, Subscribe, TakeDone, TakeSnapshot, Persist, SendRead,
         ReadNothing, ReadSample, Publish, Connect, Recover, Crash, StatusEvent, vars
<1>2. \A r \in Runs : doneAt[r] # None => doneAt'[r] # None
  <2>1. ASSUME NEW q \in Runs, ReportDone(q) PROVE \A r \in Runs : doneAt[r] # None => doneAt'[r] # None
    BY <2>1, StreamLength DEF ReportDone, TypeOK
  <2>2. ASSUME ~ \E r \in Runs : ReportDone(r) PROVE doneAt' = doneAt
    BY <2>2
    DEF Next, Fleet, StartRun, AddSample, ControlListener, PersistListener, Consumer, Main,
        LearnStart, Subscribe, TakeDone, TakeSnapshot, Persist, SendRead, ReadNothing,
        ReadSample, Publish, Connect, Recover, Crash, StatusEvent, vars, fleetVars
  <2> QED BY <2>1, <2>2
<1>3. \A row \in db : /\ row \in Snapshot /\ row.run \in Runs /\ doneAt[row.run] # None
                      /\ whole => Curve(row)
  BY InSnapshot DEF Saving, RowsComplete, TypeOK
<1>4. snap # None => /\ snap \in Snapshot /\ snap.run \in Runs /\ doneAt[snap.run] # None
                     /\ whole => Curve(snap)
  BY InSnapshot DEF Saving, TypeOK
<1>5. saving # None => saving \in Runs /\ doneAt[saving] # None
  BY DEF Saving, TypeOK
<1> DEFINE Good == {x \in Snapshot : doneAt[x.run] # None /\ (whole => Curve(x))}
<1>6. /\ db \subseteq Good
      /\ snap # None => snap \in Good
  BY <1>3, <1>4 DEF TypeOK
<1>7. \A x \in Good : /\ x \in Snapshot /\ doneAt'[x.run] # None
                      /\ whole => Curve(x)'
  <2> TAKE x \in Good
  <2>1. x \in Snapshot /\ doneAt[x.run] # None /\ (whole => Curve(x)) /\ x.run \in Runs
    BY InSnapshot
  <2>2. doneAt'[x.run] # None
    BY <1>2, <2>1
  <2>3. ASSUME whole PROVE Curve(x)'
    BY <2>1, <2>3, CurveStays
  <2> QED BY <2>1, <2>2, <2>3
<1>8. db' \subseteq Good
  <2>1. ASSUME Persist PROVE db' \subseteq Good
    <3>1. snap # None /\ (db' = db \cup {snap} \/ db' = db)
      BY <2>1 DEF Persist
    <3> QED BY <1>6, <3>1
  <2>2. ASSUME ~Persist PROVE db' = db
    BY <2>2
    DEF Next, Fleet, StartRun, AddSample, ReportDone, ControlListener, PersistListener,
        Consumer, Main, LearnStart, Subscribe, TakeDone, TakeSnapshot, SendRead, ReadNothing,
        ReadSample, Publish, Connect, Recover, Crash, StatusEvent, vars, saveVars
  <2> QED BY <1>6, <2>1, <2>2
<1>9. snap' # None => snap' \in Good
  <2>1. CASE TakeSnapshot
    <3>1. PICK x \in Snapshot : x = snap'
      BY <2>1, TakenWhole
    <3>2. /\ doneAt[x.run] # None
          /\ whole => (x.sub # Unknown =>
                         \A i \in 1..doneAt[x.run] : stream[i] = x.run => i \in x.got)
      BY <2>1, <3>1, TakenWhole
    <3>3. whole => Curve(x)
      BY <3>2 DEF Curve
    <3> QED BY <3>1, <3>2, <3>3
  <2>2. ASSUME ~TakeSnapshot PROVE snap' = snap \/ snap' = None
    BY <2>2
    DEF Next, Fleet, StartRun, AddSample, ReportDone, ControlListener, PersistListener,
        Consumer, Main, LearnStart, Subscribe, TakeDone, Persist, SendRead, ReadNothing,
        ReadSample, Publish, Connect, Recover, Crash, StatusEvent, vars, saveVars
  <2> QED BY <1>6, <2>1, <2>2
<1>10. saving' # None => doneAt'[saving'] # None
  <2>1. CASE TakeDone
    <3>1. saving' \in {None, Head(events)} /\ events # <<>> /\ events \in Seq(Runs) /\ doneAt' = doneAt
      BY <2>1 DEF TakeDone, TypeOK, fleetVars
    <3>2. 1 \in 1..Len(events) /\ Head(events) = events[1]
      BY <3>1, TakenFirst
    <3> QED BY <3>1, <3>2 DEF Sent
  <2>2. ASSUME ~TakeDone PROVE saving' = saving \/ saving' = None
    BY <2>2
    DEF Next, Fleet, StartRun, AddSample, ReportDone, ControlListener, PersistListener,
        Consumer, Main, LearnStart, Subscribe, TakeSnapshot, Persist, SendRead, ReadNothing,
        ReadSample, Publish, Connect, Recover, Crash, StatusEvent, vars, saveVars
  <2> QED BY <1>2, <1>5, <2>1, <2>2
<1> HIDE DEF Good
<1>11. \A row \in db' : doneAt'[row.run] # None /\ (whole => Curve(row)')
  BY <1>7, <1>8
<1>12. snap' # None => /\ doneAt'[snap'.run] # None
                       /\ whole => Curve(snap)'
  <2> SUFFICES ASSUME snap' # None
               PROVE  doneAt'[snap'.run] # None /\ (whole => Curve(snap)')
    OBVIOUS
  <2>1. PICK x \in Good : x = snap'
    BY <1>9
  <2>2. Curve(x)' <=> Curve(snap)'
    BY <2>1 DEF Curve
  <2> QED BY <1>7, <2>1, <2>2
<1> QED BY <1>1, <1>10, <1>11, <1>12 DEF Saving, RowsComplete
-----------------------------------------------------------------------------
(* Finished submissions stay on the board.                                 *)

\* What is on the next board is on it until the process is killed.
LEMMA StaysOnBoard ==
  ASSUME TypeOK, Sent, Aggregates, [Next]_vars, ~Crash, ~Recover, NEW s \in Subs, OnBoard(s)
  PROVE  OnBoard(s)'
<1>1. s \in Labels /\ s # Unknown
  BY TelemetryAssumption DEF Labels
<1>2. CASE LearnStart
  <2> DEFINE r   == Head(control)
             agg == [run |-> r, sub |-> subOf[r], got |-> {}]
  <2>1. /\ \A k \in 1..Len(RUNS) :
              RUNS'[k] = RUNS[k] \/ (RUNS[k].run = r /\ RUNS'[k] = agg)
        /\ Len(RUNS') >= Len(RUNS)
        /\ RUNS' \in Seq(Snapshot)
    BY <1>2, LearnedRuns
  <2>2. Len(RUNS') \in Nat /\ Len(RUNS) \in Nat /\ BEST' = BEST
    BY <1>2, <2>1, LenProperties, Members DEF LearnStart
  <2>3. agg.sub = subOf[r]
    OBVIOUS
  <2> HIDE DEF r, agg
  <2>4. ASSUME NEW k \in 1..Len(RUNS), RUNS[k].sub = s PROVE RUNS'[k].sub = s /\ k \in 1..Len(RUNS')
    <3>1. RUNS[k].sub = subOf[RUNS[k].run]
      BY <1>1, <2>4 DEF Aggregates
    <3> QED BY <2>1, <2>2, <2>3, <2>4, <3>1
  <2> QED BY <2>2, <2>4 DEF OnBoard
<1>3. CASE ReadSample
  <2>1. /\ \A k \in 1..Len(RUNS) : RUNS'[k].sub = RUNS[k].sub
        /\ Len(RUNS') >= Len(RUNS) /\ RUNS' \in Seq(Snapshot)
    BY <1>3, SampledRuns
  <2>2. Len(RUNS') \in Nat /\ Len(RUNS) \in Nat /\ BEST' = BEST
    BY <1>3, <2>1, LenProperties, Members DEF ReadSample
  <2>3. \A k \in 1..Len(RUNS) : k \in 1..Len(RUNS')
    BY <2>1, <2>2
  <2> QED BY <2>1, <2>2, <2>3 DEF OnBoard
<1>4. CASE Publish
  <2>1. BEST'[s] # None
    BY <1>1, <1>4, NextBoard DEF Publish
  <2> QED BY <2>1 DEF OnBoard
<1>5. ASSUME ~LearnStart, ~ReadSample, ~Publish PROVE OnBoard(s)'
  <2>1. RUNS' = RUNS /\ BEST' = BEST
    BY <1>5
    DEF Next, Fleet, StartRun, AddSample, ReportDone, ControlListener, PersistListener,
        Consumer, Main, Subscribe, TakeDone, TakeSnapshot, Persist, SendRead,
        ReadNothing, Connect, StatusEvent, vars, boardVars
  <2> QED BY <2>1 DEF OnBoard
<1> QED BY <1>2, <1>3, <1>4, <1>5

\* A recovered board has every submission with a row, if the database is there.
LEMMA RecoveredBoard ==
  ASSUME TypeOK, Blank, Recover, "db" \notin setting, NEW s \in Subs,
         NEW row \in db, row.sub = s
  PROVE  OnBoard(s)'
<1>1. pool /\ s \in Labels
  BY DEF Blank, Recover, Labels
<1>2. {x \in db : x.sub = s} # {}
  OBVIOUS
<1>3. BEST'[s] \in {x \in db : x.sub = s}
  BY <1>1, <1>2 DEF Recover
<1>4. BEST'[s] # None
  BY <1>3, TelemetryAssumption DEF TypeOK
<1> QED BY <1>4 DEF OnBoard

LEMMA NextBoarded ==
  ASSUME TypeOK, Sent, Blank, Aggregates, Saving, Boarded, [Next]_vars
  PROVE  Boarded'
<1>1. CASE Crash
  <2>1. proc' = "down" /\ snap' = None
    BY <1>1 DEF Crash
  <2> QED BY <2>1 DEF Boarded
<1>2. CASE Recover
  <2>1. UNCHANGED <<setting, db>> /\ snap' = None
    BY <1>2 DEF Recover, Blank, saveVars
  <2>2. \A row \in db : "db" \notin setting /\ row.sub \in Subs => OnBoard(row.sub)'
    BY <1>2, RecoveredBoard
  <2> QED BY <2>1, <2>2 DEF Boarded
<1>3. ASSUME ~Crash, ~Recover PROVE Boarded'
  <2>1. \A s \in Subs : OnBoard(s) => OnBoard(s)'
    BY <1>3, StaysOnBoard
  <2>2. setting' = setting
    BY DEF Next, Fleet, StartRun, AddSample, ReportDone, ControlListener, PersistListener,
           Consumer, Main, LearnStart, Subscribe, TakeDone, TakeSnapshot, Persist, SendRead,
           ReadNothing, ReadSample, Publish, Connect, Recover, Crash, StatusEvent, vars
  <2>3. proc' = "up" => proc = "up"
    BY <1>3
    DEF Next, Fleet, StartRun, AddSample, ReportDone, ControlListener, PersistListener,
        Consumer, Main, LearnStart, Subscribe, TakeDone, TakeSnapshot, Persist, SendRead,
        ReadNothing, ReadSample, Publish, Connect, StatusEvent, vars, procVars
  <2>4. \A row \in db' : row \in db \/ (snap # None /\ row = snap /\ Persist)
    <3>1. CASE Persist
      BY <3>1 DEF Persist
    <3>2. ASSUME ~Persist PROVE db' = db
      BY <3>2
      DEF Next, Fleet, StartRun, AddSample, ReportDone, ControlListener, PersistListener,
          Consumer, Main, LearnStart, Subscribe, TakeDone, TakeSnapshot, SendRead,
          ReadNothing, ReadSample, Publish, Connect, Recover, Crash, StatusEvent, vars, saveVars
    <3> QED BY <3>1, <3>2
  <2>5. ASSUME "db" \notin setting, proc = "up", NEW row \in db', row.sub \in Subs
        PROVE  OnBoard(row.sub)'
    <3>1. OnBoard(row.sub)
      BY <2>4, <2>5 DEF Boarded
    <3> QED BY <2>1, <2>5, <3>1
  <2>6. ASSUME snap' # None, snap'.sub \in Subs PROVE OnBoard(snap.sub)'
    <3>1. CASE TakeSnapshot
      <4>1. PICK s \in Subs : s = snap'.sub
        BY <2>6
      <4>2. \E k \in 1..Len(RUNS) : RUNS[k].sub = s
        BY <3>1, <4>1, TakenWhole
      <4>3. OnBoard(s)'
        BY <2>1, <4>2 DEF OnBoard
      <4>4. OnBoard(s)' <=> OnBoard(snap.sub)'
        BY <4>1 DEF OnBoard
      <4> QED BY <4>3, <4>4
    <3>2. ASSUME ~TakeSnapshot PROVE OnBoard(snap.sub)'
      <4>1. snap' = snap \/ snap' = None
        BY <3>2
        DEF Next, Fleet, StartRun, AddSample, ReportDone, ControlListener, PersistListener,
            Consumer, Main, LearnStart, Subscribe, TakeDone, Persist, SendRead, ReadNothing,
            ReadSample, Publish, Connect, Recover, Crash, StatusEvent, vars, saveVars
      <4>2. PICK s \in Subs : s = snap'.sub
        BY <2>6
      <4>3. OnBoard(s)
        BY <2>6, <4>1, <4>2 DEF Boarded
      <4>4. OnBoard(s)'
        BY <2>1, <4>3
      <4>5. OnBoard(s)' <=> OnBoard(snap.sub)'
        BY <4>2 DEF OnBoard
      <4> QED BY <4>4, <4>5
    <3> QED BY <3>1, <3>2
  <2>7. \A row \in db' : "db" \notin setting' /\ proc' = "up" /\ row.sub \in Subs
                            => OnBoard(row.sub)'
    BY <2>2, <2>3, <2>5
  <2> QED BY <2>6, <2>7 DEF Boarded
<1> QED BY <1>1, <1>2, <1>3

\* Whatever the publisher writes has every submission with a row.
LEMMA PublishedBoard ==
  ASSUME TypeOK, Boarded, Publish, NEW row \in db, "db" \notin setting, row.sub \in Subs
  PROVE  shown'[row.sub] # None
<1>1. row.sub \in Labels /\ proc = "up"
  BY DEF Labels, Publish
<1>2. OnBoard(row.sub)
  BY <1>1 DEF Boarded
<1>3. BEST'[row.sub] # None
  BY <1>1, <1>2, NextBoard DEF Publish
<1>4. BEST' # NoBoard
  BY <1>1, <1>3 DEF NoBoard
<1> QED BY <1>3, <1>4 DEF Publish

-----------------------------------------------------------------------------
(* The theorems.                                                           *)

LEMMA InitInv == Init => TelemetryInv
<1> SUFFICES ASSUME Init PROVE TelemetryInv
  OBVIOUS
<1>1. TypeOK
  BY InitType
<1>2. /\ 1..Len(control) = {} /\ 1..Len(events) = {} /\ 1..Len(stream) = {}
      /\ 1..Len(RUNS) = {} /\ Len(stream) = 0
  BY EmptySeq DEF Init
<1>3. /\ \A r \in Runs : doneAt[r] = None
      /\ proc = "up" /\ pool /\ saving = None /\ snap = None /\ db = {} /\ from = None
  BY DEF Init
<1>4. Sent /\ Blank
  BY <1>2, <1>3 DEF Sent, Blank
<1>5. Read <= Len(stream)
  BY <1>2, <1>3 DEF Read
<1>6. Aggregates
  BY <1>2, <1>5 DEF Aggregates
<1>7. Saving /\ Boarded /\ RowsComplete
  BY <1>3 DEF Saving, Boarded, RowsComplete
<1> QED BY <1>1, <1>4, <1>6, <1>7 DEF TelemetryInv

LEMMA NextInv == TelemetryInv /\ [Next]_vars => TelemetryInv'
<1> SUFFICES ASSUME TelemetryInv, [Next]_vars PROVE TelemetryInv'
  OBVIOUS
<1> USE DEF TelemetryInv
<1>1. TypeOK' /\ Sent' /\ Blank'
  BY NextType, NextSent, NextBlank
<1>2. Aggregates'
  BY NextAggregates
<1>3. Saving' /\ RowsComplete'
  BY <1>1, NextSaving
<1>4. Boarded'
  BY NextBoarded
<1> QED BY <1>1, <1>2, <1>3, <1>4

\* The ingester keeps its inductive invariant, through kills and restarts.
THEOREM TelemetryCorrect == Spec => []TelemetryInv
<1>1. Init => TelemetryInv
  BY InitInv
<1>2. TelemetryInv /\ [Next]_vars => TelemetryInv'
  BY NextInv
<1> QED BY <1>1, <1>2, PTL DEF Spec

\* A run is written with its full curve (_apply, persist_listener), unless the
\* ingester is slow or misses samples between two XREADs.
THEOREM RowsFull == Spec => []RowsComplete
<1>1. TelemetryInv => RowsComplete
  BY DEF TelemetryInv
<1> QED BY <1>1, TelemetryCorrect, PTL

\* Every board the publisher writes has each submission with a finished run
\* (publisher, load_best), whenever the ingester is killed and started again.
THEOREM BoardKept == Spec => FinishedStay
<1> DEFINE Kept == Publish =>
                     \A row \in db : "db" \notin setting /\ row.sub \in Subs
                                        => shown'[row.sub] # None
<1>1. TelemetryInv => Kept
  BY PublishedBoard DEF TelemetryInv
<1>2. TelemetryInv /\ [Next]_vars => [Kept]_vars
  BY <1>1
<1>3. Spec => [][Kept]_vars
  BY <1>2, TelemetryCorrect, PTL DEF Spec
<1> QED BY <1>3 DEF FinishedStay
=============================================================================
