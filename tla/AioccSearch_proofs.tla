------------------------- MODULE AioccSearch_proofs -------------------------
(***************************************************************************)
(* Theorems of AioccSearch, for any limits, scores, and number of restarts.*)
(* Benchmarks may do what they like, so what matters is where the script   *)
(* can be when it reads a file: a candidate has a score before it is       *)
(* deleted, a summary has a line before its best is selected, and          *)
(* incomplete files are around only while they are written, unless the     *)
(* script was killed.  The last part is about sequence numbers, and what   *)
(* an interrupted generation or split leaves behind.                       *)
(***************************************************************************)
EXTENDS AioccSearch, TLAPS, SequenceTheorems, FiniteSetTheorems

(* The bounds, one by one.                                                 *)
LEMMA Bounds ==
    /\ TryLimit \in Nat /\ FailLimit \in Nat /\ MaxSn \in Nat /\ MaxEpoch \in Nat
    /\ MaxRound \in Nat /\ MaxStarts \in Nat /\ MaxKills \in Nat
    /\ NewRules \in Nat /\ None \notin Int
BY BoundsAssumption

(* A line is made of what it is made of.                                   *)
LEMMA LineType ==
    ASSUME NEW c \in Sns, NEW s \in Nat, NEW n \in Nat
    PROVE  /\ Line(c, s, n) \in Lines
           /\ Line(c, s, n).rule = c /\ Line(c, s, n).score = s /\ Line(c, s, n).try = n
BY DEF Line, Lines

(* A relation that orders finitely many things has a greatest one: here    *)
(* the last of the lines with the highest score.                           *)
LEMMA LastOfTheHighest ==
    ASSUME NEW s \in Seq(Lines), s # <<>>
    PROVE  \E i \in 1 .. Len(s) :
               /\ \A j \in 1 .. Len(s) : s[j].score <= s[i].score
               /\ \A j \in i + 1 .. Len(s) : s[j].score < s[i].score
<1> DEFINE I == 1 .. Len(s)
           Beats(j, i) == s[j].score > s[i].score \/ (s[j].score = s[i].score /\ j > i)
           Above(i) == {j \in I : Beats(j, i)}
<1>1. Len(s) \in Nat \ {0} /\ 1 \in I /\ I \subseteq Nat
  BY EmptySeq
<1>2. \A i \in I : s[i].score \in Nat
  <2> SUFFICES ASSUME NEW i \in 1 .. Len(s) PROVE s[i].score \in Nat
    OBVIOUS
  <2>1. s[i] \in Lines
    BY ElementOfSeq
  <2> QED
    BY <2>1 DEF Lines
<1>3. IsFiniteSet(I)
  BY <1>1, FS_Interval
<1>4. IsWellFoundedOn(StrictSubsetOrdering(I), SUBSET I)
  BY <1>3, FS_StrictSubsetOrderingWellFounded, FS_FiniteSubsetsOfFinite
<1>5. PICK T : T = {Above(i) : i \in I}
  OBVIOUS
<1>6. T \subseteq SUBSET I /\ T # {}
  <2>1. \A i \in I : Above(i) \in SUBSET I
    OBVIOUS
  <2> HIDE DEF Above
  <2> QED
    BY <1>1, <1>5, <2>1
<1>7. PICK x \in T : \A y \in T : ~(<<y, x>> \in StrictSubsetOrdering(I))
  BY <1>4, <1>6, WFMin
<1>8. PICK i \in I : x = Above(i)
  BY <1>5, <1>7
<1>9. Above(i) = {}
  <2> SUFFICES ASSUME NEW j \in I, Beats(j, i) PROVE FALSE
    OBVIOUS
  <2>1. Above(j) \subseteq Above(i)
    <3> SUFFICES ASSUME NEW k \in I, Beats(k, j) PROVE Beats(k, i)
      OBVIOUS
    <3> QED
      BY <1>1, <1>2
  <2>2. j \in Above(i) /\ j \notin Above(j)
    BY <1>1, <1>2
  <2>3. Above(j) \in T
    BY <1>5
  <2>4. <<Above(j), Above(i)>> \in StrictSubsetOrdering(I)
    BY <2>1, <2>2 DEF StrictSubsetOrdering
  <2> QED
    BY <1>7, <1>8, <2>3, <2>4
<1>10. \A j \in I : ~Beats(j, i)
  BY <1>9
<1>11. \A j \in I : s[j].score <= s[i].score
  BY <1>2, <1>10
<1>12. \A j \in i + 1 .. Len(s) : s[j].score < s[i].score
  <2> SUFFICES ASSUME NEW j \in i + 1 .. Len(s) PROVE s[j].score < s[i].score
    OBVIOUS
  <2>1. j \in I /\ j > i
    BY <1>1
  <2> QED
    BY <1>2, <1>10, <2>1
<1> QED
  BY <1>11, <1>12

(* _get_highest_score.sh returns a line of the summary.                    *)
LEMMA HighestType ==
    ASSUME NEW s \in Seq(Lines), s # <<>>
    PROVE  Highest(s) \in Lines
<1>1. PICK i \in 1 .. Len(s) :
               /\ \A j \in 1 .. Len(s) : s[j].score <= s[i].score
               /\ \A j \in i + 1 .. Len(s) : s[j].score < s[i].score
  BY LastOfTheHighest
<1>2. \E l \in {s[k] : k \in 1 .. Len(s)} :
        \E k \in 1 .. Len(s) :
            /\ s[k] = l
            /\ \A j \in 1 .. Len(s) : s[j].score <= l.score
            /\ \A j \in k + 1 .. Len(s) : s[j].score < l.score
  BY <1>1
<1>3. Highest(s) \in {s[k] : k \in 1 .. Len(s)}
  BY <1>2 DEF Highest
<1> QED
  BY <1>3, ElementOfSeq

(* benchmark_rule writes a line of the summary, and leaves it not empty.   *)
LEMMA RecordedType ==
    ASSUME NEW l \in Lines, Summary \in Seq(Lines)
    PROVE  Recorded(l) \in Seq(Lines) /\ Recorded(l) # <<>>
<1>1. CASE Summary = <<>>
  BY <1>1 DEF Recorded
<1>2. CASE Summary # <<>>
  <2> DEFINE n == Len(Summary)
             e(i) == IF Summary[i].rule = l.rule THEN l ELSE Summary[i]
  <2>1. n \in Nat \ {0}
    BY <1>2, EmptySeq
  <2>2. \A i \in 1 .. n : e(i) \in Lines
    BY ElementOfSeq
  <2>3. Recorded(l) = [i \in 1 .. n |-> e(i)]
    BY <1>2 DEF Recorded
  <2> HIDE DEF e, n
  <2>4. [i \in 1 .. n |-> e(i)] \in Seq(Lines)
    BY <2>1, <2>2, IsASeq
  <2>5. [i \in 1 .. n |-> e(i)] # <<>>
    BY <2>1
  <2> QED
    BY <2>3, <2>4, <2>5
<1> QED
  BY <1>1, <1>2

(* What grep finds for a candidate.                                        *)
LEMMA OldLineType ==
    ASSUME NEW c \in Sns, Summary \in Seq(Lines)
    PROVE  OldLine(c) \in Lines
<1>1. CASE LinesOf(c) = {}
  BY <1>1, LineType DEF OldLine
<1>2. CASE LinesOf(c) # {}
  <2>1. (CHOOSE i \in LinesOf(c) : TRUE) \in LinesOf(c)
    BY <1>2
  <2>2. (CHOOSE i \in LinesOf(c) : TRUE) \in 1 .. Len(Summary)
    BY <2>1 DEF LinesOf
  <2>3. OldLine(c) = Summary[CHOOSE i \in LinesOf(c) : TRUE]
    BY <1>2 DEF OldLine
  <2> QED
    BY <2>2, <2>3, ElementOfSeq
<1> QED
  BY <1>1, <1>2

(***************************************************************************)
(* The invariant.                                                          *)
(***************************************************************************)
Outcomes == [result : {"stable", "unstable", "failed"}, try : Nat]

Typed ==
    /\ TypeOK
    /\ summary \in [Epochs -> [Rounds -> Seq(Lines)]]
    /\ best \in [Epochs -> Lines \cup {None}]
    /\ line \in Lines
    /\ last \in Outcomes
    /\ scored \in [Sns -> Nat \cup {None}]
    /\ kills \in Nat

(* The same in three parts: directories, files of rules, and the script.   *)
Dirs ==
    /\ epoch \in Epochs \cup {None} /\ round \in [Epochs -> Rounds]
    /\ summary \in [Epochs -> [Rounds -> Seq(Lines)]]
    /\ best \in [Epochs -> Lines \cup {None}]
Files ==
    /\ cands \subseteq Sns /\ broken \subseteq cands /\ empty \subseteq broken
    /\ merged \in [Sns -> Sns \cup {None}]
    /\ active \in Sns \cup {None}
    /\ sn \in 0 .. MaxSn + 1 /\ next \in 0 .. MaxSn + 1
    /\ snFile \in {"number", "pair", "empty"} /\ lost \in BOOLEAN
Shell ==
    /\ cand \in Sns /\ pc \in Places /\ fails \in 0 .. FailLimit + 1
    /\ line \in Lines /\ last \in Outcomes
    /\ scored \in [Sns -> Nat \cup {None}] /\ kills \in Nat

(* What files and variables start with.                                    *)
LEMMA Defaults ==
    /\ 0 \in Sns /\ 0 \in Epochs /\ 0 \in Rounds /\ 0 \in 0 .. MaxSn + 1
    /\ 0 \in 0 .. FailLimit + 1
    /\ NoLine \in Lines /\ NoLast \in Outcomes
    /\ BlankRound \in [Rounds -> Seq(Lines)]
    /\ NoScores \in [Sns -> Nat \cup {None}]
BY Bounds, LineType, EmptySeq
DEF Sns, Epochs, Rounds, NoLine, NoLast, Outcomes, BlankRound, NoScores

(* A running script has an epoch, counts failures, and has numbers left.   *)
Running ==
    /\ epoch = None => pc = "down" /\ cands = {}
    /\ pc # "judge" => fails <= FailLimit
    /\ pc \in {"generating", "splitting"} => next \in Sns

(* What was tested has a score, and the summary has a line.                *)
Tested ==
    /\ pc \in {"judge", "delete"} => scored[cand] # None /\ Summary # <<>>
    /\ pc = "test" /\ cands = {} => Summary # <<>>

(* Incomplete files are being written, unless the script was killed.       *)
WritePlaces == {"seed", "generating", "split", "splitting", "splitsave", "splitnumber",
                "splitrenumber", "newepoch", "mkepoch", "filter"}
Clean ==
    kills = 0 =>
        /\ pc \notin WritePlaces => broken = {}
        /\ pc = "seed" => broken \subseteq {0}
        /\ pc = "generating" => broken \subseteq {next}

(* While a candidate is measured the clients run it or nothing, unless its *)
(* file is empty.                                                          *)
Measuring == pc = "measure" => cand \in empty \/ active \in {None, cand}

IInv == Typed /\ Running /\ Tested /\ Clean /\ Measuring

(* Every step keeps the invariant, action by action.                       *)
LEMMA Step == IInv /\ [Next]_vars => IInv'
<1> SUFFICES ASSUME IInv, [Next]_vars PROVE IInv'
    OBVIOUS
<1> USE Bounds, Defaults DEF Goto, dirVars, ruleVars, snVars, runVars, envVars, Epochs, Rounds, Sns, R
<1>1. CASE Resume
  <2>1. Typed'
    <3>1. Dirs'
      BY <1>1 DEF IInv, Typed, Dirs, TypeOK, Resume, Begin
    <3>2. Files'
      BY <1>1 DEF IInv, Typed, Files, TypeOK, Resume, Begin
    <3>3. Shell'
      BY <1>1 DEF IInv, Typed, Shell, TypeOK, Places, Resume, Begin
    <3> QED
      BY <3>1, <3>2, <3>3 DEF Typed, Dirs, Files, Shell, TypeOK
  <2>2. Running'
    BY <1>1 DEF IInv, Running, Resume, Begin
  <2>3. Tested'
    BY <1>1 DEF IInv, Tested, Summary, Resume, Begin
  <2>4. Clean' /\ Measuring'
    BY <1>1 DEF IInv, Clean, WritePlaces, Measuring, Resume, Begin
  <2> QED
    BY <2>1, <2>2, <2>3, <2>4 DEF IInv
<1>2. CASE StartAfresh
  <2>1. Typed'
    <3>1. Dirs'
      BY <1>2 DEF IInv, Typed, Dirs, TypeOK, StartAfresh, Begin
    <3>2. Files'
      BY <1>2 DEF IInv, Typed, Files, TypeOK, StartAfresh, Begin
    <3>3. Shell'
      BY <1>2 DEF IInv, Typed, Shell, TypeOK, Places, StartAfresh, Begin
    <3> QED
      BY <3>1, <3>2, <3>3 DEF Typed, Dirs, Files, Shell, TypeOK
  <2>2. Running'
    BY <1>2 DEF IInv, Running, StartAfresh, Begin
  <2>3. Tested'
    BY <1>2 DEF IInv, Tested, Summary, StartAfresh, Begin
  <2>4. Clean' /\ Measuring'
    BY <1>2 DEF IInv, Clean, WritePlaces, Measuring, StartAfresh, Begin
  <2> QED
    BY <2>1, <2>2, <2>3, <2>4 DEF IInv
<1>3. CASE Seed
  <2>1. Typed'
    <3>1. Dirs'
      BY <1>3 DEF IInv, Typed, Dirs, TypeOK, Seed
    <3>2. Files'
      BY <1>3 DEF IInv, Typed, Files, TypeOK, Seed
    <3>3. Shell'
      BY <1>3 DEF IInv, Typed, Shell, TypeOK, Places, Seed
    <3> QED
      BY <3>1, <3>2, <3>3 DEF Typed, Dirs, Files, Shell, TypeOK
  <2>2. Running'
    BY <1>3 DEF IInv, Running, Seed
  <2>3. Tested'
    BY <1>3 DEF IInv, Tested, Summary, Seed
  <2>4. Clean' /\ Measuring'
    BY <1>3 DEF IInv, Clean, WritePlaces, Measuring, Seed
  <2> QED
    BY <2>1, <2>2, <2>3, <2>4 DEF IInv
<1>4. CASE Kill
  <2>1. Typed'
    <3>1. Dirs'
      BY <1>4 DEF IInv, Typed, Dirs, TypeOK, Kill, Forget
    <3>2. Files'
      BY <1>4 DEF IInv, Typed, Files, TypeOK, Kill, Forget
    <3>3. Shell'
      BY <1>4 DEF IInv, Typed, Shell, TypeOK, Places, Kill, Forget
    <3> QED
      BY <3>1, <3>2, <3>3 DEF Typed, Dirs, Files, Shell, TypeOK
  <2>2. Running'
    BY <1>4 DEF IInv, Running, Kill, Forget
  <2>3. Tested'
    BY <1>4 DEF IInv, Tested, Summary, Kill, Forget
  <2>4. Clean' /\ Measuring'
    BY <1>4 DEF IInv, Typed, TypeOK, Clean, WritePlaces, Measuring, Kill, Forget
  <2> QED
    BY <2>1, <2>2, <2>3, <2>4 DEF IInv
<1>6. CASE NoCandidates
  <2>1. Typed'
    <3>1. Dirs'
      BY <1>6 DEF IInv, Typed, Dirs, TypeOK, NoCandidates, Exit, Forget
    <3>2. Files'
      BY <1>6 DEF IInv, Typed, Files, TypeOK, NoCandidates, Exit, Forget
    <3>3. Shell'
      BY <1>6 DEF IInv, Typed, Shell, TypeOK, Places, NoCandidates, Exit, Forget
    <3> QED
      BY <3>1, <3>2, <3>3 DEF Typed, Dirs, Files, Shell, TypeOK
  <2>2. Running'
    BY <1>6 DEF IInv, Running, NoCandidates, Exit, Forget
  <2>3. Tested'
    BY <1>6 DEF IInv, Tested, Summary, NoCandidates, Exit, Forget
  <2>4. Clean' /\ Measuring'
    BY <1>6 DEF IInv, Clean, WritePlaces, Measuring, NoCandidates, Exit, Forget
  <2> QED
    BY <2>1, <2>2, <2>3, <2>4 DEF IInv
<1>7. CASE Deploy
  <2>1. Typed'
    <3>1. Dirs'
      BY <1>7 DEF IInv, Typed, Dirs, TypeOK, Deploy
    <3>2. Files'
      BY <1>7 DEF IInv, Typed, Files, TypeOK, Deploy
    <3>3. Shell'
      BY <1>7 DEF IInv, Typed, Shell, TypeOK, Places, Deploy
    <3> QED
      BY <3>1, <3>2, <3>3 DEF Typed, Dirs, Files, Shell, TypeOK
  <2>2. Running'
    BY <1>7 DEF IInv, Running, Deploy
  <2>3. Tested'
    BY <1>7 DEF IInv, Tested, Summary, Deploy
  <2>4. Clean' /\ Measuring'
    BY <1>7 DEF IInv, Clean, WritePlaces, Measuring, Deploy
  <2> QED
    BY <2>1, <2>2, <2>3, <2>4 DEF IInv
<1>8. CASE Pick
  <2>1. Typed'
    <3>1. Dirs'
      BY <1>8 DEF IInv, Typed, Dirs, TypeOK, Pick
    <3>2. Files'
      BY <1>8 DEF IInv, Typed, Files, TypeOK, Pick
    <3>3. Shell'
      BY <1>8 DEF IInv, Typed, Shell, TypeOK, Places, Pick
    <3> QED
      BY <3>1, <3>2, <3>3 DEF Typed, Dirs, Files, Shell, TypeOK
  <2>2. Running'
    BY <1>8 DEF IInv, Running, Pick
  <2>3. Tested'
    BY <1>8 DEF IInv, Tested, Summary, Pick
  <2>4. Clean' /\ Measuring'
    BY <1>8 DEF IInv, Clean, WritePlaces, Measuring, Pick
  <2> QED
    BY <2>1, <2>2, <2>3, <2>4 DEF IInv
<1>9. CASE SetRules
  <2>1. Typed'
    <3>1. Dirs'
      BY <1>9 DEF IInv, Typed, Dirs, TypeOK, SetRules, Parsed
    <3>2. Files'
      BY <1>9 DEF IInv, Typed, Files, TypeOK, SetRules, Parsed
    <3>3. Shell'
      BY <1>9 DEF IInv, Typed, Shell, TypeOK, Places, SetRules
    <3> QED
      BY <3>1, <3>2, <3>3 DEF Typed, Dirs, Files, Shell, TypeOK
  <2>2. Running'
    BY <1>9 DEF IInv, Running, SetRules
  <2>3. Tested'
    BY <1>9 DEF IInv, Tested, Summary, SetRules
  <2>4. Clean' /\ Measuring'
    BY <1>9 DEF IInv, Clean, WritePlaces, Measuring, SetRules, Parsed
  <2> QED
    BY <2>1, <2>2, <2>3, <2>4 DEF IInv
<1>10. CASE Measure
  <2>0. /\ epoch \in Epochs /\ round[epoch] \in Rounds /\ Summary \in Seq(Lines)
        /\ cand \in Sns /\ OldLine(cand) \in Lines
    <3>1. epoch \in Epochs /\ round[epoch] \in Rounds /\ cand \in Sns
      BY <1>10 DEF Measure, IInv, Typed, TypeOK, Running
    <3>2. Summary \in Seq(Lines)
      BY <3>1 DEF Summary, IInv, Typed
    <3> QED
      BY <3>1, <3>2, OldLineType
  <2>a. PICK l \in Lines, res \in {"stable", "unstable", "failed"}, score \in Nat, t \in Nat :
          /\ summary' = [summary EXCEPT ![epoch][round[epoch]] = Recorded(l)]
          /\ last' = [result |-> res, try |-> t]
          /\ fails' = IF res = "failed" THEN fails + 1 ELSE fails
          /\ scored' = [scored EXCEPT ![cand] = score]
    <3>1. PICK res \in Results, s \in Scores :
          LET old == OldLine(cand)
              score == CASE res = "stable" -> s
                         [] res = "unstable" -> 0
                         [] res = "failed" -> old.score IN
          /\ summary' = [summary EXCEPT ![epoch][R] = Recorded(Line(cand, score, old.try + 1))]
          /\ last' = [result |-> res, try |-> old.try + 1]
          /\ CountFailure(res)
          /\ scored' = [scored EXCEPT ![cand] = score]
      BY <1>10 DEF Measure
    <3> DEFINE score == CASE res = "stable" -> s
                          [] res = "unstable" -> 0
                          [] res = "failed" -> OldLine(cand).score
               t == OldLine(cand).try + 1
    <3>2. res \in {"stable", "unstable", "failed"} /\ s \in Nat
      BY BoundsAssumption
    <3>3. OldLine(cand).score \in Nat /\ t \in Nat
      BY <2>0 DEF Lines
    <3>4. score \in Nat
      BY <3>2, <3>3
    <3>5. /\ summary' = [summary EXCEPT ![epoch][round[epoch]] = Recorded(Line(cand, score, t))]
          /\ last' = [result |-> res, try |-> t]
          /\ fails' = IF res = "failed" THEN fails + 1 ELSE fails
          /\ scored' = [scored EXCEPT ![cand] = score]
      BY <3>1 DEF CountFailure, R
    <3> HIDE DEF score, t
    <3>6. Line(cand, score, t) \in Lines
      BY <2>0, <3>3, <3>4, LineType
    <3> QED
      BY <3>2, <3>3, <3>4, <3>5, <3>6
  <2>b. PICK m \in {active, None} : merged' = [merged EXCEPT ![cand] = m]
    BY <1>10 DEF Measure
  <2>c. /\ pc = "measure" /\ pc' = "judge"
        /\ UNCHANGED <<epoch, round, best, cands, broken, empty, active, sn, snFile, lost, cand, line, next,
                       starts, kills, origin>>
    BY <1>10 DEF Measure
  <2>d. Recorded(l) \in Seq(Lines) /\ Recorded(l) # <<>>
    BY <2>0, RecordedType
  <2>1. Typed'
    <3>1. Dirs'
      BY <2>0, <2>a, <2>c, <2>d DEF IInv, Typed, Dirs, TypeOK
    <3>2. Files'
      BY <2>0, <2>b, <2>c DEF IInv, Typed, Files, TypeOK
    <3>3. Shell'
      <4>1. fails \in Nat /\ fails <= FailLimit
        BY <2>c DEF IInv, Typed, TypeOK, Running
      <4>2. fails' \in 0 .. FailLimit + 1
        BY <2>a, <4>1
      <4>3. last' \in Outcomes
        BY <2>a DEF Outcomes
      <4>4. scored' \in [Sns -> Nat \cup {None}]
        BY <2>a DEF IInv, Typed
      <4>5. cand' \in Sns /\ pc' \in Places /\ line' \in Lines /\ kills' \in Nat
        BY <2>c DEF IInv, Typed, TypeOK, Places
      <4> QED
        BY <4>2, <4>3, <4>4, <4>5 DEF Shell
    <3> QED
      BY <3>1, <3>2, <3>3 DEF Typed, Dirs, Files, Shell, TypeOK
  <2>2. Running'
    BY <2>a, <2>c DEF IInv, Running
  <2>3. Tested'
    <3>1. Summary' = Recorded(l)
      BY <2>0, <2>a, <2>c DEF Summary, IInv, Typed
    <3>2. scored'[cand'] # None
      BY <2>0, <2>a, <2>c DEF IInv, Typed
    <3> QED
      BY <2>c, <2>d, <3>1, <3>2 DEF Tested
  <2>4. Clean' /\ Measuring'
    BY <2>0, <2>b, <2>c DEF IInv, Clean, WritePlaces, Measuring
  <2> QED
    BY <2>1, <2>2, <2>3, <2>4 DEF IInv
<1>11. CASE TooManyFailures
  <2>1. Typed'
    <3>1. Dirs'
      BY <1>11 DEF IInv, Typed, Dirs, TypeOK, TooManyFailures, Exit, Forget
    <3>2. Files'
      BY <1>11 DEF IInv, Typed, Files, TypeOK, TooManyFailures, Exit, Forget
    <3>3. Shell'
      BY <1>11 DEF IInv, Typed, Shell, TypeOK, Places, TooManyFailures, Exit, Forget
    <3> QED
      BY <3>1, <3>2, <3>3 DEF Typed, Dirs, Files, Shell, TypeOK
  <2>2. Running'
    BY <1>11 DEF IInv, Running, TooManyFailures, Exit, Forget
  <2>3. Tested'
    BY <1>11 DEF IInv, Tested, Summary, TooManyFailures, Exit, Forget
  <2>4. Clean' /\ Measuring'
    BY <1>11 DEF IInv, Clean, WritePlaces, Measuring, TooManyFailures, Exit, Forget
  <2> QED
    BY <2>1, <2>2, <2>3, <2>4 DEF IInv
<1>12. CASE Judge
  <2>1. Typed'
    <3>1. Dirs'
      BY <1>12 DEF IInv, Typed, Dirs, TypeOK, Judge
    <3>2. Files'
      BY <1>12 DEF IInv, Typed, Files, TypeOK, Judge
    <3>3. Shell'
      BY <1>12 DEF IInv, Typed, Shell, TypeOK, Places, Judge
    <3> QED
      BY <3>1, <3>2, <3>3 DEF Typed, Dirs, Files, Shell, TypeOK
  <2>2. Running'
    BY <1>12 DEF IInv, Running, Judge
  <2>3. Tested'
    BY <1>12 DEF IInv, Tested, Summary, Judge
  <2>4. Clean' /\ Measuring'
    BY <1>12 DEF IInv, Clean, WritePlaces, Measuring, Judge
  <2> QED
    BY <2>1, <2>2, <2>3, <2>4 DEF IInv
<1>13. CASE DeleteCandidate
  <2>1. Typed'
    <3>1. Dirs'
      BY <1>13 DEF IInv, Typed, Dirs, TypeOK, DeleteCandidate
    <3>2. Files'
      BY <1>13 DEF IInv, Typed, Files, TypeOK, DeleteCandidate
    <3>3. Shell'
      BY <1>13 DEF IInv, Typed, Shell, TypeOK, Places, DeleteCandidate
    <3> QED
      BY <3>1, <3>2, <3>3 DEF Typed, Dirs, Files, Shell, TypeOK
  <2>2. Running'
    BY <1>13 DEF IInv, Running, DeleteCandidate
  <2>3. Tested'
    BY <1>13 DEF IInv, Tested, Summary, DeleteCandidate
  <2>4. Clean' /\ Measuring'
    BY <1>13 DEF IInv, Clean, WritePlaces, Measuring, DeleteCandidate
  <2> QED
    BY <2>1, <2>2, <2>3, <2>4 DEF IInv
<1>14. CASE SelectBest
  <2>0. Highest(Summary) \in Lines
    <3>1. epoch \in Epochs /\ round[epoch] \in Rounds /\ Summary # <<>>
      BY <1>14 DEF SelectBest, IInv, Typed, TypeOK, Running, Tested
    <3>2. Summary \in Seq(Lines)
      BY <3>1 DEF Summary, IInv, Typed
    <3> QED
      BY <3>1, <3>2, HighestType
  <2>1. Typed'
    <3>1. Dirs'
      BY <1>14, <2>0 DEF IInv, Typed, Dirs, TypeOK, SelectBest
    <3>2. Files'
      BY <1>14, <2>0 DEF IInv, Typed, Files, TypeOK, SelectBest
    <3>3. Shell'
      BY <1>14, <2>0 DEF IInv, Typed, Shell, TypeOK, Places, SelectBest
    <3> QED
      BY <3>1, <3>2, <3>3 DEF Typed, Dirs, Files, Shell, TypeOK
  <2>2. Running'
    BY <1>14, <2>0 DEF IInv, Running, SelectBest
  <2>3. Tested'
    BY <1>14 DEF IInv, Tested, Summary, SelectBest
  <2>4. Clean' /\ Measuring'
    BY <1>14 DEF IInv, Clean, WritePlaces, Measuring, SelectBest
  <2> QED
    BY <2>1, <2>2, <2>3, <2>4 DEF IInv
<1>15. CASE Improve
  <2>0. line.rule \in Sns
    BY DEF IInv, Typed, Lines
  <2>1. Typed'
    <3>1. Dirs'
      BY <1>15, <2>0 DEF IInv, Typed, Dirs, TypeOK, Improve, Derive, First, Forget
    <3>0. lost' \in BOOLEAN
      BY <1>15, Zenon DEF Improve
    <3>2. Files'
      <4>0. First \in 0 .. MaxSn + 1
        BY DEF First, IInv, Typed, TypeOK
      <4>1. next' \in 0 .. MaxSn + 1
        BY <1>15, <4>0 DEF Improve, Derive, Forget
      <4>2. UNCHANGED <<cands, broken, empty, merged, active, sn, snFile>>
        BY <1>15 DEF Improve
      <4> QED
        BY <3>0, <4>1, <4>2 DEF IInv, Typed, Files, TypeOK
    <3>3. Shell'
      BY <1>15, <2>0 DEF IInv, Typed, Shell, TypeOK, Places, Improve, Derive, Forget
    <3> QED
      BY <3>1, <3>2, <3>3 DEF Typed, Dirs, Files, Shell, TypeOK
  <2>2. Running'
    <3>1. pc = "compare" /\ epoch # None /\ fails <= FailLimit
      BY <1>15 DEF Improve, IInv, Running
    <3>2. epoch' = epoch /\ pc' \in {"generate", "down"} /\ fails' \in {fails, 0}
      BY <1>15 DEF Improve, Derive, Forget
    <3> QED
      BY <3>1, <3>2 DEF Running
  <2>3. Tested'
    BY <1>15 DEF IInv, Tested, Summary, Improve, Derive, Forget
  <2>4. Clean' /\ Measuring'
    BY <1>15 DEF IInv, Clean, WritePlaces, Measuring, Improve, Derive, Forget
  <2> QED
    BY <2>1, <2>2, <2>3, <2>4 DEF IInv
<1>16. CASE Exhausted
  <2>0. BestLine.rule \in Sns
    <3>1. epoch \in Epochs
      BY <1>16 DEF Exhausted, IInv, Typed, TypeOK, Running
    <3>2. BestLine \in Lines
      BY <3>1 DEF BestLine, IInv, Typed
    <3> QED
      BY <3>2 DEF Lines
  <2>1. Typed'
    <3>1. Dirs'
      BY <1>16, <2>0 DEF IInv, Typed, Dirs, TypeOK, Exhausted, Derive, First, Forget
    <3>0. lost' \in BOOLEAN
      BY <1>16, Zenon DEF Exhausted
    <3>2. Files'
      <4>0. First \in 0 .. MaxSn + 1
        BY DEF First, IInv, Typed, TypeOK
      <4>1. next' \in 0 .. MaxSn + 1
        BY <1>16, <4>0 DEF Exhausted, Derive, Forget
      <4>2. UNCHANGED <<cands, broken, empty, merged, active, sn, snFile>>
        BY <1>16 DEF Exhausted
      <4> QED
        BY <3>0, <4>1, <4>2 DEF IInv, Typed, Files, TypeOK
    <3>3. Shell'
      BY <1>16, <2>0 DEF IInv, Typed, Shell, TypeOK, Places, Exhausted, Derive, Forget
    <3> QED
      BY <3>1, <3>2, <3>3 DEF Typed, Dirs, Files, Shell, TypeOK
  <2>2. Running'
    <3>1. pc = "compare" /\ epoch # None /\ fails <= FailLimit
      BY <1>16 DEF Exhausted, IInv, Running
    <3>2. epoch' = epoch /\ pc' \in {"split", "down"} /\ fails' \in {fails, 0}
      BY <1>16 DEF Exhausted, Derive, Forget
    <3> QED
      BY <3>1, <3>2 DEF Running
  <2>3. Tested'
    BY <1>16 DEF IInv, Tested, Summary, Exhausted, Derive, Forget
  <2>4. Clean' /\ Measuring'
    BY <1>16 DEF IInv, Clean, WritePlaces, Measuring, Exhausted, Derive, Forget
  <2> QED
    BY <2>1, <2>2, <2>3, <2>4 DEF IInv
<1>17. CASE Generate
  <2>0. next \in Sns /\ next + 1 \in 0 .. MaxSn + 1
    <3>1. next \in 0 .. MaxSn + 1
      BY DEF IInv, Typed, TypeOK
    <3>2. next \in Sns
      <4>1. CASE pc = "generating"
        BY <4>1 DEF IInv, Running
      <4>2. CASE pc # "generating"
        <5>1. next <= MaxSn
          BY <1>17, <4>2 DEF Generate, OpenRule
        <5> QED
          BY <3>1, <5>1
      <4> QED
        BY <4>1, <4>2
    <3> QED
      BY <3>2
  <2>1. Typed'
    <3>1. Dirs'
      BY <1>17, <2>0 DEF IInv, Typed, Dirs, TypeOK, Generate, OpenRule, CloseRule
    <3>2. Files'
      BY <1>17, <2>0 DEF IInv, Typed, Files, TypeOK, Generate, OpenRule, CloseRule
    <3>3. Shell'
      BY <1>17, <2>0 DEF IInv, Typed, Shell, TypeOK, Places, Generate, OpenRule, CloseRule
    <3> QED
      BY <3>1, <3>2, <3>3 DEF Typed, Dirs, Files, Shell, TypeOK
  <2>2. Running'
    BY <1>17, <2>0 DEF IInv, Running, Generate, OpenRule, CloseRule
  <2>3. Tested'
    BY <1>17 DEF IInv, Tested, Summary, Generate, OpenRule, CloseRule
  <2>4. Clean' /\ Measuring'
    BY <1>17 DEF IInv, Clean, WritePlaces, Measuring, Generate, OpenRule, CloseRule
  <2> QED
    BY <2>1, <2>2, <2>3, <2>4 DEF IInv
<1>18. CASE GenerateDone
  <2>1. Typed'
    <3>1. Dirs'
      BY <1>18 DEF IInv, Typed, Dirs, TypeOK, GenerateDone
    <3>2. Files'
      BY <1>18 DEF IInv, Typed, Files, TypeOK, GenerateDone, Die, Truncate, Write
    <3>3. Shell'
      BY <1>18 DEF IInv, Typed, Shell, TypeOK, Places, GenerateDone
    <3> QED
      BY <3>1, <3>2, <3>3 DEF Typed, Dirs, Files, Shell, TypeOK
  <2>2. Running'
    BY <1>18 DEF IInv, Running, GenerateDone
  <2>3. Tested'
    BY <1>18 DEF IInv, Tested, Summary, GenerateDone
  <2>4. Clean' /\ Measuring'
    BY <1>18 DEF IInv, Clean, WritePlaces, Measuring, GenerateDone
  <2> QED
    BY <2>1, <2>2, <2>3, <2>4 DEF IInv
<1>19. CASE CutNumber
  <2>1. Typed'
    <3>1. Dirs'
      BY <1>19 DEF IInv, Typed, Dirs, TypeOK, CutNumber
    <3>2. Files'
      BY <1>19 DEF IInv, Typed, Files, TypeOK, CutNumber, Truncate, Write, CutField
    <3>3. Shell'
      BY <1>19 DEF IInv, Typed, Shell, TypeOK, Places, CutNumber
    <3> QED
      BY <3>1, <3>2, <3>3 DEF Typed, Dirs, Files, Shell, TypeOK
  <2>2. Running'
    BY <1>19 DEF IInv, Running, CutNumber
  <2>3. Tested'
    BY <1>19 DEF IInv, Tested, Summary, CutNumber
  <2>4. Clean' /\ Measuring'
    BY <1>19 DEF IInv, Clean, WritePlaces, Measuring, CutNumber
  <2> QED
    BY <2>1, <2>2, <2>3, <2>4 DEF IInv
<1>20. CASE AdvanceRound
  <2>0. epoch \in Epochs /\ round[epoch] \in 0 .. MaxRound /\ round[epoch] + 1 \in 0 .. MaxRound
    <3>1. epoch \in Epochs
      BY <1>20 DEF AdvanceRound, IInv, Typed, TypeOK, Running
    <3>2. round[epoch] \in 0 .. MaxRound
      BY <3>1 DEF IInv, Typed, TypeOK
    <3>3. round[epoch] < MaxRound
      BY <1>20 DEF AdvanceRound
    <3> QED
      BY <3>1, <3>2, <3>3
  <2>1. Typed'
    <3>1. Dirs'
      BY <1>20, <2>0 DEF IInv, Typed, Dirs, TypeOK, AdvanceRound
    <3>2. Files'
      BY <1>20, <2>0 DEF IInv, Typed, Files, TypeOK, AdvanceRound
    <3>3. Shell'
      BY <1>20, <2>0 DEF IInv, Typed, Shell, TypeOK, Places, AdvanceRound
    <3> QED
      BY <3>1, <3>2, <3>3 DEF Typed, Dirs, Files, Shell, TypeOK
  <2>2. Running'
    BY <1>20, <2>0 DEF IInv, Running, AdvanceRound
  <2>3. Tested'
    BY <1>20 DEF IInv, Tested, Summary, AdvanceRound
  <2>4. Clean' /\ Measuring'
    BY <1>20 DEF IInv, Clean, WritePlaces, Measuring, AdvanceRound
  <2> QED
    BY <2>1, <2>2, <2>3, <2>4 DEF IInv
<1>21. CASE Split
  <2>0. next \in Sns /\ next + 1 \in 0 .. MaxSn + 1
    <3>1. next \in 0 .. MaxSn + 1
      BY DEF IInv, Typed, TypeOK
    <3>2. next \in Sns
      BY <1>21, <3>1 DEF Split, OpenRule, IInv, Running
    <3> QED
      BY <3>2
  <2>1. Typed'
    <3>1. Dirs'
      BY <1>21, <2>0 DEF IInv, Typed, Dirs, TypeOK, Split, OpenRule, CloseRule
    <3>2. Files'
      BY <1>21, <2>0 DEF IInv, Typed, Files, TypeOK, Split, OpenRule, CloseRule
    <3>3. Shell'
      BY <1>21, <2>0 DEF IInv, Typed, Shell, TypeOK, Places, Split, OpenRule, CloseRule
    <3> QED
      BY <3>1, <3>2, <3>3 DEF Typed, Dirs, Files, Shell, TypeOK
  <2>2. Running'
    BY <1>21, <2>0 DEF IInv, Running, Split, OpenRule, CloseRule
  <2>3. Tested'
    BY <1>21 DEF IInv, Tested, Summary, Split, OpenRule, CloseRule
  <2>4. Clean' /\ Measuring'
    BY <1>21 DEF IInv, Clean, WritePlaces, Measuring, Split, OpenRule, CloseRule
  <2> QED
    BY <2>1, <2>2, <2>3, <2>4 DEF IInv
<1>22. CASE SplitDone
  <2>1. Typed'
    <3>1. Dirs'
      BY <1>22 DEF IInv, Typed, Dirs, TypeOK, SplitDone
    <3>2. Files'
      BY <1>22 DEF IInv, Typed, Files, TypeOK, SplitDone, Die, Truncate, Write
    <3>3. Shell'
      BY <1>22 DEF IInv, Typed, Shell, TypeOK, Places, SplitDone
    <3> QED
      BY <3>1, <3>2, <3>3 DEF Typed, Dirs, Files, Shell, TypeOK
  <2>2. Running'
    BY <1>22 DEF IInv, Running, SplitDone
  <2>3. Tested'
    BY <1>22 DEF IInv, Tested, Summary, SplitDone
  <2>4. Clean' /\ Measuring'
    BY <1>22 DEF IInv, Clean, WritePlaces, Measuring, SplitDone
  <2> QED
    BY <2>1, <2>2, <2>3, <2>4 DEF IInv
<1>23. CASE AdvanceEpoch
  <2>0. epoch \in 0 .. MaxEpoch /\ epoch + 1 \in 0 .. MaxEpoch
    BY <1>23 DEF AdvanceEpoch, IInv, Typed, TypeOK, Running
  <2>1. Typed'
    <3>1. Dirs'
      BY <1>23, <2>0 DEF IInv, Typed, Dirs, TypeOK, AdvanceEpoch
    <3>2. Files'
      BY <1>23, <2>0 DEF IInv, Typed, Files, TypeOK, AdvanceEpoch
    <3>3. Shell'
      BY <1>23, <2>0 DEF IInv, Typed, Shell, TypeOK, Places, AdvanceEpoch
    <3> QED
      BY <3>1, <3>2, <3>3 DEF Typed, Dirs, Files, Shell, TypeOK
  <2>2. Running'
    BY <1>23, <2>0 DEF IInv, Running, AdvanceEpoch
  <2>3. Tested'
    BY <1>23 DEF IInv, Tested, Summary, AdvanceEpoch
  <2>4. Clean' /\ Measuring'
    BY <1>23 DEF IInv, Clean, WritePlaces, Measuring, AdvanceEpoch
  <2> QED
    BY <2>1, <2>2, <2>3, <2>4 DEF IInv
<1>24. CASE MakeEpoch
  <2>1. Typed'
    <3>1. Dirs'
      BY <1>24 DEF IInv, Typed, Dirs, TypeOK, MakeEpoch
    <3>2. Files'
      BY <1>24 DEF IInv, Typed, Files, TypeOK, MakeEpoch
    <3>3. Shell'
      BY <1>24 DEF IInv, Typed, Shell, TypeOK, Places, MakeEpoch
    <3> QED
      BY <3>1, <3>2, <3>3 DEF Typed, Dirs, Files, Shell, TypeOK
  <2>2. Running'
    BY <1>24 DEF IInv, Running, MakeEpoch
  <2>3. Tested'
    BY <1>24 DEF IInv, Tested, Summary, MakeEpoch
  <2>4. Clean' /\ Measuring'
    BY <1>24 DEF IInv, Clean, WritePlaces, Measuring, MakeEpoch
  <2> QED
    BY <2>1, <2>2, <2>3, <2>4 DEF IInv
<1>25. CASE Filter
  <2>1. Typed'
    <3>1. Dirs'
      BY <1>25 DEF IInv, Typed, Dirs, TypeOK, Filter
    <3>2. Files'
      BY <1>25 DEF IInv, Typed, Files, TypeOK, Filter
    <3>3. Shell'
      BY <1>25 DEF IInv, Typed, Shell, TypeOK, Places, Filter
    <3> QED
      BY <3>1, <3>2, <3>3 DEF Typed, Dirs, Files, Shell, TypeOK
  <2>2. Running'
    BY <1>25 DEF IInv, Running, Filter
  <2>3. Tested'
    BY <1>25 DEF IInv, Tested, Summary, Filter
  <2>4. Clean'
    BY <1>25 DEF IInv, Clean, WritePlaces, Filter
  <2>5. Measuring'
    BY <1>25 DEF IInv, Measuring, Filter
  <2> QED
    BY <2>1, <2>2, <2>3, <2>4, <2>5 DEF IInv
<1>26. CASE UNCHANGED vars
  BY <1>26 DEF vars, IInv, Typed, TypeOK, Running, Tested, Summary, Clean, Measuring
<1> QED
  BY <1>1, <1>2, <1>3, <1>4, <1>6, <1>7, <1>8, <1>9, <1>10, <1>11, <1>12, <1>13, <1>14, <1>15, <1>16, <1>17, <1>18, <1>19, <1>20, <1>21, <1>22, <1>23, <1>24, <1>25, <1>26 DEF Next, Round, NextRound

(* The search starts in a state of the invariant.                          *)
LEMMA Start == Init => IInv
<1> SUFFICES ASSUME Init PROVE IInv
  OBVIOUS
<1>1. BlankRound \in [Rounds -> Seq(Lines)] /\ NoScores \in [Sns -> Nat \cup {None}]
  BY Defaults
<1>0. lost \in BOOLEAN
  BY Zenon DEF Init
<1>2. Typed
  BY <1>0, <1>1, Bounds, Defaults DEF Init, Typed, TypeOK, Sns, Epochs, Rounds, Places
<1>3. Running /\ Tested /\ Clean /\ Measuring
  BY Bounds DEF Init, Running, Tested, Clean, Measuring, WritePlaces
<1> QED
  BY <1>2, <1>3 DEF IInv

(* The invariant holds of every reachable state.                           *)
LEMMA Invariance == Spec => []IInv
BY Start, Step, PTL DEF Spec

(***************************************************************************)
(* What follows from it.                                                   *)
(***************************************************************************)
(* Every variable of the search has its type.                              *)
THEOREM SearchTypes == Spec => []TypeOK
<1>1. IInv => TypeOK
  BY DEF IInv, Typed
<1> QED
  BY <1>1, Invariance, PTL

(* The counters kept for a rule set are the ones gathered while the        *)
(* clients ran it, killed or not: before they are measured the clients got *)
(* its file, and an incomplete one leaves them nothing else                *)
(* (benchmark_rule, parse_qos_rules), unless a kill left it empty.         *)
THEOREM CountersAreOwn == Spec => MergedIsOwn
<1> DEFINE Own == \A c \in Sns :
                      \/ merged'[c] \in {None, c, merged[c]}
                      \/ c \in empty /\ kills > 0
<1>1. IInv /\ [Next]_vars => [Own]_vars
  <2> SUFFICES ASSUME IInv, Next PROVE Own
    BY DEF vars
  <2> USE DEF dirVars, ruleVars
  <2>1. merged \in [Sns -> Sns \cup {None}] /\ cand \in Sns /\ kills \in Nat
    BY DEF IInv, Typed, TypeOK
  <2>2. CASE UNCHANGED merged
    BY <2>2
  <2>3. CASE SetRules
    BY <2>1, <2>3 DEF SetRules
  <2>4. CASE Measure
    <3>1. PICK m \in {active, None} : merged' = [merged EXCEPT ![cand] = m]
      BY <2>4 DEF Measure
    <3>2. pc = "measure"
      BY <2>4 DEF Measure
    <3>3. cand \in empty => kills > 0
      <4>1. kills = 0 => broken = {} /\ empty \subseteq broken
        BY <3>2 DEF IInv, Clean, WritePlaces, Typed, TypeOK
      <4> QED
        BY <2>1, <4>1
    <3>4. cand \in empty \/ m \in {None, cand}
      BY <3>2 DEF IInv, Measuring
    <3> QED
      BY <2>1, <3>1, <3>3, <3>4
  <2>5. CASE Resume \/ StartAfresh \/ Seed \/ Kill
    BY <2>2, <2>5 DEF Resume, StartAfresh, Seed, Kill
  <2>6. CASE NoCandidates \/ Deploy \/ Pick \/ TooManyFailures
    BY <2>2, <2>6 DEF NoCandidates, Exit, Deploy, Pick, TooManyFailures
  <2>7. CASE Judge \/ DeleteCandidate \/ SelectBest \/ Improve \/ Exhausted \/ Filter
    BY <2>2, <2>7 DEF Judge, DeleteCandidate, SelectBest, Improve, Exhausted, Filter
  <2>8. CASE Generate \/ Split
    BY <2>2, <2>8 DEF Generate, Split, OpenRule, CloseRule
  <2>9. CASE GenerateDone \/ CutNumber \/ AdvanceRound \/ SplitDone \/ AdvanceEpoch \/ MakeEpoch
    BY <2>2, <2>9 DEF GenerateDone, CutNumber, AdvanceRound, SplitDone, AdvanceEpoch, MakeEpoch
  <2> QED
    BY <2>3, <2>4, <2>5, <2>6, <2>7, <2>8, <2>9 DEF Next, Round, NextRound
<1> HIDE DEF Own
<1>2. Spec => [][Own]_vars
  BY <1>1, Invariance, PTL DEF Spec
<1> QED
  BY <1>2 DEF Own, MergedIsOwn

(* In a search that was not killed no set with rules missing is            *)
(* benchmarked: a file is incomplete while it is written, and until the    *)
(* filter when it is a split without new rules (_candidate_filter).        *)
THEOREM TestedAreWhole == Spec => []CandidatesWhole
<1>1. IInv => CandidatesWhole
  BY DEF IInv, Clean, WritePlaces, CandidatesWhole
<1> QED
  BY <1>1, Invariance, PTL

(* A candidate that disappears was benchmarked in the round or was an      *)
(* incomplete file, killed or not: only the deletion of the candidate that *)
(* was judged, the filter, and a fresh start, which comes when there are   *)
(* no candidates, remove any.                                              *)
THEOREM NoCandidateIsSkipped == Spec => NoCandidateSkipped
<1> DEFINE Skips == \A c \in cands \ cands' : scored[c] # None \/ c \in broken
<1>1. IInv /\ [Next]_vars => [Skips]_vars
  <2> SUFFICES ASSUME IInv, Next PROVE Skips
    BY DEF vars
  <2> USE DEF dirVars, ruleVars
  <2>1. CASE StartAfresh
    BY <2>1 DEF StartAfresh, IInv, Running
  <2>2. CASE DeleteCandidate
    BY <2>2 DEF DeleteCandidate, IInv, Tested
  <2>3. CASE Filter
    BY <2>3 DEF Filter
  <2>4. CASE Generate
    BY <2>4 DEF Generate, OpenRule, CloseRule
  <2>5. CASE Split
    BY <2>5 DEF Split, OpenRule, CloseRule
  <2>6. CASE Resume \/ Seed \/ Kill
    BY <2>6 DEF Resume, Seed, Kill
  <2>7. CASE NoCandidates \/ Deploy \/ Pick \/ SetRules \/ Measure
    BY <2>7 DEF NoCandidates, Exit, Deploy, Pick, SetRules, Measure
  <2>8. CASE TooManyFailures \/ Judge \/ SelectBest \/ Improve \/ Exhausted
    BY <2>8 DEF TooManyFailures, Exit, Judge, SelectBest, Improve, Exhausted
  <2>9. CASE GenerateDone \/ CutNumber \/ AdvanceRound
    BY <2>9 DEF GenerateDone, CutNumber, AdvanceRound
  <2>10. CASE SplitDone \/ AdvanceEpoch \/ MakeEpoch
    BY <2>10 DEF SplitDone, AdvanceEpoch, MakeEpoch
  <2> QED
    BY <2>1, <2>2, <2>3, <2>4, <2>5, <2>6, <2>7, <2>8, <2>9, <2>10 DEF Next, Round, NextRound
<1> QED
  BY <1>1, Invariance, PTL DEF Spec, NoCandidateSkipped

(***************************************************************************)
(* Sequence numbers.  A number at or above the one in next_rule_sn.cfg is  *)
(* free, unless a generation or a split was interrupted: then the files    *)
(* decide that the same one is made again, from the same rule, for the     *)
(* half-made rules enter no summary, and have no part in the choice.       *)
(***************************************************************************)
Busy == {"bench", "measure", "judge", "delete"}
GeneratePlaces == {"generate", "generating"}
SplitPlaces == {"split", "splitting"}
MakePlaces == GeneratePlaces \cup SplitPlaces
RedoPlaces == {"down", "loop", "test", "compare"} \cup Busy \cup MakePlaces

(* No number from sn on was ever given.                                    *)
Free == \A c \in Sns : c >= sn => origin[c] = None

(* Whatever the files name was given a number.                             *)
Named ==
    /\ origin \in [Sns -> Origins \cup {None}]
    /\ sn >= 1 /\ origin[0] \in {None, <<None, 0>>}
    /\ \A c \in cands : origin[c] # None
    /\ \A e \in Epochs, r \in Rounds : \A i \in 1 .. Len(summary[e][r]) :
           origin[summary[e][r][i].rule] # None
    /\ \A e \in Epochs : best[e] # None => origin[best[e].rule] # None

(* What the script has in hand.                                            *)
InHand ==
    /\ pc \in Busy => cand \in cands
    /\ pc = "compare" => cands = {} /\ line = Highest(Summary) /\ Summary # <<>>

(* How far a Python program can be.                                        *)
Reach ==
    pc \in MakePlaces =>
        /\ sn <= next /\ snFile # "empty" /\ (snFile = "pair" => next = sn)
        /\ pc = "generate" => next <= sn + NewRules
        /\ pc = "generating" => next < sn + NewRules /\ snFile # "pair"
        /\ pc = "split" => next <= sn + 1
        /\ pc = "splitting" => next = sn /\ snFile # "pair"

(* The round is decided by rules that were complete when it began.         *)
Settled ==
    /\ epoch # None /\ Summary # <<>>
    /\ \A i \in 1 .. Len(Summary) : Summary[i].rule < sn
    /\ BestLine.rule < sn
    /\ \A c \in cands : c >= sn

(* It is decided for the rule, and in the way, the numbers from sn on were *)
(* given for.                                                              *)
Generation ==
    /\ BestLine = Highest(Summary) /\ pc \notin SplitPlaces
    /\ \A c \in Sns : c >= sn /\ origin[c] # None =>
           c < sn + NewRules /\ origin[c] = <<BestLine.rule, c - sn>>
Splitting ==
    /\ BestLine # Highest(Summary) /\ ~(Highest(Summary).score > BestLine.score)
    /\ pc \notin GeneratePlaces
    /\ \A c \in Sns : c >= sn /\ origin[c] # None => c = sn /\ origin[c] = <<BestLine.rule, -1>>
Decided ==
    /\ merged[BestLine.rule] # None
    /\ pc \in MakePlaces => cand = BestLine.rule
    /\ Generation \/ Splitting

HalfMade == snFile = "number" /\ pc \in RedoPlaces /\ Settled /\ Decided

Allotted ==
    /\ Named /\ InHand /\ Reach
    /\ Free \/ HalfMade
    /\ pc \in MakePlaces => Settled /\ Decided

(* A rule that has no line in the summary gets none.                       *)
LEMMA RecordedElsewhere ==
    ASSUME NEW l, Summary \in Seq(Lines), Summary # <<>>,
           \A i \in 1 .. Len(Summary) : Summary[i].rule # l.rule
    PROVE  Recorded(l) = Summary
<1>1. Summary = [i \in 1 .. Len(Summary) |-> Summary[i]]
  OBVIOUS
<1>2. [i \in 1 .. Len(Summary) |-> IF Summary[i].rule = l.rule THEN l ELSE Summary[i]]
      = [i \in 1 .. Len(Summary) |-> Summary[i]]
  OBVIOUS
<1> QED
  BY <1>1, <1>2 DEF Recorded

(* The lines that benchmark_rule leaves are of old rules and the new one.  *)
LEMMA RecordedRules ==
    ASSUME NEW l, Summary \in Seq(Lines), NEW i \in 1 .. Len(Recorded(l))
    PROVE  \/ Recorded(l)[i].rule = l.rule
           \/ i \in 1 .. Len(Summary) /\ Recorded(l)[i].rule = Summary[i].rule
<1>1. CASE Summary = <<>>
  BY <1>1 DEF Recorded
<1>2. CASE Summary # <<>>
  <2>1. Recorded(l) = [j \in 1 .. Len(Summary) |-> IF Summary[j].rule = l.rule THEN l ELSE Summary[j]]
    BY <1>2 DEF Recorded
  <2>2. Len(Recorded(l)) = Len(Summary)
    <3>1. Len(Summary) \in Nat
      OBVIOUS
    <3> QED
      BY <2>1, <3>1
  <2> QED
    BY <2>1, <2>2
<1> QED
  BY <1>1, <1>2

(* The best line of a summary is a line of a rule that is in it.           *)
LEMMA HighestIsALine ==
    ASSUME NEW s \in Seq(Lines), s # <<>>
    PROVE  \E i \in 1 .. Len(s) : Highest(s) = s[i]
<1>1. PICK i \in 1 .. Len(s) :
               /\ \A j \in 1 .. Len(s) : s[j].score <= s[i].score
               /\ \A j \in i + 1 .. Len(s) : s[j].score < s[i].score
  BY LastOfTheHighest
<1>2. \E l \in {s[k] : k \in 1 .. Len(s)} :
        \E k \in 1 .. Len(s) :
            /\ s[k] = l
            /\ \A j \in 1 .. Len(s) : s[j].score <= l.score
            /\ \A j \in k + 1 .. Len(s) : s[j].score < l.score
  BY <1>1
<1>3. Highest(s) \in {s[k] : k \in 1 .. Len(s)}
  BY <1>2 DEF Highest
<1> QED
  BY <1>3

(* A step that leaves the directories, the numbers, and the candidates     *)
(* that were half made what they are.                                      *)
LEMMA QuietStep ==
    ASSUME IInv, Allotted, UNCHANGED <<dirVars, snVars, origin>>, cands' \subseteq cands,
           pc' \notin MakePlaces,
           pc' \in Busy => cand' \in cands',
           pc' = "compare" => cands' = {} /\ line' = Highest(Summary) /\ Summary # <<>>,
           HalfMade => /\ pc' \in RedoPlaces
                       /\ \A c \in Sns : c < sn => merged'[c] = merged[c]
    PROVE  Allotted'
<1> USE DEF dirVars, snVars
<1>1. /\ Summary' = Summary /\ BestLine' = BestLine
      /\ Highest(Summary)' = Highest(Summary)
  BY DEF Summary, R, BestLine, Highest
<1>2. Named' /\ Reach'
  BY DEF Allotted, Named, Reach
<1>3. InHand'
  BY <1>1 DEF InHand
<1>4. CASE Free
  BY <1>2, <1>3, <1>4 DEF Allotted, Free
<1>5. CASE HalfMade
  <2>1. BestLine.rule \in Sns /\ BestLine.rule < sn
    <3>1. epoch \in Epochs /\ BestLine.rule < sn
      BY <1>5 DEF HalfMade, Settled, IInv, Typed, TypeOK
    <3>2. BestLine \in Lines
      BY <3>1, Defaults DEF BestLine, IInv, Typed
    <3> QED
      BY <3>1, <3>2 DEF Lines
  <2>2. Settled'
    BY <1>1, <1>5 DEF HalfMade, Settled
  <2>3. merged'[BestLine.rule] = merged[BestLine.rule]
    BY <1>5, <2>1
  <2>4. (Generation \/ Splitting)'
    <3>1. CASE Generation
      BY <1>1, <3>1 DEF Generation, MakePlaces
    <3>2. CASE Splitting
      BY <1>1, <3>2 DEF Splitting, MakePlaces
    <3> QED
      BY <1>5, <3>1, <3>2 DEF HalfMade, Decided
  <2>5. Decided'
    BY <1>1, <1>5, <2>3, <2>4 DEF HalfMade, Decided
  <2> QED
    BY <1>2, <1>3, <1>5, <2>2, <2>5 DEF Allotted, HalfMade
<1> QED
  BY <1>4, <1>5 DEF Allotted

(* What a summary says is typed, and a rule in it has a number.            *)
LEMMA SummaryFacts ==
    ASSUME IInv, Allotted, epoch # None, Summary # <<>>
    PROVE  /\ epoch \in Epochs /\ R \in Rounds /\ Summary \in Seq(Lines)
           /\ Highest(Summary) \in Lines /\ BestLine \in Lines
           /\ \A i \in 1 .. Len(Summary) : Summary[i].rule \in Sns /\ origin[Summary[i].rule] # None
           /\ \E i \in 1 .. Len(Summary) : Highest(Summary) = Summary[i]
<1>1. epoch \in Epochs /\ R \in Rounds
  BY DEF IInv, Typed, TypeOK, R
<1>2. Summary \in Seq(Lines)
  BY <1>1 DEF Summary, IInv, Typed
<1>3. BestLine \in Lines
  BY <1>1, Defaults DEF BestLine, IInv, Typed
<1>4. ASSUME NEW i \in 1 .. Len(Summary)
      PROVE  Summary[i].rule \in Sns /\ origin[Summary[i].rule] # None
  <2>1. Summary[i] \in Lines
    BY <1>2, ElementOfSeq
  <2> QED
    BY <1>1, <2>1 DEF Lines, Allotted, Named, Summary
<1> QED
  BY <1>1, <1>2, <1>3, <1>4, HighestType, HighestIsALine

(* A summary and a best line that were there when a program begins name    *)
(* numbers below sn.                                                       *)
LEMMA SettledAtCompare ==
    ASSUME IInv, Allotted, pc = "compare"
    PROVE  /\ Settled /\ line.rule < sn /\ line = Highest(Summary) /\ line \in Lines
           /\ origin[line.rule] # None
<1>1. epoch # None /\ Summary # <<>> /\ cands = {} /\ line = Highest(Summary) /\ sn >= 1
  BY DEF IInv, Running, Allotted, InHand, Named
<1>2. PICK i \in 1 .. Len(Summary) : line = Summary[i]
  BY <1>1, SummaryFacts
<1>3. line \in Lines /\ origin[line.rule] # None
  BY <1>1, <1>2, SummaryFacts
<1>4. CASE Free
  <2>1. sn \in Nat
    BY DEF IInv, Typed, TypeOK
  <2>2. \A c \in Sns : origin[c] # None => c < sn
    BY <1>4, <2>1 DEF Free, Sns
  <2>3. \A j \in 1 .. Len(Summary) : Summary[j].rule < sn
    BY <1>1, <2>2, SummaryFacts
  <2>4. BestLine.rule < sn
    <3>1. CASE best[epoch] = None
      BY <1>1, <2>1, <3>1, LineType, Defaults DEF BestLine, NoLine
    <3>2. CASE best[epoch] # None
      <4>1. epoch \in Epochs /\ BestLine \in Lines
        BY <1>1, SummaryFacts
      <4> QED
        BY <2>2, <3>2, <4>1 DEF BestLine, Lines, Allotted, Named
    <3> QED
      BY <3>1, <3>2
  <2> QED
    BY <1>1, <1>2, <1>3, <2>3, <2>4 DEF Settled
<1>5. CASE HalfMade
  BY <1>1, <1>2, <1>3, <1>5 DEF HalfMade, Settled
<1> QED
  BY <1>4, <1>5 DEF Allotted

(* A measurement writes a line for a candidate.                            *)
LEMMA MeasureAllots ==
    ASSUME IInv, Allotted, Measure
    PROVE  Allotted'
<1> USE DEF dirVars, snVars, envVars
<1>1. /\ pc = "measure" /\ pc' = "judge" /\ cand' = cand /\ cands' = cands /\ cand \in cands
      /\ UNCHANGED <<epoch, round, best, snVars, origin>>
      /\ \E m : merged' = [merged EXCEPT ![cand] = m]
  BY DEF Measure, Goto, Allotted, InHand, Busy
<1>2. epoch \in Epochs /\ R \in Rounds /\ cand \in Sns /\ Summary \in Seq(Lines) /\ sn \in Nat
  <2>1. epoch \in Epochs /\ R \in Rounds /\ cand \in Sns /\ sn \in Nat
    BY <1>1 DEF R, IInv, Typed, TypeOK, Running
  <2> QED
    BY <2>1 DEF Summary, IInv, Typed
<1>3. PICK s, t : summary' = [summary EXCEPT ![epoch][R] = Recorded(Line(cand, s, t))]
  BY DEF Measure
<1> DEFINE l == Line(cand, s, t)
<1>4. l.rule = cand
  BY DEF Line
<1> HIDE DEF l
<1>5. /\ summary \in [Epochs -> [Rounds -> Seq(Lines)]]
      /\ merged \in [Sns -> Sns \cup {None}] /\ cands \subseteq Sns
  BY DEF IInv, Typed, TypeOK
<1>6. Named'
  <2>1. ASSUME NEW e \in Epochs, NEW r \in Rounds, NEW i \in 1 .. Len(summary'[e][r])
        PROVE  origin[summary'[e][r][i].rule] # None
    <3>1. CASE e = epoch /\ r = R
      <4>1. summary'[e][r] = Recorded(l)
        BY <1>2, <1>3, <1>5, <3>1 DEF l
      <4>2. \/ Recorded(l)[i].rule = cand
            \/ i \in 1 .. Len(Summary) /\ Recorded(l)[i].rule = Summary[i].rule
        BY <1>2, <1>4, <2>1, <4>1, RecordedRules
      <4>3. origin[cand] # None
        BY <1>1 DEF Allotted, Named
      <4>4. \A j \in 1 .. Len(Summary) : origin[Summary[j].rule] # None
        BY <1>2 DEF Allotted, Named, Summary
      <4> QED
        BY <4>1, <4>2, <4>3, <4>4
    <3>2. CASE ~(e = epoch /\ r = R)
      <4>1. summary'[e][r] = summary[e][r]
        BY <1>2, <1>3, <1>5, <3>2
      <4> QED
        BY <2>1, <4>1 DEF Allotted, Named
    <3> QED
      BY <3>1, <3>2
  <2> QED
    BY <1>1, <2>1 DEF Allotted, Named
<1>7. CASE Free
  <2>1. Free'
    BY <1>1, <1>7 DEF Free
  <2>2. InHand' /\ Reach' /\ pc' \notin MakePlaces
    BY <1>1 DEF InHand, Reach, Busy, MakePlaces, GeneratePlaces, SplitPlaces
  <2> QED
    BY <1>6, <2>1, <2>2 DEF Allotted
<1>8. CASE HalfMade
  <2>1. \A i \in 1 .. Len(Summary) : Summary[i].rule # cand
    <3>1. \A i \in 1 .. Len(Summary) : Summary[i].rule \in Sns /\ Summary[i].rule < sn
      BY <1>8, SummaryFacts DEF HalfMade, Settled
    <3>2. cand >= sn
      BY <1>1, <1>8 DEF HalfMade, Settled
    <3> QED
      BY <1>2, <3>1, <3>2 DEF Sns
  <2>2. Recorded(l) = Summary
    BY <1>2, <1>4, <1>8, <2>1, RecordedElsewhere DEF HalfMade, Settled
  <2>3. summary' = summary
    BY <1>2, <1>3, <1>5, <2>2 DEF l, Summary
  <2>4. \A c \in Sns : c < sn => merged'[c] = merged[c]
    <3>1. cand >= sn
      BY <1>1, <1>8 DEF HalfMade, Settled
    <3> QED
      BY <1>1, <1>2, <1>5, <3>1 DEF Sns
  <2>5. /\ pc' \notin MakePlaces /\ pc' \in RedoPlaces /\ pc' # "compare"
        /\ cand' \in cands' /\ cands' \subseteq cands
    BY <1>1 DEF RedoPlaces, MakePlaces, GeneratePlaces, SplitPlaces, Busy
  <2> QED
    BY <1>1, <2>3, <2>4, <2>5, QuietStep
<1> QED
  BY <1>7, <1>8 DEF Allotted

(* The best of the epoch is settled, and a generation begins.              *)
LEMMA ImproveAllots ==
    ASSUME IInv, Allotted, Improve, ~lost'
    PROVE  Allotted'
<1> USE DEF ruleVars, snVars, envVars
<1>1. /\ pc = "compare" /\ RoundImproves /\ best' = [best EXCEPT ![epoch] = line]
      /\ UNCHANGED <<epoch, round, summary, ruleVars, sn, snFile, origin>> /\ snFile # "empty"
      /\ \/ merged[line.rule] # None /\ cand' = line.rule /\ next' = sn /\ pc' = "generate"
         \/ merged[line.rule] = None /\ pc' = "down"
  BY DEF Improve, Derive, First, Goto
<1>2. /\ Settled /\ line.rule < sn /\ line = Highest(Summary) /\ line \in Lines
      /\ origin[line.rule] # None /\ cands = {}
  BY <1>1, SettledAtCompare DEF Allotted, InHand
<1>3. /\ epoch \in Epochs /\ best \in [Epochs -> Lines \cup {None}] /\ sn \in Nat
      /\ NewRules \in Nat
  BY <1>2, Bounds DEF Settled, IInv, Typed, TypeOK
<1>4. Summary' = Summary /\ Highest(Summary)' = Highest(Summary) /\ BestLine' = line
  <2>1. Summary' = Summary
    BY <1>1 DEF Summary, R
  <2>2. best'[epoch] = line /\ line # None
    BY <1>1, <1>2, <1>3, BoundsAssumption
  <2>3. BestLine' = line
    BY <1>1, <2>2 DEF BestLine
  <2> QED
    BY <2>1, <2>3 DEF Highest
<1>5. Named' /\ InHand' /\ Reach'
  <2>1. Named'
    BY <1>1, <1>2, <1>3 DEF Allotted, Named
  <2>2. InHand'
    BY <1>1 DEF InHand, Busy
  <2>3. Reach'
    BY <1>1, <1>3 DEF Reach, MakePlaces, GeneratePlaces, SplitPlaces
  <2> QED
    BY <2>1, <2>2, <2>3
<1>6. Settled'
  BY <1>1, <1>2, <1>4 DEF Settled
<1>7. CASE Free
  <2>1. Free'
    BY <1>1, <1>7 DEF Free
  <2>2. pc' \in MakePlaces => Decided'
    <3> SUFFICES ASSUME pc' \in MakePlaces PROVE Decided'
      OBVIOUS
    <3>1. pc' = "generate" /\ merged'[line.rule] # None /\ cand' = line.rule
      BY <1>1 DEF MakePlaces, GeneratePlaces, SplitPlaces
    <3>2. Generation'
      BY <1>2, <1>4, <2>1, <3>1 DEF Generation, Free, SplitPlaces
    <3> QED
      BY <1>4, <3>1, <3>2 DEF Decided
  <2> QED
    BY <1>5, <1>6, <2>1, <2>2 DEF Allotted
<1>8. CASE HalfMade
  <2>1. Generation /\ BestLine = line /\ merged[line.rule] # None
    BY <1>1, <1>2, <1>8 DEF HalfMade, Decided, Splitting, Generation, RoundImproves
  <2>2. pc' = "generate" /\ cand' = line.rule
    BY <1>1, <2>1
  <2>3. Generation'
    BY <1>1, <1>2, <1>4, <2>1, <2>2 DEF Generation, SplitPlaces
  <2>4. Decided'
    BY <1>1, <1>4, <2>1, <2>2, <2>3 DEF Decided
  <2>5. HalfMade'
    BY <1>1, <1>6, <1>8, <2>2, <2>4 DEF HalfMade, RedoPlaces, MakePlaces, GeneratePlaces
  <2> QED
    BY <1>5, <1>6, <2>4, <2>5 DEF Allotted
<1> QED
  BY <1>7, <1>8 DEF Allotted

(* The epoch is exhausted, and its best rule is split.                     *)
LEMMA ExhaustedAllots ==
    ASSUME IInv, Allotted, Exhausted, ~lost'
    PROVE  Allotted'
<1> USE DEF dirVars, ruleVars, snVars, envVars
<1>1. /\ pc = "compare" /\ ~RoundImproves
      /\ UNCHANGED <<dirVars, ruleVars, sn, snFile, origin>> /\ snFile # "empty"
      /\ \/ merged[BestLine.rule] # None /\ cand' = BestLine.rule /\ next' = sn /\ pc' = "split"
         \/ merged[BestLine.rule] = None /\ pc' = "down"
  BY DEF Exhausted, Derive, First, Goto
<1>2. Settled /\ line = Highest(Summary) /\ cands = {}
  BY <1>1, SettledAtCompare DEF Allotted, InHand
<1>3. sn \in Nat
  BY DEF IInv, Typed, TypeOK
<1>4. /\ Summary' = Summary /\ Highest(Summary)' = Highest(Summary) /\ BestLine' = BestLine
      /\ BestLine # Highest(Summary) /\ ~(Highest(Summary).score > BestLine.score)
  <2>1. Summary' = Summary /\ BestLine' = BestLine
    BY <1>1 DEF Summary, R, BestLine
  <2>2. Highest(Summary)' = Highest(Summary)
    BY <2>1 DEF Highest
  <2> QED
    BY <1>1, <1>2, <2>1, <2>2 DEF RoundImproves
<1>5. Named' /\ InHand' /\ Reach'
  <2>1. Named'
    BY <1>1 DEF Allotted, Named
  <2>2. InHand'
    BY <1>1 DEF InHand, Busy
  <2>3. Reach'
    BY <1>1, <1>3 DEF Reach, MakePlaces, GeneratePlaces, SplitPlaces
  <2> QED
    BY <2>1, <2>2, <2>3
<1>6. Settled'
  BY <1>1, <1>2, <1>4 DEF Settled
<1>7. CASE Free
  <2>1. Free'
    BY <1>1, <1>7 DEF Free
  <2>2. pc' \in MakePlaces => Decided'
    <3> SUFFICES ASSUME pc' \in MakePlaces PROVE Decided'
      OBVIOUS
    <3>1. pc' = "split" /\ merged'[BestLine.rule] # None /\ cand' = BestLine.rule
      BY <1>1 DEF MakePlaces, GeneratePlaces, SplitPlaces
    <3>2. Splitting'
      BY <1>4, <2>1, <3>1 DEF Splitting, Free, GeneratePlaces
    <3> QED
      BY <1>4, <3>1, <3>2 DEF Decided
  <2> QED
    BY <1>5, <1>6, <2>1, <2>2 DEF Allotted
<1>8. CASE HalfMade
  <2>1. Splitting /\ merged[BestLine.rule] # None
    BY <1>4, <1>8 DEF HalfMade, Decided, Generation
  <2>2. pc' = "split" /\ cand' = BestLine.rule
    BY <1>1, <2>1
  <2>3. Splitting'
    BY <1>1, <1>4, <2>1, <2>2 DEF Splitting, GeneratePlaces
  <2>4. Decided'
    BY <1>1, <1>4, <2>1, <2>2, <2>3 DEF Decided
  <2>5. HalfMade'
    BY <1>1, <1>6, <1>8, <2>2, <2>4 DEF HalfMade, RedoPlaces, MakePlaces, SplitPlaces
  <2> QED
    BY <1>5, <1>6, <2>4, <2>5 DEF Allotted
<1> QED
  BY <1>7, <1>8 DEF Allotted

(* A Python program makes one rule more.                                   *)
LEMMA MakingAllots ==
    ASSUME IInv, Allotted, Generate \/ Split
    PROVE  /\ Allotted'
           /\ \A c \in Sns : origin[c] # None => origin'[c] = origin[c]
<1> USE DEF dirVars, snVars, envVars
<1>1. /\ pc \in MakePlaces /\ pc' \in MakePlaces
      /\ UNCHANGED <<dirVars, snVars, merged, cand>>
      /\ pc \in GeneratePlaces <=> pc' \in GeneratePlaces
      /\ pc \in SplitPlaces <=> pc' \in SplitPlaces
  BY DEF Generate, Split, OpenRule, CloseRule, Goto, MakePlaces, GeneratePlaces, SplitPlaces
<1>2. /\ sn \in Nat /\ next \in Nat /\ NewRules \in Nat /\ MaxSn \in Nat /\ sn <= next
      /\ cand \in Sns
  BY <1>1, Bounds DEF IInv, Typed, TypeOK, Allotted, Reach
<1>3. Summary' = Summary /\ BestLine' = BestLine /\ Highest(Summary)' = Highest(Summary)
  <2>1. Summary' = Summary /\ BestLine' = BestLine
    BY <1>1 DEF Summary, R, BestLine
  <2> QED
    BY <2>1 DEF Highest
<1>4. Settled /\ Decided
  BY <1>1 DEF Allotted
<1>a. First = sn /\ snFile \in {"number", "pair"}
  BY <1>1 DEF Allotted, Reach, First, IInv, Typed, TypeOK
<1>5. CASE pc \in {"generating", "splitting"}
  <2>1. /\ cands' = cands /\ origin' = origin /\ next' = next + 1
        /\ pc = "generating" => pc' = "generate"
        /\ pc = "splitting" => pc' = "split"
    BY <1>5 DEF Generate, Split, CloseRule, Goto
  <2>2. Named' /\ InHand' /\ Reach'
    <3>1. Named'
      BY <1>1, <2>1 DEF Allotted, Named
    <3>2. InHand'
      BY <1>1 DEF InHand, Busy, MakePlaces, GeneratePlaces, SplitPlaces
    <3>3. Reach'
      BY <1>1, <1>2, <1>5, <2>1 DEF Allotted, Reach
    <3> QED
      BY <3>1, <3>2, <3>3
  <2>3. Settled'
    BY <1>1, <1>3, <1>4, <2>1 DEF Settled
  <2>4. (Generation \/ Splitting)'
    <3>1. CASE Generation
      BY <1>1, <1>3, <2>1, <3>1 DEF Generation
    <3>2. CASE Splitting
      BY <1>1, <1>3, <2>1, <3>2 DEF Splitting
    <3> QED
      BY <1>4, <3>1, <3>2 DEF Decided
  <2>5. Decided'
    BY <1>1, <1>3, <1>4, <2>4 DEF Decided
  <2>6. snFile' = "number"
    BY <1>1, <1>5, <1>a DEF Allotted, Reach
  <2> QED
    BY <1>1, <2>1, <2>2, <2>3, <2>5, <2>6 DEF Allotted, HalfMade, RedoPlaces
<1>6. CASE pc \notin {"generating", "splitting"}
  <2>1. PICK index :
           /\ snFile = "number" /\ next <= MaxSn
           /\ cands' = cands \cup {next} /\ next' = next
           /\ origin' = [origin EXCEPT ![next] = <<cand, index>>]
           /\ \/ /\ pc = "generate" /\ pc' = "generating" /\ next < sn + NewRules
                 /\ index = next - sn
              \/ pc = "split" /\ pc' = "splitting" /\ next = sn /\ index = -1
    BY <1>6, <1>a DEF Generate, Split, OpenRule, Goto
  <2>2. next \in Sns /\ next # 0 /\ index \in Int
    BY <1>2, <2>1 DEF Allotted, Named, Sns
  <2>3. <<cand, index>> \in Origins /\ <<cand, index>> # None
    BY <1>2, <2>2, BoundsAssumption DEF Origins
  <2>4. origin \in [Sns -> Origins \cup {None}] /\ 0 \in Sns
    BY Defaults DEF Allotted, Named
  <2>5. Named'
    <3>1. \A c \in Sns : origin[c] # None => origin'[c] # None
      BY <2>1, <2>2, <2>3, <2>4
    <3>2. /\ origin' \in [Sns -> Origins \cup {None}] /\ sn' >= 1
          /\ origin'[0] \in {None, <<None, 0>>}
      BY <1>1, <2>1, <2>2, <2>3, <2>4 DEF Allotted, Named
    <3>3. \A c \in cands' : origin'[c] # None
      <4>1. \A c \in cands : c \in Sns /\ origin[c] # None
        BY DEF Allotted, Named, IInv, Typed, TypeOK
      <4> QED
        BY <2>1, <2>2, <2>3, <2>4, <3>1, <4>1
    <3>4. ASSUME NEW e \in Epochs, NEW r \in Rounds, NEW i \in 1 .. Len(summary[e][r])
          PROVE  origin'[summary[e][r][i].rule] # None
      <4>1. summary[e][r] \in Seq(Lines)
        BY DEF IInv, Typed
      <4>2. summary[e][r][i] \in Lines
        BY <4>1, ElementOfSeq
      <4>3. summary[e][r][i].rule \in Sns
        BY <4>2 DEF Lines
      <4> QED
        BY <3>1, <4>3 DEF Allotted, Named
    <3>5. ASSUME NEW e \in Epochs, best[e] # None PROVE origin'[best[e].rule] # None
      <4>1. best[e].rule \in Sns
        BY <3>5 DEF IInv, Typed, Lines
      <4> QED
        BY <3>1, <3>5, <4>1 DEF Allotted, Named
    <3> QED
      BY <1>1, <3>2, <3>3, <3>4, <3>5 DEF Named
  <2>6. InHand' /\ Reach'
    BY <1>1, <1>2, <2>1 DEF InHand, Busy, Reach, MakePlaces, GeneratePlaces, SplitPlaces
  <2>7. Settled'
    BY <1>1, <1>2, <1>3, <1>4, <2>1 DEF Settled
  <2>8. cand = BestLine.rule /\ (Generation \/ Splitting)
    BY <1>1, <1>4 DEF Decided
  <2>9. CASE pc = "generate"
    <3>1. Generation /\ index = next - sn /\ pc' = "generating" /\ next < sn + NewRules
      BY <2>1, <2>8, <2>9 DEF Splitting, GeneratePlaces
    <3>2. Generation'
      BY <1>1, <1>2, <1>3, <2>1, <2>2, <2>4, <2>8, <3>1 DEF Generation, SplitPlaces
    <3>3. Decided'
      BY <1>1, <1>3, <1>4, <2>8, <3>2 DEF Decided
    <3>4. \A c \in Sns : origin[c] # None => origin'[c] = origin[c]
      BY <1>2, <2>1, <2>2, <2>4, <2>8, <3>1 DEF Generation
    <3> QED
      BY <1>1, <2>1, <2>5, <2>6, <2>7, <3>3, <3>4 DEF Allotted, HalfMade, RedoPlaces
  <2>10. CASE pc = "split"
    <3>1. Splitting /\ index = -1 /\ pc' = "splitting" /\ next = sn
      BY <2>1, <2>8, <2>10 DEF Generation, SplitPlaces
    <3>2. Splitting'
      BY <1>1, <1>2, <1>3, <2>1, <2>2, <2>4, <2>8, <3>1 DEF Splitting, GeneratePlaces
    <3>3. Decided'
      BY <1>1, <1>3, <1>4, <2>8, <3>2 DEF Decided
    <3>4. \A c \in Sns : origin[c] # None => origin'[c] = origin[c]
      BY <1>2, <2>1, <2>2, <2>4, <2>8, <3>1 DEF Splitting
    <3> QED
      BY <1>1, <2>1, <2>5, <2>6, <2>7, <3>3, <3>4 DEF Allotted, HalfMade, RedoPlaces
  <2> QED
    BY <2>1, <2>9, <2>10
<1> QED
  BY <1>5, <1>6, <1>1

(* A Python program is done, and the numbers it gave are below sn.         *)
LEMMA DoneAllots ==
    ASSUME IInv, Allotted, GenerateDone \/ SplitDone
    PROVE  Allotted'
<1> USE DEF dirVars, ruleVars
<1>1. /\ UNCHANGED <<dirVars, ruleVars, origin>>
      /\ pc \in {"generate", "split", "save", "splitsave"}
      /\ pc' \in {"save", "number", "splitsave", "splitnumber"}
  BY DEF GenerateDone, SplitDone, Goto
<1>2. sn \in Nat /\ sn >= 1 /\ next \in Nat /\ NewRules \in Nat
  BY Bounds DEF IInv, Typed, TypeOK, Allotted, Named
<1>3. Free' /\ sn' >= 1
  <2>1. CASE sn' = sn /\ (snFile = "pair" \/ pc \in {"save", "splitsave"})
    <3>1. Free
      BY <2>1 DEF Allotted, HalfMade, RedoPlaces, Busy, MakePlaces, GeneratePlaces, SplitPlaces
    <3> QED
      BY <1>1, <1>2, <2>1, <3>1 DEF Free
  <2>2. CASE pc = "generate" /\ next = First + NewRules /\ sn' = next
    <3>1. Generation /\ First = sn
      BY <2>2 DEF Allotted, MakePlaces, GeneratePlaces, Decided, Splitting, Reach, First
    <3> QED
      BY <1>1, <1>2, <2>2, <3>1 DEF Generation, Free, Sns
  <2>3. CASE pc = "split" /\ next = First + 1 /\ sn' = next
    <3>1. Splitting /\ First = sn
      BY <2>3 DEF Allotted, MakePlaces, SplitPlaces, Decided, Generation, Reach, First
    <3> QED
      BY <1>1, <1>2, <2>3, <3>1 DEF Splitting, Free, Sns
  <2> QED
    BY <2>1, <2>2, <2>3 DEF GenerateDone, SplitDone, Truncate, Write, Die
<1>4. Named'
  BY <1>1, <1>3 DEF Allotted, Named
<1>5. InHand' /\ Reach' /\ pc' \notin MakePlaces
  BY <1>1 DEF InHand, Busy, Reach, MakePlaces, GeneratePlaces, SplitPlaces
<1> QED
  BY <1>3, <1>4, <1>5 DEF Allotted

(* A step that makes a directory anew, or goes on to the next, comes when  *)
(* nothing is half made.                                                   *)
LEMMA AdvanceAllots ==
    ASSUME IInv, Allotted,
           (StartAfresh /\ Free) \/ CutNumber \/ AdvanceRound \/ AdvanceEpoch \/ MakeEpoch
    PROVE  /\ Allotted' /\ Free'
           /\ \A c \in Sns : origin[c] # None => origin'[c] = origin[c]
<1> USE Defaults DEF dirVars, ruleVars, snVars, envVars
<1>1. Free
  BY DEF Allotted, HalfMade, RedoPlaces, Busy, MakePlaces, GeneratePlaces, SplitPlaces,
         CutNumber, AdvanceRound, AdvanceEpoch, MakeEpoch
<1>2. /\ sn' = sn /\ pc' \notin MakePlaces /\ pc' \notin Busy /\ pc' # "compare"
      /\ \A c \in cands' : c \in cands \/ (c = 0 /\ origin' = [origin EXCEPT ![0] = <<None, 0>>])
      /\ origin' \in {origin, [origin EXCEPT ![0] = <<None, 0>>]}
  BY DEF StartAfresh, Begin, CutNumber, Truncate, Write, CutField, AdvanceRound, AdvanceEpoch,
         MakeEpoch, Goto, Busy, MakePlaces, GeneratePlaces, SplitPlaces
<1>3. <<None, 0>> \in Origins /\ <<None, 0>> # None
  BY BoundsAssumption DEF Origins
<1>4. origin \in [Sns -> Origins \cup {None}] /\ 0 \in Sns /\ sn \in Nat /\ sn >= 1
  BY DEF Allotted, Named, IInv, Typed, TypeOK
<1>5. \A c \in Sns : /\ origin[c] # None => origin'[c] = origin[c] /\ origin'[c] # None
                     /\ c # 0 => origin'[c] = origin[c]
  BY <1>2, <1>3, <1>4 DEF Allotted, Named
<1>6. Free'
  BY <1>1, <1>2, <1>4, <1>5 DEF Free, Sns
<1>7. ASSUME NEW e \in Epochs, NEW r \in Rounds, NEW i \in 1 .. Len(summary'[e][r])
      PROVE  origin'[summary'[e][r][i].rule] # None
  <2>1. summary \in [Epochs -> [Rounds -> Seq(Lines)]]
    BY DEF IInv, Typed
  <2>2. summary'[e] = summary[e] \/ summary'[e] = BlankRound
    <3>1. summary' = summary \/ \E d \in Epochs : summary' = [summary EXCEPT ![d] = BlankRound]
      <4>1. CASE MakeEpoch
        BY <4>1 DEF MakeEpoch, IInv, Typed, TypeOK, Running
      <4> QED
        BY <4>1 DEF StartAfresh, CutNumber, AdvanceRound, AdvanceEpoch
    <3> QED
      BY <2>1, <3>1
  <2>3. summary'[e][r] # <<>>
    BY <1>7
  <2>4. summary'[e][r] = summary[e][r]
    BY <2>2, <2>3 DEF BlankRound
  <2>5. summary[e][r] \in Seq(Lines)
    BY <2>1
  <2>6. summary[e][r][i] \in Lines
    BY <1>7, <2>4, <2>5, ElementOfSeq
  <2>7. origin[summary[e][r][i].rule] # None /\ summary[e][r][i].rule \in Sns
    BY <1>7, <2>4, <2>6 DEF Lines, Allotted, Named
  <2> QED
    BY <1>5, <2>4, <2>7
<1>8. ASSUME NEW e \in Epochs, best'[e] # None PROVE origin'[best'[e].rule] # None
  <2>1. best \in [Epochs -> Lines \cup {None}]
    BY DEF IInv, Typed
  <2>2. best'[e] = best[e]
    <3>1. best' = best \/ \E d \in Epochs : best' = [best EXCEPT ![d] = None]
      <4>1. CASE MakeEpoch
        BY <4>1 DEF MakeEpoch, IInv, Typed, TypeOK, Running
      <4> QED
        BY <4>1 DEF StartAfresh, CutNumber, AdvanceRound, AdvanceEpoch
    <3> QED
      BY <1>8, <2>1, <3>1
  <2>3. best[e] \in Lines
    BY <1>8, <2>1, <2>2
  <2>4. best[e].rule \in Sns /\ origin[best[e].rule] # None
    BY <1>8, <2>2, <2>3 DEF Lines, Allotted, Named
  <2> QED
    BY <1>5, <2>2, <2>4
<1>9. Named'
  <2>1. \A c \in cands' : origin'[c] # None
    <3>1. \A c \in cands : c \in Sns /\ origin[c] # None
      BY DEF Allotted, Named, IInv, Typed, TypeOK
    <3> QED
      BY <1>2, <1>3, <1>4, <1>5, <3>1
  <2>2. /\ origin' \in [Sns -> Origins \cup {None}] /\ sn' >= 1
        /\ origin'[0] \in {None, <<None, 0>>}
    <3>1. /\ origin \in [Sns -> Origins \cup {None}] /\ sn >= 1
          /\ origin[0] \in {None, <<None, 0>>}
      BY DEF Allotted, Named
    <3>2. CASE origin' = origin
      BY <1>2, <3>1, <3>2
    <3>3. CASE origin' = [origin EXCEPT ![0] = <<None, 0>>]
      BY <1>2, <1>3, <1>4, <3>1, <3>3
    <3> QED
      BY <1>2, <3>2, <3>3
  <2> QED
    BY <1>7, <1>8, <2>1, <2>2 DEF Named
<1>10. InHand' /\ Reach'
  BY <1>2 DEF InHand, Reach
<1> QED
  BY <1>2, <1>5, <1>6, <1>9, <1>10 DEF Allotted

(* A step of the search that begins afresh only when nothing is half made. *)
Keeping == Next /\ (StartAfresh => Free)

(* Every such step keeps the numbers.                                      *)
LEMMA AllottedStep ==
    ASSUME IInv, Allotted, [Keeping]_vars, ~lost'
    PROVE  /\ Allotted'
           /\ \A c \in Sns : origin[c] # None => origin'[c] = origin[c]
<1> USE DEF dirVars, ruleVars, snVars, envVars, runVars, Goto
<1>1. CASE Generate \/ Split
  BY <1>1, MakingAllots
<1>2. CASE (StartAfresh /\ Free) \/ CutNumber \/ AdvanceRound \/ AdvanceEpoch \/ MakeEpoch
  BY <1>2, AdvanceAllots
<1>3. CASE GenerateDone \/ SplitDone
  BY <1>3, DoneAllots DEF GenerateDone, SplitDone
<1>4. CASE Measure
  BY <1>4, MeasureAllots DEF Measure
<1>5. CASE Improve
  BY <1>5, ImproveAllots DEF Improve
<1>6. CASE Exhausted
  BY <1>6, ExhaustedAllots DEF Exhausted
<1>7. CASE SetRules
  <2>1. /\ pc = "bench" /\ cand \in cands /\ pc' = "measure" /\ cand' = cand
        /\ merged' = [merged EXCEPT ![cand] = None] /\ cands' = cands
        /\ UNCHANGED <<dirVars, snVars, origin>>
    BY <1>7 DEF SetRules, Allotted, InHand, Busy
  <2>2. merged \in [Sns -> Sns \cup {None}] /\ cand \in Sns /\ sn \in Nat
    BY DEF IInv, Typed, TypeOK
  <2>3. ASSUME HalfMade PROVE \A c \in Sns : c < sn => merged'[c] = merged[c]
    <3>1. cand >= sn
      BY <2>1, <2>3 DEF HalfMade, Settled
    <3> QED
      BY <2>1, <2>2, <3>1 DEF Sns
  <2>4. pc' \notin MakePlaces /\ pc' \in RedoPlaces /\ pc' # "compare"
    BY <2>1 DEF RedoPlaces, Busy, MakePlaces, GeneratePlaces, SplitPlaces
  <2>5. Allotted'
    BY <2>1, <2>3, <2>4, QuietStep
  <2> QED
    BY <2>1, <2>5
<1>8. CASE SelectBest
  <2>1. /\ pc = "test" /\ cands = {} /\ pc' = "compare" /\ line' = Highest(Summary)
        /\ UNCHANGED <<dirVars, snVars, ruleVars, origin>> /\ Summary # <<>>
    BY <1>8 DEF SelectBest, IInv, Tested
  <2>2. pc' \notin MakePlaces /\ pc' \in RedoPlaces /\ pc' \notin Busy
    BY <2>1 DEF RedoPlaces, Busy, MakePlaces, GeneratePlaces, SplitPlaces
  <2>3. Allotted'
    BY <2>1, <2>2, QuietStep
  <2> QED
    BY <2>1, <2>3
<1>9. CASE Judge \/ DeleteCandidate \/ Pick \/ Deploy
  <2>1. /\ UNCHANGED <<dirVars, snVars, merged, origin>> /\ cands' \subseteq cands
        /\ pc' \in {"test", "bench", "delete"}
        /\ pc' \in Busy => cand' \in cands'
    BY <1>9 DEF Judge, DeleteCandidate, Pick, Deploy, Allotted, InHand, Busy
  <2>2. pc' \notin MakePlaces /\ pc' \in RedoPlaces /\ pc' # "compare"
    BY <2>1 DEF RedoPlaces, Busy, MakePlaces, GeneratePlaces, SplitPlaces
  <2>3. Allotted'
    BY <2>1, <2>2, QuietStep
  <2> QED
    BY <2>1, <2>3
<1>10. CASE Resume \/ Kill \/ NoCandidates \/ TooManyFailures
  <2>1. /\ UNCHANGED <<dirVars, snVars, ruleVars, origin>>
        /\ pc' \in {"down", "loop"}
    BY <1>10 DEF Resume, Kill, NoCandidates, TooManyFailures, Exit
  <2>2. pc' \notin MakePlaces /\ pc' \in RedoPlaces /\ pc' # "compare" /\ pc' \notin Busy
    BY <2>1 DEF RedoPlaces, Busy, MakePlaces, GeneratePlaces, SplitPlaces
  <2>3. Allotted'
    BY <2>1, <2>2, QuietStep
  <2> QED
    BY <2>1, <2>3
<1>11. CASE Seed \/ Filter
  <2>1. /\ UNCHANGED <<dirVars, snVars, merged, origin>> /\ cands' \subseteq cands
        /\ pc' = "loop"
    BY <1>11 DEF Seed, Filter
  <2>2. pc' \notin MakePlaces /\ pc' \in RedoPlaces /\ pc' # "compare" /\ pc' \notin Busy
    BY <2>1 DEF RedoPlaces, Busy, MakePlaces, GeneratePlaces, SplitPlaces
  <2>3. Allotted'
    BY <2>1, <2>2, QuietStep
  <2> QED
    BY <2>1, <2>3
<1>12. CASE UNCHANGED vars
  <2>1. UNCHANGED <<dirVars, snVars, ruleVars, origin, pc, cand, line, next>>
    BY <1>12 DEF vars
  <2>2. Summary' = Summary /\ BestLine' = BestLine
    BY <2>1 DEF Summary, R, BestLine
  <2>3. Highest(Summary)' = Highest(Summary)
    BY <2>2 DEF Highest
  <2>4. Named' /\ InHand' /\ Reach'
    BY <2>1, <2>2, <2>3 DEF Allotted, Named, InHand, Reach
  <2>5. (Settled <=> Settled') /\ (Decided <=> Decided') /\ (Free <=> Free')
    BY <2>1, <2>2, <2>3 DEF Settled, Decided, Generation, Splitting, Free
  <2> QED
    BY <2>1, <2>4, <2>5 DEF Allotted, HalfMade
<1> QED
  BY <1>1, <1>2, <1>3, <1>4, <1>5, <1>6, <1>7, <1>8, <1>9, <1>10, <1>11, <1>12
  DEF Keeping, Next, Round, NextRound

(* What was lost is never found.                                           *)
LEMMA LostForGood ==
    ASSUME [Next]_vars, lost
    PROVE  lost'
BY DEF Next, Round, NextRound, vars, snVars, Resume, StartAfresh, Seed, Kill, NoCandidates,
   TooManyFailures, Exit, Deploy, Pick, SetRules, Measure, Judge, DeleteCandidate, SelectBest,
   Improve, Exhausted, Generate, Split, OpenRule, CloseRule, GenerateDone, CutNumber,
   AdvanceRound, SplitDone, AdvanceEpoch, MakeEpoch, Filter

(* No number was given when the search is installed.                       *)
LEMMA AllottedAtFirst == Init => Allotted
<1> SUFFICES ASSUME Init PROVE Allotted
  OBVIOUS
<1>1. Named
  <2>1. \A e \in Epochs, r \in Rounds : summary[e][r] = <<>>
    BY DEF Init, BlankRound
  <2>2. Len(<<>>) = 0
    BY EmptySeq
  <2>3. \A e \in Epochs, r \in Rounds : 1 .. Len(summary[e][r]) = {}
    BY <2>1, <2>2
  <2> QED
    BY <2>3, Defaults DEF Init, Named
<1> QED
  BY <1>1 DEF Init, Allotted, InHand, Reach, Free, Busy, MakePlaces, GeneratePlaces, SplitPlaces

(* A sequence number names one rule set for ever, however often and        *)
(* wherever the script is killed, as long as it does not begin afresh over *)
(* half-made rules and finds the number it wrote: only the choice that     *)
(* made them can meet their numbers again (next_round,                     *)
(* generate_candidate_rules.py, split_rule.py).                            *)
THEOREM NumbersKeptByRestarts ==
    Init /\ [][Keeping]_vars =>
        [][~lost' => \A c \in Sns : origin[c] # None => origin'[c] = origin[c]]_vars
<1> DEFINE Kept == ~lost' => \A c \in Sns : origin[c] # None => origin'[c] = origin[c]
           Known == lost \/ Allotted
<1>1. Init => IInv /\ Known
  BY Start, AllottedAtFirst
<1>2. IInv /\ Known /\ [Keeping]_vars => (IInv /\ Known)' /\ [Kept]_vars
  <2> SUFFICES ASSUME IInv, Known, [Keeping]_vars PROVE IInv' /\ Known' /\ Kept
    OBVIOUS
  <2>1. IInv' /\ (lost => lost')
    BY Step, LostForGood DEF Keeping
  <2> QED
    BY <2>1, AllottedStep
<1> HIDE DEF Kept, Known
<1>3. Init /\ [][Keeping]_vars => [][Kept]_vars
  BY <1>1, <1>2, PTL
<1> QED
  BY <1>3 DEF Kept

(* A search killed at most once begins afresh over no half-made rule: when *)
(* it was killed the rules made were among the candidates, and they stay   *)
(* until a round is over.                                                  *)
AtHand ==
    \/ Free
    \/ /\ kills = 0 /\ pc \in MakePlaces
       /\ \A c \in Sns : c >= sn /\ origin[c] # None => c \in cands
    \/ kills = 1 /\ (pc \in {"down", "loop"} => cands # {})

KilledOnce == kills <= 1 /\ ~lost => Allotted /\ AtHand

(* So a fresh start finds no number given.                                 *)
LEMMA FreshIsFree ==
    ASSUME IInv, AtHand, StartAfresh
    PROVE  Free
BY DEF AtHand, StartAfresh, Begin, IInv, Running, MakePlaces, GeneratePlaces, SplitPlaces

(* What is half made stays at hand.                                        *)
LEMMA AtHandStep ==
    ASSUME IInv, Allotted, AtHand, [Next]_vars, kills' <= 1, ~lost', Allotted'
    PROVE  AtHand'
<1> USE DEF dirVars, ruleVars, snVars, envVars, runVars, Goto
<1>1. kills \in Nat
  BY DEF IInv, Typed
<1>2. CASE UNCHANGED <<sn, origin>> /\ Free
  BY <1>2 DEF AtHand, Free
<1>3. CASE Kill
  <2>1. UNCHANGED <<cands, sn, origin>> /\ kills = 0 /\ kills' = 1
    BY <1>1, <1>3 DEF Kill
  <2>2. CASE ~Free
    <3>1. PICK c \in Sns : c >= sn /\ origin[c] # None
      BY <2>2 DEF Free
    <3> QED
      BY <2>1, <2>2, <3>1 DEF AtHand
  <2> QED
    BY <1>2, <2>1, <2>2
<1>4. CASE Generate \/ Split
  <2>1. /\ kills' = kills /\ sn' = sn /\ pc' \in MakePlaces /\ pc \in MakePlaces
        /\ pc' \notin {"down", "loop"}
    BY <1>4 DEF Generate, Split, OpenRule, CloseRule, MakePlaces, GeneratePlaces, SplitPlaces
  <2>2. CASE kills = 1
    BY <2>1, <2>2 DEF AtHand
  <2>3. CASE kills = 0
    <3>1. \A c \in Sns : c >= sn /\ origin[c] # None => c \in cands
      BY <2>3 DEF AtHand, Free
    <3>2. \/ cands' = cands /\ origin' = origin
          \/ cands' = cands \cup {next} /\ \E x : origin' = [origin EXCEPT ![next] = x]
      BY <1>4 DEF Generate, Split, OpenRule, CloseRule
    <3>3. \A c \in Sns : c >= sn /\ origin'[c] # None => c \in cands'
      BY <3>1, <3>2 DEF Allotted, Named
    <3> QED
      BY <2>1, <2>3, <3>3 DEF AtHand
  <2> QED
    BY <1>1, <2>1, <2>2, <2>3
<1>5. CASE StartAfresh \/ CutNumber \/ AdvanceRound \/ AdvanceEpoch \/ MakeEpoch
  BY <1>5, FreshIsFree, AdvanceAllots DEF AtHand
<1>6. CASE GenerateDone \/ SplitDone
  <2>1. pc' \notin RedoPlaces
    BY <1>6 DEF GenerateDone, SplitDone, RedoPlaces, Busy, MakePlaces, GeneratePlaces, SplitPlaces
  <2> QED
    BY <2>1 DEF Allotted, HalfMade, AtHand
<1>7. CASE Improve \/ Exhausted
  <2>1. UNCHANGED <<sn, origin, kills>> /\ pc = "compare"
    BY <1>7 DEF Improve, Exhausted
  <2>2. ~Free => kills = 1
    BY <2>1 DEF AtHand, MakePlaces, GeneratePlaces, SplitPlaces
  <2>3. ~Free => pc' \notin {"down", "loop"}
    <3> SUFFICES ASSUME ~Free PROVE pc' \notin {"down", "loop"}
      OBVIOUS
    <3>1. merged[BestLine.rule] # None /\ (Generation \/ Splitting) /\ line = Highest(Summary)
      BY <2>1, SettledAtCompare DEF Allotted, HalfMade, Decided
    <3>2. CASE Improve
      <4>1. BestLine = line
        BY <3>1, <3>2 DEF Improve, RoundImproves, Generation, Splitting
      <4> QED
        BY <3>1, <3>2, <4>1 DEF Improve, Derive
    <3>3. CASE Exhausted
      BY <3>1, <3>3 DEF Exhausted, Derive
    <3> QED
      BY <1>7, <3>2, <3>3
  <2> QED
    BY <1>2, <2>1, <2>2, <2>3 DEF AtHand
<1>8. CASE Resume \/ Deploy \/ Pick \/ SetRules \/ Measure
  <2>1. UNCHANGED <<sn, origin, kills, cands>> /\ pc \notin MakePlaces
        /\ (pc' \in {"down", "loop"} => cands # {})
    BY <1>8 DEF Resume, Begin, Deploy, Pick, SetRules, Measure, MakePlaces, GeneratePlaces, SplitPlaces
  <2> QED
    BY <1>2, <2>1 DEF AtHand
<1>9. CASE TooManyFailures \/ Judge \/ DeleteCandidate \/ SelectBest \/ NoCandidates
  <2>1. /\ UNCHANGED <<sn, origin, kills>> /\ pc \notin MakePlaces
        /\ pc' \in {"down", "loop"} => cands' = cands /\ (pc = "loop" \/ cand \in cands)
    BY <1>9 DEF TooManyFailures, Exit, Judge, DeleteCandidate, SelectBest, NoCandidates,
       MakePlaces, GeneratePlaces, SplitPlaces, Allotted, InHand, Busy
  <2> QED
    BY <1>2, <2>1 DEF AtHand
<1>10. CASE Seed \/ Filter
  <2>1. Free
    BY <1>10 DEF Seed, Filter, Allotted, HalfMade, RedoPlaces, Busy, MakePlaces, GeneratePlaces, SplitPlaces
  <2> QED
    BY <1>2, <1>10, <2>1 DEF Seed, Filter
<1>11. CASE UNCHANGED vars
  <2>1. UNCHANGED <<sn, origin, kills, cands, pc>>
    BY <1>11 DEF vars
  <2> QED
    BY <1>2, <2>1 DEF AtHand
<1> QED
  BY <1>3, <1>4, <1>5, <1>6, <1>7, <1>8, <1>9, <1>10, <1>11 DEF Next, Round, NextRound

(* A search that was killed at most once, and finds its number, gives      *)
(* every number once.                                                      *)
THEOREM NumbersAreNotReused == Spec => NumbersNotReused
<1> DEFINE Kept == kills <= 1 /\ ~lost' => \A c \in Sns : origin[c] # None => origin'[c] = origin[c]
<1>1. Init => KilledOnce
  BY AllottedAtFirst DEF KilledOnce, AtHand, Init, Free
<1>2. IInv /\ KilledOnce /\ [Next]_vars => KilledOnce' /\ [Kept]_vars
  <2> SUFFICES ASSUME IInv, KilledOnce, [Next]_vars PROVE KilledOnce' /\ Kept
    OBVIOUS
  <2>1. CASE kills <= 1 /\ ~lost'
    <3>0. ~lost
      BY <2>1, LostForGood
    <3>1. [Keeping]_vars
      BY <2>1, <3>0, FreshIsFree DEF Keeping, KilledOnce
    <3>2. Allotted' /\ Kept
      BY <2>1, <3>0, <3>1, AllottedStep DEF KilledOnce
    <3> QED
      BY <2>1, <3>0, <3>2, AtHandStep DEF KilledOnce
  <2>2. CASE ~(kills <= 1 /\ ~lost')
    <3>1. kills \in Nat /\ (kills' = kills \/ kills' = kills + 1)
      <4>1. kills \in Nat
        BY DEF IInv, Typed
      <4>2. kills' = kills \/ kills' = kills + 1
        BY DEF Next, Round, NextRound, vars, envVars, Resume, StartAfresh, Begin, Seed, Kill,
           NoCandidates, TooManyFailures, Exit, Deploy, Pick, SetRules, Measure, Judge, DeleteCandidate,
           SelectBest, Improve, Exhausted, Generate, Split, OpenRule, CloseRule, GenerateDone, CutNumber,
           AdvanceRound, SplitDone, AdvanceEpoch, MakeEpoch, Filter
      <4> QED
        BY <4>1, <4>2
    <3> QED
      BY <2>2, <3>1 DEF KilledOnce
  <2> QED
    BY <2>1, <2>2
<1> HIDE DEF Kept
<1>3. Spec => [][Kept]_vars
  BY <1>1, <1>2, Invariance, PTL DEF Spec
<1> QED
  BY <1>3 DEF Kept, NumbersNotReused

=============================================================================
