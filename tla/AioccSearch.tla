----------------------------- MODULE AioccSearch -----------------------------
(***************************************************************************)
(* The search for a rule set (batch/aiocc/aiocc_start.sh and the Python    *)
(* programs it calls).  A round benchmarks every candidate file, the best  *)
(* of the round is compared with the best of the epoch, and either a new   *)
(* generation of candidates is derived from it or its busiest rule is      *)
(* split and a new epoch begins.  All that must survive is in files, so a  *)
(* step ends where a command of the script has written one, and the script *)
(* may be killed and started again between any two steps.                  *)
(*                                                                         *)
(* Abstractions.  A rule set is its sequence number.  A bandwidth is only  *)
(* stable or not and yields a score; calculate_score.py gives an unstable  *)
(* one (deviation of at least twice the mean) the score 0.  `ls | head -1` *)
(* may pick any candidate.  Files of rules and next_rule_sn.cfg are        *)
(* written in two steps, and a kill between them leaves what is there;     *)
(* every other file is written in one.  A kill takes the script and the    *)
(* program it runs.                                                        *)
(***************************************************************************)
EXTENDS Integers, Sequences

CONSTANTS
    TryLimit,    \* candidate_try_limitation
    FailLimit,   \* benchmark_failed_times_limit
    Scores,      \* scores of a stable benchmark
    Results,     \* what a benchmark may be: a subset of "stable", "unstable", "failed"
    NewRules,    \* candidates that generate_candidate_rules.py writes
    MaxSn, MaxEpoch, MaxRound, \* bounds on sequence numbers, epochs and rounds
    MaxStarts,   \* bound on how often the script is started
    MaxKills,    \* bound on how often it is killed
    None

Sns == 0 .. MaxSn
Epochs == 0 .. MaxEpoch
Rounds == 0 .. MaxRound

\* The lines of a summary, and what a rule set is derived from: a rule set
\* and an index, -1 for a split.
Lines == [rule : Sns, score : Nat, try : Nat]
Origins == (Sns \cup {None}) \X Int

ASSUME BoundsAssumption ==
    /\ Scores \subseteq Nat \ {0}
    /\ Results \subseteq {"stable", "unstable", "failed"}
    /\ NewRules \in Nat \ {0}
    /\ {TryLimit, FailLimit, MaxSn, MaxEpoch, MaxRound, MaxStarts, MaxKills} \subseteq Nat
    /\ None \notin Int \cup Lines \cup Origins

VARIABLES
    epoch,   \* epoch.cfg, None before the first start
    round,   \* round[e]: epoch_<e>/round.cfg
    summary, \* summary[e][r]: the lines of epoch_<e>/round_<r>_summary.csv
    best,    \* best[e]: the line of epoch_<e>/epoch_<e>_best_score.csv
    cands,   \* the files in candidate_rules
    broken,  \* those of them that is_valid_rule refuses
    empty,   \* those of these in which nothing is written yet
    merged,  \* merged[c]: whose counters tested_rules/<c>/merged_rule.rule holds, None if invalid
    sn,      \* the number in next_rule_sn.cfg, or about to be written there
    snFile,  \* what the file holds: a "number", a "pair" of number and rule, "empty"
    active,  \* the rule set in force on the clients
    pc,      \* where the script is, "down" when it is not running
    cand,    \* the candidate it benchmarks, or the rule it derives new ones from
    last,    \* what the last benchmark returned: result and try
    fails,   \* benchmark_failed_times
    line,    \* the best line of the round
    next,    \* the sequence number a Python program has reached
    starts, kills,
    scored,  \* history: the scores of the candidates in the round
    origin,  \* history: what each sequence number was first given to
    lost     \* history: the script found next_rule_sn.cfg empty

dirVars == <<epoch, round, summary, best>>
ruleVars == <<cands, broken, empty, merged, active>>
snVars == <<sn, snFile, lost>>
runVars == <<cand, last, fails, line, next>>
envVars == <<starts, kills>>
vars == <<dirVars, ruleVars, snVars, runVars, envVars, pc, scored, origin>>

Line(c, s, t) == [rule |-> c, score |-> s, try |-> t]
NoLine == Line(0, 0, 0)
BlankRound == [r \in Rounds |-> <<>>]
NoScores == [c \in Sns |-> None]

R == round[epoch]
Summary == summary[epoch][R]

\* The lines of the summary that grep finds for candidate c.
LinesOf(c) == {i \in 1 .. Len(Summary) : Summary[i].rule = c}
OldLine(c) == IF LinesOf(c) = {} THEN Line(c, 0, 0) ELSE Summary[CHOOSE i \in LinesOf(c) : TRUE]

\* How benchmark_rule writes its line: appended when there is no file yet,
\* otherwise sed replaces the lines of the rule, if there are any.
Recorded(l) ==
    IF Summary = <<>> THEN <<l>>
    ELSE [i \in 1 .. Len(Summary) |-> IF Summary[i].rule = l.rule THEN l ELSE Summary[i]]

Goto(place) == pc' = place

\* The shell variables of a script that is not running.
NoLast == [result |-> "stable", try |-> 0]
Forget == cand' = 0 /\ last' = NoLast /\ line' = NoLine /\ next' = 0 /\ fails' = 0

Init ==
    /\ epoch = None
    /\ round = [e \in Epochs |-> 0]
    /\ summary = [e \in Epochs |-> BlankRound]
    /\ best = [e \in Epochs |-> None]
    /\ cands = {} /\ broken = {} /\ empty = {}
    /\ merged = [c \in Sns |-> None]
    /\ sn = 1 /\ snFile = "number" /\ lost = FALSE
    /\ active = None
    /\ pc = "down" /\ cand = 0
    /\ last = NoLast
    /\ fails = 0 /\ line = NoLine /\ next = 0
    /\ starts = 0 /\ kills = 0
    /\ scored = NoScores
    /\ origin = [c \in Sns |-> None]

----------------------------------------------------------------------------
(* Starting and being killed.                                              *)

Begin ==
    /\ pc = "down" /\ starts < MaxStarts
    /\ starts' = starts + 1
    /\ UNCHANGED <<kills, runVars>>

\* There is an epoch and there are candidates: go on.
Resume ==
    /\ Begin
    /\ epoch # None /\ cands # {}
    /\ Goto("loop")
    /\ UNCHANGED <<dirVars, ruleVars, snVars, scored, origin>>

\* Otherwise epoch 0 is made anew; the file of the initial rule is created
\* empty ...
StartAfresh ==
    /\ Begin
    /\ epoch = None \/ cands = {}
    /\ epoch' = 0
    /\ round' = [round EXCEPT ![0] = 0]
    /\ summary' = [summary EXCEPT ![0] = BlankRound]
    /\ best' = [best EXCEPT ![0] = None]
    /\ cands' = {0} /\ broken' = {0} /\ empty' = {0}
    /\ origin' = [origin EXCEPT ![0] = <<None, 0>>]
    /\ scored' = NoScores
    /\ Goto("seed")
    /\ UNCHANGED <<merged, active, snVars>>

\* ... and then written.
Seed ==
    /\ pc = "seed"
    /\ broken' = broken \ {0} /\ empty' = empty \ {0}
    /\ Goto("loop")
    /\ UNCHANGED <<dirVars, cands, merged, active, snVars, runVars, envVars, scored, origin>>

Exit ==
    /\ Goto("down")
    /\ Forget
    /\ UNCHANGED <<dirVars, ruleVars, snVars, envVars, scored, origin>>

Kill ==
    /\ pc # "down" /\ kills < MaxKills
    /\ kills' = kills + 1
    /\ Goto("down")
    /\ Forget
    /\ UNCHANGED <<dirVars, ruleVars, snVars, starts, scored, origin>>

----------------------------------------------------------------------------
(* One round.  The script reads work_loop.cfg before the loop and never    *)
(* again: what aiocc_stop.sh writes there has no effect on it.             *)

\* "No calculate rules,abnormal program termination..."
NoCandidates == pc = "loop" /\ cands = {} /\ Exit

\* deploy_candidate_rules.
Deploy ==
    /\ pc = "loop" /\ cands # {}
    /\ Goto("test")
    /\ UNCHANGED <<dirVars, ruleVars, snVars, runVars, envVars, scored, origin>>

\* Mutant: the file of the candidate is removed before it is benchmarked.
PickAndDelete ==
    /\ pc = "test"
    /\ \E c \in cands :
          /\ cand' = c
          /\ cands' = cands \ {c} /\ broken' = broken \ {c} /\ empty' = empty \ {c}
    /\ Goto("bench")
    /\ UNCHANGED <<dirVars, merged, active, snVars, last, fails, line, next, envVars, scored, origin>>

Pick ==
    /\ pc = "test"
    /\ \E c \in cands : cand' = c
    /\ Goto("bench")
    /\ UNCHANGED <<dirVars, ruleVars, snVars, last, fails, line, next, envVars, scored, origin>>

\* Mutant: the old table is freed after the new one was read.
ParsedFirst(c) == IF c \in broken THEN {active} ELSE {c}

\* What parse_qos_rules makes of the file of c on a client: an empty one is
\* refused before the old table is freed, one that ends too early leaves no
\* table at all, or the rules of c when it ends in the last of its lines.
Parsed(c) ==
    CASE c \in empty -> {active}
      [] c \in broken \ empty -> {None, c}
      [] OTHER -> {c}

\* benchmark_rule: the old results go, the rule is set on the clients.
SetRules ==
    /\ pc = "bench"
    /\ merged' = [merged EXCEPT ![cand] = None]
    /\ active' \in Parsed(cand)
    /\ Goto("measure")
    /\ UNCHANGED <<dirVars, cands, broken, empty, snVars, runVars, envVars, scored, origin>>

\* Mutant: a failed benchmark is not counted.
FailedUncounted(result) == UNCHANGED fails

CountFailure(result) == fails' = IF result = "failed" THEN fails + 1 ELSE fails

\* The counters are gathered and merged (the clients may disagree), the
\* bandwidth is measured and the line is written.
Measure ==
    /\ pc = "measure"
    /\ \E m \in {active, None} : merged' = [merged EXCEPT ![cand] = m]
    /\ \E result \in Results, s \in Scores :
          LET old == OldLine(cand)
              score == CASE result = "stable" -> s
                         [] result = "unstable" -> 0
                         [] result = "failed" -> old.score IN
          /\ summary' = [summary EXCEPT ![epoch][R] = Recorded(Line(cand, score, old.try + 1))]
          /\ last' = [result |-> result, try |-> old.try + 1]
          /\ CountFailure(result)
          /\ scored' = [scored EXCEPT ![cand] = score]
    /\ Goto("judge")
    /\ UNCHANGED <<epoch, round, best, cands, broken, empty, active, snVars, cand, line, next, envVars, origin>>

\* check_benchmark.
TooManyFailures == pc = "judge" /\ fails > FailLimit /\ Exit

\* Stable enough, or tried often enough: proceed to the next rule.
GiveUpOn == last.result = "stable" \/ last.try > TryLimit

\* Mutant: one failure more is let pass.
JudgeLenient ==
    /\ pc = "judge" /\ fails <= FailLimit + 1
    /\ Goto(IF GiveUpOn THEN "delete" ELSE "bench")
    /\ UNCHANGED <<dirVars, ruleVars, snVars, runVars, envVars, scored, origin>>

Judge ==
    /\ pc = "judge" /\ fails <= FailLimit
    /\ Goto(IF GiveUpOn THEN "delete" ELSE "bench")
    /\ UNCHANGED <<dirVars, ruleVars, snVars, runVars, envVars, scored, origin>>

DeleteCandidate ==
    /\ pc = "delete"
    /\ cands' = cands \ {cand} /\ broken' = broken \ {cand} /\ empty' = empty \ {cand}
    /\ Goto("test")
    /\ UNCHANGED <<dirVars, merged, active, snVars, runVars, envVars, scored, origin>>

\* _get_highest_score.sh: the last of the lines with the highest score.
Highest(lines) ==
    CHOOSE l \in {lines[i] : i \in 1 .. Len(lines)} :
        \E i \in 1 .. Len(lines) :
            /\ lines[i] = l
            /\ \A j \in 1 .. Len(lines) : lines[j].score <= l.score
            /\ \A j \in i + 1 .. Len(lines) : lines[j].score < l.score

\* The best line is final when it was tried often enough or is the only one.
\* The loop that benchmarks it again otherwise is never entered:
\* Recorded never makes a second line.
SelectBest ==
    /\ pc = "test" /\ cands = {}
    /\ Highest(Summary).try >= TryLimit \/ Len(Summary) = 1
    /\ line' = Highest(Summary)
    /\ Goto("compare")
    /\ UNCHANGED <<dirVars, ruleVars, snVars, cand, last, fails, next, envVars, scored, origin>>

----------------------------------------------------------------------------
(* next_round.                                                             *)

BestLine == IF best[epoch] = None THEN NoLine ELSE best[epoch]

RoundImproves == line.score > BestLine.score \/ line = BestLine

\* The number the next rule gets: an empty file says 1.
First == IF snFile = "empty" THEN 1 ELSE sn

\* The rule new ones are derived from must have a valid merged file, or the
\* script exits.
Derive(c, place) ==
    \/ /\ merged[c] # None
       /\ cand' = c /\ next' = First /\ line' = NoLine /\ last' = NoLast
       /\ Goto(place)
       /\ UNCHANGED fails
    \/ /\ merged[c] = None
       /\ Goto("down")
       /\ Forget

Improve ==
    /\ pc = "compare" /\ RoundImproves
    /\ best' = [best EXCEPT ![epoch] = line]
    /\ Derive(line.rule, "generate")
    /\ lost' = (lost \/ snFile = "empty")
    /\ UNCHANGED <<epoch, round, summary, ruleVars, sn, snFile, envVars, scored, origin>>

Exhausted ==
    /\ pc = "compare" /\ ~RoundImproves
    /\ Derive(BestLine.rule, "split")
    /\ lost' = (lost \/ snFile = "empty")
    /\ UNCHANGED <<dirVars, ruleVars, sn, snFile, envVars, scored, origin>>

\* A Python program creates the file of the next rule, and what it prints is
\* there or not yet ...
OpenRule(c, index) ==
    /\ c <= MaxSn
    /\ cands' = cands \cup {c} /\ broken' = broken \cup {c}
    /\ empty' \in {empty \cup {c}, empty \ {c}}
    /\ origin' = [origin EXCEPT ![c] = <<cand, index>>]
    /\ scored' = [scored EXCEPT ![c] = None]
    /\ UNCHANGED <<dirVars, merged, active, snVars, cand, last, fails, line, next, envVars>>

\* ... and closes it, its number taken.  A split file is not valid when no
\* rule of the set was ever used: it lacks the lines of the new ones.
CloseRule(splitBroken) ==
    /\ broken' = IF splitBroken THEN broken ELSE broken \ {next}
    /\ empty' = empty \ {next}
    /\ next' = next + 1
    /\ UNCHANGED <<dirVars, cands, merged, active, snVars, cand, last, fails, line, envVars, scored, origin>>

\* generate_candidate_rules.py.
Generate ==
    \/ /\ pc = "generate" /\ snFile # "pair" /\ next < First + NewRules
       /\ OpenRule(next, next - First)
       /\ Goto("generating")
    \/ /\ pc = "generating"
       /\ CloseRule(FALSE)
       /\ Goto("generate")

\* The programs end by truncating next_rule_sn.cfg and writing the number
\* after the last they gave; they die on a number they cannot parse, "5,".
Truncate(n) == sn' = n /\ snFile' = "empty"
Write(what) == snFile' = what /\ UNCHANGED sn
Die == snFile = "pair" /\ UNCHANGED <<sn, snFile>>

GenerateDone ==
    /\ \/ pc = "generate" /\ Die /\ Goto("number")
       \/ pc = "generate" /\ snFile # "pair" /\ next = First + NewRules /\ Truncate(next) /\ Goto("save")
       \/ pc = "save" /\ Write("pair") /\ Goto("number")
    /\ cand' = 0 /\ next' = 0
    /\ UNCHANGED <<dirVars, ruleVars, lost, last, fails, line, envVars, scored, origin>>

\* split_rule.py.
Split ==
    \/ /\ pc = "split" /\ snFile # "pair" /\ next = First
       /\ OpenRule(next, -1)
       /\ Goto("splitting")
    \/ /\ pc = "splitting"
       /\ \E b \in BOOLEAN : CloseRule(b)
       /\ Goto("split")

SplitDone ==
    /\ \/ pc = "split" /\ Die /\ Goto("splitnumber")
       \/ pc = "split" /\ snFile # "pair" /\ next = First + 1 /\ Truncate(next) /\ Goto("splitsave")
       \/ pc = "splitsave" /\ Write("number") /\ Goto("splitnumber")
    /\ cand' = 0 /\ next' = 0
    /\ UNCHANGED <<dirVars, ruleVars, lost, last, fails, line, envVars, scored, origin>>

\* Mutant: the number of the first rule is kept.
CutFirst(n) == n - 1

\* The script reads the file and keeps the first field.
CutField(n) == n

\* It truncates next_rule_sn.cfg once more and writes that number.
CutNumber ==
    /\ \/ pc = "number" /\ Truncate(CutField(sn)) /\ Goto("renumber")
       \/ pc = "renumber" /\ Write("number") /\ Goto("advance")
       \/ pc = "splitnumber" /\ Truncate(CutField(sn)) /\ Goto("splitrenumber")
       \/ pc = "splitrenumber" /\ Write("number") /\ Goto("newepoch")
    /\ UNCHANGED <<dirVars, ruleVars, lost, runVars, envVars, scored, origin>>

AdvanceRound ==
    /\ pc = "advance" /\ R < MaxRound
    /\ round' = [round EXCEPT ![epoch] = @ + 1]
    /\ scored' = NoScores
    /\ Goto("filter")
    /\ UNCHANGED <<epoch, summary, best, ruleVars, snVars, runVars, envVars, origin>>

\* epoch.cfg is written ...
AdvanceEpoch ==
    /\ pc = "newepoch" /\ epoch < MaxEpoch
    /\ epoch' = epoch + 1
    /\ scored' = NoScores
    /\ Goto("mkepoch")
    /\ UNCHANGED <<round, summary, best, ruleVars, snVars, runVars, envVars, origin>>

\* ... and the directory of the epoch is made anew.
MakeEpoch ==
    /\ pc = "mkepoch"
    /\ round' = [round EXCEPT ![epoch] = 0]
    /\ summary' = [summary EXCEPT ![epoch] = BlankRound]
    /\ best' = [best EXCEPT ![epoch] = None]
    /\ Goto("filter")
    /\ UNCHANGED <<epoch, ruleVars, snVars, runVars, envVars, scored, origin>>

\* Mutant: incomplete files stay.
FilterNothing ==
    /\ pc = "filter"
    /\ Goto("loop")
    /\ UNCHANGED <<dirVars, ruleVars, snVars, runVars, envVars, scored, origin>>

\* _candidate_filter.
Filter ==
    /\ pc = "filter"
    /\ cands' = cands \ broken /\ broken' = {} /\ empty' = {}
    /\ Goto("loop")
    /\ UNCHANGED <<dirVars, merged, active, snVars, runVars, envVars, scored, origin>>

----------------------------------------------------------------------------
Round ==
    \/ NoCandidates \/ Deploy \/ Pick \/ SetRules \/ Measure
    \/ TooManyFailures \/ Judge \/ DeleteCandidate \/ SelectBest
NextRound ==
    \/ Improve \/ Exhausted
    \/ Generate \/ GenerateDone \/ CutNumber \/ AdvanceRound
    \/ Split \/ SplitDone \/ AdvanceEpoch \/ MakeEpoch
    \/ Filter
Next == Resume \/ StartAfresh \/ Seed \/ Round \/ NextRound \/ Kill

Spec == Init /\ [][Next]_vars

\* The script is executed as long as nobody kills it.
FairSpec == Spec /\ WF_vars(Seed \/ Round \/ NextRound)

----------------------------------------------------------------------------
(* Properties.                                                             *)

Places == {"down", "seed", "loop", "test", "bench", "measure", "judge", "delete",
           "compare", "generate", "generating", "save", "number", "renumber", "advance",
           "split", "splitting", "splitsave", "splitnumber", "splitrenumber",
           "newepoch", "mkepoch", "filter"}

\* Every variable has its type.
TypeOK ==
    /\ epoch \in Epochs \cup {None}
    /\ round \in [Epochs -> Rounds]
    /\ cands \subseteq Sns /\ broken \subseteq cands /\ empty \subseteq broken
    /\ merged \in [Sns -> Sns \cup {None}]
    /\ active \in Sns \cup {None}
    /\ sn \in 0 .. MaxSn + 1 /\ next \in 0 .. MaxSn + 1
    /\ snFile \in {"number", "pair", "empty"} /\ lost \in BOOLEAN
    /\ cand \in Sns
    /\ pc \in Places
    /\ fails \in 0 .. FailLimit + 1

(* The counters kept for a rule set are its own: the clients ran it, and   *)
(* nothing else, when they were gathered (benchmark_rule, _set_qos_rules,  *)
(* parse_qos_rules), whatever a kill left among the candidates.  Only the  *)
(* counters for a file that a kill left empty are those of the set before. *)
MergedIsOwn ==
    [][\A c \in Sns : \/ merged'[c] \in {None, c, merged[c]}
                      \/ c \in empty /\ kills > 0]_vars

(* A set with rules missing is never benchmarked in a search that was not  *)
(* killed: the half-written files, and the splits that lack the new rules, *)
(* are gone before the next round (_candidate_filter).                     *)
CandidatesWhole == kills = 0 /\ pc = "bench" => cand \notin broken

(* No candidate is removed before it was benchmarked in this round, except *)
(* the incomplete ones that _candidate_filter discards, whenever the       *)
(* script is killed and started again.                                     *)
NoCandidateSkipped ==
    [][\A c \in cands \ cands' : scored[c] # None \/ c \in broken]_vars

(* A sequence number names one rule set for ever: the results of a rule    *)
(* are kept under it, and a generation that a kill interrupted is written  *)
(* again under the same numbers (next_rule_sn.cfg).  That is true of a     *)
(* search killed once that finds its number.  One killed between the       *)
(* truncation of the file and the writing loses it, and starts at 1 again. *)
(* One killed while it splits a rule and again after the last candidate    *)
(* was deleted begins afresh (aiocc_start.sh) and gives the number of the  *)
(* half-made split to a rule derived from another one.                     *)
NumbersNotReused ==
    [][kills <= 1 /\ ~lost' =>
           \A c \in Sns : origin[c] # None => origin'[c] = origin[c]]_vars

(* A round ends, with its candidates tested or with the script giving up   *)
(* after too many failures or killed, unless bandwidths are unstable again *)
(* and again.                                                              *)
StableInTheEnd == <>[](last.result # "unstable")
RoundEnds == StableInTheEnd => (pc = "test" ~> pc \in {"compare", "down"})

(* What get_best_round_score selects is the rule with the highest score of *)
(* the round.                                                              *)
BestOfRound ==
    pc = "compare" => \A c \in Sns : scored[c] # None => scored[c] <= line.score

=============================================================================
