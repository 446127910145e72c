------------------------------ MODULE QosRules -------------------------------
(***************************************************************************)
(* The rule table of one client, under qos->lock: qos_rules is written and *)
(* read through procfs (parse_qos_rules), and every reply measures the     *)
(* client and looks for the first rule that matches (qos_adjust).  The     *)
(* averages that a rule collects decide later where split_rule.py splits   *)
(* it, and its counter which rule is split.                                *)
(*                                                                         *)
(* Abstractions.  The two moving averages of times may have any value at   *)
(* any reply.  Whether the gap between two updates of the window has       *)
(* passed, and whether the client still has an import, is left open.  The  *)
(* wall clock is not set back and a round trip takes a microsecond at      *)
(* least, so that no division is by zero.                                  *)
(***************************************************************************)
EXTENDS QosMath, Sequences

CONSTANTS
    Tables,     \* the rule tables that may be written: sequences of Texts
    Rates,      \* updates per second on the first line of a table, any but 0
    OneSec,     \* 1000000 microseconds
    Waits,      \* values of the moving averages
    Rtts,       \* round-trip times
    MaxSamples, \* bound on used_times
    MaxMem,     \* bound on the memory accounted as allocated before a write
    Null

Dims == {"ack", "send", "rtt"}
\* A rule as it is written: bounds of each dimension, and what follows from it.
Texts == [lower : [Dims -> Nat], upper : [Dims -> Nat], m100 : Int, b100 : Int, tau : Nat]
\* What qos_rule_t holds besides.
Counters == [used : Nat, avg : [Dims -> Nat]]
Unused == [used |-> 0, avg |-> [d \in Dims |-> 0]]

ASSUME RulesAssumption ==
    /\ Tables \subseteq Seq(Texts) \ {<<>>}
    /\ Rates \subseteq Int \ {0} /\ OneSec \in Nat
    /\ Waits \subseteq Nat /\ Rtts \subseteq Nat \ {0}
    /\ MaxSamples \in Nat /\ MaxMem \in Nat
    /\ Null \notin Seq(Texts)

VARIABLES
    rules,    \* qos->rules: the table, or Null
    counters, \* used_times and the averages of the rules in the table
    ruleNo,   \* rule_no
    gap,      \* min_gap_between_updating_mrif
    tau,      \* min_usec_between_rpcs
    tracked,  \* max_rpc_in_flight100
    smallest, \* smallest_rtt, 0 when none was measured
    ratio,    \* rtt_ratio100
    mem,      \* rules' worth of memory that Lustre accounts as allocated
    hidden,   \* history: a read has set rule_no of a table to 0
    result    \* what the last write returned

tableVars == <<rules, counters, ruleNo, gap, mem>>
vars == <<tableVars, tau, tracked, smallest, ratio, hidden, result>>

Init ==
    /\ rules = Null /\ counters = <<>> /\ ruleNo = 0 /\ gap = 0 /\ mem = 0
    /\ tau = 0 /\ tracked = 0 /\ smallest = 0 /\ ratio = 0
    /\ hidden = FALSE /\ result = "ok"

----------------------------------------------------------------------------
(* parse_qos_rules, by what the text holds.                                *)

\* LIBCFS_FREE is told the size by rule_no.
Freed == IF rules = Null THEN mem ELSE mem - ruleNo

\* C division: a rate above OneSec gives a gap of 0, a negative one a negative gap.
Gap(rate) == TruncDiv(OneSec, rate)

NoTable == rules' = Null /\ counters' = <<>>

\* "0", or a first line with a zero.
ParseZero ==
    /\ NoTable /\ mem' = Freed /\ ruleNo' = 0
    /\ result' = "ok"
    /\ UNCHANGED gap

\* A first line that is not two numbers.
ParseGarbage == result' = "EINVAL" /\ UNCHANGED tableVars

ParseNoMemory(table, rate) ==
    /\ NoTable /\ mem' = Freed /\ ruleNo' = Len(table)
    /\ gap' = Gap(rate)
    /\ result' = "ENOMEM"

\* A line with fewer than nine numbers: the new table is freed again.
ParseBadLine(rate) ==
    /\ NoTable /\ mem' = Freed /\ ruleNo' = 0
    /\ gap' = Gap(rate)
    /\ result' = "EINVAL"

\* Mutant: rule_no is set before the old table is freed.
ParseSetsFirst(table, rate) ==
    /\ rules' = table /\ counters' = [i \in 1 .. Len(table) |-> Unused]
    /\ ruleNo' = Len(table)
    /\ mem' = (IF rules = Null THEN mem ELSE mem - Len(table)) + Len(table)
    /\ gap' = Gap(rate)
    /\ result' = "ok"

ParseTable(table, rate) ==
    /\ rules' = table /\ counters' = [i \in 1 .. Len(table) |-> Unused]
    /\ ruleNo' = Len(table)
    /\ mem' = Freed + Len(table)
    /\ gap' = Gap(rate)
    /\ result' = "ok"

\* osc_qos_rules_seq_write: the measurements start again in any case.
WriteRules ==
    /\ mem <= MaxMem
    /\ \/ ParseZero \/ ParseGarbage
       \/ \E table \in Tables, rate \in Rates :
             ParseNoMemory(table, rate) \/ ParseBadLine(rate) \/ ParseTable(table, rate)
    /\ ratio' = 0 /\ smallest' = 0
    /\ UNCHANGED <<tau, tracked, hidden>>

\* osc_qos_rules_seq_show: when it thinks that it has nothing to show it sets
\* rule_no to 0.
ShowRules ==
    /\ ruleNo' = IF rules = Null \/ gap = 0 THEN 0 ELSE ruleNo
    /\ hidden' = (hidden \/ (rules # Null /\ gap = 0))
    /\ UNCHANGED <<rules, counters, gap, mem, tau, tracked, smallest, ratio, result>>

----------------------------------------------------------------------------
(* qos_adjust.                                                             *)

Matches(i, x) ==
    \A d \in Dims : rules[i].lower[d] <= x[d] /\ x[d] < rules[i].upper[d]

Matching(x) == {i \in 1 .. ruleNo : rules # Null /\ Matches(i, x)}

Counted(c, x) ==
    LET n == c.used + 1 IN
    [used |-> n, avg |-> [d \in Dims |-> Average(c.avg[d], x[d], n)]]

\* Mutant: the smallest round trip is the first.
MeasureFirst(rtt) ==
    /\ smallest' = IF smallest = 0 THEN rtt ELSE smallest
    /\ ratio' = (rtt * One) \div smallest'

Measure(rtt) ==
    /\ smallest' = IF smallest = 0 \/ rtt < smallest THEN rtt ELSE smallest
    /\ ratio' = (rtt * One) \div smallest'

\* The first rule that matches counts the sample, sets the throttle and,
\* when the gap has passed, the window.
Apply(i, x) ==
    /\ counters[i].used < MaxSamples
    /\ counters' = [counters EXCEPT ![i] = Counted(@, x)]
    /\ tau' = rules[i].tau
    /\ tracked' \in {tracked, NewTracked(tracked, rules[i])}

Adjust(ack, send, rtt) ==
    LET x == [ack |-> ack, send |-> send, rtt |-> ratio'] IN
    /\ Measure(rtt)
    /\ \/ \E i \in Matching(x) : (\A j \in Matching(x) : i <= j) /\ Apply(i, x)
       \/ Matching(x) = {} /\ UNCHANGED <<counters, tau, tracked>>
       \/ UNCHANGED <<counters, tau, tracked>>    \* there is no import any more
    /\ UNCHANGED <<rules, ruleNo, gap, mem, hidden, result>>

Next ==
    \/ WriteRules \/ ShowRules
    \/ \E ack, send \in Waits, rtt \in Rtts : Adjust(ack, send, rtt)

Spec == Init /\ [][Next]_vars

----------------------------------------------------------------------------
(* Properties.                                                             *)

\* Every variable has its type; the loop over the rules stays in the table.
TypeOK ==
    /\ rules \in Tables \cup {Null}
    /\ rules # Null => counters \in [1 .. Len(rules) -> Counters] /\ ruleNo \in {0, Len(rules)}
    /\ ruleNo \in Nat /\ gap \in Int /\ tau \in Nat
    /\ tracked \in 0 .. Limit * One
    /\ smallest \in Nat /\ ratio \in Nat
    /\ mem \in Int /\ hidden \in BOOLEAN
    /\ result \in {"ok", "EINVAL", "ENOMEM"}

(* The averages of a rule lie where the rule matches, however the integer  *)
(* division truncates: split_rule.py can split the rule there.             *)
AveragesInRule ==
    rules # Null => \A i \in 1 .. Len(rules) : counters[i].used > 0 =>
        \A d \in Dims : /\ rules[i].lower[d] <= counters[i].avg[d]
                        /\ counters[i].avg[d] < rules[i].upper[d]

(* The memory of every table is given back in full, after failed writes as *)
(* well, and never more than that.  The exception is a table whose rate    *)
(* exceeds one per microsecond: a read of the file takes it for none and   *)
(* sets rule_no to 0 (lproc_osc.c:600-603), and whatever frees it next     *)
(* (parse_qos_rules) gives nothing back.                                   *)
Held == IF rules = Null THEN 0 ELSE Len(rules)
MemoryAccounted == mem >= Held /\ (~hidden => mem = Held)

(* No reply is faster than the fastest since the rules were written, so a  *)
(* bound of 100 on the ratio excludes none.                                *)
RatioAtLeastOne == ratio = 0 \/ ratio >= One

=============================================================================
