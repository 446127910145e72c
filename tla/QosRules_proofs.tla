--------------------------- MODULE QosRules_proofs ---------------------------
(***************************************************************************)
(* The averages of a rule lie inside the rule, the tables' memory is       *)
(* accounted for, and no reply beats the smallest round trip: for any      *)
(* tables, measurements and number of samples.                             *)
(***************************************************************************)
EXTENDS QosRules, TLAPS

(* rule_no is the size of the table, unless a read has hidden the table.   *)
IInv ==
    /\ TypeOK /\ AveragesInRule /\ MemoryAccounted /\ RatioAtLeastOne
    /\ rules # Null /\ ~hidden => ruleNo = Len(rules)

----------------------------------------------------------------------------

(* An average moves towards the sample and not beyond it; the first sample *)
(* is the average (the three updates of qos_adjust).                       *)
LEMMA AverageBetween ==
    ASSUME NEW avg \in Nat, NEW x \in Nat, NEW n \in Nat \ {0},
           NEW lo \in Nat, NEW hi \in Nat, lo <= x, x < hi,
           n = 1 \/ (lo <= avg /\ avg < hi)
    PROVE  Average(avg, x, n) \in Nat /\ lo <= Average(avg, x, n) /\ Average(avg, x, n) < hi
  <1> DEFINE d == x - avg  m == IF d < 0 THEN -d ELSE d  q == m \div n
  <1>1. m \in Nat /\ d \in Int
    OBVIOUS
  <1>2. q \in Nat /\ q <= m /\ (n = 1 => q = m)
    <2> HIDE DEF m
    <2>1. q \in Int /\ q >= 0 /\ q * n <= m
      BY <1>1, Z3
    <2>2. q * n >= q
      BY <2>1, Z3
    <2>3. n = 1 => q = m
      BY <1>1, Z3
    <2> QED BY <1>1, <2>1, <2>2, <2>3
  <1>3. TruncDiv(d, n) = IF d < 0 THEN -q ELSE q
    BY DEF TruncDiv
  <1>4. Average(avg, x, n) = IF d < 0 THEN avg - q ELSE avg + q
    <2> HIDE DEF q
    <2>1. Average(avg, x, n) = avg + TruncDiv(d, n)
      BY DEF Average
    <2> QED BY <1>2, <1>3, <2>1
  <1> HIDE DEF q
  <1> QED BY <1>2, <1>4

(* A quotient reaches what its operand reaches.                            *)
LEMMA DivReaches ==
    ASSUME NEW a \in Nat, NEW b \in Nat \ {0}, NEW n \in Nat, n * b <= a
    PROVE  a \div b \in Nat /\ n <= a \div b
  <1> DEFINE q == a \div b
  <1>1. q \in Nat /\ a < q * b + b
    BY Z3
  <1>2. CASE q < n
    <2>1. q + 1 <= n
      BY <1>1, <1>2
    <2>2. (q + 1) * b <= n * b
      BY <1>1, <2>1, Z3
    <2>3. (q + 1) * b = q * b + b
      BY <1>1, Z3
    <2> QED BY <1>1, <2>2, <2>3
  <1> QED BY <1>1, <1>2

(* The tables are sequences of well-formed rules.                          *)
LEMMA TableType ==
    ASSUME NEW table \in Tables
    PROVE  /\ Len(table) \in Nat \ {0} /\ table # Null
           /\ \A i \in 1 .. Len(table) : table[i] \in Texts
  <1>1. table \in Seq(Texts) /\ table # <<>>
    BY RulesAssumption
  <1> QED BY <1>1, RulesAssumption

(* The gap is a number, whatever the rate.                                 *)
LEMMA GapType == ASSUME NEW rate \in Rates PROVE Gap(rate) \in Int
  <1>1. rate \in Int \ {0} /\ OneSec \in Nat
    BY RulesAssumption
  <1> DEFINE m == IF rate < 0 THEN -rate ELSE rate  q == OneSec \div m
  <1>2. m \in Nat \ {0}
    BY <1>1
  <1> HIDE DEF m
  <1>3. q \in Int
    BY <1>1, <1>2, Z3
  <1>4. Gap(rate) = IF rate < 0 THEN -q ELSE q
    BY <1>1 DEF Gap, TruncDiv, m
  <1> QED BY <1>3, <1>4

(* What is given back is at most what was taken, and all of it unless the  *)
(* table was hidden.                                                       *)
LEMMA FreedType ==
    ASSUME IInv
    PROVE  Freed \in Nat /\ (~hidden => Freed = 0)
  <1>1. mem \in Int /\ ruleNo \in Nat
    BY DEF IInv, TypeOK
  <1>2. CASE rules = Null
    BY <1>1, <1>2 DEF IInv, MemoryAccounted, Held, Freed
  <1>3. CASE rules # Null
    <2>1. Len(rules) \in Nat /\ ruleNo \in {0, Len(rules)} /\ mem >= Len(rules)
      BY <1>3, TableType DEF IInv, TypeOK, MemoryAccounted, Held
    <2>2. ~hidden => ruleNo = Len(rules) /\ mem = Len(rules)
      BY <1>3 DEF IInv, MemoryAccounted, Held
    <2> QED BY <1>1, <1>3, <2>1, <2>2 DEF Freed
  <1> QED BY <1>2, <1>3

(* A table that was just written: no rule has been used.                   *)
LEMMA WriteStep ==
    ASSUME IInv, WriteRules
    PROVE  IInv'
  <1> USE DEF IInv
  <1>1. /\ tau' = tau /\ tracked' = tracked /\ hidden' = hidden /\ ratio' = 0 /\ smallest' = 0
        /\ RatioAtLeastOne'
    BY DEF WriteRules, RatioAtLeastOne
  <1>2. CASE ParseZero
    BY <1>1, <1>2, FreedType DEF ParseZero, NoTable, TypeOK, AveragesInRule, MemoryAccounted, Held
  <1>3. CASE ParseGarbage
    BY <1>1, <1>3 DEF ParseGarbage, tableVars, TypeOK, AveragesInRule, MemoryAccounted, Held
  <1>4. ASSUME NEW table \in Tables, NEW rate \in Rates,
               ParseNoMemory(table, rate) \/ ParseBadLine(rate)
        PROVE  IInv'
    BY <1>1, <1>4, TableType, GapType, FreedType
       DEF ParseNoMemory, ParseBadLine, NoTable, TypeOK, AveragesInRule, MemoryAccounted, Held
  <1>5. ASSUME NEW table \in Tables, NEW rate \in Rates, ParseTable(table, rate)
        PROVE  IInv'
    <2>1. Len(table) \in Nat \ {0} /\ table # Null
      BY TableType
    <2>2. gap' \in Int
      BY <1>5, GapType DEF ParseTable
    <2>3. Unused \in Counters /\ Unused.used = 0
      BY DEF Unused, Counters
    <2>4. counters' \in [1 .. Len(table) -> Counters]
          /\ \A i \in 1 .. Len(table) : counters'[i].used = 0
      <3>1. counters' = [i \in 1 .. Len(table) |-> Unused]
        BY <1>5 DEF ParseTable
      <3> HIDE DEF Unused
      <3> QED BY <2>3, <3>1
    <2>5. rules' = table /\ ruleNo' = Len(table) /\ result' = "ok"
      BY <1>5 DEF ParseTable
    <2>6. mem' \in Int /\ mem' >= Len(table) /\ (~hidden => mem' = Len(table))
      BY <1>5, <2>1, FreedType DEF ParseTable
    <2>7. TypeOK'
      BY <1>1, <2>1, <2>2, <2>4, <2>5, <2>6 DEF TypeOK
    <2>8. AveragesInRule'
      BY <2>4, <2>5 DEF AveragesInRule
    <2>9. MemoryAccounted'
      BY <1>1, <2>1, <2>5, <2>6 DEF MemoryAccounted, Held
    <2> QED BY <1>1, <2>2, <2>5, <2>7, <2>8, <2>9
  <1> QED BY <1>2, <1>3, <1>4, <1>5 DEF WriteRules

(* Reading the file changes rule_no at most, and notes it.                 *)
LEMMA ShowStep ==
    ASSUME IInv, ShowRules
    PROVE  IInv'
  BY DEF IInv, ShowRules, TypeOK, AveragesInRule, MemoryAccounted, Held, RatioAtLeastOne

(* Every reply is measured against the smallest round trip so far.         *)
LEMMA MeasureStep ==
    ASSUME IInv, NEW rtt \in Rtts, Measure(rtt)
    PROVE  smallest' \in Nat /\ ratio' \in Nat /\ RatioAtLeastOne'
  <1>1. rtt \in Nat \ {0} /\ One \in Nat \ {0} /\ smallest \in Nat
    BY RulesAssumption, MathAssumption DEF IInv, TypeOK
  <1> DEFINE s == IF smallest = 0 \/ rtt < smallest THEN rtt ELSE smallest
  <1>2. s \in Nat \ {0} /\ s <= rtt /\ smallest' = s
    BY <1>1 DEF Measure
  <1> HIDE DEF s
  <1>3. rtt * One \in Nat /\ One * s <= rtt * One
    BY <1>1, <1>2, Z3
  <1>4. (rtt * One) \div s \in Nat /\ One <= (rtt * One) \div s
    BY <1>1, <1>2, <1>3, DivReaches
  <1>5. ratio' = (rtt * One) \div s
    BY <1>2 DEF Measure
  <1> QED BY <1>1, <1>2, <1>4, <1>5 DEF RatioAtLeastOne

(* A sample that a rule matches is counted inside the rule.                *)
LEMMA CountedInRule ==
    ASSUME NEW r \in Texts, NEW c \in Counters, NEW x \in [Dims -> Nat],
           \A d \in Dims : r.lower[d] <= x[d] /\ x[d] < r.upper[d],
           c.used > 0 => \A d \in Dims : r.lower[d] <= c.avg[d] /\ c.avg[d] < r.upper[d]
    PROVE  /\ Counted(c, x) \in Counters
           /\ \A d \in Dims : /\ r.lower[d] <= Counted(c, x).avg[d]
                              /\ Counted(c, x).avg[d] < r.upper[d]
  <1> DEFINE n == c.used + 1
             avg == [d \in Dims |-> Average(c.avg[d], x[d], n)]
  <1>1. c.used \in Nat /\ n \in Nat \ {0} /\ (n = 1 \/ c.used > 0)
    BY DEF Counters
  <1>2. ASSUME NEW d \in Dims
        PROVE  avg[d] \in Nat /\ r.lower[d] <= avg[d] /\ avg[d] < r.upper[d]
    <2>1. /\ c.avg[d] \in Nat /\ x[d] \in Nat
          /\ r.lower[d] \in Nat /\ r.upper[d] \in Nat
      BY <1>2 DEF Counters, Texts
    <2>2. n = 1 \/ (r.lower[d] <= c.avg[d] /\ c.avg[d] < r.upper[d])
      BY <1>1, <1>2
    <2>3. r.lower[d] <= x[d] /\ x[d] < r.upper[d]
      BY <1>2
    <2> HIDE DEF n
    <2> QED BY <1>1, <1>2, <2>1, <2>2, <2>3, AverageBetween
  <1>3. avg \in [Dims -> Nat]
    BY <1>2
  <1> HIDE DEF avg
  <1>4. [used |-> n, avg |-> avg] \in Counters
    BY <1>1, <1>3 DEF Counters
  <1>5. Counted(c, x) = [used |-> n, avg |-> avg]
    BY DEF Counted, avg
  <1> HIDE DEF n
  <1> QED BY <1>2, <1>4, <1>5

(* A reply: the table stays, and only the counters of the rule that        *)
(* matches change.                                                         *)
LEMMA AdjustStep ==
    ASSUME IInv, NEW ack \in Waits, NEW send \in Waits, NEW rtt \in Rtts, Adjust(ack, send, rtt)
    PROVE  IInv'
  <1> USE DEF IInv
  <1> DEFINE x == [ack |-> ack, send |-> send, rtt |-> ratio']
  <1>1. smallest' \in Nat /\ ratio' \in Nat /\ RatioAtLeastOne'
    BY MeasureStep DEF Adjust
  <1>2. rules' = rules /\ ruleNo' = ruleNo /\ gap' = gap /\ mem' = mem /\ result' = result
        /\ hidden' = hidden
    BY DEF Adjust
  <1>3. MemoryAccounted' /\ (rules # Null /\ ~hidden => ruleNo = Len(rules))'
    BY <1>2 DEF MemoryAccounted, Held
  <1>4. CASE UNCHANGED <<counters, tau, tracked>>
    <2>1. TypeOK' /\ AveragesInRule'
      BY <1>1, <1>2, <1>4 DEF TypeOK, AveragesInRule
    <2> QED BY <1>1, <1>3, <2>1
  <1>5. ASSUME NEW i \in Matching(x), Apply(i, x)
        PROVE  IInv'
    <2>1. rules # Null /\ ruleNo = Len(rules) /\ i \in 1 .. Len(rules) /\ Matches(i, x)
      <3>1. rules # Null /\ i \in 1 .. ruleNo /\ Matches(i, x)
        BY <1>5 DEF Matching
      <3> QED BY <3>1 DEF TypeOK
    <2>2. rules \in Tables /\ rules[i] \in Texts /\ Len(rules) \in Nat
      BY <2>1, TableType DEF TypeOK
    <2>3. counters \in [1 .. Len(rules) -> Counters] /\ counters[i] \in Counters
      BY <2>1 DEF TypeOK
    <2>4. ack \in Nat /\ send \in Nat
      BY RulesAssumption
    <2>5. x \in [Dims -> Nat]
      BY <1>1, <2>4 DEF Dims
    <2> HIDE DEF x
    <2> DEFINE c == Counted(counters[i], x)
    <2>6. /\ c \in Counters
          /\ \A d \in Dims : rules[i].lower[d] <= c.avg[d] /\ c.avg[d] < rules[i].upper[d]
      <3>1. \A d \in Dims : rules[i].lower[d] <= x[d] /\ x[d] < rules[i].upper[d]
        BY <2>1 DEF Matches
      <3>2. counters[i].used > 0 => \A d \in Dims :
                rules[i].lower[d] <= counters[i].avg[d] /\ counters[i].avg[d] < rules[i].upper[d]
        BY <2>1 DEF AveragesInRule
      <3> QED BY <2>2, <2>3, <2>5, <3>1, <3>2, CountedInRule
    <2>7. counters' = [counters EXCEPT ![i] = c]
      BY <1>5 DEF Apply
    <2> HIDE DEF c
    <2>8. AveragesInRule'
      <3>1. SUFFICES ASSUME NEW k \in 1 .. Len(rules), counters'[k].used > 0, NEW d \in Dims
                     PROVE  rules[k].lower[d] <= counters'[k].avg[d]
                            /\ counters'[k].avg[d] < rules[k].upper[d]
        BY <1>2 DEF AveragesInRule
      <3>2. CASE k = i
        BY <2>1, <2>3, <2>6, <2>7, <3>2
      <3>3. CASE k # i
        BY <2>1, <2>3, <2>7, <3>1, <3>3 DEF AveragesInRule
      <3> QED BY <3>2, <3>3
    <2>9. tau' \in Nat /\ tracked' \in 0 .. Limit * One
      <3>1. rules[i].tau \in Nat /\ rules[i].m100 \in Int /\ rules[i].b100 \in Int
        BY <2>2 DEF Texts
      <3>2. Limit * One \in Nat /\ tracked \in Nat
        BY MathAssumption DEF TypeOK
      <3>3. Scaled(tracked, rules[i]) \in Int
        <4>1. One \in Nat \ {0} /\ tracked * rules[i].m100 \in Int
          BY <3>1, <3>2, MathAssumption
        <4>2. (tracked * rules[i].m100) \div One \in Int
          BY <4>1, Z3
        <4> QED BY <3>1, <3>2, <4>2 DEF Scaled
      <3>4. NewTracked(tracked, rules[i]) \in 0 .. Limit * One
        BY <3>2, <3>3 DEF NewTracked, Least, Greatest
      <3> QED BY <1>5, <3>1, <3>4 DEF Apply, TypeOK
    <2>10. TypeOK'
      BY <1>1, <1>2, <2>1, <2>3, <2>6, <2>7, <2>9 DEF TypeOK
    <2> QED BY <1>1, <1>3, <2>8, <2>10
  <1> QED BY <1>4, <1>5 DEF Adjust

----------------------------------------------------------------------------

(* The inductive invariant.                                                *)
LEMMA Invariance == Spec => []IInv
  <1>1. ASSUME Init PROVE IInv
    <2>1. Limit * One \in Nat
      BY MathAssumption
    <2>2. TypeOK
      <3>1. hidden \in BOOLEAN
        BY <1>1, Zenon DEF Init
      <3>2. rules = Null /\ ruleNo = 0 /\ gap = 0 /\ tau = 0 /\ tracked = 0
            /\ smallest = 0 /\ ratio = 0 /\ mem = 0 /\ result = "ok"
        BY <1>1 DEF Init
      <3> QED BY <2>1, <3>1, <3>2 DEF TypeOK
    <2> QED BY <1>1, <2>2 DEF Init, IInv, AveragesInRule, MemoryAccounted, Held, RatioAtLeastOne
  <1>2. ASSUME IInv, [Next]_vars PROVE IInv'
    <2>1. CASE UNCHANGED vars
      BY <1>2, <2>1 DEF vars, tableVars, IInv, TypeOK, AveragesInRule, MemoryAccounted, Held,
         RatioAtLeastOne
    <2> QED BY <1>2, <2>1, WriteStep, ShowStep, AdjustStep DEF Next
  <1> QED BY <1>1, <1>2, PTL DEF Spec

(* The variables keep their types: rule_no is the size of the table or 0.  *)
THEOREM RulesTypes == Spec => []TypeOK
  <1>1. IInv => TypeOK
    BY DEF IInv
  <1> QED BY <1>1, Invariance, PTL

(* The averages of a rule lie where the rule matches.                      *)
THEOREM AveragesStayInRule == Spec => []AveragesInRule
  <1>1. IInv => AveragesInRule
    BY DEF IInv
  <1> QED BY <1>1, Invariance, PTL

(* The memory of every table is given back in full, whatever is written    *)
(* and read in any order, unless a read came upon a table whose gap is 0;  *)
(* and even then no more is given back than was taken.                     *)
THEOREM MemoryIsAccounted == Spec => []MemoryAccounted
  <1>1. IInv => MemoryAccounted
    BY DEF IInv
  <1> QED BY <1>1, Invariance, PTL

(* The ratio never falls below one RTT.                                    *)
THEOREM RatioIsAtLeastOne == Spec => []RatioAtLeastOne
  <1>1. IInv => RatioAtLeastOne
    BY DEF IInv
  <1> QED BY <1>1, Invariance, PTL
=============================================================================
