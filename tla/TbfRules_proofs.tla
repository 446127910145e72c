--------------------------- MODULE TbfRules_proofs ---------------------------
(***************************************************************************)
(* The count in a rule is the number of those that hold it, for any number *)
(* of clients, handlers and rules: nobody ever uses a rule that is freed,  *)
(* and no request goes out under a rule that was stopped before it came.   *)
(* Two more say what it takes for a walk over the list to fail, and for a  *)
(* client to keep an old rate.                                             *)
(***************************************************************************)
EXTENDS TbfRules, FiniteSetTheorems, SequenceTheorems, TLAPS

(* The list ends with the default rule.                                    *)
ListOK == Len(list) > 0 /\ list[Len(list)] = Default

(* What a call of res_get carries at each of its places; a client that is  *)
(* used stays in the hash H.                                               *)
JobOK(j, H) ==
    /\ j.at # "idle" => j.cli \in Clients
    /\ j.at \in {"walk", "take", "reset"} => j.rule \in Rules
    /\ j.own /\ j.at \in {"marks", "insert"} => j.rec.rule \in Rules
    /\ ~(j.own /\ j.at \in {"marks", "insert"}) => j.rec.rule = None
    /\ j.at = "insert" => j.own
    /\ j.at = "check" => ~j.own
    /\ j.at # "idle" /\ (~j.own \/ j.at = "hold") => j.cli \in H
JobsOK == \A h \in Handlers : JobOK(job[h], hashed)

ClientsOK == \A c \in hashed : cli[c].rule \in Rules

(* A rule that is being stopped is not the default one.                    *)
CommandOK ==
    /\ command.at \in {"idle", "count"} => command.rule = None
    /\ command.at \in {"generation", "unlink", "flag"} => command.rule \in Rules
    /\ command.at = "unlink" => command.rule # Default /\ rule[command.rule].st = "listed"
    /\ command.at = "flag" => rule[command.rule].st = "unlinked"

FreeOK == \A r \in Rules : rule[r].st = "free" => rule[r].ref = 0

IInv ==
    /\ TypeOK /\ ListOK /\ JobsOK /\ ClientsOK /\ CommandOK
    /\ FreeOK /\ RefsCounted

----------------------------------------------------------------------------

(* One, if it is so.                                                       *)
One(b) == IF b THEN 1 ELSE 0
Has(c, r) == c \in hashed /\ cli[c].rule = r
Holds(h, r) == \/ job[h].at = "reset" /\ job[h].rule = r
               \/ job[h].own /\ job[h].rec.rule = r

(* A set that changes in one element at most.                              *)
LEMMA OneElement ==
    ASSUME NEW S, IsFiniteSet(S), NEW T, NEW x, T \ {x} = S \ {x}
    PROVE  /\ IsFiniteSet(T) /\ Cardinality(S) \in Nat /\ Cardinality(T) \in Nat
           /\ Cardinality(T) = Cardinality(S) + One(x \in T) - One(x \in S)
  <1>1. IsFiniteSet(S \ {x}) /\ Cardinality(S \ {x}) = Cardinality(S) - One(x \in S)
        /\ Cardinality(S) \in Nat /\ Cardinality(S \ {x}) \in Nat
    BY FS_RemoveElement, FS_CardinalityType DEF One
  <1>2. CASE x \in T
    <2>1. T = (S \ {x}) \cup {x}
      BY <1>2
    <2>2. IsFiniteSet(T) /\ Cardinality(T) = Cardinality(S \ {x}) + 1
      BY <1>1, <2>1, FS_AddElement
    <2> QED BY <1>1, <1>2, <2>2 DEF One
  <1>3. CASE x \notin T
    <2>1. T = S \ {x}
      BY <1>3
    <2> QED BY <1>1, <1>3, <2>1 DEF One
  <1> QED BY <1>2, <1>3

(* The holders of a rule are finitely many.                                *)
LEMMA HoldersFinite ==
    ASSUME NEW r
    PROVE  /\ IsFiniteSet(ClientsOf(r)) \/ ~(hashed \subseteq Clients)
           /\ IsFiniteSet(HandlersOf(r)) /\ Cardinality(HandlersOf(r)) \in Nat
           /\ hashed \subseteq Clients => Cardinality(ClientsOf(r)) \in Nat
  <1>1. HandlersOf(r) \subseteq Handlers
    BY DEF HandlersOf
  <1>2. IsFiniteSet(HandlersOf(r))
    BY <1>1, FS_Subset, RulesAssumption
  <1>3. ASSUME hashed \subseteq Clients PROVE IsFiniteSet(ClientsOf(r))
    <2>1. ClientsOf(r) \subseteq Clients
      BY <1>3 DEF ClientsOf
    <2> QED BY <2>1, FS_Subset, RulesAssumption
  <1> QED BY <1>2, <1>3, FS_CardinalityType

(* A step of one handler adds it to the holders of a rule or takes it off. *)
LEMMA HandlerCount ==
    ASSUME NEW h \in Handlers, NEW r, \A g \in Handlers \ {h} : job'[g] = job[g]
    PROVE  Cardinality(HandlersOf(r)') =
              Cardinality(HandlersOf(r)) + One(Holds(h, r)') - One(Holds(h, r))
  <1>1. HandlersOf(r)' \ {h} = HandlersOf(r) \ {h}
    BY DEF HandlersOf
  <1>2. (h \in HandlersOf(r)' <=> Holds(h, r)') /\ (h \in HandlersOf(r) <=> Holds(h, r))
    BY DEF HandlersOf, Holds
  <1>3. Cardinality(HandlersOf(r)') =
          Cardinality(HandlersOf(r)) + One(h \in HandlersOf(r)') - One(h \in HandlersOf(r))
    BY <1>1, HoldersFinite, OneElement
  <1> QED BY <1>2, <1>3 DEF One

(* The same for a client.                                                  *)
LEMMA ClientCount ==
    ASSUME TypeOK, NEW c, NEW r,
           \A d \in Clients \ {c} : (d \in hashed' <=> d \in hashed) /\ cli'[d].rule = cli[d].rule,
           hashed' \subseteq Clients
    PROVE  Cardinality(ClientsOf(r)') =
              Cardinality(ClientsOf(r)) + One(Has(c, r)') - One(Has(c, r))
  <1>1. ClientsOf(r)' \ {c} = ClientsOf(r) \ {c}
    BY DEF ClientsOf, TypeOK
  <1>2. (c \in ClientsOf(r)' <=> Has(c, r)') /\ (c \in ClientsOf(r) <=> Has(c, r))
    BY DEF ClientsOf, Has
  <1>3. IsFiniteSet(ClientsOf(r))
    BY HoldersFinite DEF TypeOK
  <1>4. Cardinality(ClientsOf(r)') =
          Cardinality(ClientsOf(r)) + One(c \in ClientsOf(r)') - One(c \in ClientsOf(r))
    BY <1>1, <1>3, OneElement
  <1> QED BY <1>2, <1>4 DEF One

(* Somebody who is known to hold a rule shows in its count.                *)
LEMMA HeldCounts ==
    ASSUME TypeOK, RefsCounted, NEW r \in Rules
    PROVE  /\ rule[r].ref \in Nat /\ OnList(r) \in 0 .. 1 /\ Commanding(r) \in 0 .. 1
           /\ Cardinality(ClientsOf(r)) \in Nat /\ Cardinality(HandlersOf(r)) \in Nat
           /\ rule[r].ref = Holders(r)
           /\ \A h \in Handlers : Holds(h, r) => Cardinality(HandlersOf(r)) >= 1
           /\ \A c : Has(c, r) => Cardinality(ClientsOf(r)) >= 1
  <1>1. /\ Cardinality(ClientsOf(r)) \in Nat /\ Cardinality(HandlersOf(r)) \in Nat
        /\ IsFiniteSet(ClientsOf(r)) /\ IsFiniteSet(HandlersOf(r))
    BY HoldersFinite DEF TypeOK
  <1>2. rule[r].ref \in Nat
    BY DEF TypeOK, Memory
  <1>3. \A h \in Handlers : Holds(h, r) => Cardinality(HandlersOf(r)) >= 1
    <2>1. \A h \in Handlers : Holds(h, r) => HandlersOf(r) # {}
      BY DEF Holds, HandlersOf
    <2> QED BY <1>1, <2>1, FS_EmptySet
  <1>4. \A c : Has(c, r) => Cardinality(ClientsOf(r)) >= 1
    <2>1. \A c : Has(c, r) => ClientsOf(r) # {}
      BY DEF Has, ClientsOf
    <2> QED BY <1>1, <2>1, FS_EmptySet
  <1> QED BY <1>1, <1>2, <1>3, <1>4 DEF RefsCounted, OnList, Commanding

(* A count that goes down by n: the rule is freed with it when that was    *)
(* all, and only then.                                                     *)
LEMMA PutEffect ==
    ASSUME NEW R \in [Rules -> Memory], NEW q \in Rules, NEW n \in Nat, R[q].ref >= n
    PROVE  /\ Put(R, q, n) \in [Rules -> Memory]
           /\ Put(R, q, n)[q].ref = R[q].ref - n
           /\ Put(R, q, n)[q].st = IF R[q].ref = n THEN "free" ELSE R[q].st
           /\ \A r \in Rules \ {q} : Put(R, q, n)[r] = R[r]
  <1>1. R[q] \in Memory /\ R[q].ref \in Nat
    BY DEF Memory
  <1>2. CASE R[q].ref = n
    <2>1. Free \in Memory /\ Free.ref = 0 /\ Free.st = "free"
      BY DEF Free, Memory, RuleStates
    <2> QED BY <1>1, <1>2, <2>1 DEF Put
  <1>3. CASE R[q].ref # n
    <2>1. R[q].ref - n \in Nat
      BY <1>1, <1>3
    <2> QED BY <1>1, <1>3, <2>1 DEF Put, Memory
  <1> QED BY <1>2, <1>3

(* One of the holders of q lets go; th_list does not count among them.     *)
LEMMA LetGo ==
    ASSUME IInv, NEW q \in Rules, rule[q].ref >= OnList(q) + 1, rule' = Put(rule, q, 1)
    PROVE  /\ rule' \in [Rules -> Memory] /\ FreeOK'
           /\ \A r \in Rules : /\ rule'[r].ref = rule[r].ref - One(r = q)
                               /\ OnList(r)' = OnList(r)
                               /\ OnList(r) = 1 => rule'[r].st = rule[r].st
  <1>1. /\ rule \in [Rules -> Memory] /\ rule[q].ref \in Nat /\ rule[q].ref >= 1
        /\ \A r \in Rules : rule[r].ref \in Nat
    BY DEF IInv, TypeOK, Memory, OnList
  <1>2. /\ rule' \in [Rules -> Memory]
        /\ rule'[q].ref = rule[q].ref - 1
        /\ rule'[q].st = IF rule[q].ref = 1 THEN "free" ELSE rule[q].st
        /\ \A r \in Rules \ {q} : rule'[r] = rule[r]
    BY <1>1, PutEffect
  <1>3. OnList(q)' = OnList(q) /\ (OnList(q) = 1 => rule'[q].st = rule[q].st)
    BY <1>1, <1>2 DEF OnList
  <1>4. \A r \in Rules : /\ rule'[r].ref = rule[r].ref - One(r = q)
                         /\ OnList(r)' = OnList(r)
                         /\ OnList(r) = 1 => rule'[r].st = rule[r].st
    BY <1>1, <1>2, <1>3 DEF OnList, One
  <1>5. FreeOK'
    BY <1>1, <1>2 DEF FreeOK, IInv
  <1> QED BY <1>2, <1>4, <1>5

(* What a step of one handler must keep of the jobs.                       *)
LEMMA JobStep ==
    ASSUME TypeOK, JobsOK, NEW h \in Handlers, NEW j \in Jobs,
           job' = [job EXCEPT ![h] = j], JobOK(j, hashed'), hashed \subseteq hashed',
           \/ walker' = walker /\ (j.at \in {"walk", "take"} <=> job[h].at \in {"walk", "take"})
           \/ walker = None /\ walker' = h /\ j.at \in {"walk", "take"}
           \/ walker = h /\ walker' = None /\ j.at \notin {"walk", "take"}
    PROVE  /\ job' \in [Handlers -> Jobs] /\ walker' \in Handlers \cup {None}
           /\ JobsOK' /\ Locked'
           /\ \A g \in Handlers \ {h} : job'[g] = job[g]
           /\ job'[h] = j
  <1>1. /\ job' \in [Handlers -> Jobs] /\ job'[h] = j
        /\ \A g \in Handlers \ {h} : job'[g] = job[g]
    BY DEF TypeOK
  <1>2. JobsOK'
    <2>1. \A g \in Handlers \ {h} : JobOK(job[g], hashed')
      BY DEF JobsOK, JobOK
    <2> QED BY <1>1, <2>1 DEF JobsOK
  <1>3. Locked' /\ walker' \in Handlers \cup {None}
    BY <1>1, RulesAssumption DEF TypeOK, Locked
  <1> QED BY <1>1, <1>2, <1>3

(* Steps that leave the rules and their holders alone.                     *)
LEMMA Unheld ==
    ASSUME IInv, NEW h \in Handlers, \A g \in Handlers \ {h} : job'[g] = job[g],
           UNCHANGED <<rule, hashed, command>>,
           \A c \in Clients : cli'[c].rule = cli[c].rule,
           \A r \in Rules : One(Holds(h, r)') = One(Holds(h, r))
    PROVE  FreeOK' /\ RefsCounted' /\ CommandOK' /\ ClientsOK'
  <1>1. FreeOK' /\ CommandOK' /\ ClientsOK'
    BY DEF IInv, TypeOK, FreeOK, CommandOK, ClientsOK
  <1>2. ASSUME NEW r \in Rules PROVE rule'[r].ref = Holders(r)'
    <2>1. Cardinality(HandlersOf(r)') = Cardinality(HandlersOf(r))
      <3>1. One(Holds(h, r)') \in 0 .. 1 /\ One(Holds(h, r)) \in 0 .. 1
        BY DEF One
      <3> QED BY <3>1, HandlerCount, HoldersFinite
    <2>2. ClientsOf(r)' = ClientsOf(r)
      BY DEF ClientsOf, IInv, TypeOK
    <2> QED BY <2>1, <2>2 DEF IInv, RefsCounted, Holders, OnList, Commanding
  <1> QED BY <1>1, <1>2 DEF RefsCounted

----------------------------------------------------------------------------
(* The steps of nrs_tbf_res_get.                                           *)

\* A call begins: the client is found in the hash, or it is the handler's own.
LEMMA BeginStep ==
    ASSUME IInv, NEW h \in Handlers, NEW c \in Clients, Begin(h, c)
    PROVE  IInv'
  <1> DEFINE j == [NoJob EXCEPT !.at = IF c \in hashed THEN "check" ELSE "match",
                                !.cli = c, !.own = c \notin hashed,
                                !.stopped = {r \in Rules : Stopped(r)}]
  <1>1. job' = [job EXCEPT ![h] = j] /\ job[h].at = "idle"
        /\ UNCHANGED <<list, rule, seq, hashed, cli, walker, command, lbug>>
    BY DEF Begin
  <1>2. j \in Jobs /\ JobOK(j, hashed') /\ j.at \notin {"walk", "take"}
    BY <1>1 DEF NoJob, NoFields, Jobs, Places, Fields, JobOK
  <1>3. \A r \in Rules : ~Holds(h, r)
    BY <1>1, RulesAssumption DEF IInv, JobsOK, JobOK, Holds
  <1>4. j.at # "reset" /\ j.rec.rule = None
    BY DEF NoJob, NoFields
  <1> HIDE DEF j
  <1>5. /\ job' \in [Handlers -> Jobs] /\ walker' \in Handlers \cup {None}
        /\ JobsOK' /\ Locked' /\ \A g \in Handlers \ {h} : job'[g] = job[g]
        /\ job'[h] = j
    BY <1>1, <1>2, JobStep DEF IInv
  <1>6. \A r \in Rules : One(Holds(h, r)') = One(Holds(h, r))
    BY <1>3, <1>4, <1>5, RulesAssumption DEF Holds, One
  <1>7. FreeOK' /\ RefsCounted' /\ CommandOK' /\ ClientsOK'
    BY <1>1, <1>5, <1>6, Unheld
  <1> QED BY <1>1, <1>5, <1>7 DEF IInv, TypeOK, ListOK

\* A known client is looked at: only its rate can change.
LEMMA CheckStep ==
    ASSUME IInv, NEW h \in Handlers, Check(h)
    PROVE  IInv'
  <1> DEFINE c == job[h].cli
  <1>1. PICK place \in {"match", "marks", "hold"} : Goto(h, place)
    BY DEF Check
  <1>2. /\ job[h].at = "check" /\ job[h] \in Jobs /\ JobOK(job[h], hashed)
        /\ UNCHANGED <<list, rule, seq, hashed, walker, command, lbug>>
    BY DEF Check, IInv, TypeOK, JobsOK
  <1>3. c \in Clients /\ c \in hashed /\ ~job[h].own /\ cli[c].rule \in Rules
        /\ job[h].rec.rule = None
    BY <1>2 DEF JobOK, IInv, ClientsOK
  <1>4. cli' \in [Clients -> Fields] /\ \A d \in Clients : cli'[d].rule = cli[d].rule
    <2>1. rule[cli[c].rule].rate \in Nat
      BY <1>3 DEF IInv, TypeOK, Memory
    <2>2. \/ UNCHANGED cli
          \/ cli' = [cli EXCEPT ![c].rate = rule[cli[c].rule].rate]
      BY DEF Check
    <2>3. cli \in [Clients -> Fields] /\ cli[c] \in Fields
      BY <1>3 DEF IInv, TypeOK
    <2>4. \A x \in Nat : [cli[c] EXCEPT !.rate = x] \in Fields
                       /\ [cli[c] EXCEPT !.rate = x].rule = cli[c].rule
      BY <2>3 DEF Fields
    <2> QED BY <1>3, <2>1, <2>2, <2>3, <2>4
  <1> DEFINE j == [job[h] EXCEPT !.at = place]
  <1>5. job' = [job EXCEPT ![h] = j] /\ j.at = place /\ ~j.own /\ j.rec.rule = None
    BY <1>1, <1>2, <1>3 DEF Goto, Jobs, IInv, TypeOK
  <1>6. j \in Jobs /\ JobOK(j, hashed')
    BY <1>2, <1>3 DEF Jobs, Places, JobOK
  <1> HIDE DEF j
  <1>7. /\ job' \in [Handlers -> Jobs] /\ walker' \in Handlers \cup {None}
        /\ JobsOK' /\ Locked' /\ \A g \in Handlers \ {h} : job'[g] = job[g]
        /\ job'[h] = j
    BY <1>2, <1>5, <1>6, JobStep DEF IInv
  <1>8. \A r \in Rules : One(Holds(h, r)') = One(Holds(h, r))
    BY <1>2, <1>3, <1>5, <1>7 DEF Holds, One
  <1>9. FreeOK' /\ RefsCounted' /\ CommandOK' /\ ClientsOK'
    BY <1>2, <1>4, <1>7, <1>8, Unheld
  <1> QED BY <1>2, <1>4, <1>7, <1>9 DEF IInv, TypeOK, ListOK

\* th_rule_lock is taken, and the walk begins at a rule of the list.
LEMMA MatchStep ==
    ASSUME IInv, NEW h \in Handlers, Match(h)
    PROVE  IInv'
  <1> DEFINE j == [job[h] EXCEPT !.at = "walk", !.rule = list[1]]
  <1>1. /\ job[h].at = "match" /\ walker = None /\ walker' = h
        /\ UNCHANGED <<list, rule, seq, hashed, cli, command, lbug>>
        /\ job[h] \in Jobs /\ JobOK(job[h], hashed)
    BY DEF Match, IInv, TypeOK, JobsOK
  <1>2. list[1] \in Rules
    BY DEF IInv, TypeOK, ListOK
  <1>3. job' = [job EXCEPT ![h] = j]
    BY <1>1 DEF Match, Jobs, IInv, TypeOK
  <1>4. j \in Jobs /\ JobOK(j, hashed') /\ j.at = "walk" /\ j.own = job[h].own
        /\ j.rec = job[h].rec
    BY <1>1, <1>2 DEF Jobs, Places, JobOK
  <1> HIDE DEF j
  <1>5. /\ job' \in [Handlers -> Jobs] /\ walker' \in Handlers \cup {None}
        /\ JobsOK' /\ Locked' /\ \A g \in Handlers \ {h} : job'[g] = job[g]
        /\ job'[h] = j
    BY <1>1, <1>3, <1>4, JobStep DEF IInv
  <1>6. \A r \in Rules : One(Holds(h, r)') = One(Holds(h, r))
    BY <1>1, <1>4, <1>5 DEF Holds, One
  <1>7. FreeOK' /\ RefsCounted' /\ CommandOK' /\ ClientsOK'
    BY <1>1, <1>5, <1>6, Unheld
  <1> QED BY <1>1, <1>5, <1>7 DEF IInv, TypeOK, ListOK

\* A walk stays on rules, and nothing is counted yet.
LEMMA WalkStep ==
    ASSUME IInv, NEW h \in Handlers, Walk(h)
    PROVE  IInv'
  <1> DEFINE r == job[h].rule
  <1>1. /\ job[h].at = "walk" /\ job[h] \in Jobs /\ JobOK(job[h], hashed)
        /\ UNCHANGED <<list, rule, seq, hashed, cli, walker, command>>
        /\ r \in Rules /\ lbug' \in BOOLEAN
    BY DEF Walk, IInv, TypeOK, JobsOK, JobOK
  <1>2. CASE UNCHANGED job
    <2>1. \A s : ClientsOf(s)' = ClientsOf(s) /\ HandlersOf(s)' = HandlersOf(s)
      BY <1>1, <1>2 DEF ClientsOf, HandlersOf
    <2> QED BY <1>1, <1>2, <2>1
            DEF IInv, TypeOK, Locked, ListOK, JobsOK, JobOK, ClientsOK, CommandOK, FreeOK,
                RefsCounted, Holders, OnList, Commanding
  <1>3. ASSUME NEW j \in Jobs, job' = [job EXCEPT ![h] = j], j.at \in {"walk", "take"},
               j.rule \in Rules, j.own = job[h].own, j.rec = job[h].rec, j.cli = job[h].cli
        PROVE  IInv'
    <2>1. JobOK(j, hashed')
      BY <1>1, <1>3 DEF JobOK
    <2>2. /\ job' \in [Handlers -> Jobs] /\ walker' \in Handlers \cup {None}
          /\ JobsOK' /\ Locked' /\ \A g \in Handlers \ {h} : job'[g] = job[g]
          /\ job'[h] = j
      BY <1>1, <1>3, <2>1, JobStep DEF IInv
    <2>3. \A s \in Rules : One(Holds(h, s)') = One(Holds(h, s))
      BY <1>1, <1>3, <2>2 DEF Holds, One
    <2>4. FreeOK' /\ RefsCounted' /\ CommandOK' /\ ClientsOK'
      BY <1>1, <2>2, <2>3, Unheld
    <2> QED BY <1>1, <2>2, <2>4 DEF IInv, TypeOK, ListOK
  <1>4. CASE Covers(r, job[h].cli) /\ Goto(h, "take")
    <2> DEFINE j == [job[h] EXCEPT !.at = "take"]
    <2>1. job' = [job EXCEPT ![h] = j]
      BY <1>1, <1>4 DEF Goto, Jobs, IInv, TypeOK
    <2>2. j \in Jobs /\ j.at = "take" /\ j.rule = r /\ j.own = job[h].own
          /\ j.rec = job[h].rec /\ j.cli = job[h].cli
      BY <1>1 DEF Jobs, Places
    <2> HIDE DEF j
    <2> QED BY <1>1, <1>3, <2>1, <2>2
  <1>5. CASE ~Covers(r, job[h].cli) /\ job' = [job EXCEPT ![h].rule = NextRule(r)]
    <2>1. NextRule(r) \in Rules
      <3>1. CASE Contains(list, r)
        <4>1. r # Default /\ list \in Seq(Rules) /\ ListOK
          BY <1>5 DEF Covers, IInv, TypeOK
        <4>2. PICK k \in 1 .. Len(list) : list[k] = r
          BY <3>1 DEF Contains
        <4>3. k + 1 \in 2 .. Len(list) /\ list[(k + 1) - 1] = r
          BY <4>1, <4>2 DEF ListOK
        <4>4. (CHOOSE i \in 2 .. Len(list) : list[i - 1] = r) \in 2 .. Len(list)
          BY <4>3
        <4> QED BY <3>1, <4>1, <4>4 DEF NextRule
      <3>2. CASE ~Contains(list, r)
        BY <1>1, <3>2 DEF NextRule
      <3> QED BY <3>1, <3>2
    <2> DEFINE n == NextRule(r)
               j == [job[h] EXCEPT !.rule = n]
    <2>2. n \in Rules
      BY <2>1
    <2> HIDE DEF n
    <2>3. job' = [job EXCEPT ![h] = j]
      BY <1>1, <1>5 DEF Jobs, IInv, TypeOK, n
    <2>4. j \in Jobs /\ j.at = "walk" /\ j.rule = n /\ j.own = job[h].own
          /\ j.rec = job[h].rec /\ j.cli = job[h].cli
      BY <1>1, <2>2 DEF Jobs, Places
    <2> HIDE DEF j
    <2> QED BY <1>1, <1>3, <2>2, <2>3, <2>4
  <1> QED BY <1>2, <1>4, <1>5 DEF Walk

\* A call ends: the handler holds no rule any more.
LEMMA ReleaseStep ==
    ASSUME IInv, NEW h \in Handlers, Release(h)
    PROVE  IInv'
  <1>1. /\ job[h].at = "hold" /\ job' = [job EXCEPT ![h] = NoJob]
        /\ job[h] \in Jobs /\ JobOK(job[h], hashed)
        /\ UNCHANGED <<list, rule, seq, hashed, cli, walker, command, lbug>>
    BY DEF Release, IInv, TypeOK, JobsOK
  <1>2. /\ NoJob \in Jobs /\ JobOK(NoJob, hashed') /\ NoJob.at = "idle"
        /\ NoJob.rec.rule = None
    BY DEF NoJob, NoFields, Jobs, Places, Fields, JobOK
  <1>3. /\ job' \in [Handlers -> Jobs] /\ walker' \in Handlers \cup {None}
        /\ JobsOK' /\ Locked' /\ \A g \in Handlers \ {h} : job'[g] = job[g]
        /\ job'[h] = NoJob
    BY <1>1, <1>2, JobStep DEF IInv
  <1>4. \A r \in Rules : One(Holds(h, r)') = One(Holds(h, r))
    BY <1>1, <1>2, <1>3, RulesAssumption DEF Holds, One, JobOK
  <1>5. FreeOK' /\ RefsCounted' /\ CommandOK' /\ ClientsOK'
    BY <1>1, <1>3, <1>4, Unheld
  <1> QED BY <1>1, <1>3, <1>5 DEF IInv, TypeOK, ListOK

\* The marks of a client say nothing of who holds its rule.
LEMMA MarksStep ==
    ASSUME IInv, NEW h \in Handlers, Marks(h)
    PROVE  IInv'
  <1> DEFINE c == job[h].cli
  <1>1. /\ job[h].at = "marks" /\ job[h] \in Jobs /\ JobOK(job[h], hashed)
        /\ UNCHANGED <<list, rule, seq, hashed, walker, command, lbug>>
        /\ c \in Clients /\ seq \in Nat
    BY DEF Marks, IInv, TypeOK, JobsOK, JobOK
  <1>2. ASSUME NEW f \in Fields, f.rule \in Rules
        PROVE  Marked(f) \in Fields /\ Marked(f).rule = f.rule
    <2>1. rule[f.rule].gen \in Nat
      BY <1>2 DEF IInv, TypeOK, Memory
    <2> QED BY <1>1, <1>2, <2>1 DEF Marked, Fields
  <1>3. ASSUME NEW j \in Jobs, job' = [job EXCEPT ![h] = j], JobOK(j, hashed'),
               j.at \in {"insert", "hold"}, j.own = job[h].own,
               j.rec.rule = job[h].rec.rule,
               cli' \in [Clients -> Fields], \A d \in Clients : cli'[d].rule = cli[d].rule
        PROVE  IInv'
    <2>1. /\ job' \in [Handlers -> Jobs] /\ walker' \in Handlers \cup {None}
          /\ JobsOK' /\ Locked' /\ \A g \in Handlers \ {h} : job'[g] = job[g]
          /\ job'[h] = j
      BY <1>1, <1>3, JobStep DEF IInv
    <2>2. \A r \in Rules : One(Holds(h, r)') = One(Holds(h, r))
      BY <1>1, <1>3, <2>1 DEF Holds, One
    <2>3. FreeOK' /\ RefsCounted' /\ CommandOK' /\ ClientsOK'
      BY <1>1, <1>3, <2>1, <2>2, Unheld
    <2> QED BY <1>1, <1>3, <2>1, <2>3 DEF IInv, TypeOK, ListOK
  <1>4. CASE job[h].own
    <2> DEFINE f == Marked(job[h].rec)
               j == [job[h] EXCEPT !.at = "insert", !.rec = f]
    <2>1. job[h].rec \in Fields /\ job[h].rec.rule \in Rules
      BY <1>1, <1>4 DEF Jobs, JobOK
    <2>2. f \in Fields /\ f.rule = job[h].rec.rule
      BY <1>2, <2>1
    <2>3. job' = [job EXCEPT ![h].at = "insert", ![h].rec = f] /\ UNCHANGED cli
      BY <1>4 DEF Marks
    <2> HIDE DEF f
    <2>4. job' = [job EXCEPT ![h] = j]
      BY <1>1, <2>3 DEF IInv, TypeOK, Jobs
    <2>5. j \in Jobs /\ j.at = "insert" /\ j.own = job[h].own /\ j.rec = f /\ JobOK(j, hashed')
      BY <1>1, <1>4, <2>1, <2>2 DEF Jobs, Places, JobOK
    <2> HIDE DEF j
    <2> QED BY <1>3, <2>2, <2>3, <2>4, <2>5 DEF IInv, TypeOK
  <1>5. CASE ~job[h].own
    <2> DEFINE f == Marked(cli[c])
               j == [job[h] EXCEPT !.at = "hold"]
    <2>1. c \in hashed /\ cli[c] \in Fields /\ cli[c].rule \in Rules
      BY <1>1, <1>5 DEF JobOK, IInv, TypeOK, ClientsOK
    <2>2. f \in Fields /\ f.rule = cli[c].rule
      BY <1>2, <2>1
    <2>3. Goto(h, "hold") /\ cli' = [cli EXCEPT ![c] = f]
      BY <1>5 DEF Marks
    <2> HIDE DEF f
    <2>4. cli' \in [Clients -> Fields] /\ \A d \in Clients : cli'[d].rule = cli[d].rule
      BY <1>1, <2>2, <2>3 DEF IInv, TypeOK
    <2>5. job' = [job EXCEPT ![h] = j]
      BY <1>1, <2>3 DEF Goto, IInv, TypeOK, Jobs
    <2>6. j \in Jobs /\ j.at = "hold" /\ j.own = job[h].own /\ j.rec = job[h].rec
          /\ JobOK(j, hashed')
      BY <1>1, <1>5, <2>1 DEF Jobs, Places, JobOK
    <2> HIDE DEF j
    <2> QED BY <1>3, <2>4, <2>5, <2>6
  <1> QED BY <1>4, <1>5

\* The rule that was matched is counted once more, for the handler.
LEMMA TakeStep ==
    ASSUME IInv, NEW h \in Handlers, Take(h)
    PROVE  IInv'
  <1> DEFINE q == job[h].rule
             j == [job[h] EXCEPT !.at = "reset"]
  <1>1. /\ job[h].at = "take" /\ job[h] \in Jobs /\ JobOK(job[h], hashed)
        /\ UNCHANGED <<list, seq, hashed, cli, command>>
        /\ q \in Rules /\ walker = h /\ lbug' \in BOOLEAN
    BY DEF Take, IInv, TypeOK, Locked, JobsOK, JobOK
  <1>2. CASE UNCHANGED <<rule, job, walker>>
    <2>1. \A s : ClientsOf(s)' = ClientsOf(s) /\ HandlersOf(s)' = HandlersOf(s)
      BY <1>1, <1>2 DEF ClientsOf, HandlersOf
    <2> QED BY <1>1, <1>2, <2>1
            DEF IInv, TypeOK, Locked, ListOK, JobsOK, JobOK, ClientsOK, CommandOK, FreeOK,
                RefsCounted, Holders, OnList, Commanding
  <1>3. CASE rule[q].st # "free" /\ rule' = Get(rule, q) /\ walker' = None /\ Goto(h, "reset")
    <2>1. job' = [job EXCEPT ![h] = j]
      BY <1>1, <1>3 DEF Goto, IInv, TypeOK, Jobs
    <2>2. j \in Jobs /\ j.at = "reset" /\ j.rule = q /\ j.own = job[h].own
          /\ j.rec = job[h].rec /\ JobOK(j, hashed')
      BY <1>1 DEF Jobs, Places, JobOK
    <2> HIDE DEF j
    <2>3. /\ job' \in [Handlers -> Jobs] /\ walker' \in Handlers \cup {None}
          /\ JobsOK' /\ Locked' /\ \A g \in Handlers \ {h} : job'[g] = job[g]
          /\ job'[h] = j
      BY <1>1, <1>3, <2>1, <2>2, JobStep DEF IInv
    <2>4. /\ rule' \in [Rules -> Memory]
          /\ \A r \in Rules : /\ rule'[r].ref = rule[r].ref + One(r = q)
                              /\ rule'[r].st = rule[r].st
      <3>1. rule \in [Rules -> Memory] /\ rule[q] \in Memory
            /\ \A r \in Rules : rule[r].ref \in Nat
        BY <1>1 DEF IInv, TypeOK, Memory
      <3>2. [rule[q] EXCEPT !.ref = rule[q].ref + 1] \in Memory
        BY <3>1 DEF Memory
      <3>3. rule' = [rule EXCEPT ![q] = [rule[q] EXCEPT !.ref = rule[q].ref + 1]]
        BY <1>3, <3>1 DEF Get
      <3>4. /\ rule'[q].ref = rule[q].ref + 1 /\ rule'[q].st = rule[q].st
            /\ \A r \in Rules \ {q} : rule'[r] = rule[r]
        BY <1>1, <3>1, <3>3 DEF Memory
      <3> QED BY <1>1, <3>1, <3>2, <3>3, <3>4 DEF One
    <2>5. FreeOK'
      BY <1>3, <2>4 DEF IInv, FreeOK, One
    <2>6. CommandOK' /\ ClientsOK'
      BY <1>1, <2>4 DEF IInv, CommandOK, ClientsOK, TypeOK, Commands
    <2>7. ASSUME NEW r \in Rules PROVE rule'[r].ref = Holders(r)'
      <3>1. One(Holds(h, r)') = One(r = q) /\ One(Holds(h, r)) = 0
        BY <1>1, <2>2, <2>3, RulesAssumption DEF Holds, One, JobOK
      <3>2. Cardinality(HandlersOf(r)') = Cardinality(HandlersOf(r)) + One(r = q)
        BY <2>3, <3>1, HandlerCount, HoldersFinite DEF One
      <3>3. ClientsOf(r)' = ClientsOf(r) /\ OnList(r)' = OnList(r)
            /\ Commanding(r)' = Commanding(r)
        BY <1>1, <2>4 DEF ClientsOf, OnList, Commanding
      <3> QED BY <2>4, <3>2, <3>3, HeldCounts DEF IInv, Holders, One
    <2> QED BY <1>1, <2>3, <2>4, <2>5, <2>6, <2>7 DEF IInv, TypeOK, ListOK, RefsCounted
  <1> QED BY <1>1, <1>2, <1>3 DEF Take

\* The count of the handler becomes that of its own client.
LEMMA FirstRuleStep ==
    ASSUME IInv, NEW h \in Handlers, FirstRule(h)
    PROVE  IInv'
  <1> DEFINE q == job[h].rule
             f == [NoFields EXCEPT !.rule = q, !.rate = rule[q].rate]
             j == [job[h] EXCEPT !.at = "marks", !.rec = f]
  <1>1. /\ job[h].at = "reset" /\ job[h].own /\ job[h] \in Jobs /\ JobOK(job[h], hashed)
        /\ UNCHANGED <<list, rule, seq, hashed, cli, walker, command, lbug>>
        /\ q \in Rules
    BY DEF FirstRule, IInv, TypeOK, JobsOK, JobOK
  <1>2. f \in Fields /\ f.rule = q
    <2>1. rule[q].rate \in Nat
      BY <1>1 DEF IInv, TypeOK, Memory
    <2> QED BY <1>1, <2>1 DEF NoFields, Fields
  <1>3. job' = [job EXCEPT ![h].at = "marks", ![h].rec = f]
    BY DEF FirstRule
  <1> HIDE DEF f
  <1>4. job' = [job EXCEPT ![h] = j]
    BY <1>1, <1>3 DEF IInv, TypeOK, Jobs
  <1>5. j \in Jobs /\ j.at = "marks" /\ j.own /\ j.rec = f /\ JobOK(j, hashed')
    BY <1>1, <1>2 DEF Jobs, Places, JobOK
  <1> HIDE DEF j
  <1>6. /\ job' \in [Handlers -> Jobs] /\ walker' \in Handlers \cup {None}
        /\ JobsOK' /\ Locked' /\ \A g \in Handlers \ {h} : job'[g] = job[g]
        /\ job'[h] = j
    BY <1>1, <1>4, <1>5, JobStep DEF IInv
  <1>7. \A r \in Rules : One(Holds(h, r)') = One(Holds(h, r))
    <2>1. job[h].rec.rule = None
      BY <1>1 DEF JobOK
    <2> QED BY <1>1, <1>2, <1>5, <1>6, <2>1, RulesAssumption DEF Holds, One
  <1>8. FreeOK' /\ RefsCounted' /\ CommandOK' /\ ClientsOK'
    BY <1>1, <1>6, <1>7, Unheld
  <1> QED BY <1>1, <1>6, <1>8 DEF IInv, TypeOK, ListOK

(* A rule loses one of its holders, and the others keep it.                *)
LEMMA Released ==
    ASSUME IInv, NEW q \in Rules, rule[q].ref >= OnList(q) + 1, rule' = Put(rule, q, 1),
           command' = command, hashed' \subseteq Clients,
           \A r \in Rules : Cardinality(ClientsOf(r)') + Cardinality(HandlersOf(r)')
                  = Cardinality(ClientsOf(r)) + Cardinality(HandlersOf(r)) - One(r = q)
    PROVE  rule' \in [Rules -> Memory] /\ FreeOK' /\ RefsCounted' /\ CommandOK'
  <1>1. /\ rule' \in [Rules -> Memory] /\ FreeOK'
        /\ \A r \in Rules : /\ rule'[r].ref = rule[r].ref - One(r = q)
                            /\ OnList(r)' = OnList(r)
                            /\ OnList(r) = 1 => rule'[r].st = rule[r].st
    BY LetGo
  <1>2. ASSUME NEW r \in Rules PROVE rule'[r].ref = Holders(r)'
    <2>1. Commanding(r)' = Commanding(r)
      BY DEF Commanding
    <2>2. One(r = q) \in 0 .. 1
      BY DEF One
    <2>3. Cardinality(ClientsOf(r)') \in Nat /\ Cardinality(HandlersOf(r)') \in Nat
      <3>1. IsFiniteSet(ClientsOf(r)') /\ IsFiniteSet(HandlersOf(r)')
        <4>1. ClientsOf(r)' \subseteq Clients /\ HandlersOf(r)' \subseteq Handlers
          BY DEF ClientsOf, HandlersOf
        <4> QED BY <4>1, FS_Subset, RulesAssumption
      <3> QED BY <3>1, FS_CardinalityType
    <2> QED BY <1>1, <2>1, <2>2, <2>3, HeldCounts DEF IInv, Holders
  <1>3. CommandOK'
    BY <1>1 DEF IInv, CommandOK, OnList, TypeOK, Commands
  <1> QED BY <1>1, <1>2, <1>3 DEF RefsCounted

\* The client has the rule: the count of the handler is given back.
LEMMA KeepRuleStep ==
    ASSUME IInv, NEW h \in Handlers, KeepRule(h)
    PROVE  IInv'
  <1> DEFINE q == job[h].rule
             j == [job[h] EXCEPT !.at = "hold"]
  <1>1. /\ job[h].at = "reset" /\ ~job[h].own /\ job[h] \in Jobs /\ JobOK(job[h], hashed)
        /\ UNCHANGED <<list, seq, hashed, cli, walker, command, lbug>>
        /\ q \in Rules /\ rule' = Put(rule, q, 1) /\ Goto(h, "hold")
        /\ job[h].rec.rule = None
    BY DEF KeepRule, IInv, TypeOK, JobsOK, JobOK
  <1>2. job' = [job EXCEPT ![h] = j]
    BY <1>1 DEF Goto, IInv, TypeOK, Jobs
  <1>3. j \in Jobs /\ j.at = "hold" /\ ~j.own /\ JobOK(j, hashed')
    BY <1>1 DEF Jobs, Places, JobOK
  <1> HIDE DEF j
  <1>4. /\ job' \in [Handlers -> Jobs] /\ walker' \in Handlers \cup {None}
        /\ JobsOK' /\ Locked' /\ \A g \in Handlers \ {h} : job'[g] = job[g]
        /\ job'[h] = j
    BY <1>1, <1>2, <1>3, JobStep DEF IInv
  <1>5. ASSUME NEW r \in Rules
        PROVE  /\ Cardinality(HandlersOf(r)') = Cardinality(HandlersOf(r)) - One(r = q)
               /\ ClientsOf(r)' = ClientsOf(r)
    <2>1. One(Holds(h, r)') = 0 /\ One(Holds(h, r)) = One(r = q)
      BY <1>1, <1>3, <1>4 DEF Holds, One
    <2>2. Cardinality(HandlersOf(r)') = Cardinality(HandlersOf(r)) + 0 - One(r = q)
      BY <1>4, <2>1, HandlerCount
    <2>3. Cardinality(HandlersOf(r)) \in Nat /\ One(r = q) \in 0 .. 1
      BY HoldersFinite DEF One
    <2>4. ClientsOf(r)' = ClientsOf(r)
      BY <1>1 DEF ClientsOf
    <2> QED BY <2>2, <2>3, <2>4
  <1>6. rule[q].ref >= OnList(q) + 1
    <2>1. Holds(h, q)
      BY <1>1 DEF Holds
    <2> QED BY <1>1, <2>1, HeldCounts DEF IInv, Holders
  <1>7. rule' \in [Rules -> Memory] /\ FreeOK' /\ RefsCounted' /\ CommandOK'
    <2>1. \A r \in Rules : Cardinality(ClientsOf(r)') + Cardinality(HandlersOf(r)')
                  = Cardinality(ClientsOf(r)) + Cardinality(HandlersOf(r)) - One(r = q)
      BY <1>5, HeldCounts DEF IInv, One
    <2> QED BY <1>1, <1>6, <2>1, Released DEF IInv, TypeOK
  <1> QED BY <1>1, <1>4, <1>7 DEF IInv, TypeOK, ListOK, ClientsOK

\* The old rule is put, and the new one goes from the handler to the client.
LEMMA ResetRuleStep ==
    ASSUME IInv, NEW h \in Handlers, ResetRule(h)
    PROVE  IInv'
  <1>0. PICK c \in Clients : c = job[h].cli
    BY DEF ResetRule, IInv, JobsOK, JobOK
  <1> DEFINE n == job[h].rule
             q == cli[c].rule
             j == [job[h] EXCEPT !.at = "marks"]
  <1>1. /\ job[h].at = "reset" /\ ~job[h].own /\ job[h] \in Jobs /\ JobOK(job[h], hashed)
        /\ UNCHANGED <<list, seq, hashed, walker, command, lbug>>
        /\ n \in Rules /\ c \in hashed /\ q \in Rules /\ q # n
        /\ rule' = Put(rule, q, 1) /\ Goto(h, "marks")
        /\ cli' = [cli EXCEPT ![c].rule = n, ![c].rate = rule[n].rate]
        /\ job[h].rec.rule = None
    BY <1>0 DEF ResetRule, IInv, TypeOK, JobsOK, JobOK, ClientsOK
  <1>2. job' = [job EXCEPT ![h] = j]
    BY <1>1 DEF Goto, IInv, TypeOK, Jobs
  <1>3. j \in Jobs /\ j.at = "marks" /\ ~j.own /\ JobOK(j, hashed')
    BY <1>1 DEF Jobs, Places, JobOK
  <1> HIDE DEF j
  <1>4. /\ job' \in [Handlers -> Jobs] /\ walker' \in Handlers \cup {None}
        /\ JobsOK' /\ Locked' /\ \A g \in Handlers \ {h} : job'[g] = job[g]
        /\ job'[h] = j
    BY <1>1, <1>2, <1>3, JobStep DEF IInv
  <1>5. /\ cli' \in [Clients -> Fields] /\ cli'[c].rule = n
        /\ \A d \in Clients \ {c} : cli'[d] = cli[d]
    <2>1. rule[n].rate \in Nat /\ cli[c] \in Fields /\ cli \in [Clients -> Fields]
      BY <1>1 DEF IInv, TypeOK, Memory
    <2> DEFINE x == rule[n].rate
               f == [cli[c] EXCEPT !.rule = n, !.rate = x]
    <2>2. f \in Fields /\ f.rule = n
      BY <1>1, <2>1 DEF Fields
    <2>3. cli' = [cli EXCEPT ![c] = f]
      BY <1>1, <2>1 DEF Fields
    <2> HIDE DEF f
    <2> QED BY <1>1, <2>1, <2>2, <2>3
  <1>6. ASSUME NEW r \in Rules
        PROVE  /\ Cardinality(HandlersOf(r)') = Cardinality(HandlersOf(r)) - One(r = n)
               /\ Cardinality(ClientsOf(r)') = Cardinality(ClientsOf(r)) + One(r = n) - One(r = q)
    <2>1. One(Holds(h, r)') = 0 /\ One(Holds(h, r)) = One(r = n)
      BY <1>1, <1>3, <1>4 DEF Holds, One
    <2>2. Cardinality(HandlersOf(r)') = Cardinality(HandlersOf(r)) + 0 - One(r = n)
      BY <1>4, <2>1, HandlerCount
    <2>3. One(Has(c, r)') = One(r = n) /\ One(Has(c, r)) = One(r = q)
      BY <1>1, <1>5 DEF Has, One
    <2>4. Cardinality(ClientsOf(r)') = Cardinality(ClientsOf(r)) + One(Has(c, r)') - One(Has(c, r))
      BY <1>1, <1>5, ClientCount DEF IInv, TypeOK
    <2>5. Cardinality(HandlersOf(r)) \in Nat /\ One(r = n) \in 0 .. 1
      BY HoldersFinite DEF One
    <2> QED BY <2>2, <2>3, <2>4, <2>5
  <1>7. rule[q].ref >= OnList(q) + 1
    <2>1. Has(c, q)
      BY <1>1 DEF Has
    <2> QED BY <1>1, <2>1, HeldCounts DEF IInv, Holders
  <1>8. rule' \in [Rules -> Memory] /\ FreeOK' /\ RefsCounted' /\ CommandOK'
    <2>1. \A r \in Rules : Cardinality(ClientsOf(r)') + Cardinality(HandlersOf(r)')
                  = Cardinality(ClientsOf(r)) + Cardinality(HandlersOf(r)) - One(r = q)
      BY <1>6, HeldCounts DEF IInv, One
    <2> QED BY <1>1, <1>7, <2>1, Released DEF IInv, TypeOK
  <1>9. ClientsOK'
    BY <1>1, <1>5 DEF IInv, TypeOK, ClientsOK
  <1> QED BY <1>1, <1>4, <1>5, <1>8, <1>9 DEF IInv, TypeOK, ListOK

\* The rule of a new client goes to the hash, or is put when another was first.
LEMMA InsertStep ==
    ASSUME IInv, NEW h \in Handlers, Insert(h)
    PROVE  IInv'
  <1>0. PICK c \in Clients : c = job[h].cli
    BY DEF Insert, IInv, JobsOK, JobOK
  <1> DEFINE q == job[h].rec.rule
             j == [job[h] EXCEPT !.at = "hold", !.rec = NoFields]
  <1>1. /\ job[h].at = "insert" /\ job[h].own /\ job[h] \in Jobs /\ JobOK(job[h], hashed)
        /\ UNCHANGED <<list, seq, walker, command, lbug>>
        /\ q \in Rules
        /\ job' = [job EXCEPT ![h].at = "hold", ![h].rec = NoFields]
    BY <1>0 DEF Insert, IInv, TypeOK, JobsOK, JobOK
  <1>2. job' = [job EXCEPT ![h] = j]
    BY <1>1 DEF IInv, TypeOK, Jobs
  <1>3. /\ hashed \subseteq hashed' /\ c \in hashed' /\ hashed' \subseteq Clients
        /\ \A d \in Clients \ {c} : d \in hashed' <=> d \in hashed
    BY <1>0, <1>1 DEF Insert, IInv, TypeOK
  <1>4. j \in Jobs /\ j.at = "hold" /\ j.rec.rule = None /\ JobOK(j, hashed')
    BY <1>0, <1>1, <1>3 DEF Jobs, Places, JobOK, NoFields, Fields
  <1> HIDE DEF j
  <1>5. /\ job' \in [Handlers -> Jobs] /\ walker' \in Handlers \cup {None}
        /\ JobsOK' /\ Locked' /\ \A g \in Handlers \ {h} : job'[g] = job[g]
        /\ job'[h] = j
    BY <1>1, <1>2, <1>3, <1>4, JobStep DEF IInv
  <1>6. ASSUME NEW r \in Rules
        PROVE  /\ Cardinality(HandlersOf(r)') = Cardinality(HandlersOf(r)) - One(r = q)
               /\ Cardinality(HandlersOf(r)) \in Nat /\ Cardinality(ClientsOf(r)) \in Nat
               /\ One(r = q) \in 0 .. 1
    <2>1. One(Holds(h, r)') = 0 /\ One(Holds(h, r)) = One(r = q)
      BY <1>1, <1>4, <1>5, RulesAssumption DEF Holds, One
    <2>2. Cardinality(HandlersOf(r)') = Cardinality(HandlersOf(r)) + 0 - One(r = q)
      BY <1>5, <2>1, HandlerCount
    <2>3. Cardinality(HandlersOf(r)) \in Nat /\ One(r = q) \in 0 .. 1
          /\ Cardinality(ClientsOf(r)) \in Nat
      BY HoldersFinite DEF One, IInv, TypeOK
    <2> QED BY <2>2, <2>3
  <1>7. CASE c \notin hashed
    <2>1. cli' = [cli EXCEPT ![c] = job[h].rec] /\ UNCHANGED rule /\ hashed' = hashed \cup {c}
      BY <1>0, <1>7 DEF Insert
    <2>2. /\ cli' \in [Clients -> Fields] /\ cli'[c].rule = q
          /\ \A d \in Clients \ {c} : cli'[d] = cli[d]
      BY <1>1, <2>1 DEF IInv, TypeOK, Jobs
    <2>3. ASSUME NEW r \in Rules PROVE rule'[r].ref = Holders(r)'
      <3>1. One(Has(c, r)') = One(r = q) /\ One(Has(c, r)) = 0
        BY <1>3, <1>7, <2>2 DEF Has, One
      <3>2. Cardinality(ClientsOf(r)') = Cardinality(ClientsOf(r)) + One(Has(c, r)') - One(Has(c, r))
        BY <1>3, <2>2, ClientCount DEF IInv
      <3>3. OnList(r)' = OnList(r) /\ Commanding(r)' = Commanding(r)
        BY <1>1, <2>1 DEF OnList, Commanding
      <3> QED BY <1>6, <2>1, <3>1, <3>2, <3>3, HeldCounts DEF IInv, Holders
    <2>4. ClientsOK' /\ FreeOK' /\ CommandOK'
      BY <1>1, <2>1, <2>2 DEF IInv, TypeOK, ClientsOK, FreeOK, CommandOK
    <2> QED BY <1>1, <1>3, <1>5, <2>1, <2>2, <2>3, <2>4 DEF IInv, TypeOK, ListOK, RefsCounted
  <1>8. CASE c \in hashed
    <2>1. UNCHANGED <<hashed, cli>> /\ rule' = Put(rule, q, 1)
      BY <1>0, <1>8 DEF Insert
    <2>2. rule[q].ref >= OnList(q) + 1
      <3>1. Holds(h, q)
        BY <1>1 DEF Holds
      <3> QED BY <1>1, <3>1, HeldCounts DEF IInv, Holders
    <2>3. \A r \in Rules : Cardinality(ClientsOf(r)') + Cardinality(HandlersOf(r)')
                  = Cardinality(ClientsOf(r)) + Cardinality(HandlersOf(r)) - One(r = q)
      <3>1. \A r \in Rules : ClientsOf(r)' = ClientsOf(r)
        BY <2>1 DEF ClientsOf
      <3> QED BY <1>6, <3>1
    <2>4. rule' \in [Rules -> Memory] /\ FreeOK' /\ RefsCounted' /\ CommandOK'
      BY <1>1, <1>3, <2>1, <2>2, <2>3, Released
    <2> QED BY <1>1, <1>5, <2>1, <2>4 DEF IInv, TypeOK, ListOK, ClientsOK
  <1> QED BY <1>7, <1>8

\* A client that leaves the hash puts its rule.
LEMMA PurgeStep ==
    ASSUME IInv, NEW c \in Clients, Purge(c)
    PROVE  IInv'
  <1> DEFINE q == cli[c].rule
  <1>1. /\ c \in hashed /\ ~Used(c) /\ q \in Rules
        /\ hashed' = hashed \ {c} /\ cli' = [cli EXCEPT ![c] = NoFields]
        /\ rule' = Put(rule, q, 1)
        /\ UNCHANGED <<list, seq, job, walker, command, lbug>>
    BY DEF Purge, IInv, ClientsOK
  <1>2. cli' \in [Clients -> Fields] /\ \A d \in Clients \ {c} : cli'[d] = cli[d]
    BY <1>1 DEF IInv, TypeOK, NoFields, Fields
  <1>3. JobsOK'
    BY <1>1 DEF IInv, JobsOK, JobOK, Used
  <1>4. ClientsOK' /\ hashed' \subseteq Clients
    BY <1>1, <1>2 DEF IInv, TypeOK, ClientsOK
  <1>5. ASSUME NEW r \in Rules
        PROVE  Cardinality(ClientsOf(r)') + Cardinality(HandlersOf(r)')
                  = Cardinality(ClientsOf(r)) + Cardinality(HandlersOf(r)) - One(r = q)
    <2>1. One(Has(c, r)') = 0 /\ One(Has(c, r)) = One(r = q)
      BY <1>1 DEF Has, One
    <2>2. Cardinality(ClientsOf(r)') = Cardinality(ClientsOf(r)) + One(Has(c, r)') - One(Has(c, r))
      BY <1>1, <1>2, <1>4, ClientCount DEF IInv
    <2>3. HandlersOf(r)' = HandlersOf(r)
      BY <1>1 DEF HandlersOf
    <2>4. Cardinality(HandlersOf(r)) \in Nat /\ Cardinality(ClientsOf(r)) \in Nat
          /\ One(r = q) \in 0 .. 1
      BY HoldersFinite DEF One, IInv, TypeOK
    <2> QED BY <2>1, <2>2, <2>3, <2>4
  <1>6. rule[q].ref >= OnList(q) + 1
    <2>1. Has(c, q)
      BY <1>1 DEF Has
    <2> QED BY <1>1, <2>1, HeldCounts DEF IInv, Holders
  <1>7. rule' \in [Rules -> Memory] /\ FreeOK' /\ RefsCounted' /\ CommandOK'
    BY <1>1, <1>4, <1>5, <1>6, Released
  <1> QED BY <1>1, <1>2, <1>3, <1>4, <1>7 DEF IInv, TypeOK, Locked, ListOK

----------------------------------------------------------------------------
(* The steps of the commands.                                              *)

(* A job but for its history.                                              *)
Same(j, k) == /\ j.at = k.at /\ j.cli = k.cli /\ j.own = k.own
              /\ j.rec = k.rec /\ j.rule = k.rule

(* A command changes the rules and its own place among their holders.      *)
LEMMA CommandStep ==
    ASSUME IInv, NEW q \in Rules, NEW n \in -2 .. 1,
           UNCHANGED <<seq, hashed, cli, walker, lbug>>,
           list' \in Seq(Rules), ListOK', command' \in Commands,
           rule' \in [Rules -> Memory], FreeOK', CommandOK',
           \A h \in Handlers : Same(job'[h], job[h]), job' \in [Handlers -> Jobs],
           rule'[q].ref = rule[q].ref + n,
           OnList(q)' + Commanding(q)' = OnList(q) + Commanding(q) + n,
           \A r \in Rules \ {q} : /\ rule'[r].ref = rule[r].ref
                                  /\ OnList(r)' = OnList(r) /\ Commanding(r)' = Commanding(r)
    PROVE  IInv'
  <1>2. JobsOK' /\ Locked'
    BY DEF Same, IInv, TypeOK, JobsOK, JobOK, Locked
  <1>3. ClientsOK'
    BY DEF IInv, ClientsOK
  <1>4. ASSUME NEW r \in Rules PROVE rule'[r].ref = Holders(r)'
    <2>1. ClientsOf(r)' = ClientsOf(r) /\ HandlersOf(r)' = HandlersOf(r)
      BY DEF Same, ClientsOf, HandlersOf
    <2> DEFINE a == Cardinality(ClientsOf(r))  b == Cardinality(HandlersOf(r))
    <2>2. /\ OnList(r)' \in 0 .. 1 /\ Commanding(r)' \in 0 .. 1
          /\ Holders(r)' = OnList(r)' + Commanding(r)' + a + b
      BY <2>1 DEF OnList, Commanding, Holders
    <2>5. /\ OnList(r) \in 0 .. 1 /\ Commanding(r) \in 0 .. 1 /\ a \in Nat /\ b \in Nat
          /\ rule[r].ref = OnList(r) + Commanding(r) + a + b
      BY HeldCounts DEF IInv, Holders
    <2> HIDE DEF a, b
    <2>3. CASE r = q
      BY <2>2, <2>3, <2>5
    <2>4. CASE r # q
      BY <2>2, <2>4, <2>5
    <2> QED BY <2>3, <2>4
  <1> QED BY <1>2, <1>3, <1>4 DEF IInv, TypeOK, RefsCounted

\* The sequence is not looked at by any count.
LEMMA CountStep ==
    ASSUME IInv, Count
    PROVE  IInv'
  <1>1. /\ command.at = "count" /\ command' = NoCommand /\ seq' = seq + 1
        /\ UNCHANGED <<list, rule, hashed, cli, job, walker, lbug>>
        /\ command.rule = None
    BY DEF Count, IInv, CommandOK
  <1>2. \A r \in Rules : Commanding(r)' = Commanding(r)
    BY <1>1 DEF Commanding, NoCommand
  <1>3. RefsCounted'
    BY <1>1, <1>2 DEF IInv, RefsCounted, Holders, OnList, ClientsOf, HandlersOf
  <1>4. command' \in Commands /\ CommandOK'
    BY <1>1 DEF NoCommand, Commands, CommandOK
  <1> QED BY <1>1, <1>3, <1>4
          DEF IInv, TypeOK, Locked, ListOK, JobsOK, JobOK, ClientsOK, FreeOK

\* A new rule is counted once, for the list.
LEMMA StartStep ==
    ASSUME IInv, NEW name \in Names, NEW covers \in SUBSET Clients, NEW r \in Rules,
           Start(name, covers, r)
    PROVE  IInv'
  <1> DEFINE m == [Free EXCEPT !.st = "listed", !.name = name, !.covers = covers, !.ref = 1]
  <1>1. /\ command.at = "idle" /\ rule[r].st = "free" /\ rule[r].ref = 0
        /\ rule' = [rule EXCEPT ![r] = m] /\ list' = <<r>> \o list
        /\ command' = [at |-> "count", rule |-> None] /\ command.rule = None
        /\ job' = [h \in Handlers |-> [job[h] EXCEPT !.stopped = @ \ {r}]]
        /\ UNCHANGED <<seq, hashed, cli, walker, lbug>>
    BY DEF Start, IInv, FreeOK, CommandOK
  <1>2. m \in Memory /\ m.ref = 1 /\ m.st = "listed"
    BY DEF Free, Memory, RuleStates
  <1> HIDE DEF m
  <1>3. /\ rule' \in [Rules -> Memory] /\ rule'[r] = m
        /\ \A s \in Rules \ {r} : rule'[s] = rule[s]
    BY <1>1, <1>2 DEF IInv, TypeOK
  <1>4. list' \in Seq(Rules) /\ ListOK'
    <2>1. list \in Seq(Rules) /\ Len(list) > 0 /\ list[Len(list)] = Default
      BY DEF IInv, TypeOK, ListOK
    <2>2. list' \in Seq(Rules) /\ Len(list') = Len(list) + 1
      BY <1>1, <2>1
    <2>3. list'[Len(list) + 1] = list[Len(list)]
      BY <1>1, <2>1
    <2> QED BY <2>1, <2>2, <2>3 DEF ListOK
  <1>5. command' \in Commands /\ CommandOK' /\ FreeOK'
    BY <1>1, <1>2, <1>3 DEF Commands, CommandOK, FreeOK, IInv
  <1>6. /\ job' \in [Handlers -> Jobs]
        /\ \A h \in Handlers : Same(job'[h], job[h])
    <2> SUFFICES ASSUME NEW h \in Handlers
                 PROVE  [job[h] EXCEPT !.stopped = @ \ {r}] \in Jobs
                        /\ Same([job[h] EXCEPT !.stopped = @ \ {r}], job[h])
      BY <1>1
    <2>1. job[h] \in Jobs
      BY DEF IInv, TypeOK
    <2> QED BY <2>1 DEF Jobs, Same
  <1>7. /\ OnList(r) = 0 /\ OnList(r)' = 1
        /\ \A s \in Rules : Commanding(s) = 0 /\ Commanding(s)' = 0
        /\ \A s \in Rules \ {r} : OnList(s)' = OnList(s)
    BY <1>1, <1>2, <1>3, RulesAssumption DEF OnList, Commanding
  <1>8. rule'[r].ref = rule[r].ref + 1
        /\ OnList(r)' + Commanding(r)' = OnList(r) + Commanding(r) + 1
        /\ \A s \in Rules \ {r} : /\ rule'[s].ref = rule[s].ref
                                /\ OnList(s)' = OnList(s) /\ Commanding(s)' = Commanding(s)
    BY <1>1, <1>2, <1>3, <1>7
  <1>9. 1 \in -2 .. 1
    OBVIOUS
  <1> QED BY <1>1, <1>3, <1>4, <1>5, <1>6, <1>8, <1>9, CommandStep

\* A rule that a command has found is counted for the command.
LEMMA FindStep ==
    ASSUME IInv, NEW r \in Rules, Change(r) \/ Stop(r)
    PROVE  IInv'
  <1>0. PICK x : x = IF Change(r) THEN rule[r].rate + 1 ELSE rule[r].rate
    OBVIOUS
  <1> DEFINE m == [rule[r] EXCEPT !.ref = rule[r].ref + 1, !.rate = x]
  <1>1. /\ command.at = "idle" /\ command.rule = None /\ rule[r].st = "listed"
        /\ command' \in [at : {"generation", "unlink"}, rule : {r}]
        /\ command'.at = "unlink" => r # Default
        /\ UNCHANGED <<list, seq, hashed, cli, job, walker, lbug>>
    BY DEF Change, Stop, IInv, CommandOK
  <1>2. rule[r] \in Memory /\ rule[r].ref \in Nat /\ rule[r].rate \in Nat
    BY DEF IInv, TypeOK, Memory
  <1>3. rule' = [rule EXCEPT ![r] = m]
    <2>1. CASE Change(r)
      <3>1. rule' = [Get(rule, r) EXCEPT ![r].rate = @ + 1]
        BY <2>1 DEF Change
      <3> QED BY <1>0, <1>2, <2>1, <3>1 DEF Get, IInv, TypeOK, Memory
    <2>2. CASE Stop(r) /\ ~Change(r)
      <3>1. rule' = Get(rule, r)
        BY <2>2 DEF Stop
      <3>2. x = rule[r].rate
        BY <1>0, <2>2
      <3> QED BY <1>2, <3>1, <3>2 DEF Get, IInv, TypeOK, Memory
    <2> QED BY <2>1, <2>2
  <1>4. m \in Memory /\ m.ref = rule[r].ref + 1 /\ m.st = "listed"
    <2>1. x \in Nat
      BY <1>0, <1>2
    <2>2. rule[r].ref + 1 \in Nat
      BY <1>2
    <2>3. PICK v \in Memory : v = rule[r]
      BY <1>2
    <2>4. PICK n \in Nat : n = rule[r].ref + 1
      BY <2>2
    <2>5. m = [v EXCEPT !.ref = n, !.rate = x]
      BY <2>3, <2>4
    <2> HIDE DEF m
    <2>6. m \in Memory /\ m.ref = n /\ m.st = v.st
      BY <2>1, <2>5 DEF Memory
    <2> QED BY <1>1, <2>3, <2>4, <2>6
  <1> HIDE DEF m
  <1>5. /\ rule' \in [Rules -> Memory] /\ rule'[r] = m
        /\ \A s \in Rules \ {r} : rule'[s] = rule[s]
    BY <1>3, <1>4 DEF IInv, TypeOK
  <1>6. command' \in Commands /\ CommandOK' /\ FreeOK'
    BY <1>1, <1>4, <1>5 DEF Commands, CommandOK, FreeOK, IInv
  <1>7. /\ rule'[r].ref = rule[r].ref + 1
        /\ OnList(r)' + Commanding(r)' = OnList(r) + Commanding(r) + 1
        /\ \A s \in Rules \ {r} : /\ rule'[s].ref = rule[s].ref
                                /\ OnList(s)' = OnList(s) /\ Commanding(s)' = Commanding(s)
    BY <1>1, <1>4, <1>5, RulesAssumption DEF OnList, Commanding
  <1>8. list' \in Seq(Rules) /\ ListOK' /\ job' \in [Handlers -> Jobs]
        /\ \A h \in Handlers : Same(job'[h], job[h])
    BY <1>1 DEF IInv, TypeOK, ListOK, Same
  <1>9. 1 \in -2 .. 1
    OBVIOUS
  <1> QED BY <1>1, <1>5, <1>6, <1>7, <1>8, <1>9, CommandStep

\* The command that changed a rule gives it back.
LEMMA GenerationStep ==
    ASSUME IInv, Generation
    PROVE  IInv'
  <1>1. PICK q \in Rules : q = command.rule
    BY DEF Generation, IInv, CommandOK
  <1> DEFINE R == [rule EXCEPT ![q].gen = @ + 1]
  <1>2. /\ command.at = "generation" /\ command' = NoCommand /\ rule' = Put(R, q, 1)
        /\ UNCHANGED <<list, seq, hashed, cli, job, walker, lbug>>
    BY <1>1 DEF Generation
  <1>3. /\ R \in [Rules -> Memory] /\ R[q].ref = rule[q].ref /\ R[q].st = rule[q].st
        /\ \A s \in Rules \ {q} : R[s] = rule[s]
    <2>1. rule \in [Rules -> Memory] /\ rule[q] \in Memory /\ rule[q].gen + 1 \in Nat
      BY DEF IInv, TypeOK, Memory
    <2> QED BY <2>1 DEF Memory
  <1> HIDE DEF R
  <1>4. Commanding(q) = 1 /\ rule[q].ref \in Nat /\ rule[q].ref >= OnList(q) + 1
    <2>1. Commanding(q) = 1
      BY <1>1 DEF Commanding
    <2> QED BY <2>1, HeldCounts DEF IInv, Holders
  <1>5. /\ rule' \in [Rules -> Memory]
        /\ rule'[q].ref = rule[q].ref - 1
        /\ rule'[q].st = IF rule[q].ref = 1 THEN "free" ELSE rule[q].st
        /\ \A s \in Rules \ {q} : rule'[s] = rule[s]
    <2>1. R[q].ref >= 1
      BY <1>3, <1>4 DEF OnList
    <2> QED BY <1>2, <1>3, <2>1, PutEffect
  <1>6. OnList(q)' = OnList(q) /\ Commanding(q)' = 0
    BY <1>1, <1>2, <1>4, <1>5, RulesAssumption DEF OnList, Commanding, NoCommand
  <1>7. command' \in Commands /\ CommandOK' /\ FreeOK'
    <2>1. command' \in Commands /\ CommandOK'
      BY <1>2 DEF NoCommand, Commands, CommandOK
    <2>2. rule[q].ref >= 1
      BY <1>4 DEF OnList
    <2>3. rule[q].st = "free" => rule[q].ref = 0
      BY DEF IInv, FreeOK
    <2>4. rule'[q].st = "free" => rule'[q].ref = 0
      BY <1>4, <1>5, <2>2, <2>3
    <2>5. \A s \in Rules \ {q} : rule'[s].st = "free" => rule'[s].ref = 0
      BY <1>5 DEF IInv, FreeOK
    <2> QED BY <2>1, <2>4, <2>5 DEF FreeOK
  <1>8. /\ rule'[q].ref = rule[q].ref + (-1)
        /\ OnList(q)' + Commanding(q)' = OnList(q) + Commanding(q) + (-1)
        /\ \A s \in Rules \ {q} : /\ rule'[s].ref = rule[s].ref
                                /\ OnList(s)' = OnList(s) /\ Commanding(s)' = Commanding(s)
    <2>1. OnList(q) \in 0 .. 1
      BY DEF OnList
    <2>2. \A s \in Rules \ {q} : OnList(s)' = OnList(s) /\ Commanding(s)' = Commanding(s)
      BY <1>1, <1>2, <1>5, RulesAssumption DEF OnList, Commanding, NoCommand
    <2> QED BY <1>4, <1>5, <1>6, <2>1, <2>2
  <1>9. list' \in Seq(Rules) /\ ListOK' /\ job' \in [Handlers -> Jobs]
        /\ \A h \in Handlers : Same(job'[h], job[h])
    BY <1>2 DEF IInv, TypeOK, ListOK, Same
  <1>10. -1 \in -2 .. 1
    OBVIOUS
  <1> QED BY <1>2, <1>5, <1>7, <1>8, <1>9, <1>10, CommandStep

\* A rule that is off the list keeps its count; the default rule stays the last.
LEMMA UnlinkStep ==
    ASSUME IInv, Unlink
    PROVE  IInv'
  <1>1. PICK q \in Rules : q = command.rule
    BY DEF Unlink, IInv, CommandOK
  <1>2. /\ command.at = "unlink" /\ command' = [command EXCEPT !.at = "flag"]
        /\ rule' = [rule EXCEPT ![q].st = "unlinked"] /\ rule[q].st = "listed" /\ q # Default
        /\ UNCHANGED <<seq, hashed, cli, job, walker, lbug>>
    BY <1>1 DEF Unlink, IInv, CommandOK
  <1>3. /\ rule' \in [Rules -> Memory] /\ rule'[q].st = "unlinked"
        /\ rule'[q].ref = rule[q].ref /\ rule[q].ref \in Nat
        /\ \A s \in Rules \ {q} : rule'[s] = rule[s]
    <2>1. rule \in [Rules -> Memory] /\ rule[q] \in Memory
      BY DEF IInv, TypeOK
    <2> QED BY <1>2, <2>1 DEF Memory, RuleStates
  <1>4. list' \in Seq(Rules) /\ ListOK'
    <2>1. PICK i \in DOMAIN list : list[i] = q /\ list' = RemoveAt(list, i)
      BY <1>1 DEF Unlink
    <2>2. list \in Seq(Rules) /\ Len(list) > 0 /\ list[Len(list)] = Default
      BY DEF IInv, TypeOK, ListOK
    <2>3. i \in 1 .. Len(list) - 1
      BY <1>2, <2>1, <2>2
    <2> DEFINE front == SubSeq(list, 1, i - 1)  back == SubSeq(list, i + 1, Len(list))
    <2>4. /\ front \in Seq(Rules) /\ Len(front) = i - 1
          /\ back \in Seq(Rules) /\ Len(back) = Len(list) - i
          /\ back[Len(list) - i] = list[Len(list)]
      <3>1. front \in Seq(Rules) /\ Len(front) = i - 1
        BY <2>2, <2>3, SubSeqProperties
      <3>2. back \in Seq(Rules) /\ Len(back) = Len(list) - i
        BY <2>2, <2>3, SubSeqProperties
      <3>3. back[Len(list) - i] = list[i + 1 + (Len(list) - i) - 1]
        <4>1. \A j \in 1 .. Len(list) - (i + 1) + 1 : back[j] = list[i + 1 + j - 1]
          <5>1. i + 1 \in Int /\ Len(list) \in Int /\ \A k \in i + 1 .. Len(list) : list[k] \in Rules
            BY <2>2, <2>3
          <5> QED BY <5>1, SubSeqProperties
        <4>2. Len(list) - i \in 1 .. Len(list) - (i + 1) + 1
          BY <2>2, <2>3
        <4> HIDE DEF front, back
        <4> QED BY <4>1, <4>2, Zenon
      <3>4. i + 1 + (Len(list) - i) - 1 = Len(list)
        BY <2>2, <2>3
      <3> QED BY <3>1, <3>2, <3>3, <3>4
    <2>5. list' = front \o back
      BY <2>1 DEF RemoveAt
    <2> HIDE DEF front, back
    <2>6. list' \in Seq(Rules) /\ Len(list') = Len(list) - 1
          /\ list'[Len(list) - 1] = back[Len(list) - i]
      <3>1. /\ list' \in Seq(Rules) /\ Len(list') = Len(front) + Len(back)
            /\ \A j \in 1 .. Len(front) + Len(back) :
                  list'[j] = IF j <= Len(front) THEN front[j] ELSE back[j - Len(front)]
        BY <2>4, <2>5, ConcatProperties
      <3> DEFINE n == Len(list)  f == Len(front)  b == Len(back)
      <3>2. n \in Nat /\ i \in Nat /\ 1 <= i /\ i <= n - 1 /\ f = i - 1 /\ b = n - i
        BY <2>2, <2>3, <2>4
      <3> HIDE DEF n, f, b
      <3>3. f + b = n - 1 /\ n - 1 \in 1 .. f + b /\ ~(n - 1 <= f) /\ n - 1 - f = n - i
        BY <3>2
      <3>4. list'[n - 1] = back[n - 1 - f]
        BY <3>1, <3>3 DEF f, b
      <3> QED BY <3>1, <3>3, <3>4 DEF n, f, b
    <2> QED BY <2>2, <2>3, <2>4, <2>6 DEF ListOK
  <1>5. command' \in Commands /\ command'.at = "flag" /\ command'.rule = q
    BY <1>1, <1>2 DEF IInv, TypeOK, Commands
  <1>6. CommandOK' /\ FreeOK'
    BY <1>1, <1>3, <1>5 DEF CommandOK, FreeOK, IInv
  <1>7. /\ OnList(q)' = 1 /\ OnList(q) = 1
        /\ \A s \in Rules : Commanding(s)' = Commanding(s)
        /\ \A s \in Rules \ {q} : OnList(s)' = OnList(s)
    BY <1>1, <1>2, <1>3, <1>5 DEF OnList, Commanding
  <1>8. Commanding(q) \in 0 .. 1
    BY DEF Commanding
  <1>9. job' \in [Handlers -> Jobs] /\ \A h \in Handlers : Same(job'[h], job[h])
    BY <1>2 DEF IInv, TypeOK, Same
  <1>10. /\ 0 \in -2 .. 1 /\ rule'[q].ref = rule[q].ref + 0
         /\ OnList(q)' + Commanding(q)' = OnList(q) + Commanding(q) + 0
         /\ \A s \in Rules \ {q} : /\ rule'[s].ref = rule[s].ref
                                 /\ OnList(s)' = OnList(s) /\ Commanding(s)' = Commanding(s)
    BY <1>3, <1>7, <1>8
  <1> QED BY <1>2, <1>3, <1>4, <1>5, <1>6, <1>7, <1>9, <1>10, CommandStep

\* A rule that is stopped loses the count of the list and of the command.
LEMMA FlagStep ==
    ASSUME IInv, Flag
    PROVE  IInv'
  <1>1. PICK q \in Rules : q = command.rule
    BY DEF Flag, IInv, CommandOK
  <1> DEFINE R == [rule EXCEPT ![q].st = "stopping"]
  <1>2. /\ command.at = "flag" /\ command' = NoCommand /\ rule' = Put(R, q, 2)
        /\ rule[q].st = "unlinked"
        /\ UNCHANGED <<list, seq, hashed, cli, job, walker, lbug>>
    BY <1>1 DEF Flag, IInv, CommandOK
  <1>3. /\ R \in [Rules -> Memory] /\ R[q].ref = rule[q].ref /\ R[q].st = "stopping"
        /\ \A s \in Rules \ {q} : R[s] = rule[s]
    <2>1. rule \in [Rules -> Memory] /\ rule[q] \in Memory
      BY DEF IInv, TypeOK
    <2> QED BY <2>1 DEF Memory, RuleStates
  <1> HIDE DEF R
  <1>4. OnList(q) = 1 /\ Commanding(q) = 1 /\ rule[q].ref \in Nat /\ rule[q].ref >= 2
    <2>1. OnList(q) = 1 /\ Commanding(q) = 1
      BY <1>1, <1>2 DEF OnList, Commanding
    <2> QED BY <2>1, HeldCounts DEF IInv, Holders
  <1>5. /\ rule' \in [Rules -> Memory]
        /\ rule'[q].ref = rule[q].ref - 2
        /\ rule'[q].st = IF rule[q].ref = 2 THEN "free" ELSE "stopping"
        /\ \A s \in Rules \ {q} : rule'[s] = rule[s]
    <2>1. R[q].ref >= 2
      BY <1>3, <1>4
    <2> QED BY <1>2, <1>3, <2>1, PutEffect
  <1>6. OnList(q)' = 0 /\ Commanding(q)' = 0
    BY <1>1, <1>2, <1>5, RulesAssumption DEF OnList, Commanding, NoCommand
  <1>7. command' \in Commands /\ CommandOK' /\ FreeOK'
    BY <1>2, <1>4, <1>5 DEF NoCommand, Commands, CommandOK, FreeOK, IInv
  <1>8. /\ rule'[q].ref = rule[q].ref + (-2)
        /\ OnList(q)' + Commanding(q)' = OnList(q) + Commanding(q) + (-2)
        /\ \A s \in Rules \ {q} : /\ rule'[s].ref = rule[s].ref
                                /\ OnList(s)' = OnList(s) /\ Commanding(s)' = Commanding(s)
    <2>1. \A s \in Rules \ {q} : OnList(s)' = OnList(s) /\ Commanding(s)' = Commanding(s)
      BY <1>1, <1>2, <1>5, RulesAssumption DEF OnList, Commanding, NoCommand
    <2> QED BY <1>4, <1>5, <1>6, <2>1
  <1>9. list' \in Seq(Rules) /\ ListOK' /\ job' \in [Handlers -> Jobs]
        /\ \A h \in Handlers : Same(job'[h], job[h])
    BY <1>2 DEF IInv, TypeOK, ListOK, Same
  <1>10. -2 \in -2 .. 1
    OBVIOUS
  <1> QED BY <1>2, <1>5, <1>7, <1>8, <1>9, <1>10, CommandStep

----------------------------------------------------------------------------

\* Only the default rule is there, and only the list counts.
LEMMA Initially == Init => IInv
  <1> SUFFICES ASSUME Init PROVE IInv
    OBVIOUS
  <1>1. Free \in Memory /\ Free.ref = 0 /\ Free.st = "free" /\ NoFields \in Fields
        /\ NoFields.rule = None
    BY DEF Free, Memory, RuleStates, NoFields, Fields
  <1>2. /\ rule \in [Rules -> Memory] /\ rule[Default].ref = 1 /\ rule[Default].st = "listed"
        /\ \A r \in Rules \ {Default} : rule[r] = Free
    <2> DEFINE m == [Free EXCEPT !.st = "listed", !.name = Default, !.ref = 1]
    <2>1. m \in Memory /\ m.ref = 1 /\ m.st = "listed"
      BY DEF Free, Memory, RuleStates
    <2>2. rule = [r \in Rules |-> IF r = Default THEN m ELSE Free]
      BY DEF Init
    <2> HIDE DEF m
    <2> QED BY <1>1, <2>1, <2>2, RulesAssumption
  <1>3. /\ NoJob \in Jobs /\ NoJob.at = "idle" /\ JobOK(NoJob, hashed)
        /\ \A h \in Handlers : job[h] = NoJob
    BY <1>1 DEF Init, NoJob, NoFields, Jobs, Places, Fields, JobOK
  <1>4. TypeOK
    <2>1. Locked
      BY <1>3, RulesAssumption DEF Init, Locked
    <2>2. list \in Seq(Rules)
      BY RulesAssumption DEF Init
    <2>3. job \in [Handlers -> Jobs] /\ cli \in [Clients -> Fields]
      BY <1>1, <1>3 DEF Init
    <2>4. command \in Commands
      BY DEF Init, NoCommand, Commands
    <2> QED BY <1>2, <2>1, <2>2, <2>3, <2>4 DEF Init, TypeOK
  <1>5. ListOK /\ JobsOK /\ ClientsOK /\ CommandOK /\ FreeOK
    BY <1>1, <1>2, <1>3 DEF Init, ListOK, JobsOK, ClientsOK, CommandOK, NoCommand, FreeOK
  <1>6. ASSUME NEW r \in Rules PROVE rule[r].ref = Holders(r)
    <2>1. ClientsOf(r) = {} /\ Commanding(r) = 0
      BY RulesAssumption DEF Init, ClientsOf, Commanding, NoCommand
    <2>2. HandlersOf(r) = {}
      BY <1>1, <1>3, RulesAssumption DEF HandlersOf, NoJob
    <2>3. rule[r].ref = OnList(r)
      BY <1>1, <1>2 DEF OnList
    <2>4. Cardinality(ClientsOf(r)) = 0 /\ Cardinality(HandlersOf(r)) = 0
      BY <2>1, <2>2, FS_EmptySet
    <2> QED BY <2>1, <2>3, <2>4 DEF Holders, OnList
  <1> QED BY <1>4, <1>5, <1>6 DEF IInv, RefsCounted

\* Every step keeps the invariant.
LEMMA Inductive == IInv /\ [Next]_vars => IInv'
  <1>1. ASSUME IInv, UNCHANGED vars PROVE IInv'
    BY <1>1 DEF vars, IInv, TypeOK, Locked, ListOK, JobsOK, JobOK, ClientsOK, CommandOK,
                FreeOK, RefsCounted, Holders, OnList, Commanding, ClientsOf, HandlersOf
  <1>2. ASSUME IInv, NEW h \in Handlers, Handle(h) PROVE IInv'
    BY <1>2, CheckStep, MatchStep, WalkStep, TakeStep, KeepRuleStep, ResetRuleStep,
       FirstRuleStep, MarksStep, InsertStep, ReleaseStep DEF Handle
  <1>3. ASSUME IInv, Command PROVE IInv'
    BY <1>3, CountStep, StartStep, FindStep, GenerationStep, UnlinkStep, FlagStep DEF Command
  <1> QED BY <1>1, <1>2, <1>3, BeginStep, PurgeStep DEF Next

(* The invariant holds in every reachable state.                           *)
LEMMA Invariance == Spec => []IInv
  BY Initially, Inductive, PTL DEF Spec

(* The variables keep their types: in particular no count goes below zero. *)
THEOREM RulesTypes == Spec => []TypeOK
  <1>1. IInv => TypeOK
    BY DEF IInv
  <1> QED BY <1>1, Invariance, PTL

(* The count of a rule is the number of those that use it, whatever the    *)
(* handlers, the purges and the commands interleave.                       *)
THEOREM ReferencesAreCounted == Spec => []RefsCounted
  <1>1. IInv => RefsCounted
    BY DEF IInv
  <1> QED BY <1>1, Invariance, PTL

(* The rule of a client in the hash, and one that a handler has matched    *)
(* and not given to a client yet, is never freed (nrs_tbf_rule_fini).      *)
RulesInUse ==
    /\ \A c \in hashed : cli[c].rule \in Rules /\ rule[cli[c].rule].st # "free"
    /\ \A h \in Handlers, r \in Rules : Holds(h, r) => rule[r].st # "free"

(* A rule that is free has a count of zero and so no holders.              *)
LEMMA InUse ==
    ASSUME IInv PROVE RulesInUse
  <1>1. ASSUME NEW r \in Rules, rule[r].st = "free"
        PROVE  (\A c : ~Has(c, r)) /\ (\A h \in Handlers : ~Holds(h, r))
    <2>1. rule[r].ref = 0
      BY <1>1 DEF IInv, FreeOK
    <2>2. /\ OnList(r) \in 0 .. 1 /\ Commanding(r) \in 0 .. 1
          /\ Cardinality(ClientsOf(r)) \in Nat /\ Cardinality(HandlersOf(r)) \in Nat
          /\ 0 = OnList(r) + Commanding(r) + Cardinality(ClientsOf(r))
                   + Cardinality(HandlersOf(r))
      BY <2>1, HeldCounts DEF IInv, Holders
    <2>3. Cardinality(ClientsOf(r)) = 0 /\ Cardinality(HandlersOf(r)) = 0
      BY <2>2
    <2>4. /\ \A h \in Handlers : Holds(h, r) => Cardinality(HandlersOf(r)) >= 1
          /\ \A c : Has(c, r) => Cardinality(ClientsOf(r)) >= 1
      BY HeldCounts DEF IInv
    <2> QED BY <2>3, <2>4
  <1> QED BY <1>1 DEF RulesInUse, IInv, ClientsOK, Has

(* A rule is freed by the last that uses it, and not before.               *)
THEOREM NoRuleFreedInUse == Spec => []RulesInUse
  <1>1. IInv => RulesInUse
    BY InUse
  <1> QED BY <1>1, Invariance, PTL

----------------------------------------------------------------------------
(***************************************************************************)
(* Stopped rules.  A request looks at its client under scp_req_lock, and   *)
(* whoever gives the client another rule afterwards has matched it later,  *)
(* when the rules that were stopped before were no longer found.           *)
(***************************************************************************)

(* What is gone comes back only by being started anew (StillGone); one     *)
(* call at a time holds scp_req_lock (Alone); the rule that it has matched *)
(* was not gone when those that are through came in (Fresh).               *)
Gone(r) == rule[r].st \in {"stopping", "free"}
StillGone == \A h \in Handlers : \A r \in job[h].stopped : Gone(r)
Alone == \A g, h \in Handlers : HoldsReqLock(g) /\ HoldsReqLock(h) => g = h
Fresh ==
    \A g, h \in Handlers :
        /\ ~job[g].own /\ job[g].at \in {"take", "reset"}
        /\ ~job[h].own /\ (job[h].at = "hold" \/ g = h)
        => job[g].rule \notin job[h].stopped
Left ==
    \A h \in Handlers : ~job[h].own /\ job[h].at \in {"marks", "hold"}
        => cli[job[h].cli].rule \notin job[h].stopped
SInv == StillGone /\ Alone /\ Fresh /\ Left

(* A put leaves what is gone as it is.                                     *)
LEMMA PutKeepsGone ==
    ASSUME NEW R \in [Rules -> Memory], NEW q \in Rules, NEW n
    PROVE  \A r \in Rules : R[r].st \in {"stopping", "free"}
               => Put(R, q, n)[r].st \in {"stopping", "free"}
  BY DEF Put, Free, Memory

(* What a step of a call must keep, when no rule comes back.               *)
LEMMA HandlerStep ==
    ASSUME IInv, SInv, NEW h \in Handlers, NEW at, NEW q,
           job' = [job EXCEPT ![h].at = at, ![h].rule = q],
           \A r \in Rules : Gone(r) => Gone(r)'
    PROVE  /\ StillGone'
           /\ \A g \in Handlers : /\ job'[g].own = job[g].own
                                  /\ job'[g].stopped = job[g].stopped
                                  /\ job'[g].cli = job[g].cli
                                  /\ g # h => job'[g] = job[g]
           /\ job'[h].at = at /\ job'[h].rule = q
  <1>1. /\ \A g \in Handlers : /\ job'[g].own = job[g].own
                               /\ job'[g].stopped = job[g].stopped
                               /\ job'[g].cli = job[g].cli
                               /\ g # h => job'[g] = job[g]
        /\ job'[h].at = at /\ job'[h].rule = q
    BY DEF IInv, TypeOK, Jobs
  <1>2. \A g \in Handlers : job[g].stopped \subseteq Rules
    BY DEF IInv, TypeOK, Jobs
  <1>3. StillGone'
    BY <1>1, <1>2 DEF SInv, StillGone, Gone
  <1> QED BY <1>1, <1>3

(* Every step of a call keeps the invariant: only a call that holds        *)
(* scp_req_lock, or holds nothing, changes what a client has.              *)
LEMMA StoppedHandle ==
    ASSUME IInv, SInv, NEW h \in Handlers, Handle(h)
    PROVE  SInv'
  <1> DEFINE c == job[h].cli
             q == job[h].rule
  <1>a. /\ \A r \in Rules : \A g \in Handlers : r \in job[g].stopped => Gone(r)
        /\ \A g \in Handlers : job[g].stopped \subseteq Rules
    BY DEF IInv, SInv, StillGone, TypeOK, Jobs
  <1>b. rule \in [Rules -> Memory] /\ cli \in [Clients -> Fields] /\ job \in [Handlers -> Jobs]
    BY DEF IInv, TypeOK
  <1>c. JobOK(job[h], hashed)
    BY DEF IInv, JobsOK
  <1>1. CASE Check(h)
    <2>1. PICK place \in {"match", "marks", "hold"} :
              /\ job' = [job EXCEPT ![h].at = place, ![h].rule = job[h].rule]
              /\ place # "match" => ~Stopped(cli[c].rule)
      BY <1>1, <1>b DEF Check, Goto, Outdated, Jobs
    <2>2. /\ job[h].at = "check" /\ ~job[h].own /\ c \in Clients /\ c \in hashed
          /\ \A g \in Handlers : ~HoldsReqLock(g)
          /\ rule' = rule /\ \A d \in Clients : cli'[d].rule = cli[d].rule
      BY <1>1, <1>b, <1>c DEF Check, JobOK, Fields
    <2>3. cli[c].rule \in Rules /\ ~(rule[cli[c].rule].st = "free")
      BY <2>2, InUse DEF RulesInUse
    <2>4. place # "match" => cli[c].rule \notin job[h].stopped
      BY <1>a, <2>1, <2>3 DEF Gone, Stopped
    <2>5. /\ StillGone' /\ job'[h].at = place
          /\ \A g \in Handlers : /\ job'[g].own = job[g].own
                                 /\ job'[g].stopped = job[g].stopped
                                 /\ job'[g].cli = job[g].cli
                                 /\ g # h => job'[g] = job[g]
      BY <2>1, <2>2, HandlerStep DEF Gone
    <2>6. Alone' /\ Fresh'
      BY <2>2, <2>5 DEF Alone, Fresh, HoldsReqLock, SInv
    <2>7. Left'
      <3> SUFFICES ASSUME NEW g \in Handlers, ~job'[g].own, job'[g].at \in {"marks", "hold"}
                   PROVE  cli'[job'[g].cli].rule \notin job'[g].stopped
        BY DEF Left
      <3>1. CASE g = h
        BY <2>2, <2>4, <2>5, <3>1
      <3>2. CASE g # h
        <4>1. job[g].cli \in Clients /\ cli[job[g].cli].rule \notin job[g].stopped
          BY <2>5, <3>2 DEF SInv, Left, IInv, JobsOK, JobOK
        <4> QED BY <2>2, <2>5, <4>1
      <3> QED BY <3>1, <3>2
    <2> QED BY <2>5, <2>6, <2>7 DEF SInv
  <1> DEFINE at == job'[h].at
             p == job'[h].rule
  <1>2. ASSUME job' = [job EXCEPT ![h].at = at, ![h].rule = p], cli' = cli,
               \A r \in Rules : Gone(r) => Gone(r)',
               job[h].at \in {"match", "walk", "take", "reset", "marks"},
               \/ at \in {"walk", "hold"}
               \/ at = "take" /\ p \in Rules /\ ~Gone(p)
               \/ at = "reset" /\ job[h].at = "take" /\ p = q,
               at = "hold" => cli[c].rule \notin job[h].stopped \/ job[h].own
        PROVE  SInv'
    <2>1. /\ StillGone' /\ job'[h].at = at /\ job'[h].rule = p
          /\ \A g \in Handlers : /\ job'[g].own = job[g].own
                                 /\ job'[g].stopped = job[g].stopped
                                 /\ job'[g].cli = job[g].cli
                                 /\ g # h => job'[g] = job[g]
      BY <1>2, HandlerStep
    <2>2. Alone'
      BY <1>2, <2>1 DEF Alone, HoldsReqLock, SInv
    <2>3. Left'
      BY <1>2, <2>1 DEF Left, SInv
    <2>4. Fresh'
      <3> SUFFICES ASSUME NEW g \in Handlers, NEW k \in Handlers,
                          ~job'[g].own, job'[g].at \in {"take", "reset"},
                          ~job'[k].own, job'[k].at = "hold" \/ g = k
                   PROVE  job'[g].rule \notin job'[k].stopped
        BY DEF Fresh
      <3>1. CASE g = h /\ at = "take"
        BY <1>a, <1>2, <2>1, <3>1
      <3>2. CASE g = h /\ at = "reset"
        <4>1. job[h].at = "take" /\ ~job[h].own /\ job'[h].rule = job[h].rule
          BY <1>2, <2>1, <3>2
        <4>2. ~job[k].own /\ (job[k].at = "hold" \/ k = h)
          BY <2>1, <3>2
        <4>3. job[h].rule \notin job[k].stopped
          BY <4>1, <4>2 DEF Fresh, SInv
        <4> QED BY <2>1, <3>2, <4>1, <4>3
      <3>3. CASE g # h /\ k = h
        <4>1. HoldsReqLock(g) /\ HoldsReqLock(h)
          BY <1>2, <2>1, <3>3 DEF HoldsReqLock
        <4> QED BY <3>3, <4>1 DEF Alone, SInv
      <3>4. CASE g # h /\ k # h
        BY <2>1, <3>4 DEF Fresh, SInv
      <3> QED BY <1>2, <2>1, <3>1, <3>2, <3>3, <3>4
    <2> QED BY <2>1, <2>2, <2>3, <2>4 DEF SInv
  <1>3. CASE Match(h)
    <2>1. /\ job' = [job EXCEPT ![h].at = "walk", ![h].rule = list[1]]
          /\ job[h].at = "match" /\ cli' = cli /\ rule' = rule
      BY <1>3 DEF Match
    <2>2. at = "walk" /\ p = list[1]
      BY <1>b, <2>1 DEF Jobs
    <2>3. \A r \in Rules : Gone(r) => Gone(r)'
      BY <2>1 DEF Gone
    <2> QED BY <1>2, <2>1, <2>2, <2>3
  <1>4. CASE Walk(h)
    <2>1. CASE UNCHANGED job
      BY <1>4, <2>1 DEF Walk, SInv, StillGone, Alone, Fresh, Left, Gone, HoldsReqLock
    <2>2. CASE Covers(q, c) /\ Goto(h, "take") /\ rule[q].st \in {"listed", "unlinked"}
      <3>1. job' = [job EXCEPT ![h].at = "take", ![h].rule = q] /\ q \in Rules
        BY <1>4, <1>b, <1>c, <2>2 DEF Goto, Jobs, JobOK, Walk
      <3>2. at = "take" /\ p = q
        BY <1>b, <3>1 DEF Jobs
      <3>3. job[h].at = "walk" /\ cli' = cli /\ rule' = rule
        BY <1>4 DEF Walk
      <3> QED BY <1>2, <2>2, <3>1, <3>2, <3>3 DEF Gone
    <2>3. CASE job' = [job EXCEPT ![h].rule = NextRule(q)]
      <3>1. job' = [job EXCEPT ![h].at = "walk", ![h].rule = NextRule(q)]
        BY <1>4, <1>b, <2>3 DEF Jobs, Walk
      <3>2. at = "walk" /\ p = NextRule(q)
        BY <1>b, <3>1 DEF Jobs
      <3>3. job[h].at = "walk" /\ cli' = cli /\ rule' = rule
        BY <1>4 DEF Walk
      <3> QED BY <1>2, <3>1, <3>2, <3>3 DEF Gone
    <2> QED BY <1>4, <2>1, <2>2, <2>3 DEF Walk
  <1>5. CASE Take(h)
    <2>1. CASE UNCHANGED <<rule, job>>
      BY <1>5, <2>1 DEF Take, SInv, StillGone, Alone, Fresh, Left, Gone, HoldsReqLock
    <2>2. CASE rule' = Get(rule, q) /\ Goto(h, "reset")
      <3>1. job' = [job EXCEPT ![h].at = "reset", ![h].rule = q] /\ q \in Rules
        BY <1>5, <1>b, <1>c, <2>2 DEF Goto, Jobs, JobOK, Take
      <3>2. \A r \in Rules : Gone(r) => Gone(r)'
        BY <1>b, <2>2, <3>1 DEF Get, Gone, Memory
      <3>3. job[h].at = "take" /\ cli' = cli
        BY <1>5 DEF Take
      <3>4. at = "reset" /\ p = q
        BY <1>b, <3>1 DEF Jobs
      <3> QED BY <1>2, <3>1, <3>2, <3>3, <3>4
    <2> QED BY <1>5, <2>1, <2>2 DEF Take
  <1>6. CASE KeepRule(h)
    <2>1. /\ job[h].at = "reset" /\ ~job[h].own /\ cli[c].rule = q /\ q \in Rules
          /\ job' = [job EXCEPT ![h].at = "hold", ![h].rule = q]
      BY <1>6, <1>b, <1>c DEF KeepRule, Goto, Jobs, JobOK
    <2>2. \A r \in Rules : Gone(r) => Gone(r)'
      BY <1>6, <1>b, <2>1, PutKeepsGone DEF KeepRule, Gone
    <2>3. cli[c].rule \notin job[h].stopped
      BY <2>1 DEF SInv, Fresh
    <2>4. at = "hold" /\ p = q /\ cli' = cli
      BY <1>6, <1>b, <2>1 DEF KeepRule, Jobs
    <2> QED BY <1>2, <2>1, <2>2, <2>3, <2>4
  <1>7. CASE ResetRule(h)
    <2>1. /\ job[h].at = "reset" /\ ~job[h].own /\ q \in Rules /\ c \in Clients
          /\ c \in hashed /\ cli[c].rule \in Rules
          /\ job' = [job EXCEPT ![h].at = "marks", ![h].rule = q]
      BY <1>7, <1>b, <1>c DEF ResetRule, Goto, Jobs, JobOK, IInv, ClientsOK
    <2>2. \A r \in Rules : Gone(r) => Gone(r)'
      BY <1>7, <1>b, <2>1, PutKeepsGone DEF ResetRule, Gone
    <2>3. /\ StillGone' /\ job'[h].at = "marks"
          /\ \A g \in Handlers : /\ job'[g].own = job[g].own
                                 /\ job'[g].stopped = job[g].stopped
                                 /\ job'[g].cli = job[g].cli
                                 /\ g # h => job'[g] = job[g]
      BY <2>1, <2>2, HandlerStep
    <2>4. Alone' /\ Fresh'
      <3>1. Alone'
        BY <2>1, <2>3 DEF Alone, HoldsReqLock, SInv
      <3>2. Fresh'
        <4> SUFFICES ASSUME NEW g \in Handlers, NEW k \in Handlers,
                            ~job'[g].own, job'[g].at \in {"take", "reset"},
                            ~job'[k].own, job'[k].at = "hold" \/ g = k
                     PROVE  job'[g].rule \notin job'[k].stopped
          BY DEF Fresh
        <4>1. g # h /\ k # h
          BY <2>3
        <4> QED BY <2>3, <4>1 DEF Fresh, SInv
      <3> QED BY <3>1, <3>2
    <2>5. Left'
      <3> SUFFICES ASSUME NEW g \in Handlers, ~job'[g].own, job'[g].at \in {"marks", "hold"}
                   PROVE  cli'[job'[g].cli].rule \notin job'[g].stopped
        BY DEF Left
      <3>1. cli'[c].rule = q /\ \A d \in Clients \ {c} : cli'[d] = cli[d]
        BY <1>7, <1>b, <2>1 DEF ResetRule, Fields
      <3>2. g = h \/ job[g].at = "hold"
        <4>1. g # h /\ job[g].at = "marks" => HoldsReqLock(g) /\ HoldsReqLock(h)
          BY <2>1, <2>3 DEF HoldsReqLock
        <4> QED BY <2>3, <4>1 DEF Alone, SInv
      <3>3. q \notin job[g].stopped
        BY <2>1, <2>3, <3>2 DEF Fresh, SInv
      <3>4. CASE job[g].cli = c
        BY <2>3, <3>1, <3>3, <3>4
      <3>5. CASE job[g].cli # c
        <4>1. g # h /\ job[g].at = "hold" /\ job[g].cli \in Clients
          BY <2>3, <3>2, <3>5 DEF IInv, JobsOK, JobOK
        <4> QED BY <2>3, <3>1, <3>5, <4>1 DEF Left, SInv
      <3> QED BY <3>4, <3>5
    <2> QED BY <2>3, <2>4, <2>5 DEF SInv
  <1>8. ASSUME job[h].own, NEW j, j.own, j.stopped = job[h].stopped,
               job' = [job EXCEPT ![h] = j], \A r \in Rules : Gone(r) => Gone(r)',
               \A g \in Handlers : ~job[g].own /\ job[g].at \in {"marks", "hold"}
                   => cli'[job[g].cli].rule = cli[job[g].cli].rule
        PROVE  SInv'
    <2>1. job'[h] = j /\ \A g \in Handlers \ {h} : job'[g] = job[g]
      BY <1>8, <1>b
    <2>2. StillGone'
      BY <1>8, <1>a, <2>1 DEF StillGone
    <2>3. Alone' /\ Fresh' /\ Left'
      BY <1>8, <2>1 DEF Alone, Fresh, Left, HoldsReqLock, SInv
    <2> QED BY <2>2, <2>3 DEF SInv
  <1>9. CASE FirstRule(h)
    <2> DEFINE j == [job[h] EXCEPT !.at = "marks",
                                   !.rec = [NoFields EXCEPT !.rule = job[h].rule,
                                                            !.rate = rule[job[h].rule].rate]]
    <2>1. job' = [job EXCEPT ![h] = j] /\ job[h].own /\ cli' = cli /\ rule' = rule
      BY <1>9, <1>b DEF FirstRule
    <2>2. j.own /\ j.stopped = job[h].stopped
      BY <1>b, <2>1 DEF Jobs
    <2> HIDE DEF j
    <2> QED BY <1>8, <2>1, <2>2 DEF Gone
  <1>10. CASE Marks(h)
    <2>1. CASE job[h].own
      <3> DEFINE j == [job[h] EXCEPT !.at = "insert", !.rec = Marked(@)]
      <3>1. job' = [job EXCEPT ![h] = j] /\ cli' = cli /\ rule' = rule
        BY <1>10, <1>b, <2>1 DEF Marks
      <3>2. j.own /\ j.stopped = job[h].stopped
        BY <1>b, <2>1 DEF Jobs
      <3> HIDE DEF j
      <3> QED BY <1>8, <2>1, <3>1, <3>2 DEF Gone
    <2>2. CASE ~job[h].own
      <3>1. /\ job[h].at = "marks" /\ c \in Clients
            /\ job' = [job EXCEPT ![h].at = "hold", ![h].rule = q]
            /\ \A d \in Clients : cli'[d].rule = cli[d].rule
            /\ rule' = rule
        <4>1. /\ job[h].at = "marks" /\ Goto(h, "hold") /\ rule' = rule
              /\ cli' = [cli EXCEPT ![c] = Marked(cli[c])]
          BY <1>10, <2>2 DEF Marks
        <4>2. c \in Clients /\ cli[c] \in Fields
          BY <1>b, <1>c, <4>1 DEF JobOK
        <4>3. Marked(cli[c]).rule = cli[c].rule
          BY <4>2 DEF Marked, Fields
        <4>4. job' = [job EXCEPT ![h].at = "hold", ![h].rule = q]
          BY <1>b, <4>1 DEF Goto, Jobs
        <4>5. \A d \in Clients : cli'[d].rule = cli[d].rule
          BY <1>b, <4>1, <4>2, <4>3
        <4> QED BY <4>1, <4>2, <4>4, <4>5
      <3>2. /\ StillGone' /\ job'[h].at = "hold"
            /\ \A g \in Handlers : /\ job'[g].own = job[g].own
                                   /\ job'[g].stopped = job[g].stopped
                                   /\ job'[g].cli = job[g].cli
                                   /\ g # h => job'[g] = job[g]
        BY <3>1, HandlerStep DEF Gone
      <3>3. Alone'
        BY <2>2, <3>1, <3>2 DEF Alone, HoldsReqLock, SInv
      <3>4. Fresh'
        <4>1. \A g \in Handlers : ~job[g].own /\ job[g].at \in {"take", "reset"}
                  => HoldsReqLock(g) /\ HoldsReqLock(h) /\ g # h
          BY <2>2, <3>1 DEF HoldsReqLock
        <4>2. \A g \in Handlers : ~(~job[g].own /\ job[g].at \in {"take", "reset"})
          BY <4>1 DEF Alone, SInv
        <4> QED BY <3>2, <4>2 DEF Fresh
      <3>5. Left'
        <4>1. \A g \in Handlers : job[g].at \in {"marks", "hold"} => job[g].cli \in Clients
          BY DEF IInv, JobsOK, JobOK
        <4>2. ASSUME NEW g \in Handlers, ~job'[g].own, job'[g].at \in {"marks", "hold"}
              PROVE  cli'[job'[g].cli].rule \notin job'[g].stopped
          <5>1. /\ ~job[g].own /\ job[g].at \in {"marks", "hold"}
                /\ job'[g].cli = job[g].cli /\ job'[g].stopped = job[g].stopped
            BY <3>1, <3>2, <4>2
          <5>2. cli[job[g].cli].rule \notin job[g].stopped
            BY <5>1 DEF Left, SInv
          <5>3. cli'[job[g].cli].rule = cli[job[g].cli].rule
            BY <3>1, <4>1, <5>1
          <5> QED BY <5>1, <5>2, <5>3
        <4> QED BY <4>2 DEF Left
      <3> QED BY <3>2, <3>3, <3>4, <3>5 DEF SInv
    <2> QED BY <2>1, <2>2
  <1>11. CASE Insert(h)
    <2> DEFINE j == [job[h] EXCEPT !.at = "hold", !.rec = NoFields]
    <2>1. job' = [job EXCEPT ![h] = j] /\ job[h].own /\ job[h].rec.rule \in Rules
      BY <1>11, <1>b, <1>c DEF Insert, JobOK
    <2>2. j.own /\ j.stopped = job[h].stopped
      BY <1>b, <2>1 DEF Jobs
    <2> HIDE DEF j
    <2>3. \A r \in Rules : Gone(r) => Gone(r)'
      BY <1>11, <1>b, <2>1, PutKeepsGone DEF Insert, Gone
    <2>4. \A g \in Handlers : ~job[g].own /\ job[g].at \in {"marks", "hold"}
              => cli'[job[g].cli].rule = cli[job[g].cli].rule
      <3>1. \A g \in Handlers : ~job[g].own /\ job[g].at \in {"marks", "hold"}
                => job[g].cli \in hashed /\ job[g].cli \in Clients
        BY DEF IInv, JobsOK, JobOK
      <3>2. \A d \in Clients : d \in hashed => cli'[d] = cli[d]
        BY <1>11, <1>b DEF Insert
      <3> QED BY <3>1, <3>2
    <2> QED BY <1>8, <2>1, <2>2, <2>3, <2>4
  <1>12. CASE Release(h)
    <2>1. job'[h] = NoJob /\ \A g \in Handlers \ {h} : job'[g] = job[g]
      BY <1>12, <1>b DEF Release
    <2>2. cli' = cli /\ rule' = rule
      BY <1>12 DEF Release
    <2> QED BY <2>1, <2>2 DEF NoJob, SInv, StillGone, Alone, Fresh, Left, Gone, HoldsReqLock
  <1> QED BY <1>1, <1>3, <1>4, <1>5, <1>6, <1>7, <1>9, <1>10, <1>11, <1>12 DEF Handle

(* So does whatever else happens.                                          *)
LEMMA StoppedElse ==
    ASSUME IInv, SInv, ~(\E h \in Handlers : Handle(h)), Next
    PROVE  SInv'
  <1>b. rule \in [Rules -> Memory] /\ cli \in [Clients -> Fields] /\ job \in [Handlers -> Jobs]
    BY DEF IInv, TypeOK
  <1>c. \A g \in Handlers : job[g].stopped \subseteq Rules
    BY <1>b DEF Jobs
  <1>1. ASSUME NEW h \in Handlers, NEW c \in Clients, Begin(h, c) PROVE SInv'
    <2>1. /\ \A g \in Handlers \ {h} : job'[g] = job[g]
          /\ job'[h].own = (c \notin hashed) /\ job'[h].stopped = {r \in Rules : Stopped(r)}
          /\ job'[h].at = IF c \in hashed THEN "check" ELSE "match"
          /\ cli' = cli /\ rule' = rule
      BY <1>1, <1>b DEF Begin, NoJob
    <2>2. StillGone'
      BY <2>1 DEF StillGone, Gone, Stopped, SInv
    <2> QED BY <2>1, <2>2 DEF SInv, Alone, Fresh, Left, HoldsReqLock
  <1>2. ASSUME job' = job, \A r \in Rules : Gone(r) => Gone(r)',
               \A g \in Handlers : ~job[g].own /\ job[g].at \in {"marks", "hold"}
                   => cli'[job[g].cli].rule = cli[job[g].cli].rule
        PROVE  SInv'
    BY <1>2, <1>c DEF SInv, StillGone, Alone, Fresh, Left, HoldsReqLock
  <1>3. ASSUME NEW c \in Clients, Purge(c) PROVE SInv'
    <2>1. cli[c].rule \in Rules /\ job' = job
      BY <1>3 DEF Purge, IInv, ClientsOK
    <2>2. \A r \in Rules : Gone(r) => Gone(r)'
      BY <1>3, <1>b, <2>1, PutKeepsGone DEF Purge, Gone
    <2>3. \A g \in Handlers : ~job[g].own /\ job[g].at \in {"marks", "hold"}
              => job[g].cli # c
      <3>1. ~Used(c)
        BY <1>3 DEF Purge
      <3> QED BY <3>1 DEF Used
    <2>4. \A g \in Handlers : ~job[g].own /\ job[g].at \in {"marks", "hold"}
              => job[g].cli \in Clients
      BY DEF IInv, JobsOK, JobOK
    <2>5. \A d \in Clients \ {c} : cli'[d] = cli[d]
      BY <1>3, <1>b DEF Purge
    <2> QED BY <1>2, <2>1, <2>2, <2>3, <2>4, <2>5
  <1>4. CASE Count
    BY <1>2, <1>4 DEF Count, Gone
  <1>5. CASE Generation
    <2>1. command.rule \in Rules
      BY <1>5 DEF Generation, IInv, CommandOK
    <2> DEFINE r == command.rule
               M == [rule EXCEPT ![r].gen = @ + 1]
    <2>2. M \in [Rules -> Memory] /\ \A s \in Rules : M[s].st = rule[s].st
      BY <1>b, <2>1 DEF Memory
    <2>3. rule' = Put(M, r, 1) /\ job' = job /\ cli' = cli
      BY <1>5 DEF Generation
    <2> HIDE DEF M
    <2>4. \A s \in Rules : Gone(s) => Gone(s)'
      BY <2>1, <2>2, <2>3, PutKeepsGone DEF Gone
    <2> QED BY <1>2, <2>3, <2>4
  <1>6. CASE Unlink
    <2>1. command.rule \in Rules /\ rule[command.rule].st = "listed"
      BY <1>6 DEF Unlink, IInv, CommandOK
    <2>2. \A r \in Rules : Gone(r) => Gone(r)'
      BY <1>6, <1>b, <2>1 DEF Unlink, Gone
    <2> QED BY <1>2, <1>6, <2>2 DEF Unlink
  <1>7. CASE Flag
    <2>1. command.rule \in Rules
      BY <1>7 DEF Flag, IInv, CommandOK
    <2> DEFINE r == command.rule
               M == [rule EXCEPT ![r].st = "stopping"]
    <2>2. M \in [Rules -> Memory] /\ \A s \in Rules : Gone(s) => M[s].st \in {"stopping", "free"}
      BY <1>b, <2>1 DEF Memory, RuleStates, Gone
    <2>3. rule' = Put(M, r, 2) /\ job' = job /\ cli' = cli
      BY <1>7 DEF Flag
    <2> HIDE DEF M
    <2>4. \A s \in Rules : Gone(s) => Gone(s)'
      BY <2>1, <2>2, <2>3, PutKeepsGone DEF Gone
    <2> QED BY <1>2, <2>3, <2>4
  <1>8. ASSUME NEW r \in Rules, Change(r) \/ Stop(r) PROVE SInv'
    <2>1. \A s \in Rules : Gone(s) => Gone(s)'
      BY <1>8, <1>b DEF Change, Stop, Get, Gone, Memory
    <2> QED BY <1>2, <1>8, <2>1 DEF Change, Stop
  <1>9. ASSUME NEW name \in Names, NEW covers \in SUBSET Clients, NEW r \in Rules,
               Start(name, covers, r)
        PROVE  SInv'
    <2>1. /\ \A g \in Handlers : /\ job'[g].own = job[g].own /\ job'[g].at = job[g].at
                                 /\ job'[g].cli = job[g].cli /\ job'[g].rule = job[g].rule
                                 /\ job'[g].stopped = job[g].stopped \ {r}
          /\ cli' = cli /\ \A s \in Rules \ {r} : rule'[s] = rule[s]
      BY <1>9, <1>b DEF Start, Jobs
    <2>2. StillGone'
      BY <1>c, <2>1 DEF StillGone, Gone, SInv
    <2> QED BY <2>1, <2>2 DEF SInv, Alone, Fresh, Left, HoldsReqLock
  <1> QED BY <1>1, <1>3, <1>4, <1>5, <1>6, <1>7, <1>8, <1>9 DEF Next, Command

(* The second invariant is inductive too.                                  *)
LEMMA StoppedInductive ==
    /\ Init => SInv
    /\ IInv /\ SInv /\ [Next]_vars => SInv'
  <1>1. Init => SInv
    BY DEF Init, NoJob, SInv, StillGone, Alone, Fresh, Left, HoldsReqLock
  <1>2. IInv /\ SInv /\ [Next]_vars => SInv'
    <2>1. ASSUME SInv, UNCHANGED vars PROVE SInv'
      BY <2>1 DEF vars, SInv, StillGone, Alone, Fresh, Left, HoldsReqLock, Gone
    <2> QED BY <2>1, StoppedHandle, StoppedElse
  <1> QED BY <1>1, <1>2

(* A request does not go out under a rule that was stopped before it came  *)
(* in (nrs_tbf_res_get), for any number of clients, handlers and rules.    *)
THEOREM StoppedRulesAreLeft == Spec => []StoppedRuleLeft
  <1>1. SInv => StoppedRuleLeft
    BY DEF SInv, Left, StoppedRuleLeft
  <1> QED BY <1>1, StoppedInductive, Invariance, PTL DEF Spec

----------------------------------------------------------------------------
(***************************************************************************)
(* What the two places need where a change of the rules is not covered by  *)
(* a lock.                                                                 *)
(***************************************************************************)

(* What a step may do to a rule that is there: free it, if it is not in    *)
(* the list, or let a command have its way with it.                        *)
Still(r) == /\ rule'[r].st = rule[r].st
            /\ rule'[r].rate = rule[r].rate /\ rule'[r].gen = rule[r].gen
Freed(r) == rule[r].st # "listed" /\ rule'[r] = Free
Commanded(r) ==
    \/ Change(r) /\ rule'[r].st = rule[r].st /\ rule'[r].gen = rule[r].gen
                 /\ rule'[r].rate = rule[r].rate + 1
    \/ Generation /\ command.rule = r /\ rule'[r].st = rule[r].st
                  /\ rule'[r].gen = rule[r].gen + 1 /\ rule'[r].rate = rule[r].rate
    \/ (Unlink \/ Flag) /\ command.rule = r
                        /\ rule'[r].gen = rule[r].gen /\ rule'[r].rate = rule[r].rate

(* A put by a client or by a handler frees no rule of the list.            *)
LEMMA PutStays ==
    ASSUME IInv, NEW q \in Rules, NEW r \in Rules, rule' = Put(rule, q, 1),
           (\E c : Has(c, q)) \/ (\E h \in Handlers : Holds(h, q))
    PROVE  Freed(r) \/ Still(r)
  <1>1. rule[q].ref >= OnList(q) + 1 /\ rule[q].ref \in Nat
    BY HeldCounts DEF IInv, Holders
  <1>2. rule \in [Rules -> Memory]
    BY DEF IInv, TypeOK
  <1>3. CASE r # q
    BY <1>2, <1>3 DEF Put, Still
  <1>4. CASE r = q /\ rule[q].ref = 1
    BY <1>1, <1>2, <1>4 DEF Put, OnList, Freed
  <1>5. CASE r = q /\ rule[q].ref # 1
    BY <1>2, <1>5 DEF Put, Still, Memory
  <1> QED BY <1>3, <1>4, <1>5

(* A change and the new generation after it, seen from one rule.           *)
LEMMA ChangeEffect ==
    ASSUME IInv, NEW q \in Rules, Change(q), NEW r \in Rules
    PROVE  /\ r = q => Commanded(r) /\ rule'[r].st = rule[r].st
                       /\ rule'[r].gen = rule[r].gen /\ rule'[r].rate = rule[r].rate + 1
           /\ r # q => Still(r)
  <1>1. /\ rule \in [Rules -> Memory] /\ rule[q] \in Memory
        /\ rule' = [Get(rule, q) EXCEPT ![q].rate = @ + 1]
    BY DEF Change, IInv, TypeOK
  <1>2. CASE q # r
    BY <1>1, <1>2 DEF Get, Still
  <1>3. CASE q = r
    BY <1>1, <1>3 DEF Get, Commanded, Memory
  <1> QED BY <1>2, <1>3

(* The command lets go of its rule, which may be the last to do so.        *)
LEMMA GenerationEffect ==
    ASSUME IInv, Generation, NEW r \in Rules
    PROVE  /\ r = command.rule => \/ Freed(r)
                                  \/ /\ Commanded(r) /\ rule'[r].st = rule[r].st
                                     /\ rule'[r].gen = rule[r].gen + 1
                                     /\ rule'[r].rate = rule[r].rate
           /\ r # command.rule => Still(r)
  <1>0. rule \in [Rules -> Memory]
    BY DEF IInv, TypeOK
  <1>1. PICK q \in Rules : q = command.rule
    BY DEF Generation, IInv, CommandOK
  <1> DEFINE R == [rule EXCEPT ![q].gen = @ + 1]
  <1>2. rule' = Put(R, q, 1)
    BY <1>1 DEF Generation
  <1>3. /\ R \in [Rules -> Memory] /\ R[q].ref = rule[q].ref /\ R[q].st = rule[q].st
        /\ R[q].rate = rule[q].rate /\ R[q].gen = rule[q].gen + 1
        /\ \A s \in Rules \ {q} : R[s] = rule[s]
    <2>1. rule[q] \in Memory /\ rule[q].gen + 1 \in Nat
      BY <1>0, <1>1 DEF Memory
    <2> QED BY <1>0, <2>1 DEF Memory
  <1> HIDE DEF R
  <1>4. rule[q].ref >= OnList(q) + 1 /\ rule[q].ref \in Nat
    <2>1. Commanding(q) = 1
      BY <1>1 DEF Commanding
    <2> QED BY <2>1, HeldCounts DEF IInv, Holders
  <1>5. CASE r # q
    BY <1>1, <1>2, <1>3, <1>5 DEF Put, Still
  <1>6. CASE r = q /\ rule[q].ref = 1
    BY <1>1, <1>2, <1>3, <1>4, <1>6 DEF Put, OnList, Freed
  <1>7. CASE r = q /\ rule[q].ref # 1
    BY <1>1, <1>2, <1>3, <1>7 DEF Put, Commanded, Memory
  <1> QED BY <1>5, <1>6, <1>7

(* Every step, seen from one rule.                                         *)
LEMMA RuleStep ==
    ASSUME IInv, Next, NEW r \in Rules, rule[r].st # "free"
    PROVE  Freed(r) \/ Still(r) \/ Commanded(r)
  <1>0. rule \in [Rules -> Memory] /\ rule[r] \in Memory
        /\ \A h \in Handlers : JobOK(job[h], hashed)
    BY DEF IInv, TypeOK, JobsOK
  <1>1. CASE rule' = rule
    BY <1>1 DEF Still
  <1>2. ASSUME NEW h \in Handlers, Take(h), rule' # rule
        PROVE  Still(r)
    <2>1. rule' = Get(rule, job[h].rule)
      BY <1>2 DEF Take
    <2> QED BY <1>0, <2>1 DEF Get, Still, Memory
  <1>3. ASSUME NEW h \in Handlers, KeepRule(h)
        PROVE  Freed(r) \/ Still(r)
    <2>1. job[h].rule \in Rules /\ Holds(h, job[h].rule) /\ rule' = Put(rule, job[h].rule, 1)
      BY <1>0, <1>3 DEF KeepRule, JobOK, Holds
    <2> QED BY <2>1, PutStays
  <1>4. ASSUME NEW h \in Handlers, ResetRule(h)
        PROVE  Freed(r) \/ Still(r)
    <2> DEFINE q == cli[job[h].cli].rule
    <2>1. q \in Rules /\ Has(job[h].cli, q) /\ rule' = Put(rule, q, 1)
      BY <1>0, <1>4 DEF ResetRule, JobOK, Has, IInv, ClientsOK
    <2> QED BY <2>1, PutStays
  <1>5. ASSUME NEW h \in Handlers, Insert(h), rule' # rule
        PROVE  Freed(r) \/ Still(r)
    <2> DEFINE q == job[h].rec.rule
    <2>1. q \in Rules /\ Holds(h, q) /\ rule' = Put(rule, q, 1)
      BY <1>0, <1>5 DEF Insert, JobOK, Holds
    <2> QED BY <2>1, PutStays
  <1>6. ASSUME NEW c \in Clients, Purge(c)
        PROVE  Freed(r) \/ Still(r)
    <2>1. cli[c].rule \in Rules /\ Has(c, cli[c].rule) /\ rule' = Put(rule, cli[c].rule, 1)
      BY <1>6 DEF Purge, Has, IInv, ClientsOK
    <2> QED BY <2>1, PutStays
  <1>7. ASSUME NEW name \in Names, NEW covers \in SUBSET Clients, NEW q \in Rules,
               Start(name, covers, q)
        PROVE  Still(r)
    <2>1. q # r
      BY <1>7 DEF Start
    <2> QED BY <1>0, <1>7, <2>1 DEF Start, Still
  <1>8. ASSUME NEW q \in Rules, Change(q)
        PROVE  Still(r) \/ Commanded(r)
    BY <1>8, ChangeEffect
  <1>9. ASSUME NEW q \in Rules, Stop(q)
        PROVE  Still(r)
    BY <1>0, <1>9 DEF Stop, Get, Still, Memory
  <1>10. CASE Generation
    BY <1>10, GenerationEffect
  <1>11. CASE Unlink
    <2>1. PICK q \in Rules : q = command.rule
      BY <1>11 DEF Unlink, IInv, CommandOK
    <2>2. rule' = [rule EXCEPT ![q].st = "unlinked"]
      BY <1>11, <2>1 DEF Unlink
    <2> QED BY <1>0, <1>11, <2>1, <2>2 DEF Still, Commanded, Memory
  <1>12. CASE Flag
    <2>1. PICK q \in Rules : q = command.rule /\ rule[q].st = "unlinked"
      BY <1>12 DEF Flag, IInv, CommandOK
    <2> DEFINE R == [rule EXCEPT ![q].st = "stopping"]
    <2>2. rule' = Put(R, q, 2)
      BY <1>12, <2>1 DEF Flag
    <2>3. /\ R \in [Rules -> Memory] /\ R[q].ref = rule[q].ref
          /\ R[q].rate = rule[q].rate /\ R[q].gen = rule[q].gen
          /\ \A s \in Rules \ {q} : R[s] = rule[s]
      BY <1>0, <2>1 DEF Memory, RuleStates
    <2> HIDE DEF R
    <2>4. CASE r # q
      BY <2>2, <2>3, <2>4 DEF Put, Still
    <2>5. CASE r = q /\ R[q].ref = 2
      BY <2>1, <2>2, <2>3, <2>5 DEF Put, Freed
    <2>6. CASE r = q /\ R[q].ref # 2
      BY <1>12, <2>1, <2>2, <2>3, <2>6 DEF Put, Commanded, Memory
    <2> QED BY <2>4, <2>5, <2>6
  <1>13. ASSUME NEW h \in Handlers, Handle(h)
         PROVE  Freed(r) \/ Still(r)
    <2>1. ASSUME Check(h) \/ Match(h) \/ Walk(h) \/ FirstRule(h) \/ Marks(h) \/ Release(h)
          PROVE  rule' = rule
      BY <2>1 DEF Check, Match, Walk, FirstRule, Marks, Release
    <2>2. CASE rule' = rule
      BY <2>2 DEF Still
    <2>3. CASE rule' # rule
      BY <1>2, <1>3, <1>4, <1>5, <1>13, <2>1, <2>3 DEF Handle
    <2> QED BY <2>2, <2>3
  <1>14. ASSUME NEW h \in Handlers, NEW c \in Clients, Begin(h, c)
         PROVE  Still(r)
    <2>1. rule' = rule
      BY <1>14 DEF Begin
    <2> QED BY <2>1 DEF Still
  <1>15. CASE Count
    BY <1>15 DEF Count, Still
  <1> QED BY <1>6, <1>7, <1>8, <1>9, <1>10, <1>11, <1>12, <1>13, <1>14, <1>15 DEF Next, Command

----------------------------------------------------------------------------
(* A rule is taken off th_list under nrs_lock only.                        *)

(* The list while rules are taken off it when nobody walks.                *)
Linked == \A i \in DOMAIN list : rule[list[i]].st = "listed"
Distinct == \A i, k \in DOMAIN list : list[i] = list[k] => i = k
Standing == \A h \in Handlers : job[h].at \in {"walk", "take"}
                => \E i \in DOMAIN list : list[i] = job[h].rule
WalkInv == ~lbug /\ Linked /\ Distinct /\ Standing

(* The program in which nrs_tbf_rule_stop takes th_rule_lock around its    *)
(* list_del_init, as it does not.                                          *)
LockedNext == Next /\ (Unlink => walker = None)
LockedSpec == Init /\ [][LockedNext]_vars

(* What is left of a sequence without one of its elements.                 *)
LEMMA Removed ==
    ASSUME NEW S, NEW s \in Seq(S), NEW i \in 1 .. Len(s)
    PROVE  /\ Len(RemoveAt(s, i)) = Len(s) - 1 /\ DOMAIN RemoveAt(s, i) = 1 .. Len(s) - 1
           /\ \A k \in 1 .. Len(s) - 1 :
                 RemoveAt(s, i)[k] = IF k < i THEN s[k] ELSE s[k + 1]
  <1> DEFINE front == SubSeq(s, 1, i - 1)  back == SubSeq(s, i + 1, Len(s))
             n == Len(s)
  <1>1. n \in Nat /\ i \in Nat /\ 1 <= i /\ i <= n
    OBVIOUS
  <1>2. /\ front \in Seq(S) /\ Len(front) = i - 1
        /\ \A k \in 1 .. i - 1 : front[k] = s[k]
    BY <1>1
  <1>3. /\ back \in Seq(S) /\ Len(back) = n - i
        /\ \A k \in 1 .. n - i : back[k] = s[i + k]
    BY <1>1
  <1>4. RemoveAt(s, i) = front \o back
    BY DEF RemoveAt
  <1> HIDE DEF front, back
  <1>5. /\ Len(front \o back) = Len(front) + Len(back)
        /\ DOMAIN (front \o back) = 1 .. Len(front) + Len(back)
        /\ \A k \in 1 .. Len(front) + Len(back) :
              (front \o back)[k] = IF k <= Len(front) THEN front[k] ELSE back[k - Len(front)]
    <2>1. front \in Seq(S) /\ back \in Seq(S)
      BY <1>2, <1>3
    <2>2. /\ front \o back \in Seq(S)
          /\ Len(front \o back) = Len(front) + Len(back)
          /\ \A k \in 1 .. Len(front) + Len(back) : (front \o back)[k] =
                IF k <= Len(front) THEN front[k] ELSE back[k - Len(front)]
      BY <2>1, ConcatProperties, Zenon
    <2>3. DOMAIN (front \o back) = 1 .. Len(front \o back)
      BY <2>2
    <2> QED BY <2>2, <2>3, Zenon
  <1>6. Len(front) = i - 1 /\ Len(back) = n - i /\ Len(front) + Len(back) = n - 1
    BY <1>1, <1>2, <1>3
  <1>7. ASSUME NEW k \in 1 .. n - 1
        PROVE  (front \o back)[k] = IF k < i THEN s[k] ELSE s[k + 1]
    <2>1. CASE k < i
      <3>1. k \in 1 .. i - 1 /\ k <= Len(front) /\ k \in 1 .. Len(front) + Len(back)
        BY <1>1, <1>6, <2>1
      <3> QED BY <1>2, <1>5, <2>1, <3>1
    <2>2. CASE ~(k < i)
      <3>1. /\ ~(k <= Len(front)) /\ k \in 1 .. Len(front) + Len(back)
            /\ k - Len(front) = k - i + 1 /\ k - i + 1 \in 1 .. n - i /\ i + (k - i + 1) = k + 1
        BY <1>1, <1>6, <2>2
      <3>2. (front \o back)[k] = back[k - i + 1]
        BY <1>5, <3>1
      <3>3. back[k - i + 1] = s[i + (k - i + 1)]
        BY <1>3, <3>1
      <3> QED BY <2>2, <3>1, <3>2, <3>3
    <2> QED BY <2>1, <2>2
  <1> QED BY <1>4, <1>5, <1>6, <1>7

(* Of the rules in the list all but a rule that is taken off stay.         *)
LEMMA LinkedStep ==
    ASSUME IInv, WalkInv, Next
    PROVE  Linked' /\ Distinct'
  <1>1. /\ list \in Seq(Rules) /\ \A i \in DOMAIN list : list[i] \in Rules
        /\ DOMAIN list = 1 .. Len(list) /\ Len(list) \in Nat
    BY DEF IInv, TypeOK
  <1>2. \A i \in DOMAIN list : Still(list[i]) \/ Commanded(list[i])
    BY <1>1, RuleStep DEF WalkInv, Linked, Freed
  <1>3. CASE Unlink
    <2>1. PICK i \in 1 .. Len(list) : list[i] = command.rule /\ list' = RemoveAt(list, i)
      BY <1>1, <1>3 DEF Unlink
    <2>2. /\ DOMAIN list' = 1 .. Len(list) - 1
          /\ \A k \in 1 .. Len(list) - 1 : list'[k] = IF k < i THEN list[k] ELSE list[k + 1]
      BY <1>1, <2>1, Removed
    <2>3. \A k \in 1 .. Len(list) : k # i => list[k] # command.rule
      BY <1>1, <2>1 DEF WalkInv, Distinct
    <2>4. \A s \in Rules \ {command.rule} : rule'[s] = rule[s]
      BY <1>3 DEF Unlink, IInv, TypeOK
    <2>5. ASSUME NEW k \in DOMAIN list' PROVE rule'[list'[k]].st = "listed"
      <3>1. PICK m \in 1 .. Len(list) : m # i /\ list'[k] = list[m]
        BY <1>1, <2>1, <2>2
      <3> QED BY <1>1, <2>3, <2>4, <3>1 DEF WalkInv, Linked
    <2>6. ASSUME NEW k \in DOMAIN list', NEW m \in DOMAIN list', list'[k] = list'[m]
          PROVE  k = m
      <3> DEFINE a == IF k < i THEN k ELSE k + 1
                 b == IF m < i THEN m ELSE m + 1
      <3>1. /\ a \in 1 .. Len(list) /\ b \in 1 .. Len(list)
            /\ list'[k] = list[a] /\ list'[m] = list[b] /\ k \in Int /\ m \in Int
        BY <1>1, <2>1, <2>2
      <3>2. a = b
        <4> HIDE DEF a, b
        <4> QED BY <1>1, <2>6, <3>1 DEF WalkInv, Distinct
      <3> QED BY <2>1, <3>1, <3>2
    <2> QED BY <2>5, <2>6 DEF Linked, Distinct
  <1>4. ASSUME NEW name \in Names, NEW covers \in SUBSET Clients, NEW r \in Rules,
               Start(name, covers, r)
        PROVE  Linked' /\ Distinct'
    <2>1. /\ list' = <<r>> \o list /\ rule[r].st = "free"
          /\ rule'[r].st = "listed" /\ \A s \in Rules \ {r} : rule'[s] = rule[s]
      BY <1>4 DEF Start, IInv, TypeOK, Free
    <2>2. /\ DOMAIN list' = 1 .. Len(list) + 1 /\ list'[1] = r
          /\ \A k \in 2 .. Len(list) + 1 : list'[k] = list[k - 1]
      BY <1>1, <2>1
    <2>3. \A k \in 1 .. Len(list) : list[k] # r
      BY <1>1, <2>1 DEF WalkInv, Linked
    <2>4. ASSUME NEW k \in DOMAIN list' PROVE rule'[list'[k]].st = "listed"
      <3>1. CASE k = 1
        BY <2>1, <2>2, <3>1
      <3>2. CASE k # 1
        <4>1. k - 1 \in 1 .. Len(list) /\ list'[k] = list[k - 1]
          BY <1>1, <2>2, <3>2
        <4> QED BY <1>1, <2>1, <2>3, <4>1 DEF WalkInv, Linked
      <3> QED BY <3>1, <3>2
    <2>5. ASSUME NEW k \in DOMAIN list', NEW m \in DOMAIN list', list'[k] = list'[m]
          PROVE  k = m
      <3>1. k = 1 <=> m = 1
        BY <1>1, <2>2, <2>3, <2>5
      <3>2. CASE k # 1
        <4>1. k - 1 \in 1 .. Len(list) /\ m - 1 \in 1 .. Len(list) /\ list[k - 1] = list[m - 1]
          BY <1>1, <2>2, <2>5, <3>1, <3>2
        <4>2. k - 1 = m - 1
          BY <1>1, <4>1 DEF WalkInv, Distinct
        <4> QED BY <2>2, <4>2
      <3> QED BY <3>1, <3>2
    <2> QED BY <2>4, <2>5 DEF Linked, Distinct
  <1>5. ASSUME list' = list, ~Unlink PROVE Linked' /\ Distinct'
    <2>1. ASSUME NEW i \in DOMAIN list PROVE rule'[list[i]].st = "listed"
      <3>1. rule[list[i]].st = "listed"
        BY DEF WalkInv, Linked
      <3>2. Flag => command.rule # list[i]
        BY <3>1 DEF Flag, IInv, CommandOK
      <3> QED BY <1>2, <1>5, <3>1, <3>2 DEF Still, Commanded
    <2> QED BY <1>5, <2>1 DEF WalkInv, Linked, Distinct
  <1>6. list' = list \/ Unlink
        \/ \E name \in Names, covers \in SUBSET Clients, r \in Rules : Start(name, covers, r)
    <2>1. ASSUME NEW h \in Handlers, Handle(h) PROVE list' = list
      BY <2>1 DEF Handle, Check, Match, Walk, Take, KeepRule, ResetRule, FirstRule, Marks,
                  Insert, Release
    <2> QED BY <2>1 DEF Next, Command, Begin, Purge, Count, Generation, Flag, Change, Stop
  <1> QED BY <1>3, <1>4, <1>5, <1>6

(* A walk goes on from a rule of the list to the next.                     *)
LEMMA NextStands ==
    ASSUME IInv, WalkInv, NEW r \in Rules, r # Default, \E i \in DOMAIN list : list[i] = r
    PROVE  \E i \in DOMAIN list : list[i] = NextRule(r)
  <1>1. list \in Seq(Rules) /\ DOMAIN list = 1 .. Len(list) /\ list[Len(list)] = Default
    BY DEF IInv, TypeOK, ListOK
  <1>2. Contains(list, r)
    BY <1>1 DEF Contains
  <1>3. PICK k \in 1 .. Len(list) : list[k] = r
    BY <1>1
  <1>4. k + 1 \in 2 .. Len(list) /\ list[(k + 1) - 1] = r
    <2> DEFINE n == Len(list)
    <2>1. k # n
      BY <1>1, <1>3
    <2>2. n \in Nat /\ k \in 1 .. n
      BY <1>1, <1>3
    <2> HIDE DEF n
    <2>3. k + 1 \in 2 .. n /\ (k + 1) - 1 = k
      BY <2>1, <2>2
    <2> QED BY <1>3, <2>3 DEF n
  <1>5. (CHOOSE i \in 2 .. Len(list) : list[i - 1] = r) \in 2 .. Len(list)
    BY <1>4
  <1> DEFINE m == CHOOSE i \in 2 .. Len(list) : list[i - 1] = r
  <1>6. NextRule(r) = list[m] /\ m \in 2 .. Len(list)
    BY <1>2, <1>5 DEF NextRule
  <1> HIDE DEF m
  <1>7. m \in DOMAIN list
    BY <1>1, <1>6
  <1> QED BY <1>6, <1>7

(* Nobody fails while he stands on a rule of the list, and nobody leaves it*)
(* while somebody walks.                                                   *)
LEMMA WalkInvStep ==
    ASSUME IInv, WalkInv, LockedNext
    PROVE  WalkInv'
  <1>1. Next /\ Linked' /\ Distinct'
    BY LinkedStep DEF LockedNext
  <1>2. /\ \A h \in Handlers : job[h] \in Jobs /\ JobOK(job[h], hashed)
        /\ job \in [Handlers -> Jobs] /\ Locked /\ Standing /\ ~lbug
    BY DEF IInv, TypeOK, JobsOK, WalkInv
  <1>3. ASSUME NEW h \in Handlers, list' = list, \A g \in Handlers \ {h} : job'[g] = job[g],
               job'[h].at \in {"walk", "take"} => \E i \in DOMAIN list : list[i] = job'[h].rule
        PROVE  Standing'
    BY <1>2, <1>3 DEF Standing
  <1>4. ASSUME NEW h \in Handlers, Match(h) PROVE ~lbug' /\ Standing'
    <2>1. /\ job'[h].rule = list[1] /\ list' = list /\ ~lbug'
          /\ \A g \in Handlers \ {h} : job'[g] = job[g]
      BY <1>2, <1>4 DEF Match, Jobs
    <2>2. 1 \in DOMAIN list
      BY DEF IInv, TypeOK, ListOK
    <2> QED BY <1>3, <2>1, <2>2
  <1>5. ASSUME NEW h \in Handlers, Walk(h) PROVE ~lbug' /\ Standing'
    <2> DEFINE r == job[h].rule
    <2>1. job[h].at = "walk" /\ r \in Rules /\ list' = list
      BY <1>2, <1>5 DEF Walk, JobOK
    <2>2. /\ \E i \in DOMAIN list : list[i] = r
          /\ rule[r].st = "listed"
      BY <1>2, <2>1 DEF Standing, WalkInv, Linked
    <2>3. ~lbug' /\ \/ Covers(r, job[h].cli) /\ Goto(h, "take")
                    \/ ~Covers(r, job[h].cli) /\ job' = [job EXCEPT ![h].rule = NextRule(r)]
      BY <1>2, <1>5, <2>2 DEF Walk
    <2>4. CASE Goto(h, "take")
      <3>1. job'[h].rule = r /\ \A g \in Handlers \ {h} : job'[g] = job[g]
        BY <1>2, <2>4 DEF Goto, Jobs
      <3> QED BY <1>3, <2>1, <2>2, <2>3, <3>1
    <2>5. CASE ~Covers(r, job[h].cli) /\ job' = [job EXCEPT ![h].rule = NextRule(r)]
      <3>1. job'[h].rule = NextRule(r) /\ \A g \in Handlers \ {h} : job'[g] = job[g]
        BY <1>2, <2>5 DEF Jobs
      <3>2. r # Default
        BY <2>5 DEF Covers
      <3>3. \E i \in DOMAIN list : list[i] = NextRule(r)
        BY <2>1, <2>2, <3>2, NextStands
      <3> QED BY <1>3, <2>1, <2>3, <3>1, <3>3
    <2> QED BY <2>3, <2>4, <2>5
  <1>6. ASSUME NEW h \in Handlers, Take(h) PROVE ~lbug' /\ Standing'
    <2>1. /\ job[h].at = "take" /\ list' = list
          /\ \E i \in DOMAIN list : list[i] = job[h].rule
      BY <1>2, <1>6 DEF Take, Standing
    <2>2. rule[job[h].rule].st = "listed"
      BY <2>1 DEF WalkInv, Linked
    <2>3. ~lbug' /\ Goto(h, "reset")
      BY <1>2, <1>6, <2>2 DEF Take
    <2>4. job'[h].at = "reset" /\ \A g \in Handlers \ {h} : job'[g] = job[g]
      BY <1>2, <2>3 DEF Goto, Jobs
    <2> QED BY <1>3, <2>1, <2>3, <2>4
  <1>7. ASSUME NEW h \in Handlers,
               \/ Check(h) \/ KeepRule(h) \/ ResetRule(h) \/ FirstRule(h) \/ Marks(h)
               \/ Insert(h) \/ Release(h) \/ \E c \in Clients : Begin(h, c)
        PROVE  ~lbug' /\ Standing'
    <2>1. list' = list /\ lbug' = lbug
      BY <1>7 DEF Check, KeepRule, ResetRule, FirstRule, Marks, Insert, Release, Begin
    <2>2. \A g \in Handlers \ {h} : job'[g] = job[g]
      BY <1>2, <1>7 DEF Check, KeepRule, ResetRule, FirstRule, Marks, Insert, Release, Begin,
                        Goto
    <2>3. job'[h].at \in {"match", "marks", "hold", "insert", "idle", "check"}
      <3>1. \A place : Goto(h, place) => job'[h].at = place
        BY <1>2 DEF Goto, Jobs
      <3>2. CASE Check(h) \/ KeepRule(h) \/ ResetRule(h)
        BY <3>1, <3>2, Zenon DEF Check, KeepRule, ResetRule
      <3>3. CASE FirstRule(h)
        BY <1>2, <3>3 DEF FirstRule, Jobs
      <3>4. CASE Marks(h)
        BY <1>2, <3>1, <3>4 DEF Marks, Jobs
      <3>5. CASE Insert(h)
        BY <1>2, <3>5 DEF Insert, Jobs
      <3>6. CASE Release(h)
        BY <1>2, <3>6 DEF Release, NoJob
      <3>7. ASSUME NEW c \in Clients, Begin(h, c)
            PROVE  job'[h].at \in {"match", "check"}
        BY <1>2, <3>7 DEF Begin, NoJob
      <3> QED BY <1>7, <3>2, <3>3, <3>4, <3>5, <3>6, <3>7
    <2> QED BY <1>2, <1>3, <2>1, <2>2, <2>3
  <1>8. ASSUME NEW c \in Clients, Purge(c) PROVE ~lbug' /\ Standing'
    BY <1>2, <1>8 DEF Purge, Standing
  <1>9. ASSUME Unlink PROVE ~lbug' /\ Standing'
    <2>1. walker = None /\ job' = job /\ lbug' = lbug
      BY <1>9 DEF LockedNext, Unlink
    <2>2. \A h \in Handlers : job[h].at \notin {"walk", "take"}
      BY <1>2, <2>1, RulesAssumption DEF Locked
    <2> QED BY <1>2, <2>1, <2>2 DEF Standing
  <1>10. ASSUME NEW name \in Names, NEW covers \in SUBSET Clients, NEW r \in Rules,
                Start(name, covers, r)
         PROVE  ~lbug' /\ Standing'
    <2>1. /\ walker = None /\ lbug' = lbug
          /\ \A h \in Handlers : job'[h].at = job[h].at
      BY <1>2, <1>10 DEF Start, Jobs
    <2>2. \A h \in Handlers : job[h].at \notin {"walk", "take"}
      BY <1>2, <2>1, RulesAssumption DEF Locked
    <2> QED BY <1>2, <2>1, <2>2 DEF Standing
  <1>11. ASSUME Count \/ Generation \/ Flag \/ \E r \in Rules : Change(r) \/ Stop(r)
         PROVE  ~lbug' /\ Standing'
    BY <1>2, <1>11 DEF Count, Generation, Flag, Change, Stop, Standing
  <1>12. ~lbug' /\ Standing'
    BY <1>1, <1>4, <1>5, <1>6, <1>7, <1>8, <1>9, <1>10, <1>11 DEF Next, Handle, Command
  <1> QED BY <1>1, <1>12 DEF WalkInv

(* nrs_tbf_rule_match asserts that the rule it looks at is not stopped and *)
(* follows its list_head.  It fails only because nrs_tbf_rule_stop does    *)
(* not take th_rule_lock around list_del_init: with the lock there, and    *)
(* everything else as it is (flag and puts after it, without the lock), no *)
(* walk ever fails, whatever the handlers and the commands do.             *)
THEOREM OnlyUnlinkingFails == LockedSpec => []~lbug
  <1>1. Init => WalkInv
    <2> SUFFICES ASSUME Init PROVE WalkInv
      OBVIOUS
    <2>1. /\ list = <<Default>> /\ rule[Default].st = "listed" /\ ~lbug
          /\ \A h \in Handlers : job[h].at = "idle"
      BY RulesAssumption DEF Init, Free, NoJob
    <2> QED BY <2>1 DEF WalkInv, Linked, Distinct, Standing
  <1>2. IInv /\ WalkInv /\ [LockedNext]_vars => IInv' /\ WalkInv'
    <2>1. ASSUME WalkInv, UNCHANGED vars PROVE WalkInv'
      BY <2>1 DEF vars, WalkInv, Linked, Distinct, Standing
    <2>2. [LockedNext]_vars => [Next]_vars
      BY DEF LockedNext
    <2> QED BY <2>1, <2>2, WalkInvStep, Inductive
  <1>3. WalkInv => ~lbug
    BY DEF WalkInv
  <1> QED BY <1>1, <1>2, <1>3, Initially, PTL DEF LockedSpec

----------------------------------------------------------------------------
(* The rate and the generation of a rule are written, and read, one after  *)
(* the other (nrs_tbf_rule_change, nrs_tbf_cli_reset_value).               *)

Pending(r) == command.at = "generation" /\ command.rule = r
Taken(h) == IF job[h].own THEN job[h].rec ELSE cli[job[h].cli]
Marking(c) == \E h \in Handlers : job[h].cli = c /\ ~job[h].own /\ job[h].at = "marks"

(* A client that nobody is resetting, and whose generation is that of its  *)
(* rule while the rule is not being changed, has the rate of its rule.     *)
RatesFollow ==
    \A c \in hashed :
        ~Marking(c) /\ ~Pending(cli[c].rule) /\ cli[c].gen = rule[cli[c].rule].gen
            => cli[c].rate = rule[cli[c].rule].rate

(* A handler has read the rate from before a change that is complete now,  *)
(* and has yet to read the generation.                                     *)
Torn ==
    \E h \in Handlers : /\ job[h].at = "marks" /\ Taken(h).rule = command.rule
                        /\ Taken(h).rate # rule[command.rule].rate
UntornNext == Next /\ (Generation => ~Torn)
UntornSpec == Init /\ [][UntornNext]_vars

(* The rate counts the changes and the generation those that are complete; *)
(* who has the present generation has a rate that is no older.             *)
Counted == \A r \in Rules : rule[r].st # "free" => rule[r].rate = rule[r].gen + One(Pending(r))
Within(f) == f.rate \in rule[f.rule].gen .. rule[f.rule].rate
Dated(f) == /\ f.gen <= rule[f.rule].gen
            /\ f.gen = rule[f.rule].gen => Within(f)
RatesInv ==
    /\ Counted
    /\ \A c \in hashed : ~Marking(c) => Dated(cli[c])
    /\ \A h \in Handlers : /\ job[h].at = "marks" => Within(Taken(h))
                           /\ job[h].at = "insert" => Dated(job[h].rec)

(* Memory is taken for a rule by a start only.                             *)
LEMMA FreeStays ==
    ASSUME IInv, Next, NEW r \in Rules, rule[r].st = "free"
    PROVE  \/ rule'[r].st = "free"
           \/ rule'[r].rate = 0 /\ rule'[r].gen = 0 /\ command'.at = "count"
  <1>1. rule \in [Rules -> Memory]
    BY DEF IInv, TypeOK
  <1>2. ASSUME NEW R, R \in [Rules -> Memory], R[r].st = "free", NEW q, NEW n,
               rule' = Put(R, q, n)
        PROVE  rule'[r].st = "free"
    BY <1>2 DEF Put, Free, Memory
  <1>3. ASSUME NEW h \in Handlers, Handle(h) PROVE rule'[r].st = "free"
    <2>1. CASE Check(h) \/ Match(h) \/ Walk(h) \/ FirstRule(h) \/ Marks(h) \/ Release(h)
      BY <2>1 DEF Check, Match, Walk, FirstRule, Marks, Release
    <2>2. CASE Take(h)
      BY <1>1, <2>2 DEF Take, Get
    <2>3. CASE KeepRule(h) \/ ResetRule(h) \/ Insert(h)
      BY <1>1, <1>2, <2>3 DEF KeepRule, ResetRule, Insert
    <2> QED BY <1>3, <2>1, <2>2, <2>3 DEF Handle
  <1>4. ASSUME NEW c \in Clients, Purge(c) PROVE rule'[r].st = "free"
    BY <1>1, <1>2, <1>4 DEF Purge
  <1>5. ASSUME NEW name \in Names, NEW covers \in SUBSET Clients, NEW q \in Rules,
               Start(name, covers, q)
        PROVE  \/ rule'[r].st = "free"
               \/ rule'[r].rate = 0 /\ rule'[r].gen = 0 /\ command'.at = "count"
    <2>1. CASE q = r
      <3> DEFINE m == [Free EXCEPT !.st = "listed", !.name = name, !.covers = covers, !.ref = 1]
      <3>1. rule'[r] = m /\ command'.at = "count"
        BY <1>1, <1>5, <2>1 DEF Start
      <3> QED BY <3>1 DEF Free
    <2>2. CASE q # r
      BY <1>1, <1>5, <2>2 DEF Start
    <2> QED BY <2>1, <2>2
  <1>6. ASSUME NEW q \in Rules, Change(q) \/ Stop(q) PROVE rule'[r].st = "free"
    BY <1>1, <1>6 DEF Change, Stop, Get
  <1>7. CASE Generation
    <2>1. PICK q \in Rules : q = command.rule
      BY <1>7 DEF Generation, IInv, CommandOK
    <2> DEFINE R == [rule EXCEPT ![q].gen = @ + 1]
    <2>2. rule' = Put(R, q, 1)
      BY <1>7, <2>1 DEF Generation
    <2>3. R \in [Rules -> Memory] /\ R[r].st = "free"
      BY <1>1, <2>1 DEF Memory
    <2> HIDE DEF R
    <2> QED BY <1>2, <2>2, <2>3
  <1>8. CASE Unlink
    <2>1. command.rule # r
      BY <1>8 DEF Unlink, IInv, CommandOK
    <2> QED BY <1>1, <1>8, <2>1 DEF Unlink
  <1>9. CASE Flag
    <2>1. PICK q \in Rules : q = command.rule /\ q # r
      BY <1>9 DEF Flag, IInv, CommandOK
    <2> DEFINE R == [rule EXCEPT ![q].st = "stopping"]
    <2>2. rule' = Put(R, q, 2)
      BY <1>9, <2>1 DEF Flag
    <2>3. R \in [Rules -> Memory] /\ R[r].st = "free"
      BY <1>1, <2>1 DEF Memory, RuleStates
    <2> HIDE DEF R
    <2> QED BY <1>2, <2>2, <2>3
  <1>10. CASE Count \/ \E h \in Handlers, c \in Clients : Begin(h, c)
    BY <1>10 DEF Count, Begin
  <1> QED BY <1>3, <1>4, <1>5, <1>6, <1>7, <1>8, <1>9, <1>10 DEF Next, Command

(* The rate of a rule is ahead of its generation during a change only.     *)
LEMMA CountedStep ==
    ASSUME IInv, Counted, Next
    PROVE  Counted'
  <1> SUFFICES ASSUME NEW r \in Rules, rule'[r].st # "free"
               PROVE  rule'[r].rate = rule'[r].gen + One(Pending(r)')
    BY DEF Counted
  <1>1. rule \in [Rules -> Memory] /\ rule[r].rate \in Nat /\ rule[r].gen \in Nat
    BY DEF IInv, TypeOK, Memory
  <1>2. CASE rule[r].st = "free"
    BY <1>2, FreeStays DEF Pending, One
  <1>3. CASE rule[r].st # "free"
    <2>1. rule[r].rate = rule[r].gen + One(Pending(r)) /\ ~Freed(r)
      BY <1>3 DEF Counted, Freed, Free
    <2>2. ASSUME NEW q \in Rules, Change(q) PROVE rule'[r].rate = rule'[r].gen + One(Pending(r)')
      <3>1. ~Pending(r) /\ (Pending(r)' <=> q = r)
        BY <2>2 DEF Change, Pending
      <3> QED BY <1>1, <2>1, <2>2, <3>1, ChangeEffect DEF One, Still
    <2>3. CASE Generation
      <3>1. (Pending(r) <=> r = command.rule) /\ ~Pending(r)'
        BY <2>3 DEF Generation, Pending, NoCommand
      <3> QED BY <1>1, <2>1, <2>3, <3>1, GenerationEffect DEF One, Still
    <2>4. ASSUME ~Generation, ~\E q \in Rules : Change(q)
          PROVE  rule'[r].rate = rule[r].rate /\ rule'[r].gen = rule[r].gen
      <3>1. \A q : Change(q) => q \in Rules
        <4>1. \A q : Change(q) => command'.rule = q /\ command'.at = "generation"
          BY DEF Change
        <4>2. IInv'
          BY Inductive
        <4> QED BY <4>1, <4>2 DEF IInv, CommandOK
      <3> QED BY <1>3, <2>1, <2>4, <3>1, RuleStep DEF Still, Commanded
    <2>5. ASSUME ~Generation, ~\E q \in Rules : Change(q)
          PROVE  Pending(r)' <=> Pending(r)
      <3>1. ASSUME NEW h \in Handlers, Handle(h) PROVE command' = command
        BY <3>1 DEF Handle, Check, Match, Walk, Take, KeepRule, ResetRule, FirstRule, Marks,
                    Insert, Release
      <3>2. ASSUME command' # command PROVE Command
        BY <3>1, <3>2 DEF Next, Begin, Purge
      <3>3. CASE command' = command
        BY <3>3 DEF Pending
      <3>4. CASE command' # command
        <4>1. ASSUME \/ Count \/ Unlink \/ Flag
                     \/ \E q \in Rules : Stop(q)
                     \/ \E name \in Names, covers \in SUBSET Clients, q \in Rules :
                           Start(name, covers, q)
              PROVE  command.at # "generation" /\ command'.at # "generation"
          <5>1. Count \/ Unlink \/ Flag => command.at # "generation" /\ command'.at # "generation"
            BY DEF Count, Unlink, Flag, NoCommand, IInv, TypeOK, Commands
          <5>2. \A q : Stop(q) => command.at # "generation" /\ command'.at # "generation"
            BY DEF Stop
          <5>3. \A name, covers, q : Start(name, covers, q)
                   => command.at # "generation" /\ command'.at # "generation"
            BY DEF Start
          <5> QED BY <4>1, <5>1, <5>2, <5>3
        <4>2. ~Pending(r) /\ ~Pending(r)'
          BY <2>5, <3>2, <3>4, <4>1 DEF Command, Pending
        <4> QED BY <4>2
      <3> QED BY <3>3, <3>4
    <2> QED BY <2>1, <2>2, <2>3, <2>4, <2>5 DEF One
  <1> QED BY <1>2, <1>3

(* What was read of a rule in use ages in a way that can be told.          *)
LEMMA Carries ==
    ASSUME IInv, Counted, Next, NEW f \in Fields, f.rule \in Rules,
           rule[f.rule].st # "free", rule'[f.rule].st # "free"
    PROVE  /\ Dated(f) => Dated(f)'
           /\ Within(f) /\ (Generation /\ command.rule = f.rule => f.rate = rule[f.rule].rate)
                => Within(f)'
  <1>1. PICK r \in Rules : r = f.rule
    OBVIOUS
  <1>2. rule[r].rate \in Nat /\ rule[r].gen \in Nat /\ f.rate \in Nat /\ f.gen \in Nat
    BY DEF IInv, TypeOK, Memory, Fields
  <1>3. Still(r) \/ Commanded(r)
    BY <1>1, RuleStep DEF Freed, Free
  <1>4. CASE rule'[r].gen = rule[r].gen /\ rule'[r].rate \in {rule[r].rate, rule[r].rate + 1}
    BY <1>1, <1>2, <1>4 DEF Dated, Within
  <1>5. CASE Generation /\ command.rule = r /\ rule'[r].gen = rule[r].gen + 1
             /\ rule'[r].rate = rule[r].rate
    <2>1. rule[r].rate = rule[r].gen + 1
      BY <1>1, <1>5 DEF Counted, Pending, One, Generation
    <2> QED BY <1>1, <1>2, <1>5, <2>1 DEF Dated, Within
  <1> QED BY <1>3, <1>4, <1>5 DEF Still, Commanded

(* What a step must say of those that it does not leave as they are.       *)
LEMMA Settles ==
    ASSUME IInv, RatesInv, UntornNext,
           \A c \in hashed' : ~Marking(c)' =>
              (c \in hashed /\ ~Marking(c) /\ cli'[c] = cli[c]) \/ Dated(cli[c])',
           \A h \in Handlers : job'[h].at = "marks" =>
              (job[h].at = "marks" /\ Taken(h)' = Taken(h)) \/ Within(Taken(h))',
           \A h \in Handlers : job'[h].at = "insert" =>
              (job[h].at = "insert" /\ job'[h].rec = job[h].rec) \/ Dated(job[h].rec)'
    PROVE  RatesInv'
  <1>1. Next /\ Counted /\ Counted' /\ IInv' /\ RulesInUse /\ RulesInUse'
    <2>1. Next /\ IInv'
      BY Inductive DEF UntornNext
    <2>2. RulesInUse'
      BY <2>1, InUse, PTL
    <2> QED BY <2>1, <2>2, CountedStep, InUse DEF RatesInv
  <1>2. ASSUME NEW c \in hashed', ~Marking(c)' PROVE Dated(cli[c])'
    <2>1. CASE c \in hashed /\ ~Marking(c) /\ cli'[c] = cli[c]
      <3>1. PICK f \in Fields : f = cli[c]
        BY <2>1 DEF IInv, TypeOK
      <3>2. f.rule \in Rules /\ rule[f.rule].st # "free" /\ rule'[f.rule].st # "free" /\ Dated(f)
        BY <1>1, <1>2, <2>1, <3>1 DEF RulesInUse, RatesInv
      <3>3. Dated(f)'
        BY <1>1, <3>2, Carries
      <3> QED BY <2>1, <3>1, <3>3 DEF Dated, Within
    <2> QED BY <1>2, <2>1
  <1>3. ASSUME NEW h \in Handlers, job'[h].at = "marks" PROVE Within(Taken(h))'
    <2>1. CASE job[h].at = "marks" /\ Taken(h)' = Taken(h)
      <3>1. PICK f \in Fields : f = Taken(h)
        BY <2>1 DEF IInv, TypeOK, Taken, Jobs, JobsOK, JobOK
      <3>2. f.rule \in Rules /\ rule[f.rule].st # "free"
        BY <1>1, <2>1, <3>1 DEF RulesInUse, Taken, Holds, IInv, JobsOK, JobOK
      <3>3. rule'[f.rule].st # "free"
        BY <1>1, <1>3, <2>1, <3>1, <3>2 DEF RulesInUse, Taken, Holds, IInv, JobsOK, JobOK
      <3>4. Within(f) /\ (Generation /\ command.rule = f.rule => f.rate = rule[f.rule].rate)
        BY <2>1, <3>1 DEF RatesInv, UntornNext, Torn
      <3>5. Within(f)'
        BY <1>1, <3>2, <3>3, <3>4, Carries
      <3> QED BY <2>1, <3>1, <3>5 DEF Within
    <2> QED BY <1>3, <2>1
  <1>4. ASSUME NEW h \in Handlers, job'[h].at = "insert" PROVE Dated(job[h].rec)'
    <2>1. CASE job[h].at = "insert" /\ job'[h].rec = job[h].rec
      <3>1. PICK f \in Fields : f = job[h].rec
        BY DEF IInv, TypeOK, Jobs
      <3>2. f.rule \in Rules /\ rule[f.rule].st # "free" /\ Dated(f)
        BY <1>1, <2>1, <3>1 DEF RulesInUse, Holds, IInv, JobsOK, JobOK, RatesInv
      <3>3. rule'[f.rule].st # "free"
        BY <1>1, <1>4, <2>1, <3>1, <3>2 DEF RulesInUse, Holds, IInv, JobsOK, JobOK
      <3>4. Dated(f)'
        BY <1>1, <3>2, <3>3, Carries
      <3> QED BY <2>1, <3>1, <3>4 DEF Dated, Within
    <2> QED BY <1>4, <2>1
  <1> QED BY <1>1, <1>2, <1>3, <1>4 DEF RatesInv

(* What a handler leaves alone: the clients that are not its own, and the  *)
(* other handlers, who do not use its client under scp_req_lock with it.   *)
LEMMA Aside ==
    ASSUME IInv, NEW h \in Handlers, \A g \in Handlers \ {h} : job'[g] = job[g],
           job[h].at # "marks" \/ job[h].own, job'[h].at # "marks" \/ job'[h].own,
           cli' = cli, hashed' = hashed
    PROVE  /\ \A c \in hashed' : ~Marking(c)' => c \in hashed /\ ~Marking(c) /\ cli'[c] = cli[c]
           /\ \A g \in Handlers \ {h} : /\ job'[g] = job[g]
                                        /\ Taken(g)' = Taken(g)
  <1>1. \A c : Marking(c)' <=> Marking(c)
    BY DEF Marking
  <1> QED BY <1>1 DEF Taken

(* The same for a handler that changes its client, while nobody else uses  *)
(* it under scp_req_lock.                                                  *)
LEMMA AsideOfClient ==
    ASSUME IInv, NEW h \in Handlers, \A g \in Handlers \ {h} : job'[g] = job[g],
           job'[h].cli = job[h].cli, ~job[h].own, hashed' = hashed,
           \A d \in Clients \ {job[h].cli} : cli'[d] = cli[d],
           \A g \in Handlers \ {h} : job[g].at = "marks" => job[g].own
    PROVE  /\ \A c \in hashed' : c # job[h].cli /\ ~Marking(c)'
                 => c \in hashed /\ ~Marking(c) /\ cli'[c] = cli[c]
           /\ \A g \in Handlers \ {h} : job[g].at = "marks" => Taken(g)' = Taken(g)
  <1>1. \A c : c # job[h].cli => (Marking(c)' <=> Marking(c))
    BY DEF Marking
  <1>2. hashed \subseteq Clients
    BY DEF IInv, TypeOK
  <1> QED BY <1>1, <1>2 DEF Taken

(* The steps of a call: what it reads it reads as it is.                   *)
LEMMA RatesHandle ==
    ASSUME IInv, SInv, RatesInv, UntornNext, NEW h \in Handlers, Handle(h)
    PROVE  RatesInv'
  <1> DEFINE c == job[h].cli
             q == job[h].rule
  <1>1. /\ job \in [Handlers -> Jobs] /\ job[h] \in Jobs /\ JobOK(job[h], hashed)
        /\ rule \in [Rules -> Memory] /\ cli \in [Clients -> Fields] /\ hashed \subseteq Clients
        /\ \A r \in Rules : rule[r].rate \in Nat /\ rule[r].gen \in Nat
        /\ \A r \in Rules : rule[r].st # "free" => rule[r].rate >= rule[r].gen
    <2>1. \A r \in Rules : rule[r].rate \in Nat /\ rule[r].gen \in Nat
      BY DEF IInv, TypeOK, Memory
    <2>2. \A r \in Rules : rule[r].st # "free" => rule[r].rate >= rule[r].gen
      BY <2>1 DEF RatesInv, Counted, One
    <2> QED BY <2>1, <2>2 DEF IInv, TypeOK, JobsOK
  <1>2. \A place : Goto(h, place) =>
           /\ job'[h].at = place /\ job'[h].cli = c /\ job'[h].own = job[h].own
           /\ job'[h].rec = job[h].rec
           /\ \A g \in Handlers \ {h} : job'[g] = job[g]
    BY <1>1 DEF Goto, Jobs
  <1>3. ASSUME \A g \in Handlers \ {h} : job'[g] = job[g],
               job[h].at # "marks", job'[h].at \notin {"marks", "insert"},
               cli' = cli, hashed' = hashed
        PROVE  RatesInv'
    BY <1>3, Aside, Settles
  <1>4. RulesInUse
    BY InUse
  <1>5. CASE Match(h) \/ Walk(h) \/ Take(h) \/ KeepRule(h) \/ Release(h)
    <2>1. /\ \A g \in Handlers \ {h} : job'[g] = job[g]
          /\ job[h].at # "marks" /\ job'[h].at \notin {"marks", "insert"}
      <3>1. CASE Match(h)
        BY <1>1, <3>1 DEF Match, Jobs
      <3>2. CASE Walk(h)
        BY <1>1, <1>2, <3>2 DEF Walk, Jobs
      <3>3. CASE Take(h) \/ KeepRule(h)
        BY <1>1, <1>2, <3>3 DEF Take, KeepRule, Jobs
      <3>4. CASE Release(h)
        BY <1>1, <3>4 DEF Release, NoJob
      <3> QED BY <1>5, <3>1, <3>2, <3>3, <3>4
    <2>2. cli' = cli /\ hashed' = hashed
      BY <1>5 DEF Match, Walk, Take, KeepRule, Release
    <2> QED BY <1>3, <2>1, <2>2
  <1>6. ASSUME Check(h) \/ ResetRule(h), Goto(h, "marks"), NEW r \in Rules,
               rule[r].st # "free", rule'[r] = rule[r],
               cli'[c].rule = r, cli'[c].rate = rule[r].rate,
               \A d \in Clients \ {c} : cli'[d] = cli[d]
        PROVE  RatesInv'
    <2>1. /\ ~job[h].own /\ hashed' = hashed /\ job[h].at # "marks"
          /\ \A g \in Handlers \ {h} : job[g].at = "marks" => job[g].own
      BY <1>1, <1>6 DEF Check, ResetRule, JobOK, HoldsReqLock, SInv, Alone
    <2>2. Within(Taken(h))'
      BY <1>1, <1>2, <1>6, <2>1 DEF Within, Taken
    <2>3. Marking(c)'
      BY <1>2, <1>6, <2>1 DEF Marking
    <2>4. /\ \A d \in hashed' : d # c /\ ~Marking(d)'
                => d \in hashed /\ ~Marking(d) /\ cli'[d] = cli[d]
          /\ \A g \in Handlers \ {h} : job[g].at = "marks" => Taken(g)' = Taken(g)
      BY <1>2, <1>6, <2>1, AsideOfClient
    <2> QED BY <1>2, <1>6, <2>1, <2>2, <2>3, <2>4, Settles
  <1>7. CASE Check(h)
    <2> DEFINE r == cli[c].rule
    <2>1. CASE cli' = cli /\ \E place \in {"match", "hold"} : Goto(h, place)
      BY <1>2, <1>3, <1>7, <2>1 DEF Check
    <2>2. CASE Goto(h, "marks") /\ cli' = [cli EXCEPT ![c].rate = rule[r].rate]
      <3>1. c \in hashed /\ c \in Clients /\ r \in Rules /\ rule[r].st # "free" /\ rule' = rule
        BY <1>1, <1>4, <1>7 DEF Check, JobOK, RulesInUse
      <3>2. /\ cli'[c].rule = r /\ cli'[c].rate = rule[r].rate
            /\ \A d \in Clients \ {c} : cli'[d] = cli[d]
        BY <1>1, <2>2, <3>1 DEF Fields
      <3> QED BY <1>6, <1>7, <2>2, <3>1, <3>2
    <2> QED BY <1>7, <2>1, <2>2 DEF Check
  <1>8. CASE ResetRule(h)
    <2>1. /\ job[h].at = "reset" /\ ~job[h].own /\ cli[c].rule # q
          /\ c \in hashed /\ c \in Clients
          /\ q \in Rules /\ rule' = Put(rule, cli[c].rule, 1) /\ Goto(h, "marks")
          /\ cli' = [cli EXCEPT ![c].rule = q, ![c].rate = rule[q].rate]
      BY <1>1, <1>8 DEF ResetRule, JobOK
    <2>2. /\ cli'[c].rule = q /\ cli'[c].rate = rule[q].rate
          /\ \A d \in Clients \ {c} : cli'[d] = cli[d]
      BY <1>1, <2>1 DEF Fields
    <2>3. rule[q].st # "free" /\ rule'[q] = rule[q]
      BY <1>1, <1>4, <2>1 DEF RulesInUse, Holds, Put
    <2> QED BY <1>6, <1>8, <2>1, <2>2, <2>3
  <1>9. CASE FirstRule(h)
    <2>1. /\ job[h].at = "reset" /\ job[h].own /\ q \in Rules /\ rule[q].st # "free"
          /\ rule' = rule /\ cli' = cli /\ hashed' = hashed
          /\ job'[h].at = "marks" /\ job'[h].own
          /\ job'[h].rec = [NoFields EXCEPT !.rule = q, !.rate = rule[q].rate]
          /\ \A g \in Handlers \ {h} : job'[g] = job[g]
      BY <1>1, <1>4, <1>9 DEF FirstRule, Jobs, JobOK, RulesInUse, Holds
    <2>2. Within(Taken(h))'
      BY <1>1, <2>1 DEF Within, Taken, NoFields
    <2> QED BY <2>1, <2>2, Aside, Settles
  <1>10. CASE Marks(h) /\ job[h].own
    <2> DEFINE f == job[h].rec
    <2>1. /\ job[h].at = "marks" /\ f \in Fields /\ f.rule \in Rules
          /\ rule' = rule /\ cli' = cli /\ hashed' = hashed
          /\ job' = [job EXCEPT ![h].at = "insert", ![h].rec = Marked(f)]
      BY <1>1, <1>10 DEF Marks, Jobs, JobOK
    <2>2. /\ job'[h].at = "insert" /\ job'[h].rec = Marked(f)
          /\ \A g \in Handlers \ {h} : job'[g] = job[g]
      BY <1>1, <2>1 DEF Jobs
    <2>3. Within(f)
      BY <1>10, <2>1 DEF RatesInv, Taken
    <2>4. Dated(job[h].rec)'
      <3>1. Marked(f).rule = f.rule /\ Marked(f).rate = f.rate /\ Marked(f).gen = rule[f.rule].gen
        BY <2>1 DEF Marked, Fields
      <3> QED BY <1>1, <2>1, <2>2, <2>3, <3>1 DEF Dated, Within
    <2> QED BY <1>10, <2>1, <2>2, <2>4, Aside, Settles
  <1>11. CASE Marks(h) /\ ~job[h].own
    <2> DEFINE f == cli[c]
    <2>1. /\ job[h].at = "marks" /\ c \in hashed /\ c \in Clients
          /\ f \in Fields /\ f.rule \in Rules
          /\ rule' = rule /\ hashed' = hashed /\ Goto(h, "hold")
          /\ cli' = [cli EXCEPT ![c] = Marked(f)]
      BY <1>1, <1>4, <1>11 DEF Marks, JobOK, RulesInUse
    <2>2. Within(f)
      BY <1>11, <2>1 DEF RatesInv, Taken
    <2>3. Dated(cli[c])'
      <3>1. Marked(f).rule = f.rule /\ Marked(f).rate = f.rate /\ Marked(f).gen = rule[f.rule].gen
        BY <2>1 DEF Marked, Fields
      <3>2. c' = c
        BY <1>2, <2>1
      <3>3. cli'[c] = Marked(f)
        BY <1>1, <2>1
      <3> QED BY <1>1, <2>1, <2>2, <3>1, <3>2, <3>3 DEF Dated, Within
    <2>4. \A g \in Handlers \ {h} : job[g].at = "marks" => job[g].own
      BY <1>11, <2>1 DEF HoldsReqLock, SInv, Alone
    <2>5. \A d \in Clients \ {c} : cli'[d] = cli[d]
      BY <1>1, <2>1
    <2> QED BY <1>2, <1>11, <2>1, <2>3, <2>4, <2>5, AsideOfClient, Settles
  <1>12. CASE Insert(h)
    <2> DEFINE f == job[h].rec
    <2>1. /\ job[h].at = "insert" /\ job[h].own /\ c \in Clients /\ Dated(f)
          /\ job'[h].at = "hold" /\ \A g \in Handlers \ {h} : job'[g] = job[g]
      BY <1>1, <1>12 DEF Insert, Jobs, JobOK, RatesInv
    <2>2. CASE c \in hashed
      BY <1>3, <1>12, <2>1, <2>2 DEF Insert
    <2>3. CASE c \notin hashed
      <3>1. /\ hashed' = hashed \cup {c} /\ rule' = rule /\ cli'[c] = f
            /\ \A d \in Clients \ {c} : cli'[d] = cli[d]
        BY <1>1, <1>12, <2>1, <2>3 DEF Insert
      <3>2. \A g \in Handlers : job[g].at = "marks" /\ ~job[g].own
                                  => job[g].cli # c /\ job[g].cli \in Clients
        BY <2>3 DEF IInv, JobsOK, JobOK
      <3>3. \A g \in Handlers \ {h} : job[g].at = "marks" => Taken(g)' = Taken(g)
        BY <2>1, <3>1, <3>2 DEF Taken
      <3>4. \A d : Marking(d)' <=> Marking(d)
        BY <2>1 DEF Marking
      <3>5. ASSUME NEW d \in hashed', ~Marking(d)'
            PROVE  (d \in hashed /\ ~Marking(d) /\ cli'[d] = cli[d]) \/ Dated(cli[d])'
        BY <1>1, <2>1, <3>1, <3>4, <3>5 DEF Dated, Within
      <3> QED BY <2>1, <3>3, <3>5, Settles
    <2> QED BY <2>2, <2>3
  <1> QED BY <1>5, <1>7, <1>8, <1>9, <1>10, <1>11, <1>12 DEF Handle

(* The other steps change no client, but for a purge of one nobody uses.   *)
LEMMA RatesElse ==
    ASSUME IInv, RatesInv, UntornNext, ~\E h \in Handlers : Handle(h)
    PROVE  RatesInv'
  <1>1. job \in [Handlers -> Jobs] /\ cli \in [Clients -> Fields] /\ hashed \subseteq Clients
    BY DEF IInv, TypeOK
  <1>2. ASSUME NEW h \in Handlers, NEW c \in Clients, Begin(h, c)
        PROVE  RatesInv'
    <2>1. /\ job[h].at = "idle" /\ job'[h].at \in {"check", "match"}
          /\ cli' = cli /\ hashed' = hashed /\ \A g \in Handlers \ {h} : job'[g] = job[g]
      BY <1>1, <1>2 DEF Begin, NoJob
    <2> QED BY <2>1, Aside, Settles
  <1>3. ASSUME NEW c \in Clients, Purge(c)
        PROVE  RatesInv'
    <2>1. /\ hashed' = hashed \ {c} /\ job' = job /\ \A d \in Clients \ {c} : cli'[d] = cli[d]
      BY <1>1, <1>3 DEF Purge
    <2>2. \A h \in Handlers : job[h].at = "marks" /\ ~job[h].own
                                => job[h].cli # c /\ job[h].cli \in Clients
      BY <1>3 DEF Purge, Used, IInv, JobsOK, JobOK
    <2>3. \A h \in Handlers : job[h].at = "marks" => Taken(h)' = Taken(h)
      BY <2>1, <2>2 DEF Taken
    <2>4. \A d : Marking(d)' <=> Marking(d)
      BY <2>1 DEF Marking
    <2> QED BY <1>1, <2>1, <2>3, <2>4, Settles
  <1>4. CASE Command
    <2>1. /\ cli' = cli /\ hashed' = hashed
          /\ \A h \in Handlers : /\ job'[h].at = job[h].at /\ job'[h].cli = job[h].cli
                                 /\ job'[h].own = job[h].own /\ job'[h].rec = job[h].rec
      <3>1. ASSUME NEW name \in Names, NEW covers \in SUBSET Clients, NEW r \in Rules,
                   Start(name, covers, r)
            PROVE  /\ cli' = cli /\ hashed' = hashed
                   /\ \A h \in Handlers :
                         /\ job'[h].at = job[h].at /\ job'[h].cli = job[h].cli
                         /\ job'[h].own = job[h].own /\ job'[h].rec = job[h].rec
        BY <1>1, <3>1 DEF Start, Jobs
      <3> QED BY <1>4, <3>1 DEF Command, Count, Generation, Unlink, Flag, Change, Stop
    <2>2. \A h \in Handlers : Taken(h)' = Taken(h)
      BY <2>1 DEF Taken
    <2>3. \A d : Marking(d)' <=> Marking(d)
      BY <2>1 DEF Marking
    <2> QED BY <2>1, <2>2, <2>3, Settles
  <1> QED BY <1>2, <1>3, <1>4 DEF UntornNext, Next

(* A change of a rule reaches its clients by the generation, but its rate  *)
(* is written first and read first, with no lock that covers both.  A      *)
(* client is left with an old rate for good only when a whole change falls *)
(* between its two reads: without that, whoever has the generation of its  *)
(* rule has its rate, whatever else the calls, the purges and the commands *)
(* interleave, for any number of them.                                     *)
THEOREM OnlyTornReadsAreStale == UntornSpec => []RatesFollow
  <1>1. Init => RatesInv
    <2> SUFFICES ASSUME Init PROVE RatesInv
      OBVIOUS
    <2>1. /\ hashed = {} /\ \A h \in Handlers : job[h].at = "idle"
          /\ \A r : ~Pending(r)
      BY DEF Init, NoJob, NoCommand, Pending
    <2>2. \A r \in Rules : rule[r].rate = 0 /\ rule[r].gen = 0
      BY DEF Init, Free
    <2> QED BY <2>1, <2>2 DEF RatesInv, Counted, One
  <1>2. IInv /\ SInv /\ RatesInv /\ [UntornNext]_vars => IInv' /\ SInv' /\ RatesInv'
    <2>1. ASSUME RatesInv, UNCHANGED vars PROVE RatesInv'
      BY <2>1 DEF vars, RatesInv, Counted, Pending, Marking, Taken, Dated, Within
    <2>2. [UntornNext]_vars => [Next]_vars
      BY DEF UntornNext
    <2> QED BY <2>1, <2>2, RatesHandle, RatesElse, Inductive, StoppedInductive
  <1>3. IInv /\ RatesInv => RatesFollow
    <2> SUFFICES ASSUME IInv, RatesInv, NEW c \in hashed, ~Marking(c),
                        ~Pending(cli[c].rule), cli[c].gen = rule[cli[c].rule].gen
                 PROVE  cli[c].rate = rule[cli[c].rule].rate
      BY DEF RatesFollow
    <2>1. cli[c].rule \in Rules /\ rule[cli[c].rule].st # "free" /\ cli[c].rate \in Nat
      BY InUse DEF RulesInUse, IInv, TypeOK, Fields
    <2>2. /\ rule[cli[c].rule].rate = rule[cli[c].rule].gen /\ rule[cli[c].rule].gen \in Nat
          /\ Within(cli[c])
      BY <2>1 DEF RatesInv, Counted, One, Dated, IInv, TypeOK, Memory
    <2> QED BY <2>1, <2>2 DEF Within
  <1> QED BY <1>1, <1>2, <1>3, Initially, StoppedInductive, PTL DEF UntornSpec
=============================================================================
