------------------------------ MODULE TbfRules -------------------------------
(***************************************************************************)
(* The rules of a TBF policy and the clients they apply to.  The list of   *)
(* rules, newest first, is read under th_rule_lock; a client is moved to   *)
(* another rule under scp_req_lock, a new one under no lock at all; a      *)
(* command starts, changes or stops a rule under nrs_lock, one at a time   *)
(* because nrs_core.nrs_mutex is held around it.  Rules live as long as    *)
(* somebody counts in tr_ref.  A step is what no lock or no other reader   *)
(* can take apart.                                                         *)
(*                                                                         *)
(* Abstractions.  A command finds its rule in one step.  rate stands for   *)
(* tr_rpc_rate or for tr_nsecs, one at a time, counted in changes: each is *)
(* written before tr_generation and read before it.  That a client may have*)
(* the one from before a change and the other from after it is not seen.   *)
(* What a walk over th_list does when the rule it stands on is stopped (an *)
(* assertion fails, or memory is read that was freed) ends the run in      *)
(* "lbug".  The policy itself is not stopped.                              *)
(***************************************************************************)
EXTENDS Integers, Sequences, FiniteSets, SequencesExt

CONSTANTS
    Clients,    \* NIDs or jobs
    Handlers,   \* threads that get resources for requests
    Rules,      \* memory for nrs_tbf_rule
    Default,    \* the rule that is there from the beginning
    Names,      \* tr_name of the others
    MaxStarts,  \* bound on th_rule_sequence
    MaxChanges, \* bound on tr_generation
    MayPurge,   \* TRUE for jobs: unused clients are purged
    None

ASSUME RulesAssumption ==
    /\ Default \in Rules /\ Default \notin Names
    /\ None \notin Rules \cup Clients \cup Names \cup Handlers
    /\ IsFiniteSet(Clients) /\ IsFiniteSet(Handlers)
    /\ MaxStarts \in Nat /\ MaxChanges \in Nat /\ MayPurge \in BOOLEAN

VARIABLES
    list,    \* th_list
    rule,    \* rule[r]: what is in the memory of r
    seq,     \* th_rule_sequence
    hashed,  \* the clients in th_cli_hash
    cli,     \* cli[c]: the client in th_cli_hash
    job,     \* job[h]: a call of nrs_tbf_res_get, until nrs_tbf_res_put
    walker,  \* the handler that holds th_rule_lock, or None
    command, \* the command that is executed
    lbug     \* an assertion of a walk has failed

vars == <<list, rule, seq, hashed, cli, job, walker, command, lbug>>

RuleStates == {"free", "listed", "unlinked", "stopping"}
Free == [st |-> "free", name |-> None, covers |-> {}, rate |-> 0, gen |-> 0, ref |-> 0]
\* What a client takes over from its rule: tc_rule, tc_rpc_rate (or tc_nsecs),
\* tc_rule_sequence and tc_rule_generation.
Fields == [rule : Rules \cup {None}, rate : Nat, seq : Nat, gen : Nat]
NoFields == [rule |-> None, rate |-> 0, seq |-> 0, gen |-> 0]
(* A handler: where it is, for which client, the client it has allocated,  *)
(* the rule that its walk has reached, and, as history, the rules that     *)
(* were stopped when it began.                                             *)
NoJob == [at |-> "idle", cli |-> None, own |-> FALSE, rec |-> NoFields,
          rule |-> None, stopped |-> {}]
NoCommand == [at |-> "idle", rule |-> None]

Stopped(r) == rule[r].st = "stopping"
Covers(r, c) == r = Default \/ c \in rule[r].covers
Listed(name) == {r \in Rules : rule[r].st = "listed" /\ rule[r].name = name}

\* nrs_tbf_rule_put and nrs_tbf_rule_get, n times.
Put(R, r, n) ==
    IF R[r].ref = n THEN [R EXCEPT ![r] = Free] ELSE [R EXCEPT ![r].ref = @ - n]

\* Mutant: a rule is handed out uncounted.
GetUncounted(R, r) == R

Get(R, r) == [R EXCEPT ![r].ref = @ + 1]

Init ==
    /\ list = <<Default>>
    /\ rule = [r \in Rules |-> IF r = Default
                  THEN [Free EXCEPT !.st = "listed", !.name = Default, !.ref = 1] ELSE Free]
    /\ seq = 1
    /\ hashed = {} /\ cli = [c \in Clients |-> NoFields]
    /\ job = [h \in Handlers |-> NoJob]
    /\ walker = None
    /\ command = NoCommand
    /\ lbug = FALSE

----------------------------------------------------------------------------
(* nrs_tbf_res_get.                                                        *)

Goto(h, place) == job' = [job EXCEPT ![h].at = place]

\* o_cli_find: the client is looked up, or allocated.
Begin(h, c) ==
    /\ job[h].at = "idle"
    /\ job' = [job EXCEPT ![h] =
          [NoJob EXCEPT !.at = IF c \in hashed THEN "check" ELSE "match",
                        !.cli = c, !.own = c \notin hashed,
                        !.stopped = {r \in Rules : Stopped(r)}]]
    /\ UNCHANGED <<list, rule, seq, hashed, cli, walker, command, lbug>>

\* The handler that holds scp_req_lock.
HoldsReqLock(h) == ~job[h].own /\ job[h].at \in {"match", "walk", "take", "reset", "marks"}

\* Mutant: that a rule was stopped is not looked at.
OutdatedBySequence(c) == cli[c].seq # seq

Outdated(c) == cli[c].seq # seq \/ Stopped(cli[c].rule)

\* The three branches for a client that is known.
Check(h) ==
    LET c == job[h].cli IN
    /\ job[h].at = "check" /\ \A g \in Handlers : ~HoldsReqLock(g)
    /\ \/ Outdated(c) /\ Goto(h, "match") /\ UNCHANGED cli
       \/ /\ ~Outdated(c) /\ cli[c].gen # rule[cli[c].rule].gen
          /\ Goto(h, "marks")
          /\ cli' = [cli EXCEPT ![c].rate = rule[cli[c].rule].rate]
       \/ /\ ~Outdated(c) /\ cli[c].gen = rule[cli[c].rule].gen
          /\ Goto(h, "hold") /\ UNCHANGED cli
    /\ UNCHANGED <<list, rule, seq, hashed, walker, command, lbug>>

\* nrs_tbf_rule_match takes th_rule_lock and looks at the newest rule.
Match(h) ==
    /\ job[h].at = "match" /\ walker = None
    /\ walker' = h
    /\ job' = [job EXCEPT ![h].at = "walk", ![h].rule = list[1]]
    /\ UNCHANGED <<list, rule, seq, hashed, cli, command, lbug>>

\* list_del_init leaves a rule with itself as the next one.
NextRule(r) ==
    IF Contains(list, r)
    THEN list[CHOOSE i \in 2 .. Len(list) : list[i - 1] = r]
    ELSE r

\* LASSERT that the rule is not stopped, then o_rule_match.
Walk(h) ==
    LET r == job[h].rule IN
    /\ job[h].at = "walk"
    /\ \/ rule[r].st \in {"stopping", "free"} /\ lbug' = TRUE /\ UNCHANGED job
       \/ /\ rule[r].st \in {"listed", "unlinked"} /\ UNCHANGED lbug
          /\ \/ Covers(r, job[h].cli) /\ Goto(h, "take")
             \/ ~Covers(r, job[h].cli) /\ job' = [job EXCEPT ![h].rule = NextRule(r)]
    /\ UNCHANGED <<list, rule, seq, hashed, cli, walker, command>>

\* nrs_tbf_rule_get of a rule that may have been freed meanwhile.
Take(h) ==
    LET r == job[h].rule IN
    /\ job[h].at = "take"
    /\ \/ rule[r].st = "free" /\ lbug' = TRUE /\ UNCHANGED <<rule, job, walker>>
       \/ /\ rule[r].st # "free" /\ UNCHANGED lbug
          /\ rule' = Get(rule, r)
          /\ walker' = None
          /\ Goto(h, "reset")
    /\ UNCHANGED <<list, seq, hashed, cli, command>>

\* The client has this rule already.
KeepRule(h) ==
    LET r == job[h].rule IN
    /\ job[h].at = "reset" /\ ~job[h].own /\ cli[job[h].cli].rule = r
    /\ rule' = Put(rule, r, 1)
    /\ Goto(h, "hold")
    /\ UNCHANGED <<list, seq, hashed, cli, walker, command, lbug>>

\* Mutant: the rule that the client had is not put.
ResetRuleLeaks(h) ==
    LET c == job[h].cli r == job[h].rule IN
    /\ job[h].at = "reset" /\ ~job[h].own /\ cli[c].rule # r
    /\ UNCHANGED rule
    /\ cli' = [cli EXCEPT ![c].rule = r, ![c].rate = rule[r].rate]
    /\ Goto(h, "marks")
    /\ UNCHANGED <<list, seq, hashed, walker, command, lbug>>

\* nrs_tbf_cli_reset, with the values as far as the rate.
ResetRule(h) ==
    LET c == job[h].cli r == job[h].rule IN
    /\ job[h].at = "reset" /\ ~job[h].own /\ cli[c].rule # r
    /\ rule' = Put(rule, cli[c].rule, 1)
    /\ cli' = [cli EXCEPT ![c].rule = r, ![c].rate = rule[r].rate]
    /\ Goto(h, "marks")
    /\ UNCHANGED <<list, seq, hashed, walker, command, lbug>>

\* The same for a client that only this handler knows.
FirstRule(h) ==
    /\ job[h].at = "reset" /\ job[h].own
    /\ job' = [job EXCEPT ![h].at = "marks",
                          ![h].rec = [NoFields EXCEPT !.rule = job[h].rule,
                                                      !.rate = rule[job[h].rule].rate]]
    /\ UNCHANGED <<list, rule, seq, hashed, cli, walker, command, lbug>>

Marked(f) == [f EXCEPT !.seq = seq, !.gen = rule[f.rule].gen]

\* The end of nrs_tbf_cli_reset_value.
Marks(h) ==
    /\ job[h].at = "marks"
    /\ \/ /\ job[h].own /\ UNCHANGED cli
          /\ job' = [job EXCEPT ![h].at = "insert", ![h].rec = Marked(@)]
       \/ /\ ~job[h].own /\ Goto(h, "hold")
          /\ cli' = [cli EXCEPT ![job[h].cli] = Marked(@)]
    /\ UNCHANGED <<list, rule, seq, hashed, walker, command, lbug>>

\* o_cli_findadd: of two handlers that bring the same client one drops its.
Insert(h) ==
    LET c == job[h].cli IN
    /\ job[h].at = "insert"
    /\ job' = [job EXCEPT ![h].at = "hold", ![h].rec = NoFields]
    /\ \/ /\ c \notin hashed /\ hashed' = hashed \cup {c}
          /\ cli' = [cli EXCEPT ![c] = job[h].rec] /\ UNCHANGED rule
       \/ /\ c \in hashed /\ UNCHANGED <<hashed, cli>>
          /\ rule' = Put(rule, job[h].rec.rule, 1)
    /\ UNCHANGED <<list, seq, walker, command, lbug>>

\* nrs_tbf_res_put.
Release(h) ==
    /\ job[h].at = "hold"
    /\ job' = [job EXCEPT ![h] = NoJob]
    /\ UNCHANGED <<list, rule, seq, hashed, cli, walker, command, lbug>>

\* Somebody uses the client in th_cli_hash.
Used(c) == \E h \in Handlers :
    job[h].cli = c /\ (~job[h].own \/ job[h].at = "hold")

\* nrs_tbf_jobid_cli_put of any job, when there are too many.
Purge(c) ==
    /\ MayPurge /\ c \in hashed /\ ~Used(c)
    /\ hashed' = hashed \ {c}
    /\ cli' = [cli EXCEPT ![c] = NoFields]
    /\ rule' = Put(rule, cli[c].rule, 1)
    /\ UNCHANGED <<list, seq, job, walker, command, lbug>>

----------------------------------------------------------------------------
(* nrs_tbf_command.  The lookups by name take th_rule_lock.                *)

\* nrs_tbf_rule_start, when the name is new and there is memory.
Start(name, covers, r) ==
    /\ command.at = "idle" /\ walker = None
    /\ seq + 1 <= MaxStarts
    /\ Listed(name) = {} /\ rule[r].st = "free"
    /\ rule' = [rule EXCEPT ![r] =
                  [Free EXCEPT !.st = "listed", !.name = name, !.covers = covers, !.ref = 1]]
    /\ list' = <<r>> \o list
    /\ command' = [at |-> "count", rule |-> None]
    /\ job' = [h \in Handlers |-> [job[h] EXCEPT !.stopped = @ \ {r}]]
    /\ UNCHANGED <<seq, hashed, cli, walker, lbug>>

\* Its atomic_inc, after the lock.
Count ==
    /\ command.at = "count"
    /\ seq' = seq + 1 /\ command' = NoCommand
    /\ UNCHANGED <<list, rule, hashed, cli, job, walker, lbug>>

\* nrs_tbf_rule_change: the rule is found and has a new rate ...
Change(r) ==
    /\ command.at = "idle" /\ walker = None
    /\ rule[r].st = "listed" /\ rule[r].gen < MaxChanges
    /\ rule' = [Get(rule, r) EXCEPT ![r].rate = @ + 1]
    /\ command' = [at |-> "generation", rule |-> r]
    /\ UNCHANGED <<list, seq, hashed, cli, job, walker, lbug>>

\* ... and then a new generation.
Generation ==
    LET r == command.rule IN
    /\ command.at = "generation"
    /\ rule' = Put([rule EXCEPT ![r].gen = @ + 1], r, 1)
    /\ command' = NoCommand
    /\ UNCHANGED <<list, seq, hashed, cli, job, walker, lbug>>

\* nrs_tbf_rule_stop: the rule is found, under th_rule_lock ...
Stop(r) ==
    /\ command.at = "idle" /\ walker = None
    /\ r # Default /\ rule[r].st = "listed"
    /\ rule' = Get(rule, r)
    /\ command' = [at |-> "unlink", rule |-> r]
    /\ UNCHANGED <<list, seq, hashed, cli, job, walker, lbug>>

\* ... is taken off the list, without it ...
Unlink ==
    LET r == command.rule IN
    /\ command.at = "unlink"
    /\ \E i \in DOMAIN list : list[i] = r /\ list' = RemoveAt(list, i)
    /\ rule' = [rule EXCEPT ![r].st = "unlinked"]
    /\ command' = [command EXCEPT !.at = "flag"]
    /\ UNCHANGED <<seq, hashed, cli, job, walker, lbug>>

\* ... and is flagged and put twice.
Flag ==
    LET r == command.rule IN
    /\ command.at = "flag"
    /\ rule' = Put([rule EXCEPT ![r].st = "stopping"], r, 2)
    /\ command' = NoCommand
    /\ UNCHANGED <<list, seq, hashed, cli, job, walker, lbug>>

Handle(h) ==
    \/ Check(h) \/ Match(h) \/ Walk(h) \/ Take(h) \/ KeepRule(h) \/ ResetRule(h)
    \/ FirstRule(h) \/ Marks(h) \/ Insert(h) \/ Release(h)
Command ==
    \/ Count \/ Generation \/ Unlink \/ Flag
    \/ \E r \in Rules : Change(r) \/ Stop(r)
    \/ \E name \in Names, covers \in SUBSET Clients, r \in Rules : Start(name, covers, r)
Next ==
    /\ ~lbug
    /\ \/ \E h \in Handlers : Handle(h) \/ \E c \in Clients : Begin(h, c)
       \/ \E c \in Clients : Purge(c)
       \/ Command

Spec == Init /\ [][Next]_vars

\* A thread goes on; scp_req_lock and th_rule_lock are given to everybody.
FairSpec ==
    /\ Spec
    /\ \A h \in Handlers : WF_vars(~lbug /\ Handle(h)) /\ SF_vars(~lbug /\ Check(h))
                           /\ SF_vars(~lbug /\ Match(h))
    /\ WF_vars(~lbug /\ (Count \/ Generation \/ Unlink \/ Flag))

----------------------------------------------------------------------------
(* Properties.                                                             *)

\* Every variable has its type, and th_rule_lock is held for a walk.
Memory == [st : RuleStates, name : Names \cup {Default, None}, covers : SUBSET Clients,
           rate : Nat, gen : Nat, ref : Nat]
Places == {"idle", "check", "match", "walk", "take", "reset", "marks", "insert", "hold"}
Jobs == [at : Places, cli : Clients \cup {None}, own : BOOLEAN, rec : Fields,
         rule : Rules \cup {None}, stopped : SUBSET Rules]
Commands == [at : {"idle", "count", "generation", "unlink", "flag"}, rule : Rules \cup {None}]
Locked == \A h \in Handlers : job[h].at \in {"walk", "take"} <=> walker = h
TypeOK ==
    /\ list \in Seq(Rules) /\ rule \in [Rules -> Memory] /\ seq \in Nat
    /\ hashed \subseteq Clients /\ cli \in [Clients -> Fields]
    /\ job \in [Handlers -> Jobs] /\ walker \in Handlers \cup {None}
    /\ command \in Commands /\ lbug \in BOOLEAN
    /\ Locked

(* Who counts in tr_ref: th_list together with the command that takes the  *)
(* rule off it, the command that found the rule, the clients of the rule,  *)
(* and the handlers that have matched it.                                  *)
OnList(r) == IF rule[r].st \in {"listed", "unlinked"} THEN 1 ELSE 0
Commanding(r) == IF command.rule = r THEN 1 ELSE 0
ClientsOf(r) == {c \in hashed : cli[c].rule = r}
HandlersOf(r) == {h \in Handlers : \/ job[h].at = "reset" /\ job[h].rule = r
                                   \/ job[h].own /\ job[h].rec.rule = r}
Holders(r) == OnList(r) + Commanding(r) + Cardinality(ClientsOf(r)) + Cardinality(HandlersOf(r))

(* A rule is freed when the last that uses it lets go, neither before nor  *)
(* never: its count is the number of those that hold it, however stops,    *)
(* resets, purges and handlers with the same new client interleave.        *)
RefsCounted == \A r \in Rules : rule[r].ref = Holders(r)

(* A request does not go out under a rule that was stopped before it came  *)
(* in, unless its thread lost the race to bring in the client.             *)
StoppedRuleLeft ==
    \A h \in Handlers : job[h].at = "hold" /\ ~job[h].own
        => cli[job[h].cli].rule \notin job[h].stopped

(* When every client goes on asking, a rule that is stopped is freed in    *)
(* the end: nobody keeps it, and nobody waits for ever for a lock.         *)
Asking(c) == \E h \in Handlers : job[h].cli = c /\ job[h].at = "hold"
StoppedRuleFreed ==
    (\A c \in Clients : []<>Asking(c))
        => \A r \in Rules : Stopped(r) ~> (rule[r].st = "free" \/ lbug)

(* A client that goes on asking learns that its rule was changed: what it  *)
(* keeps is, as its type says, the "Generation of the rule matched".       *)
GenerationFollows ==
    \A c \in Clients : []<>Asking(c)
        => <>[](lbug \/ c \notin hashed \/ cli[c].gen = rule[cli[c].rule].gen)
=============================================================================
