----------------------------- MODULE Classifier -----------------------------
(***************************************************************************)
(* Which rules a stored message was judged by (classifier/classify.py, the *)
(* rule routes of the web server, the backfill of main.py).                *)
(*                                                                         *)
(* The rules and their version are in the database, with a copy in memory. *)
(* An edit writes a rule, raises the version and loads both again, one     *)
(* after the other.  A message is judged when it comes in, stamped with    *)
(* the version when its template has been looked up, and inserted.  Jobs   *)
(* judge old rows again, batch by batch; the start of the program runs one *)
(* and marks the version it did that for.                                  *)
(***************************************************************************)
EXTENDS Absent, Integers, Sequences, SequencesExt, FiniteSets, FiniteSetsExt

CONSTANTS
    RuleAgendas,   \* what the world does, see the variable chores
    RowIds,        \* ids of messages, in the order of their insertion
    Admins,        \* requests for an edit or a job, under way together
    BatchSize      \* batch_size

\* A program that has just started is "fresh"; one that runs has judged what there is.
ASSUME RowsAssumption ==
    /\ RowIds \subseteq Nat /\ IsFiniteSet(RowIds)
    /\ BatchSize \in Nat \ {0}
    /\ \A a \in RuleAgendas : a.fresh \/ a.old = {}

VARIABLES
    chores,      \* messages to come, edits, jobs, restarts, faults; rows whose update always
                 \* fails; whether the program has just started
    dbRules,     \* classifier_rules: the number of its edits
    dbVersion,   \* classifier_version of classifier_meta
    marks,       \* backfill_done:v<version>
    rows,        \* messages: what each was judged by and stamped with
    rules,       \* the compiled rules in memory
    version,     \* Classifier.version
    edit,        \* admin -> its request
    inflow,      \* lane -> the message being classified
    job,         \* the backfill's and the users' jobs
    boot,        \* _maybe_backfill_classifier
    rulesAt,     \* history: the rules there were when a version was first written
    mixed,       \* history: rows judged beside a load
    muddled,     \* history: a load has put back what a later one had taken over, or has
                 \* failed half way
    lowered,     \* history: an edit has written a version below the one there was
    excused      \* history: rows a backfill could not finish or did not meet

stored == <<dbRules, dbVersion, marks, rows>>
overtaken == <<muddled, lowered>>
ruleVars == <<chores, stored, rules, version, edit, inflow, job, boot, rulesAt, mixed, overtaken,
              excused>>

RuleLanes == {"udp", "ble"}
JobNames == {"backfill", "user"}
Unstamped == -1
NoRule == -1        \* judged by none: 'other', the fallback
Unstored == [judged |-> None, ver |-> None]
Old == [judged |-> 0, ver |-> Unstamped]
Quiet == [stage |-> "idle", got |-> None, forced |-> FALSE]
NoJob == [stage |-> "idle", target |-> None, batch |-> <<>>, skipped |-> {}, did |-> {},
          judged |-> None, stamp |-> None, beside |-> FALSE]
NoTask == [stage |-> "idle", row |-> None, judged |-> None, stamp |-> None, beside |-> FALSE]

Do(what, x) ==
    /\ x \in chores[what]
    /\ chores' = [chores EXCEPT ![what] = @ \ {x}]

RuleInit ==
    /\ chores \in RuleAgendas
    /\ dbRules = 0 /\ rules = 0
    /\ dbVersion = 0 /\ version = 0
    /\ marks = IF chores.fresh THEN {} ELSE {0}
    /\ rows = [r \in RowIds |-> IF r \in chores.old THEN Old ELSE Unstored]
    /\ edit = [a \in Admins |-> Quiet]
    /\ inflow = [l \in RuleLanes |-> NoTask]
    /\ job = [j \in JobNames |-> NoJob]
    /\ boot = [stage |-> IF chores.fresh THEN "check" ELSE "done", version |-> 0]
    /\ rulesAt = <<0>>     \* of version 0
    /\ mixed = {} /\ muddled = FALSE /\ lowered = FALSE /\ excused = {}

-----------------------------------------------------------------------------
(* An edit: the route, after_rule_mutation and load *)

\* One await after the other.
Order == <<"write", "bumpRead", "bumpWrite", "verRead", "verSet", "rulesRead", "rulesSet">>

After(stage) ==
    LET i == CHOOSE n \in DOMAIN Order : Order[n] = stage IN
    IF i = Len(Order) THEN "over" ELSE Order[i + 1]

Ahead(a, got) == edit' = [edit EXCEPT ![a].stage = After(@), ![a].got = got]

\* Between the two halves of a load the memory holds a version and other rules.
Loading == \E a \in Admins : edit[a].stage \in {"rulesRead", "rulesSet"}

\* Whatever is being judged when the memory changes is judged beside a load.
Disturb ==
    /\ inflow' = [l \in RuleLanes |-> IF inflow[l].stage = "judged"
                                      THEN [inflow[l] EXCEPT !.beside = TRUE] ELSE inflow[l]]
    /\ job' = [j \in JobNames |-> IF job[j].stage = "judged"
                                  THEN [job[j] EXCEPT !.beside = TRUE] ELSE job[j]]

\* A rule is to be written, or a forced job raises the version only.
Request(a) ==
    /\ edit[a] = Quiet
    /\ \/ Do("edits", a) /\ edit' = [edit EXCEPT ![a].stage = "write"]
       \/ Do("forced", a) /\ edit' = [edit EXCEPT ![a].stage = "bumpRead", ![a].forced = TRUE]
    /\ UNCHANGED <<stored, rules, version, inflow, job, boot, rulesAt, mixed, overtaken, excused>>

WriteRule(a) ==
    /\ edit[a].stage = "write"
    /\ dbRules' = dbRules + 1
    /\ Ahead(a, None)
    /\ UNCHANGED <<chores, dbVersion, marks, rows, rules, version, inflow, job, boot, rulesAt,
                   mixed, overtaken, excused>>

\* bump_classifier_version
BumpRead(a) ==
    /\ edit[a].stage = "bumpRead"
    /\ Ahead(a, dbVersion)
    /\ UNCHANGED <<chores, stored, rules, version, inflow, job, boot, rulesAt, mixed, overtaken, excused>>

BumpWrite(a) ==
    LET new == edit[a].got + 1 IN
    /\ edit[a].stage = "bumpWrite"
    /\ dbVersion' = new
    /\ rulesAt' = IF new < Len(rulesAt) THEN rulesAt ELSE Append(rulesAt, dbRules)
    /\ lowered' = (lowered \/ new < dbVersion)
    /\ Ahead(a, None)
    /\ UNCHANGED <<chores, dbRules, marks, rows, rules, version, inflow, job, boot, mixed, muddled,
                   excused>>

\* load, first half
VersionRead(a) ==
    /\ edit[a].stage = "verRead"
    /\ Ahead(a, dbVersion)
    /\ UNCHANGED <<chores, stored, rules, version, inflow, job, boot, rulesAt, mixed, overtaken, excused>>

VersionSet(a) ==
    /\ edit[a].stage = "verSet"
    /\ version' = edit[a].got
    /\ muddled' = (muddled \/ edit[a].got < version)
    /\ Ahead(a, None)
    /\ Disturb
    /\ UNCHANGED <<chores, stored, rules, boot, rulesAt, mixed, lowered, excused>>

\* load, second half: load_rules
RulesRead(a) ==
    /\ edit[a].stage = "rulesRead"
    /\ Ahead(a, dbRules)
    /\ UNCHANGED <<chores, stored, rules, version, inflow, job, boot, rulesAt, mixed, overtaken, excused>>

RulesSet(a) ==
    /\ edit[a].stage = "rulesSet"
    /\ rules' = edit[a].got
    /\ muddled' = (muddled \/ edit[a].got < rules)
    /\ Ahead(a, None)
    /\ Disturb
    /\ UNCHANGED <<chores, stored, version, boot, rulesAt, mixed, lowered, excused>>

\* A statement raises: the request ends where it is, also between the two halves of a
\* load, which leaves a version with the rules of another.
EditFails(a) ==
    /\ edit[a].stage \notin {"idle", "verSet", "rulesSet"}
    /\ Do("faults", "edit")
    /\ edit' = [edit EXCEPT ![a] = Quiet]
    /\ muddled' = (muddled \/ edit[a].stage = "rulesRead")
    /\ UNCHANGED <<stored, rules, version, inflow, job, boot, rulesAt, mixed, lowered, excused>>

-----------------------------------------------------------------------------
(* A message comes in: classify, and the insert of store_message *)

\* match_rules, with the rules in memory; the template is looked up in a thread.
Judge(l) ==
    /\ inflow[l] = NoTask
    /\ \E r \in chores.coming :
          /\ Do("coming", r)
          /\ inflow' = [inflow EXCEPT ![l] =
                 [NoTask EXCEPT !.stage = "judged", !.row = r, !.judged = rules,
                                !.beside = Loading \/ muddled]]
    /\ UNCHANGED <<stored, rules, version, edit, job, boot, rulesAt, mixed, overtaken, excused>>

\* The Classification carries the version as it is by now.
Stamp(l) ==
    /\ inflow[l].stage = "judged"
    /\ inflow' = [inflow EXCEPT ![l].stage = "stamped", ![l].stamp = version]
    /\ UNCHANGED <<chores, stored, rules, version, edit, job, boot, rulesAt, mixed, overtaken, excused>>

\* The pipeline raises, no rule has judged, and the version is stamped all the same.
FallBack(l) ==
    /\ inflow[l].stage = "judged"
    /\ Do("faults", "judge")
    /\ inflow' = [inflow EXCEPT ![l].stage = "stamped", ![l].judged = NoRule, ![l].stamp = version]
    /\ UNCHANGED <<stored, rules, version, edit, job, boot, rulesAt, mixed, overtaken, excused>>

Keep(r, task) ==
    /\ rows' = [rows EXCEPT ![r] = [judged |-> task.judged, ver |-> task.stamp]]
    /\ mixed' = IF task.beside THEN mixed \cup {r} ELSE mixed \ {r}
    /\ excused' = IF task.stamp < version THEN excused \cup {r} ELSE excused \ {r}

Insert(l) ==
    /\ inflow[l].stage = "stamped"
    /\ Keep(inflow[l].row, inflow[l])
    /\ inflow' = [inflow EXCEPT ![l] = NoTask]
    /\ UNCHANGED <<chores, dbRules, dbVersion, marks, rules, version, edit, job, boot, rulesAt,
                   overtaken>>

-----------------------------------------------------------------------------
(* A job: reclassify and _run_reclassify *)

Below(target) == {r \in RowIds : rows[r] # Unstored /\ rows[r].ver < target}
First(set) == {r \in set : Cardinality({o \in set : o < r}) < BatchSize}

\* Mutant: a batch starts behind the rows the job has done.
BatchOf_Advanced(target, did) ==
    LET left == Below(target)
        skipping == {r \in left : Cardinality({o \in left : o < r}) < Cardinality(did)} IN
    First(left \ skipping)

\* get_messages_to_classify, with offset 0
BatchOf(target, did) == First(Below(target))

Start(j, target) == job' = [job EXCEPT ![j] = [NoJob EXCEPT !.stage = "batch", !.target = target]]

\* POST /api/classifier/reclassify, or the end of a forced edit
StartJob ==
    /\ job["user"] = NoJob
    /\ \E a \in Admins : Do("jobs", a)
    /\ Start("user", version)
    /\ UNCHANGED <<stored, rules, version, edit, inflow, boot, rulesAt, mixed, overtaken, excused>>

\* after_rule_mutation ends with a broadcast; a forced request with its job.
EditOver(a) ==
    /\ edit[a].stage = "over"
    /\ edit' = [edit EXCEPT ![a] = Quiet]
    /\ IF edit[a].forced THEN job["user"] = NoJob /\ Start("user", version) ELSE UNCHANGED job
    /\ UNCHANGED <<chores, stored, rules, version, inflow, boot, rulesAt, mixed, overtaken, excused>>

\* Mutant: a batch whose updates all failed before is tried again.
Stalled_Never(batch, skipped) == FALSE

Stalled(batch, skipped) == batch \subseteq skipped

ReadBatch(j) ==
    LET b == BatchOf(job[j].target, job[j].did) IN
    /\ job[j].stage = "batch"
    /\ IF b = {} \/ Stalled(b, job[j].skipped)
       THEN /\ job' = [job EXCEPT ![j].stage = "tidy"]
            /\ excused' = IF b = {} THEN excused ELSE excused \cup Below(job[j].target)
       ELSE /\ job' = [job EXCEPT ![j].stage = "row", ![j].batch = SetToSortSeq(b, <)]
            /\ UNCHANGED excused
    /\ UNCHANGED <<chores, stored, rules, version, edit, inflow, boot, rulesAt, mixed, overtaken>>

\* A read that raises ends the job, whatever is left.
ReadFails(j) ==
    /\ job[j].stage = "batch"
    /\ Do("faults", "batch")
    /\ job' = [job EXCEPT ![j].stage = "tidy"]
    /\ excused' = excused \cup Below(job[j].target)
    /\ UNCHANGED <<stored, rules, version, edit, inflow, boot, rulesAt, mixed, overtaken>>

JudgeRow(j) ==
    /\ job[j].stage = "row"
    /\ job' = IF job[j].batch = <<>> THEN [job EXCEPT ![j].stage = "batch"]
              ELSE [job EXCEPT ![j].stage = "judged", ![j].judged = rules,
                               ![j].beside = Loading \/ muddled]
    /\ UNCHANGED <<chores, stored, rules, version, edit, inflow, boot, rulesAt, mixed, overtaken, excused>>

StampRow(j) ==
    /\ job[j].stage = "judged"
    /\ job' = [job EXCEPT ![j].stage = "stamped", ![j].stamp = version]
    /\ UNCHANGED <<chores, stored, rules, version, edit, inflow, boot, rulesAt, mixed, overtaken, excused>>

FallBackRow(j) ==
    /\ job[j].stage = "judged"
    /\ Do("faults", "judge")
    /\ job' = [job EXCEPT ![j].stage = "stamped", ![j].judged = NoRule, ![j].stamp = version]
    /\ UNCHANGED <<stored, rules, version, edit, inflow, boot, rulesAt, mixed, overtaken, excused>>

\* update_message_classification; a row whose update fails is skipped.
UpdateRow(j) ==
    LET r == Head(job[j].batch)
        Next(done) == [job[j] EXCEPT !.stage = "row", !.batch = Tail(@), !.judged = None,
                                     !.stamp = None, !.beside = FALSE,
                                     !.did = IF done THEN @ \cup {r} ELSE @,
                                     !.skipped = IF done THEN @ ELSE @ \cup {r}] IN
    /\ job[j].stage = "stamped"
    /\ IF r \in chores.stuck
       THEN /\ job' = [job EXCEPT ![j] = Next(FALSE)]
            /\ UNCHANGED <<rows, mixed, excused>>
       ELSE /\ Keep(r, job[j])
            /\ job' = [job EXCEPT ![j] = Next(TRUE)]
    /\ UNCHANGED <<chores, dbRules, dbVersion, marks, rules, version, edit, inflow, boot, rulesAt,
                   overtaken>>

\* The finally clause.
Tidy(j) ==
    /\ job[j].stage = "tidy"
    /\ job' = [job EXCEPT ![j] = NoJob]
    /\ UNCHANGED <<chores, stored, rules, version, edit, inflow, boot, rulesAt, mixed, overtaken, excused>>

JobStep(j) == ReadBatch(j) \/ JudgeRow(j) \/ StampRow(j) \/ UpdateRow(j) \/ Tidy(j)

-----------------------------------------------------------------------------
(* The start: _maybe_backfill_classifier *)

\* The marker of this version.
CheckMark ==
    /\ boot.stage = "check"
    /\ boot' = [boot EXCEPT !.stage = IF version \in marks THEN "done" ELSE "count",
                            !.version = version]
    /\ UNCHANGED <<chores, stored, rules, version, edit, inflow, job, rulesAt, mixed, overtaken, excused>>

Backfill ==
    /\ boot.stage = "count"
    /\ boot' = [boot EXCEPT !.stage = "mark"]
    /\ IF Below(version) # {} THEN Start("backfill", version) ELSE UNCHANGED job
    /\ UNCHANGED <<chores, stored, rules, version, edit, inflow, rulesAt, mixed, overtaken, excused>>

\* Set as soon as the job is on its way.
Mark ==
    /\ boot.stage = "mark"
    /\ marks' = marks \cup {boot.version}
    /\ boot' = [boot EXCEPT !.stage = "done"]
    /\ UNCHANGED <<chores, dbRules, dbVersion, rows, rules, version, edit, inflow, job, rulesAt,
                   mixed, overtaken, excused>>

\* The task dies of a statement that raises, before the mark.
BootFails ==
    /\ boot.stage # "done"
    /\ Do("faults", "boot")
    /\ boot' = [boot EXCEPT !.stage = "done"]
    /\ UNCHANGED <<stored, rules, version, edit, inflow, job, rulesAt, mixed, overtaken, excused>>

\* A new process: rules that come with it are written without a new version
\* (seed_defaults), then everything is loaded.  A job is not resumed.
RestartRules ==
    /\ \E kind \in {"plain", "upgrade"} :
          /\ Do("restarts", kind)
          /\ dbRules' = dbRules + (IF kind = "upgrade" THEN 1 ELSE 0)
    /\ rules' = dbRules'
    /\ version' = dbVersion
    /\ edit' = [a \in Admins |-> Quiet]
    /\ inflow' = [l \in RuleLanes |-> NoTask]
    /\ job' = [j \in JobNames |-> NoJob]
    /\ boot' = [stage |-> "check", version |-> 0]
    /\ excused' = IF job["backfill"] = NoJob THEN excused
                  ELSE excused \cup Below(job["backfill"].target)
    /\ UNCHANGED <<dbVersion, marks, rows, rulesAt, mixed, overtaken>>

RuleNext ==
    \/ \E a \in Admins : \/ Request(a) \/ WriteRule(a) \/ BumpRead(a) \/ BumpWrite(a)
                         \/ VersionRead(a) \/ VersionSet(a) \/ RulesRead(a) \/ RulesSet(a)
                         \/ EditOver(a) \/ EditFails(a)
    \/ \E l \in RuleLanes : Judge(l) \/ Stamp(l) \/ FallBack(l) \/ Insert(l)
    \/ \E j \in JobNames : JobStep(j) \/ ReadFails(j) \/ FallBackRow(j)
    \/ StartJob \/ CheckMark \/ Backfill \/ Mark \/ BootFails \/ RestartRules

\* The event loop runs a job whenever its thread has answered.
RuleFairness == \A j \in JobNames : WF_ruleVars(JobStep(j))

-----------------------------------------------------------------------------
(* Properties *)

\* A row that carries a version and that a rule has judged was judged by rules no older
\* than those the version was raised for, unless it was judged beside a load (classify
\* reads the rules at its start and the version at its end; after_rule_mutation and load
\* change them one after the other; when it raises, classify stamps what it has not
\* judged).
StampIsTrue ==
    \A r \in RowIds \ mixed :
        rows[r] # Unstored /\ rows[r].ver >= 0 /\ rows[r].judged # NoRule =>
            rows[r].judged >= rulesAt[rows[r].ver + 1]

\* When the backfill of a version is marked and no job runs, no row is left below
\* that version, but those of a job that a restart or a failed read ended, those behind
\* a whole batch of rows that could not be updated, and those whose insert or update was
\* still waiting when the version was raised; nor when loads, or writes of the version,
\* overtook each other or failed half way (_maybe_backfill_classifier, _run_reclassify).
MarkIsTrue ==
    boot.stage = "done" /\ job = [j \in JobNames |-> NoJob] /\ ~muddled /\ ~lowered =>
        \A v \in marks : Below(v) \subseteq excused

\* The versions, of rows and of finished backfills, mean what they say.
VersionsAreTrue == StampIsTrue /\ MarkIsTrue

\* A job comes to its end, whatever rows fail and whatever comes in meanwhile, unless
\* loads that overtook each other have left a lower version than the job's in memory
\* (_run_reclassify asks for the same batch until it is empty or all of it failed).
JobEnds == \A j \in JobNames : job[j] # NoJob ~> job[j] = NoJob \/ muddled
=============================================================================
