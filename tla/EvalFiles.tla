------------------------------ MODULE EvalFiles ------------------------------
(***************************************************************************)
(* evaluator.py and generate_eval_config.py on their files: what they look *)
(* at and read before they open their output, and what there is when they  *)
(* fail or are killed on the way.  EvalCycle has what they compute; here   *)
(* thresholds, and rates, are a level: the higher, the tighter.            *)
(*                                                                         *)
(* The output is opened, which empties it, and written piece by piece.  A  *)
(* YAML file that is cut short can still be read, with less in it, or not; *)
(* a JSON file cannot.                                                     *)
(*                                                                         *)
(* A definition marked "variation" is a faulty form of the definition that *)
(* follows it; no other definition uses it.                                *)
(***************************************************************************)
EXTENDS Naturals, FiniteSets, FiniteSetsExt

CONSTANTS
  Configs, Logs,  \* the paths of thresholds and of results
  Jobs,           \* invocations that there may be
  MaxLevel,       \* bound: levels
  Nothing         \* no file, no job

Paths == Configs \cup Logs
Tools == {"generate_eval_config", "evaluator"}
Invocations ==
  [tool : Tools, config : Configs \cup {Nothing}, logs : SUBSET Logs, output : Paths,
   force : BOOLEAN, tighten : BOOLEAN, skip : BOOLEAN]

ASSUME JobsAssumption ==
  /\ Jobs \subseteq Invocations
  /\ \A j \in Jobs :
       IF j.tool = "evaluator" THEN Cardinality(j.logs) = 1 /\ j.output \in Logs
         ELSE j.output \in Configs /\ (j.tighten => j.config # Nothing)

ASSUME LevelAssumption == MaxLevel \in Nat

VARIABLES
  fs,     \* the files: Nothing, or whether it is whole and what can be read
  job, pc,
  todo,   \* the logs still to be loaded
  base,   \* the level of the base configuration
  rates,  \* the levels of the loaded logs
  found   \* history: the files that the job found

filesVars == <<fs, job, pc, todo, base, rates, found>>

Levels == 0..MaxLevel
Unreadable == MaxLevel + 1
Files == [whole : BOOLEAN, level : Levels \cup {Unreadable}] \cup {Nothing}
Whole(level) == [whole |-> TRUE, level |-> level]
Readable(p) == fs[p] # Nothing /\ fs[p].level # Unreadable

(* What a file that is being written may contain.                          *)
Part(p, level) ==
  [whole : {FALSE}, level : IF p \in Logs THEN {Unreadable} ELSE 0..level \cup {Unreadable}]
Emptied(p) == [whole |-> FALSE, level |-> IF p \in Logs THEN Unreadable ELSE 0]

FilesInit ==
  /\ fs \in [Paths -> {Nothing} \cup {Whole(l) : l \in Levels \ {0}}]
  /\ job = Nothing /\ pc = "idle" /\ todo = {} /\ base = 0 /\ rates = {}
  /\ found = fs

Begin(j) ==
  /\ pc \in {"idle", "failed"}
  /\ job' = j /\ pc' = "config" /\ todo' = j.logs /\ base' = 0 /\ rates' = {} /\ found' = fs
  /\ UNCHANGED fs

Fail == pc' = "failed" /\ UNCHANGED <<fs, job, todo, base, rates, found>>

(* parse_args() of the evaluator, and the base configuration.              *)
LoadConfig ==
  /\ pc = "config"
  /\ IF job.config = Nothing \/ Readable(job.config)
       THEN /\ base' = IF job.config = Nothing THEN 0 ELSE fs[job.config].level
            /\ pc' = "logs"
            /\ UNCHANGED <<fs, job, todo, rates, found>>
       ELSE Fail

(* Variation: of an invalid log whatever can be read of it counts.         *)
LoadLogAnyhow ==
  /\ pc = "logs"
  /\ \E l \in todo :
       IF fs[l] # Nothing
         THEN /\ rates' = rates \cup {fs[l].level}
              /\ todo' = todo \ {l}
              /\ UNCHANGED <<fs, job, pc, base, found>>
         ELSE Fail

(* load_logs(), eval_from_file(): an invalid log is skipped if so wished.  *)
LoadLog ==
  /\ pc = "logs"
  /\ \E l \in todo :
       IF Readable(l) \/ (job.tool = "generate_eval_config" /\ job.skip)
         THEN /\ rates' = IF Readable(l) THEN rates \cup {fs[l].level} ELSE rates
              /\ todo' = todo \ {l}
              /\ UNCHANGED <<fs, job, pc, base, found>>
         ELSE Fail

(* Variation: it is opened before it is looked whether it is there.        *)
OpenOutputFirst ==
  /\ pc = "logs" /\ todo = {}
  /\ fs' = [fs EXCEPT ![job.output] = Emptied(job.output)]
  /\ pc' = IF job.tool = "evaluator" \/ job.force \/ job.config = job.output
                \/ fs[job.output] = Nothing
             THEN "writing" ELSE "failed"
  /\ UNCHANGED <<job, todo, base, rates, found>>

(* write_to_file(): an output that exists is only replaced if it is the    *)
(* base or by force.  The evaluator replaces it.                           *)
OpenOutput ==
  /\ pc = "logs" /\ todo = {}
  /\ IF job.tool = "evaluator" \/ job.force \/ job.config = job.output
          \/ fs[job.output] = Nothing
       THEN /\ fs' = [fs EXCEPT ![job.output] = Emptied(job.output)]
            /\ pc' = "writing"
            /\ UNCHANGED <<job, todo, base, rates, found>>
       ELSE Fail

(* accumulate_all_bitrates(): with a base, there is a threshold only where *)
(* that has one, and it stays if nothing was measured.                     *)
Result ==
  CASE job.tool = "evaluator" -> Min(rates)
    [] job.tool # "evaluator" /\ job.config = Nothing -> IF rates = {} THEN 0 ELSE Min(rates)
    [] OTHER -> IF base = 0 \/ rates = {} \/ (job.tighten /\ base > Min(rates))
                  THEN base ELSE Min(rates)

Write ==
  /\ pc = "writing"
  /\ \/ /\ \E part \in Part(job.output, Result) : fs' = [fs EXCEPT ![job.output] = part]
        /\ UNCHANGED <<job, pc>>
     \/ /\ fs' = [fs EXCEPT ![job.output] = Whole(Result)]
        /\ pc' = "idle" /\ job' = Nothing
  /\ UNCHANGED <<todo, base, rates, found>>

(* The process is killed, or the disk is full.                             *)
Crash ==
  /\ pc \in {"config", "logs", "writing"}
  /\ pc' = "idle" /\ job' = Nothing
  /\ UNCHANGED <<fs, todo, base, rates, found>>

FilesNext ==
  \/ \E j \in Jobs : Begin(j)
  \/ LoadConfig \/ LoadLog \/ OpenOutput \/ Write \/ Crash

FilesSpec == FilesInit /\ [][FilesNext]_filesVars

-----------------------------------------------------------------------------
(* The rates are those of logs that can be read: one that was cut short    *)
(* never counts (src/generate_eval_config.py:36-47).                       *)
FilesTypeOK ==
  /\ fs \in [Paths -> Files] /\ found \in [Paths -> Files]
  /\ job \in Jobs \cup {Nothing} /\ pc \in {"idle", "config", "logs", "writing", "failed"}
  /\ todo \subseteq Logs /\ base \in Levels /\ rates \subseteq Levels

(* A tool that gives up - a file is missing, cannot be read, exists        *)
(* already - has changed nothing, although its output may be the file that *)
(* it reads (src/generate_eval_config.py:332-356).                         *)
FailureChangesNothing == pc = "failed" => fs = found
=============================================================================
