------------------------------- MODULE TestRun -------------------------------
(***************************************************************************)
(* One invocation of tft.py after another: main() runs every test of the   *)
(* configuration with TrafficFlowTests.test_run(), which runs every test   *)
(* case over every connection, instance and direction, writes the results  *)
(* to two files and, at the end, makes an exit code of them.               *)
(*                                                                         *)
(* What survives an invocation is the cluster, whose pods, services and    *)
(* multi-networkpolicies are shared by name, and the files.  An invocation *)
(* can die at any point - a worker thread called os._exit() (TestInstance), *)
(* or somebody stopped it - and the user can always start another.         *)
(*                                                                         *)
(* What happens inside an instance between the setup of its pods and its   *)
(* result is TestInstance; here it is one step that succeeds, fails or     *)
(* raises.  The container of the external server is left out.              *)
(*                                                                         *)
(* A definition marked "variation" is a faulty form of the definition that *)
(* follows it; no other definition uses it.                                *)
(***************************************************************************)
EXTENDS Naturals, Sequences, FiniteSets

CONSTANTS
  Tests,           \* ConfConfig.tft: namespace, test cases, connections
  Check,           \* --check
  OutputBase,      \* --output-base was given
  MaxRuns          \* bound: invocations of the program

Cases == [same : BOOLEAN, mode : {"pod_ip", "multi_network", "external"}]
Conns == [client : STRING, server : STRING, pod : {"normal", "sriov"},
          persistent : BOOLEAN, plugins : BOOLEAN, reverse : BOOLEAN,
          instances : Nat \ {0}]

ASSUME TestsAssumption ==
  /\ Tests \in Seq([namespace : STRING, cases : Seq(Cases), conns : Seq(Conns)])
  /\ Len(Tests) > 0
  /\ \A t \in DOMAIN Tests : Len(Tests[t].conns) > 0

ASSUME RunsAssumption ==
  /\ Check \in BOOLEAN /\ OutputBase \in BOOLEAN
  /\ MaxRuns \in Nat \ {0}

VARIABLES
  pc,                          \* where main() is
  run,                         \* which invocation this is
  test, case, conn, inst, rev, \* the loop variables
  n,                           \* position in a list of kinds or objects
  results,                     \* tft_results of the current test
  done,                        \* tft_results_lst
  cluster,                     \* objects labelled tft-tests, each with the instance that
                               \* made it and, as history, whether a command that
                               \* should have deleted it has failed (kept)
  files,                       \* the result files
  exitCode

loopVars == <<test, case, conn, inst, rev>>
vars == <<pc, run, loopVars, n, results, done, cluster, files, exitCode>>

-----------------------------------------------------------------------------
TestIds   == DOMAIN Tests
Namespace == Tests[test].namespace
CaseIds   == DOMAIN Tests[test].cases
ConnIds   == DOMAIN Tests[test].conns
TheCase   == Tests[test].cases[case]
TheConn   == Tests[test].conns[conn]

Stopped == {"ended", "raised", "down"}
Places  == {"configure", "cleanup_before", "setup", "traffic", "cleanup_after",
            "open", "write", "open_copy", "write_copy", "report"} \cup Stopped

(* What _cleanup_previous_testspace() deletes, one command for each kind.  *)
Cleanup == <<"pod", "service", "policy">>

(* The objects of an instance, in the order in which it asks for them:     *)
(* ServerTask.initialize() the services and policies, then start_setup()   *)
(* of server, client and monitors the pods.  Pod names tell the type of    *)
(* the pod, the node and for servers and clients the instance; nothing     *)
(* tells the connection.                                                   *)
Pod(name)     == [kind |-> "pod", name |-> name]
Service(name) == [kind |-> "service", name |-> <<name>>]
Policy(name)  == [kind |-> "policy", name |-> <<name>>]

ServerNode(ca, co) == IF ca.same THEN co.client ELSE co.server
ServerPodName(ca, co, i) == <<co.pod, ServerNode(ca, co), "server", i>>
Services(ca) ==
  IF ca.mode = "external" THEN <<>>
    ELSE <<Service("tft-clusterip-service"), Service("tft-nodeport-service")>>
Policies(ca) ==
  IF ca.mode = "multi_network"
    THEN <<Policy("allow-ingress-mnp"), Policy("allow-egress-mnp")>> ELSE <<>>
ServerPods(ca, co, i) ==
  IF ca.mode = "external" THEN <<>> ELSE <<Pod(ServerPodName(ca, co, i))>>
ToolsPods(ca, co) ==
  IF co.plugins THEN <<Pod(<<"tools", ServerNode(ca, co)>>), Pod(<<"tools", co.client>>)>>
                ELSE <<>>
ObjectsOf(ca, co, i) ==
  Services(ca) \o Policies(ca) \o ServerPods(ca, co, i)
    \o <<Pod(<<co.pod, co.client, "client", i>>)>> \o ToolsPods(ca, co)
Objects == ObjectsOf(TheCase, TheConn, inst)

(* Which instance of which invocation an object was made for.              *)
Owner == [run |-> run, test |-> test, case |-> case, conn |-> conn, inst |-> inst]
Object(o, owner, kept) ==
  [ns |-> Namespace, kind |-> o.kind, name |-> o.name, owner |-> owner, kept |-> kept]
Owners == [run : 1..MaxRuns, test : TestIds, case : Nat, conn : Nat, inst : Nat]

(* get_output_file(): "${output_base}000.json", where the number is that   *)
(* of the whole configuration and not of the test, or a timestamp.  Two    *)
(* tests take more than a second, hence their timestamps differ.           *)
File(which) == IF OutputBase THEN <<which, 0, 0>> ELSE <<which, run, test>>
FileNames == {"json", "RESULTS"} \X (0..MaxRuns) \X (0..Len(Tests))

Legs == [case : Nat, conn : Nat, inst : Nat, rev : BOOLEAN]
Results == [leg : Legs, ok : BOOLEAN]
NoFile == [status |-> "none", test |-> 0, data |-> <<>>]

TypeOK ==
  /\ pc \in Places /\ run \in 1..MaxRuns
  /\ test \in TestIds
  /\ case \in Nat /\ conn \in Nat /\ inst \in Nat /\ rev \in BOOLEAN
  /\ pc \in {"setup", "traffic", "cleanup_after"} =>
       /\ case \in CaseIds /\ conn \in ConnIds
       /\ inst \in 1..TheConn.instances
  /\ n \in Nat \ {0}
  /\ pc = "setup" => n \in DOMAIN Objects
  /\ pc \in {"cleanup_before", "cleanup_after"} => n \in DOMAIN Cleanup
  /\ results \in Seq(Results)
  /\ done \in Seq(Seq(Results)) /\ Len(done) <= Len(Tests)
  /\ \A o \in cluster : /\ o.ns \in {Tests[t].namespace : t \in TestIds}
                        /\ o.kind \in {"pod", "service", "policy"}
                        /\ o.owner \in Owners /\ o.kept \in BOOLEAN
  /\ files \in [FileNames -> [status : {"none", "partial", "complete"},
                              test : TestIds \cup {0}, data : Seq(Results)]]
  /\ exitCode \in 0..1

Init ==
  /\ pc = "configure" /\ run = 1
  /\ test = 1 /\ case = 1 /\ conn = 1 /\ inst = 1 /\ rev = FALSE /\ n = 1
  /\ results = <<>> /\ done = <<>>
  /\ cluster = {}
  /\ files = [f \in FileNames |-> NoFile]
  /\ exitCode = 0

-----------------------------------------------------------------------------
(* test_run(): _configure_namespace(), which may die ...                   *)
Configure ==
  /\ pc = "configure"
  /\ pc' \in {"cleanup_before", "raised"} /\ n' = 1
  /\ UNCHANGED <<run, loopVars, results, done, cluster, files, exitCode>>

(* ... and the loops of _run_test_cases() and _run_test_case().            *)
FirstInstance ==
  /\ case' = 1 /\ conn' = 1 /\ inst' = 1 /\ rev' = FALSE /\ n' = 1
  /\ pc' = IF CaseIds = {} THEN "open" ELSE "setup"

NextInstance ==
  /\ n' = 1 /\ rev' = FALSE
  /\ IF inst < TheConn.instances
       THEN /\ inst' = inst + 1 /\ UNCHANGED <<case, conn>>
            /\ pc' = "setup"
       ELSE /\ inst' = 1
            /\ IF conn < Len(Tests[test].conns)
                 THEN conn' = conn + 1 /\ case' = case /\ pc' = "setup"
                 ELSE IF case < Len(Tests[test].cases)
                        THEN conn' = 1 /\ case' = case + 1 /\ pc' = "setup"
                        ELSE conn' = 1 /\ case' = 1 /\ pc' = "open"

ToDelete == {o \in cluster : o.ns = Namespace /\ o.kind = Cleanup[n]}

DeleteKind == cluster' = cluster \ ToDelete

(* A command that fails is taken to delete nothing.                        *)
DeleteFails ==
  cluster' = (cluster \ ToDelete) \cup {Object(o, o.owner, TRUE) : o \in ToDelete}

(* After a cleanup's last command the loops go on.                         *)
AfterCleanup == IF pc = "cleanup_before" THEN FirstInstance ELSE NextInstance

(* Variation: the first command that fails ends the cleanup.               *)
DeleteUntilFailure ==
  /\ pc \in {"cleanup_before", "cleanup_after"}
  /\ \/ /\ DeleteKind
        /\ IF n < Len(Cleanup)
             THEN n' = n + 1 /\ UNCHANGED <<pc, case, conn, inst, rev>> ELSE AfterCleanup
     \/ DeleteFails /\ AfterCleanup
  /\ UNCHANGED <<run, test, results, done, files, exitCode>>

(* One command of _cleanup_previous_testspace(); a failure is only logged. *)
Delete ==
  /\ pc \in {"cleanup_before", "cleanup_after"}
  /\ DeleteKind \/ DeleteFails
  /\ IF n < Len(Cleanup)
       THEN n' = n + 1 /\ UNCHANGED <<pc, case, conn, inst, rev>> ELSE AfterCleanup
  /\ UNCHANGED <<run, test, results, done, files, exitCode>>

-----------------------------------------------------------------------------
(* _run_test_case_instance()                                               *)

Exists(o) == \E x \in cluster : x.ns = Namespace /\ x.kind = o.kind /\ x.name = o.name

(* Services and policies are applied, and belong to the instance that did  *)
(* so last; setup_pod() takes the pod that it finds under the name.        *)
Create ==
  /\ pc = "setup"
  /\ LET o == Objects[n]
         new == Object(o, Owner, FALSE)
         others == {x \in cluster :
                      ~(x.ns = Namespace /\ x.kind = o.kind /\ x.name = o.name)}
     IN  cluster' = IF o.kind = "pod" /\ Exists(o) THEN cluster ELSE others \cup {new}
  /\ IF n < Len(Objects) THEN n' = n + 1 /\ pc' = pc
                         ELSE n' = 1 /\ pc' = "traffic"
  /\ UNCHANGED <<run, loopVars, results, done, files, exitCode>>

Leg == [case |-> case, conn |-> conn, inst |-> inst, rev |-> rev]

(* Variation: the cleanup is left to the next test.                        *)
InstanceReturnsNoCleanup ==
  /\ pc = "traffic"
  /\ \E ok \in BOOLEAN : results' = Append(results, [leg |-> Leg, ok |-> ok])
  /\ IF TheConn.reverse /\ ~rev
       THEN rev' = TRUE /\ pc' = "setup" /\ n' = 1 /\ UNCHANGED <<case, conn, inst>>
       ELSE NextInstance
  /\ UNCHANGED <<run, test, done, cluster, files, exitCode>>

(* The instance returns a result, and the reverse direction follows with   *)
(* the same pods, or the cleanup.                                          *)
InstanceReturns ==
  /\ pc = "traffic"
  /\ \E ok \in BOOLEAN : results' = Append(results, [leg |-> Leg, ok |-> ok])
  /\ n' = 1
  /\ IF TheConn.reverse /\ ~rev THEN rev' = TRUE /\ pc' = "setup"
                                ELSE rev' = FALSE /\ pc' = "cleanup_after"
  /\ UNCHANGED <<run, test, case, conn, inst, done, cluster, files, exitCode>>

(* An exception leaves the instance, and nobody catches it before main()   *)
(* is left: no cleanup, no results.                                        *)
InstanceRaises ==
  /\ pc \in {"setup", "traffic"}
  /\ pc' = "raised"
  /\ UNCHANGED <<run, loopVars, n, results, done, cluster, files, exitCode>>

-----------------------------------------------------------------------------
(* test_run(): the results are written twice.                              *)

Open ==
  /\ pc \in {"open", "open_copy"}
  /\ LET f == File(IF pc = "open" THEN "json" ELSE "RESULTS")
     IN  files' = [files EXCEPT ![f] = [NoFile EXCEPT !.status = "partial"]]
  /\ pc' = IF pc = "open" THEN "write" ELSE "write_copy"
  /\ UNCHANGED <<run, loopVars, n, results, done, cluster, exitCode>>

Content == [status |-> "complete", test |-> test, data |-> results]

Write ==
  /\ pc = "write"
  /\ files' = [files EXCEPT ![File("json")] = Content]
  /\ pc' = "open_copy"
  /\ UNCHANGED <<run, loopVars, n, results, done, cluster, exitCode>>

(* The directory cannot be made or a file cannot be written.               *)
WriteRaises ==
  /\ pc \in {"open", "write", "open_copy", "write_copy"}
  /\ pc' = "raised"
  /\ UNCHANGED <<run, loopVars, n, results, done, cluster, files, exitCode>>

(* Variation: the results of one test are carried over to the next.        *)
NextTestKeeping ==
  IF test < Len(Tests) THEN test' = test + 1 /\ results' = results /\ pc' = "configure"
                       ELSE UNCHANGED <<test, results>> /\ pc' = "report"

(* main(): test_run() for every test.                                      *)
NextTest ==
  IF test < Len(Tests) THEN test' = test + 1 /\ results' = <<>> /\ pc' = "configure"
                       ELSE UNCHANGED <<test, results>> /\ pc' = "report"

WriteCopy ==
  /\ pc = "write_copy"
  /\ files' = [files EXCEPT ![File("RESULTS")] = Content]
  /\ done' = Append(done, results)
  /\ NextTest
  /\ UNCHANGED <<run, case, conn, inst, rev, n, cluster, exitCode>>

AllPass(res) == \A i \in DOMAIN res : res[i].ok

(* Variation: only the last test counts.                                   *)
ReportLast ==
  /\ pc = "report"
  /\ pc' = "ended"
  /\ exitCode' = IF Check /\ ~AllPass(done[Len(done)]) THEN 1 ELSE 0
  /\ UNCHANGED <<run, loopVars, n, results, done, cluster, files>>

(* main(): process_results_all(), and the exit code.                       *)
Report ==
  /\ pc = "report"
  /\ pc' = "ended"
  /\ exitCode' = IF Check /\ \E t \in DOMAIN done : ~AllPass(done[t]) THEN 1 ELSE 0
  /\ UNCHANGED <<run, loopVars, n, results, done, cluster, files>>

Main == \/ Configure \/ Delete \/ Create \/ InstanceReturns \/ InstanceRaises
        \/ Open \/ Write \/ WriteRaises \/ WriteCopy \/ Report

(* The process is gone: os._exit(), or a signal.                           *)
Killed ==
  /\ pc \notin Stopped
  /\ pc' = "down"
  /\ UNCHANGED <<run, loopVars, n, results, done, cluster, files, exitCode>>

(* The program is started again with the same arguments.                   *)
Restart ==
  /\ pc \in Stopped /\ run < MaxRuns
  /\ pc' = "configure" /\ run' = run + 1
  /\ test' = 1 /\ case' = 1 /\ conn' = 1 /\ inst' = 1 /\ rev' = FALSE /\ n' = 1
  /\ results' = <<>> /\ done' = <<>> /\ exitCode' = 0
  /\ UNCHANGED <<cluster, files>>

Over == pc \in Stopped /\ run = MaxRuns /\ UNCHANGED vars

Next == Main \/ Killed \/ Restart \/ Over

Spec == Init /\ [][Next]_vars

-----------------------------------------------------------------------------
(* The test runs in a namespace of its own: while traffic flows, every     *)
(* pod, service and policy there was made for this very instance, not left *)
(* by another one that used the same names, nor by an invocation that died *)
(* - but for an object whose own deletion failed, which nobody notices: a  *)
(* failing command spares nothing of another kind, and a service or policy *)
(* that the instance asked for is its own even then (src/task.py:572-636,  *)
(* 652, src/trafficFlowTests.py:34-60).                                    *)
OwnNamespace ==
  pc = "traffic" =>
    /\ \A o \in cluster : o.ns = Namespace => o.owner = Owner \/ o.kept
    /\ \A i \in DOMAIN Objects : Objects[i].kind # "pod" =>
         \E o \in cluster : /\ o.ns = Namespace /\ o.owner = Owner
                            /\ o.kind = Objects[i].kind /\ o.name = Objects[i].name

(* Whether the server of a test case is one that the configuration wants   *)
(* to persist: on one node the client's node stands for the server's.      *)
ServerPersists(ca, co) == co.persistent /\ ~ca.same /\ ca.mode # "external"

AskedToStay(o) ==
  LET ca == Tests[o.owner.test].cases[o.owner.case]
      co == Tests[o.owner.test].conns[o.owner.conn]
  IN  /\ ServerPersists(ca, co)
      /\ o.kind = "pod" /\ o.name = ServerPodName(ca, co, o.owner.inst)

(* An invocation that comes to its end leaves nothing behind that nobody   *)
(* asked to stay, not even what earlier invocations that raised or died    *)
(* had left, but for an object whose own deletion failed: one failing      *)
(* command keeps no object of another kind alive                           *)
(* (src/trafficFlowTests.py:40-48, 147, 163).  Of the pods that were asked *)
(* to stay it says nothing; see PersistentPodStays.                        *)
CleanAtEnd ==
  pc = "ended" =>
    \A o \in cluster, t \in TestIds :
      o.ns = Tests[t].namespace => o.kept \/ AskedToStay(o)

(* ""persistent" - Whether to have the server pod persist after the test"  *)
(* (src/README.md:107): when the program has ended, the pods of its        *)
(* persistent servers are there.                                           *)
PersistentPodStays ==
  pc = "ended" =>
    \A t \in TestIds : \A c \in DOMAIN Tests[t].cases, k \in DOMAIN Tests[t].conns :
      ServerPersists(Tests[t].cases[c], Tests[t].conns[k]) =>
        \A i \in 1..Tests[t].conns[k].instances :
          \E o \in cluster :
            /\ o.ns = Tests[t].namespace /\ o.kind = "pod"
            /\ o.name = ServerPodName(Tests[t].cases[c], Tests[t].conns[k], i)

LegsOf(t) ==
  UNION {[case : DOMAIN Tests[t].cases, conn : {k}, inst : 1..Tests[t].conns[k].instances,
          rev : IF Tests[t].conns[k].reverse THEN BOOLEAN ELSE {FALSE}] :
           k \in DOMAIN Tests[t].conns}

EachLegOnce(t, res) ==
  /\ Len(res) = Cardinality(LegsOf(t))
  /\ {res[i].leg : i \in DOMAIN res} = LegsOf(t)

(* A result file that is complete as a file is complete as a result: one   *)
(* entry for every test case, connection, instance and direction of its    *)
(* test, whenever and however its program stopped                          *)
(* (src/trafficFlowTests.py:125-154, 177-182).                             *)
FilesComplete ==
  \A f \in FileNames :
    files[f].status = "complete" => EachLegOnce(files[f].test, files[f].data)

(* When main() comes to its end the two files of every test are there and  *)
(* are identical (src/trafficFlowTests.py:177-182), unless the tests had   *)
(* to share a name.                                                        *)
ResultsOnDisk ==
  pc = "ended" /\ ~OutputBase =>
    \A t \in TestIds, which \in {"json", "RESULTS"} :
      files[<<which, run, t>>] = [status |-> "complete", test |-> t, data |-> done[t]]

(* With --check the exit code tells the truth: 0 if and only if every leg  *)
(* of every test was run and passed (src/tft.py:161-185).                  *)
ExitCodeTruthful ==
  pc = "ended" /\ Check =>
    (exitCode = 0 <=>
       \A t \in TestIds : /\ t \in DOMAIN done
                          /\ EachLegOnce(t, done[t]) /\ AllPass(done[t]))

(* "the result will be written to ${output_base}$(printf '%03d'            *)
(* $number).json where ${number} is the zero-based index of the test"      *)
(* (src/tft.py:54-56): no test's result is overwritten by another's.       *)
NumberedFiles ==
  pc = "ended" => \A t \in TestIds :
    \E f \in FileNames : f[1] = "json" /\ files[f].status = "complete" /\ files[f].test = t

(* Of these two statements of the docs, PersistentPodStays and             *)
(* NumberedFiles, at least one is kept by every invocation that ends: a    *)
(* violation is an end at which neither is (src/README.md:107,             *)
(* src/tft.py:54-56).                                                      *)
NumberedFilesOrPersistentPods == NumberedFiles \/ PersistentPodStays
=============================================================================
