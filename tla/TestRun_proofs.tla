---------------------------- MODULE TestRun_proofs ----------------------------
(***************************************************************************)
(* What holds of every configuration - any tests, cases, connections and   *)
(* instances, any number of invocations: the inductive invariant that      *)
(* relates the place of main() to the objects in the namespaces and to the *)
(* files, and the safety properties of TestRun that follow from it.  On    *)
(* top of it, the results: the loops bring one for every test case,        *)
(* connection, instance and direction - the legs with a result are those   *)
(* that come before the loop variables.                                    *)
(***************************************************************************)
EXTENDS TestRun, SequenceTheorems, FiniteSetTheorems, TLAPS

InInstance == {"setup", "traffic", "cleanup_after"}
Cleaning   == {"cleanup_before", "cleanup_after"}
Writing    == {"open", "write", "open_copy", "write_copy"}

(* The cleanup has removed what is of the kinds it has come past, but for  *)
(* the objects that a failed command kept.                                 *)
Deleted ==
  pc \in Cleaning =>
    \A o \in cluster, j \in DOMAIN Cleanup :
      o.ns = Namespace /\ j < n /\ ~o.kept => o.kind # Cleanup[j]

(* After a cleanup only the current instance fills the namespace.          *)
Owned ==
  pc \in {"setup", "traffic"} =>
    \A o \in cluster : o.ns = Namespace => o.owner = Owner \/ o.kept

(* It has the services and policies that it has asked for so far.          *)
Has(k) ==
  \E o \in cluster : /\ o.ns = Namespace /\ o.owner = Owner
                     /\ o.kind = Objects[k].kind /\ o.name = Objects[k].name
Applied ==
  pc \in {"setup", "traffic"} =>
    \A k \in DOMAIN Objects :
      Objects[k].kind # "pod" /\ (pc = "setup" => k < n) => Has(k)

(* Behind the last cleanup of a test its namespace is empty, and those of  *)
(* earlier tests stay empty, except for what the current instance makes    *)
(* and for what failed commands kept.                                      *)
Emptied ==
  /\ pc \in Writing => \A o \in cluster : o.ns = Namespace => o.kept
  /\ pc \notin Stopped \cup {"report"} =>
       \A t \in TestIds : t < test =>
         \A o \in cluster : o.ns = Tests[t].namespace =>
           o.kept \/ (o.ns = Namespace /\ pc \in InInstance \cup Cleaning)
  /\ pc \in {"report", "ended"} =>
       \A t \in TestIds, o \in cluster : o.ns = Tests[t].namespace => o.kept

ClusterInv == Deleted /\ Owned /\ Applied /\ Emptied

(* One entry of `done' for every test that is behind.                      *)
LenInv ==
  /\ pc \notin Stopped \cup {"report"} => Len(done) = test - 1
  /\ pc \in {"report", "ended"} => Len(done) = Len(Tests)

(* Its two files are on disk, and nobody writes to them again.             *)
FileInv ==
  ~OutputBase =>
    /\ \A t \in DOMAIN done, which \in {"json", "RESULTS"} :
         files[<<which, run, t>>] = [status |-> "complete", test |-> t, data |-> done[t]]
    /\ pc \in {"open_copy", "write_copy"} => files[<<"json", run, test>>] = Content

IInv == TypeOK /\ ClusterInv /\ LenInv /\ FileInv

-----------------------------------------------------------------------------
(* Facts about the configuration.                                          *)
LEMMA Config ==
  /\ TestIds = 1..Len(Tests) /\ Len(Tests) \in Nat /\ 1 \in TestIds
  /\ \A t \in TestIds : /\ DOMAIN Tests[t].cases = 1..Len(Tests[t].cases)
                        /\ Len(Tests[t].cases) \in Nat
                        /\ \A c \in DOMAIN Tests[t].cases : Tests[t].cases[c] \in Cases
                        /\ DOMAIN Tests[t].conns = 1..Len(Tests[t].conns)
                        /\ Len(Tests[t].conns) \in Nat \ {0}
                        /\ \A k \in DOMAIN Tests[t].conns : Tests[t].conns[k] \in Conns
<1>1. /\ TestIds = 1..Len(Tests) /\ Len(Tests) \in Nat /\ 1 \in TestIds
  BY TestsAssumption DEF TestIds
<1>2. ASSUME NEW t \in TestIds
      PROVE  Tests[t].cases \in Seq(Cases) /\ Tests[t].conns \in Seq(Conns)
  <2> DEFINE T == [namespace : STRING, cases : Seq(Cases), conns : Seq(Conns)]
  <2>1. Tests \in Seq(T)
    BY TestsAssumption
  <2>2. Tests[t] \in T
    <3> HIDE DEF T
    <3> QED
      BY <1>1, <2>1, ElementOfSeq
  <2> QED
    BY <2>2
<1>3. ASSUME NEW t \in TestIds PROVE Len(Tests[t].conns) > 0
  BY TestsAssumption DEF TestIds
<1> QED
  BY <1>1, <1>2, <1>3

LEMMA CleanupFacts ==
  /\ Len(Cleanup) = 3 /\ DOMAIN Cleanup = 1..3
  /\ \A j \in 1..3 : Cleanup[j] \in {"pod", "service", "policy"}
  /\ {Cleanup[j] : j \in 1..3} = {"pod", "service", "policy"}
BY DEF Cleanup

(* An instance has at least its client's pod, and asks for nothing but     *)
(* pods, services and policies.                                            *)
LEMMA ObjectsFacts ==
  ASSUME NEW ca \in Cases, NEW co \in Conns, NEW i \in Nat
  PROVE  /\ Len(ObjectsOf(ca, co, i)) \in Nat \ {0}
         /\ DOMAIN ObjectsOf(ca, co, i) = 1..Len(ObjectsOf(ca, co, i))
         /\ \A k \in DOMAIN ObjectsOf(ca, co, i) :
              ObjectsOf(ca, co, i)[k].kind \in {"pod", "service", "policy"}
<1> DEFINE serverPod == Pod(ServerPodName(ca, co, i))
           clientPod == Pod(<<co.pod, co.client, "client", i>>)
           tools1 == Pod(<<"tools", ServerNode(ca, co)>>)
           tools2 == Pod(<<"tools", co.client>>)
           O == {serverPod, clientPod, tools1, tools2,
                 Service("tft-clusterip-service"), Service("tft-nodeport-service"),
                 Policy("allow-ingress-mnp"), Policy("allow-egress-mnp")}
<1>1. \A o \in O : o.kind \in {"pod", "service", "policy"}
  BY DEF Pod, Service, Policy
<1>2. ServerPods(ca, co, i) \in Seq(O)
  <2>1. serverPod \in O
    OBVIOUS
  <2> HIDE DEF O, serverPod
  <2>2. <<>> \in Seq(O) /\ <<serverPod>> \in Seq(O)
    BY <2>1
  <2> QED
    BY <2>2 DEF ServerPods, serverPod
<1>3. ToolsPods(ca, co) \in Seq(O)
  <2>1. tools1 \in O /\ tools2 \in O
    OBVIOUS
  <2> HIDE DEF O, tools1, tools2
  <2>2. <<>> \in Seq(O) /\ <<tools1, tools2>> \in Seq(O)
    BY <2>1
  <2> QED
    BY <2>2 DEF ToolsPods, tools1, tools2
<1>4. Services(ca) \in Seq(O)
  <2>1. Service("tft-clusterip-service") \in O /\ Service("tft-nodeport-service") \in O
    OBVIOUS
  <2> HIDE DEF O
  <2> QED
    BY <2>1 DEF Services
<1>5. Policies(ca) \in Seq(O)
  <2>1. Policy("allow-ingress-mnp") \in O /\ Policy("allow-egress-mnp") \in O
    OBVIOUS
  <2> HIDE DEF O
  <2> QED
    BY <2>1 DEF Policies
<1>6. <<clientPod>> \in Seq(O) /\ Len(<<clientPod>>) = 1
  OBVIOUS
<1> HIDE DEF O
<1>7. ObjectsOf(ca, co, i) =
        Services(ca) \o Policies(ca) \o ServerPods(ca, co, i)
          \o <<clientPod>> \o ToolsPods(ca, co)
  BY DEF ObjectsOf
<1> HIDE DEF clientPod
<1>8. ObjectsOf(ca, co, i) \in Seq(O) /\ Len(ObjectsOf(ca, co, i)) >= 1
  <2> DEFINE a == Services(ca)  b == Policies(ca)  c == ServerPods(ca, co, i)
             d == <<clientPod>> e == ToolsPods(ca, co)
  <2>1. a \o b \in Seq(O) /\ Len(a \o b) = Len(a) + Len(b)
    BY <1>4, <1>5, ConcatProperties
  <2>2. (a \o b) \o c \in Seq(O) /\ Len((a \o b) \o c) = Len(a \o b) + Len(c)
    BY <2>1, <1>2, ConcatProperties
  <2>3. /\ ((a \o b) \o c) \o d \in Seq(O)
        /\ Len(((a \o b) \o c) \o d) = Len((a \o b) \o c) + Len(d)
    BY <2>2, <1>6, ConcatProperties
  <2>4. /\ (((a \o b) \o c) \o d) \o e \in Seq(O)
        /\ Len((((a \o b) \o c) \o d) \o e) = Len(((a \o b) \o c) \o d) + Len(e)
    BY <2>3, <1>3, ConcatProperties
  <2>5. /\ Len((a \o b) \o c) \in Nat /\ Len(e) \in Nat /\ Len(d) = 1
    BY <2>2, <1>3, <1>6, LenProperties
  <2>6. Len((((a \o b) \o c) \o d) \o e) >= 1
    BY <2>3, <2>4, <2>5
  <2> QED
    BY <1>7, <2>4, <2>6
<1>9. /\ Len(ObjectsOf(ca, co, i)) \in Nat
      /\ DOMAIN ObjectsOf(ca, co, i) = 1..Len(ObjectsOf(ca, co, i))
      /\ \A k \in DOMAIN ObjectsOf(ca, co, i) : ObjectsOf(ca, co, i)[k] \in O
  BY <1>8, LenProperties, ElementOfSeq
<1> QED
  BY <1>1, <1>8, <1>9

LEMMA ObjectsAt ==
  \A t \in TestIds : \A c \in DOMAIN Tests[t].cases, k \in DOMAIN Tests[t].conns, i \in Nat :
    LET O == ObjectsOf(Tests[t].cases[c], Tests[t].conns[k], i)
    IN  /\ Len(O) \in Nat \ {0} /\ DOMAIN O = 1..Len(O)
        /\ \A m \in DOMAIN O : O[m].kind \in {"pod", "service", "policy"}
BY Config, ObjectsFacts

-----------------------------------------------------------------------------
(* The parts of TypeOK that the loops touch, and the rest.                 *)
LoopsOK ==
  /\ test \in TestIds
  /\ case \in Nat /\ conn \in Nat /\ inst \in Nat /\ rev \in BOOLEAN
  /\ pc \in InInstance =>
       /\ case \in CaseIds /\ conn \in ConnIds
       /\ inst \in 1..TheConn.instances
  /\ n \in Nat \ {0}
  /\ pc = "setup" => n \in DOMAIN Objects
  /\ pc \in Cleaning => n \in DOMAIN Cleanup

ResultsOK ==
  /\ results \in Seq(Results)
  /\ done \in Seq(Seq(Results)) /\ Len(done) <= Len(Tests)

Namespaces == {Tests[t].namespace : t \in TestIds}

ClusterOK ==
  \A o \in cluster : /\ o.ns \in Namespaces
                     /\ o.kind \in {"pod", "service", "policy"}
                     /\ o.owner \in Owners /\ o.kept \in BOOLEAN

Contents == [status : {"none", "partial", "complete"},
             test : TestIds \cup {0}, data : Seq(Results)]

LEMMA TypeParts ==
  TypeOK <=> /\ pc \in Places /\ run \in 1..MaxRuns
             /\ LoopsOK /\ ResultsOK /\ ClusterOK
             /\ files \in [FileNames -> Contents]
             /\ exitCode \in 0..1
BY DEF TypeOK, LoopsOK, ResultsOK, ClusterOK, Namespaces, Contents, InInstance, Cleaning

LEMMA InitInv == Init => IInv
<1> SUFFICES ASSUME Init PROVE IInv
  OBVIOUS
<1> USE DEF Init
<1>1. LoopsOK
  <2>1. /\ test \in TestIds /\ case \in Nat /\ conn \in Nat /\ inst \in Nat
        /\ n \in Nat \ {0}
    BY Config
  <2>3. rev \in BOOLEAN
    OBVIOUS
  <2>2. pc \notin InInstance /\ pc # "setup" /\ pc \notin Cleaning
    BY DEF InInstance, Cleaning
  <2> QED
    BY <2>1, <2>2, <2>3 DEF LoopsOK
<1>2. ResultsOK /\ ClusterOK
  <2>1. <<>> \in Seq(Results) /\ <<>> \in Seq(Seq(Results)) /\ Len(<<>>) = 0
    OBVIOUS
  <2> QED
    BY <2>1, Config DEF ResultsOK, ClusterOK
<1>3. files \in [FileNames -> Contents]
  <2>1. <<>> \in Seq(Results)
    OBVIOUS
  <2>2. NoFile \in Contents
    BY <2>1 DEF NoFile, Contents
  <2> QED
    BY <2>2
<1>4. TypeOK
  BY <1>1, <1>2, <1>3, TypeParts, RunsAssumption DEF Places, Stopped
<1>5. ClusterInv
  BY Config DEF ClusterInv, Deleted, Owned, Applied, Emptied, Cleaning, InInstance, Writing, Stopped
<1>6. LenInv /\ FileInv
  BY DEF LenInv, FileInv, Stopped
<1> QED
  BY <1>4, <1>5, <1>6 DEF IInv

LEMMA ObjectsHere ==
  ASSUME test \in TestIds, case \in CaseIds, conn \in ConnIds, inst \in Nat
  PROVE  /\ Len(Objects) \in Nat \ {0} /\ DOMAIN Objects = 1..Len(Objects)
         /\ \A m \in DOMAIN Objects : Objects[m].kind \in {"pod", "service", "policy"}
BY ObjectsAt DEF Objects, TheConn, TheCase, CaseIds, ConnIds

LEMMA ObjectsThere ==
  ASSUME test' \in TestIds, case' \in CaseIds', conn' \in ConnIds', inst' \in Nat
  PROVE  /\ Len(Objects') \in Nat \ {0} /\ DOMAIN Objects' = 1..Len(Objects')
<1> DEFINE O(t, c, k, i) == ObjectsOf(Tests[t].cases[c], Tests[t].conns[k], i)
<1>1. \A t \in TestIds : \A c \in DOMAIN Tests[t].cases, k \in DOMAIN Tests[t].conns :
        \A i \in Nat : /\ Len(O(t, c, k, i)) \in Nat \ {0}
                       /\ DOMAIN O(t, c, k, i) = 1..Len(O(t, c, k, i))
  BY ObjectsAt
<1>2. case' \in DOMAIN Tests[test'].cases /\ conn' \in DOMAIN Tests[test'].conns
  BY DEF CaseIds, ConnIds
<1>3. Objects' = O(test', case', conn', inst')
  BY DEF Objects, TheConn, TheCase
<1> HIDE DEF O
<1> QED
  BY <1>1, <1>2, <1>3

(* The loops go to an instance that there is, or to the end.               *)
LEMMA FirstInstanceFacts ==
  ASSUME LoopsOK, FirstInstance, test' = test
  PROVE  LoopsOK' /\ pc' \in {"open", "setup"} /\ rev' = FALSE
<1>1. /\ pc' \in {"open", "setup"} /\ rev' = FALSE
      /\ case' = 1 /\ conn' = 1 /\ inst' = 1 /\ n' = 1 /\ test' \in TestIds
  BY DEF FirstInstance, LoopsOK
<1>2. ASSUME pc' = "setup"
      PROVE  /\ case' \in CaseIds' /\ conn' \in ConnIds'
             /\ inst' \in 1..TheConn'.instances /\ n' \in DOMAIN Objects'
  <2>1. case' \in CaseIds' /\ conn' \in ConnIds'
    <3>1. CaseIds # {}
      BY <1>2 DEF FirstInstance
    <3> QED
      BY <1>1, <3>1, Config DEF CaseIds, ConnIds, LoopsOK
  <2>2. inst' \in 1..TheConn'.instances
    BY <1>1, <2>1, Config DEF TheConn, ConnIds, Conns
  <2>3. n' \in DOMAIN Objects'
    BY <1>1, <2>1, ObjectsThere
  <2> QED
    BY <2>1, <2>2, <2>3
<1>3. pc' \notin Cleaning /\ (pc' \in InInstance => pc' = "setup")
  BY <1>1 DEF Cleaning, InInstance
<1>4. rev' \in BOOLEAN
  BY <1>1
<1>5. case' \in Nat /\ conn' \in Nat /\ inst' \in Nat /\ n' \in Nat \ {0}
  BY <1>1
<1> QED
  BY <1>1, <1>2, <1>3, <1>4, <1>5 DEF LoopsOK

LEMMA NextInstanceFacts ==
  ASSUME LoopsOK, NextInstance, test' = test, pc \in InInstance
  PROVE  LoopsOK' /\ pc' \in {"open", "setup"} /\ rev' = FALSE
<1>1. pc' \in {"open", "setup"} /\ rev' = FALSE /\ n' = 1 /\ test' \in TestIds
  BY DEF NextInstance, LoopsOK
<1>2. /\ test \in TestIds /\ case \in CaseIds /\ conn \in ConnIds
      /\ inst \in 1..TheConn.instances
  BY DEF LoopsOK
<1>3. /\ case' \in Nat /\ conn' \in Nat /\ inst' \in Nat
  BY DEF NextInstance, LoopsOK
<1>4. ASSUME pc' = "setup"
      PROVE  /\ case' \in CaseIds' /\ conn' \in ConnIds'
             /\ inst' \in 1..TheConn'.instances /\ n' \in DOMAIN Objects'
  <2>1. case' \in CaseIds' /\ conn' \in ConnIds'
    <3> DEFINE C == Len(Tests[test].cases)
               K == Len(Tests[test].conns)
    <3>1. case \in 1..C /\ conn \in 1..K /\ C \in Nat /\ K \in Nat
      BY <1>2, Config DEF CaseIds, ConnIds
    <3>2. CaseIds' = 1..C /\ ConnIds' = 1..K
      <4>1. DOMAIN Tests[test].cases = 1..C /\ DOMAIN Tests[test].conns = 1..K
        BY <1>2, Config
      <4> QED
        BY <4>1, Zenon DEF CaseIds, ConnIds
    <3>3. pc' # "open"
      BY <1>4
    <3>4. \/ case' = case /\ conn' = conn
          \/ conn < K /\ conn' = conn + 1 /\ case' = case
          \/ case < C /\ conn' = 1 /\ case' = case + 1
      BY <3>3, Zenon DEF NextInstance
    <3> HIDE DEF C, K
    <3>5. case' \in 1..C /\ conn' \in 1..K
      BY <3>1, <3>4
    <3> QED
      BY <3>2, <3>5, Zenon
  <2>2. inst' \in 1..TheConn'.instances
    <3>1. TheConn' \in Conns /\ TheConn \in Conns
      BY <1>2, <2>1, Config DEF TheConn, ConnIds
    <3>2. TheConn.instances \in Nat \ {0} /\ TheConn'.instances \in Nat \ {0}
      BY <3>1 DEF Conns
    <3>3. CASE inst < TheConn.instances
      BY <1>2, <3>2, <3>3 DEF TheConn, NextInstance
    <3>4. CASE ~(inst < TheConn.instances)
      BY <3>2, <3>4 DEF NextInstance
    <3> QED
      BY <3>3, <3>4
  <2>3. n' \in DOMAIN Objects'
    BY <1>1, <1>3, <2>1, ObjectsThere
  <2> QED
    BY <2>1, <2>2, <2>3
<1>5. pc' \notin Cleaning /\ (pc' \in InInstance => pc' = "setup")
  BY <1>1 DEF Cleaning, InInstance
<1>6. rev' \in BOOLEAN
  BY <1>1
<1>7. n' \in Nat \ {0}
  BY <1>1
<1> QED
  BY <1>1, <1>3, <1>4, <1>5, <1>6, <1>7 DEF LoopsOK

-----------------------------------------------------------------------------
(* Every step keeps the types.                                             *)
LEMMA TypePartsNext ==
  ASSUME pc' \in Places, run' \in 1..MaxRuns, LoopsOK', ResultsOK', ClusterOK',
         files' \in [FileNames -> Contents], exitCode' \in 0..1
  PROVE  TypeOK'
BY DEF TypeOK, LoopsOK, ResultsOK, ClusterOK, Namespaces, Contents, InInstance, Cleaning

(* The loop variables stay, and main() is not in a loop's body.            *)
LEMMA LoopsStay ==
  ASSUME LoopsOK, UNCHANGED loopVars, n' \in Nat \ {0},
         pc' \notin InInstance \cup Cleaning
  PROVE  LoopsOK'
<1>1. pc' # "setup" /\ pc' \notin InInstance /\ pc' \notin Cleaning
  BY DEF InInstance
<1>2. /\ test' \in TestIds /\ case' \in Nat /\ conn' \in Nat /\ inst' \in Nat
  BY DEF LoopsOK, loopVars
<1>3. rev' \in BOOLEAN
  BY DEF LoopsOK, loopVars
<1> QED
  BY <1>1, <1>2, <1>3 DEF LoopsOK

LEMMA DeleteTypes ==
  ASSUME LoopsOK, ClusterOK, pc \in Places, Delete
  PROVE  LoopsOK' /\ ClusterOK' /\ pc' \in Places
<1> USE DEF Delete
<1>1. ClusterOK'
  <2>1. Namespace \in Namespaces
    BY DEF Namespace, Namespaces, LoopsOK
  <2> SUFFICES ASSUME NEW o \in cluster', o \notin cluster
               PROVE  /\ o.ns \in Namespaces /\ o.kind \in {"pod", "service", "policy"}
                      /\ o.owner \in Owners /\ o.kept \in BOOLEAN
    BY DEF ClusterOK, Namespaces
  <2>2. PICK x \in cluster : o = Object(x, x.owner, TRUE)
    BY DEF DeleteKind, DeleteFails, ToDelete
  <2> QED
    BY <2>1, <2>2 DEF ClusterOK, Object
<1>2. CASE n < Len(Cleanup)
  <2>1. n' = n + 1 /\ UNCHANGED <<pc, loopVars>> /\ pc \in Cleaning
    BY <1>2 DEF loopVars, Cleaning
  <2>2. n' \in Nat \ {0} /\ n' \in DOMAIN Cleanup /\ pc' \in Cleaning
    BY <1>2, <2>1, CleanupFacts DEF LoopsOK
  <2>3. pc' # "setup" /\ pc' \notin InInstance => LoopsOK'
    BY <2>1, <2>2 DEF LoopsOK, loopVars
  <2>4. pc' = "cleanup_after" => LoopsOK'
    BY <2>1, <2>2 DEF LoopsOK, loopVars, CaseIds, ConnIds, TheConn
  <2> QED
    BY <1>1, <2>1, <2>2, <2>3, <2>4 DEF Cleaning, InInstance
<1>3. CASE ~(n < Len(Cleanup)) /\ pc = "cleanup_before"
  BY <1>1, <1>3, FirstInstanceFacts DEF AfterCleanup, Places, loopVars
<1>4. CASE ~(n < Len(Cleanup)) /\ pc = "cleanup_after"
  BY <1>1, <1>4, NextInstanceFacts DEF AfterCleanup, Places, loopVars, InInstance
<1> QED
  BY <1>2, <1>3, <1>4

LEMMA CreateTypes ==
  ASSUME LoopsOK, ClusterOK, pc \in Places, run \in 1..MaxRuns, Create
  PROVE  LoopsOK' /\ ClusterOK' /\ pc' \in Places
<1>1. /\ test \in TestIds /\ case \in CaseIds /\ conn \in ConnIds /\ inst \in Nat
      /\ case \in Nat /\ conn \in Nat /\ pc = "setup"
      /\ n \in DOMAIN Objects /\ UNCHANGED loopVars
  BY DEF Create, LoopsOK, InInstance, loopVars
<1>2. Objects[n].kind \in {"pod", "service", "policy"}
  BY <1>1, ObjectsHere
<1>3. Owner \in Owners
  BY <1>1 DEF Owner, Owners
<1>4. Namespace \in Namespaces
  BY <1>1 DEF Namespace, Namespaces
<1>5. ClusterOK'
  <2> DEFINE new == Object(Objects[n], Owner, FALSE)
  <2>1. cluster' \subseteq cluster \cup {new}
    BY DEF Create
  <2>2. /\ new.ns \in Namespaces
        /\ new.kind \in {"pod", "service", "policy"} /\ new.owner \in Owners
        /\ new.kept \in BOOLEAN
    BY <1>2, <1>3, <1>4 DEF Object
  <2> HIDE DEF new
  <2> QED
    BY <2>1, <2>2 DEF ClusterOK, Namespaces
<1>6. /\ pc' \in {"setup", "traffic"} /\ n' \in Nat \ {0}
      /\ pc' = "setup" => n' \in 1..Len(Objects)
  BY <1>1, ObjectsHere DEF Create
<1>7. Objects' = Objects /\ CaseIds' = CaseIds /\ ConnIds' = ConnIds /\ TheConn' = TheConn
  BY <1>1 DEF Objects, CaseIds, ConnIds, TheConn, TheCase, loopVars
<1>8. pc' = "setup" => n' \in DOMAIN Objects'
  BY <1>1, <1>6, <1>7, ObjectsHere
<1>9. /\ test' \in TestIds /\ case' \in CaseIds' /\ conn' \in ConnIds'
      /\ inst' \in 1..TheConn'.instances
      /\ case' \in Nat /\ conn' \in Nat /\ inst' \in Nat
  BY <1>1, <1>7 DEF LoopsOK, loopVars, InInstance
<1>10. rev' \in BOOLEAN
  BY <1>1 DEF LoopsOK, loopVars
<1>11. pc' \notin Cleaning /\ pc' \in Places
  BY <1>6 DEF Cleaning, Places
<1> QED
  BY <1>5, <1>6, <1>8, <1>9, <1>10, <1>11 DEF LoopsOK

LEMMA ReturnTypes ==
  ASSUME LoopsOK, ResultsOK, InstanceReturns
  PROVE  LoopsOK' /\ ResultsOK' /\ pc' \in Places
<1>1. /\ test \in TestIds /\ case \in CaseIds /\ conn \in ConnIds
      /\ case \in Nat /\ conn \in Nat /\ inst \in Nat
      /\ inst \in 1..TheConn.instances
      /\ pc' \in {"setup", "cleanup_after"} /\ n' = 1
      /\ UNCHANGED <<test, case, conn, inst>>
  BY DEF InstanceReturns, LoopsOK, InInstance
<1>2. rev \in BOOLEAN /\ rev' \in BOOLEAN
  BY DEF InstanceReturns, LoopsOK
<1>3. Objects' = Objects /\ CaseIds' = CaseIds /\ ConnIds' = ConnIds /\ TheConn' = TheConn
  BY <1>1 DEF Objects, CaseIds, ConnIds, TheConn, TheCase
<1>4. n' \in DOMAIN Objects' /\ n' \in DOMAIN Cleanup /\ n' \in Nat \ {0}
  BY <1>1, <1>3, ObjectsHere, CleanupFacts
<1>5. LoopsOK' /\ pc' \in Places
  BY <1>1, <1>2, <1>3, <1>4 DEF LoopsOK, InInstance, Cleaning, Places
<1>6. Leg \in Legs
  BY <1>1, <1>2 DEF Leg, Legs
<1>7. \A b \in BOOLEAN : [leg |-> Leg, ok |-> b] \in Results
  BY <1>6 DEF Results
<1>8. PICK b \in BOOLEAN : results' = Append(results, [leg |-> Leg, ok |-> b])
  BY DEF InstanceReturns
<1>9. ResultsOK'
  BY <1>7, <1>8, AppendProperties DEF ResultsOK, InstanceReturns
<1> QED
  BY <1>5, <1>9

LEMMA FilesStep ==
  ASSUME files \in [FileNames -> Contents], run \in 1..MaxRuns, test \in TestIds,
         results \in Seq(Results)
  PROVE  /\ \A which \in {"json", "RESULTS"} : File(which) \in FileNames
         /\ Content \in Contents
         /\ [NoFile EXCEPT !.status = "partial"] \in Contents
<1>1. run \in 0..MaxRuns /\ 0 \in 0..MaxRuns /\ test \in 0..Len(Tests) /\ 0 \in 0..Len(Tests)
  BY Config, RunsAssumption
<1>2. <<>> \in Seq(Results)
  OBVIOUS
<1> QED
  BY <1>1, <1>2 DEF File, FileNames, Content, Contents, NoFile

LEMMA WriteCopyTypes ==
  ASSUME LoopsOK, ResultsOK, LenInv, run \in 1..MaxRuns,
         files \in [FileNames -> Contents], WriteCopy
  PROVE  /\ LoopsOK' /\ ResultsOK' /\ pc' \in Places
         /\ files' \in [FileNames -> Contents]
<1>1. /\ test \in TestIds /\ case \in Nat /\ conn \in Nat /\ inst \in Nat
      /\ n \in Nat \ {0} /\ results \in Seq(Results) /\ done \in Seq(Seq(Results))
  BY DEF LoopsOK, ResultsOK
<1>2. rev' \in BOOLEAN
  BY DEF LoopsOK, WriteCopy
<1>3. /\ test' \in TestIds /\ pc' \in {"configure", "report"}
      /\ results' \in {results, <<>>} /\ done' = Append(done, results)
      /\ UNCHANGED <<case, conn, inst, n>>
  BY <1>1, Config DEF WriteCopy, NextTest
<1>4. LoopsOK' /\ pc' \in Places
  <2>1. pc' \notin InInstance /\ pc' # "setup" /\ pc' \notin Cleaning /\ pc' \in Places
    BY <1>3 DEF InInstance, Cleaning, Places
  <2> QED
    BY <1>1, <1>2, <1>3, <2>1 DEF LoopsOK
<1>5. ResultsOK'
  <2>1. Len(done) = test - 1
    BY DEF LenInv, WriteCopy, Stopped
  <2>2. done' \in Seq(Seq(Results)) /\ Len(done') = Len(done) + 1
    BY <1>1, <1>3, AppendProperties
  <2>3. Len(done') <= Len(Tests)
    BY <1>1, <2>1, <2>2, Config
  <2>4. <<>> \in Seq(Results)
    OBVIOUS
  <2> QED
    BY <1>1, <1>3, <2>2, <2>3, <2>4 DEF ResultsOK
<1>6. files' \in [FileNames -> Contents]
  BY <1>1, FilesStep DEF WriteCopy
<1> QED
  BY <1>4, <1>5, <1>6

LEMMA RestartTypes ==
  ASSUME Restart, run \in 1..MaxRuns
  PROVE  LoopsOK' /\ ResultsOK' /\ pc' \in Places /\ run' \in 1..MaxRuns
<1>1. LoopsOK'
  <2>1. /\ test' \in TestIds /\ case' \in Nat /\ conn' \in Nat /\ inst' \in Nat
        /\ n' \in Nat \ {0}
    BY Config DEF Restart
  <2>2. rev' \in BOOLEAN
    BY DEF Restart
  <2>3. pc' \notin InInstance /\ pc' # "setup" /\ pc' \notin Cleaning
    BY DEF Restart, InInstance, Cleaning
  <2> QED
    BY <2>1, <2>2, <2>3 DEF LoopsOK
<1>2. ResultsOK'
  <2>1. <<>> \in Seq(Results) /\ <<>> \in Seq(Seq(Results)) /\ Len(<<>>) = 0
    OBVIOUS
  <2> QED
    BY <2>1, Config DEF ResultsOK, Restart
<1>3. pc' \in Places /\ run' \in 1..MaxRuns
  BY RunsAssumption DEF Restart, Places
<1> QED
  BY <1>1, <1>2, <1>3

LEMMA TypeStep ==
  ASSUME TypeOK, LenInv, [Next]_vars
  PROVE  TypeOK'
<1>1. /\ pc \in Places /\ run \in 1..MaxRuns
      /\ LoopsOK /\ ResultsOK /\ ClusterOK
      /\ files \in [FileNames -> Contents]
      /\ exitCode \in 0..1
  BY TypeParts
<1>2. test \in TestIds /\ results \in Seq(Results) /\ n \in Nat \ {0}
  BY <1>1 DEF LoopsOK, ResultsOK
<1>3. CASE Configure
  <2>1. CASE pc' = "raised"
    BY <1>1, <1>3, <2>1, LoopsStay, TypePartsNext
       DEF Configure, Places, Stopped, InInstance, Cleaning, ResultsOK, ClusterOK
  <2>2. CASE pc' = "cleanup_before"
    <3>1. n' \in DOMAIN Cleanup /\ n' \in Nat \ {0}
      BY <1>3, CleanupFacts DEF Configure
    <3>2. LoopsOK'
      BY <1>1, <1>3, <2>2, <3>1 DEF LoopsOK, Configure, loopVars, InInstance
    <3> QED
      BY <1>1, <1>3, <2>2, <3>2, TypePartsNext DEF Configure, Places, ResultsOK, ClusterOK
  <2> QED
    BY <1>3, <2>1, <2>2 DEF Configure
<1>4. CASE Delete
  BY <1>1, <1>4, DeleteTypes, TypePartsNext DEF Delete, ResultsOK
<1>5. CASE Create
  BY <1>1, <1>5, CreateTypes, TypePartsNext DEF Create, ResultsOK
<1>6. CASE InstanceReturns
  BY <1>1, <1>6, ReturnTypes, TypePartsNext DEF InstanceReturns, ClusterOK
<1>7. CASE InstanceRaises \/ WriteRaises \/ Killed
  BY <1>1, <1>2, <1>7, LoopsStay, TypePartsNext
     DEF InstanceRaises, WriteRaises, Killed, Places, Stopped, InInstance, Cleaning,
         ResultsOK, ClusterOK
<1>8. CASE Open \/ Write
  <2>1. pc' \in {"write", "write_copy", "open_copy"} /\ UNCHANGED <<run, loopVars, n>>
    BY <1>8 DEF Open, Write
  <2>2. LoopsOK' /\ pc' \in Places
    BY <1>1, <1>2, <2>1, LoopsStay DEF InInstance, Cleaning, Places
  <2>3. files' \in [FileNames -> Contents]
    BY <1>1, <1>2, <1>8, FilesStep DEF Open, Write
  <2> QED
    BY <1>1, <1>8, <2>2, <2>3, TypePartsNext DEF Open, Write, ResultsOK, ClusterOK
<1>9. CASE WriteCopy
  BY <1>1, <1>9, WriteCopyTypes, TypePartsNext DEF WriteCopy, ClusterOK
<1>10. CASE Report
  <2>1. exitCode' \in 0..1 /\ pc' = "ended" /\ UNCHANGED <<run, loopVars, n>>
    BY <1>10 DEF Report
  <2>2. LoopsOK' /\ pc' \in Places
    BY <1>1, <1>2, <2>1, LoopsStay DEF InInstance, Cleaning, Places, Stopped
  <2> QED
    BY <1>1, <1>10, <2>1, <2>2, TypePartsNext DEF Report, ResultsOK, ClusterOK
<1>11. CASE Restart
  <2>1. exitCode' \in 0..1 /\ UNCHANGED <<cluster, files>>
    BY <1>11 DEF Restart
  <2>2. ClusterOK'
    BY <1>1, <2>1 DEF ClusterOK
  <2> QED
    BY <1>1, <1>11, <2>1, <2>2, RestartTypes, TypePartsNext
<1>12. CASE UNCHANGED vars
  BY <1>12 DEF vars, loopVars, TypeOK, Objects, CaseIds, ConnIds, TheConn, TheCase
<1> QED
  BY <1>3, <1>4, <1>5, <1>6, <1>7, <1>8, <1>9, <1>10, <1>11, <1>12 DEF Next, Main, Over

-----------------------------------------------------------------------------
(* Every step keeps the namespaces in order.                               *)

(* An object that is there after a command was there before, and is kept   *)
(* if it should have been deleted.                                         *)
LEMMA DeletedOrKept ==
  ASSUME ClusterOK, DeleteKind \/ DeleteFails, NEW o \in cluster'
  PROVE  \/ o \in cluster /\ ~(o.ns = Namespace /\ o.kind = Cleanup[n])
         \/ o.kept
<1>1. CASE o \in cluster \ ToDelete
  BY <1>1 DEF ToDelete
<1>2. ASSUME o \notin cluster \ ToDelete
      PROVE  o.kept
  <2>1. PICK x \in ToDelete : o = Object(x, x.owner, TRUE)
    BY <1>2 DEF DeleteKind, DeleteFails
  <2> QED
    BY <2>1 DEF Object
<1> QED
  BY <1>1, <1>2

(* The objects of a kind that the cleanup has come past are kept ones.     *)
LEMMA DeleteOne ==
  ASSUME TypeOK, Deleted, Delete
  PROVE  /\ pc \in Cleaning /\ n \in 1..3
         /\ \A o \in cluster', j \in 1..3 :
              o.ns = Namespace /\ j <= n /\ ~o.kept => o.kind # Cleanup[j]
<1>1. pc \in Cleaning /\ n \in 1..3 /\ ClusterOK
  BY TypeParts, CleanupFacts DEF Delete, Cleaning, LoopsOK
<1>2. ASSUME NEW o \in cluster', NEW j \in 1..3, o.ns = Namespace, j <= n, ~o.kept
      PROVE  o.kind # Cleanup[j]
  <2>1. o \in cluster /\ o.kind # Cleanup[n]
    BY <1>1, <1>2, DeletedOrKept DEF Delete
  <2>2. CASE j = n
    BY <2>1, <2>2
  <2>3. CASE j < n
    BY <1>1, <1>2, <2>1, <2>3, CleanupFacts DEF Deleted
  <2> QED
    BY <1>1, <1>2, <2>2, <2>3
<1> QED
  BY <1>1, <1>2

(* The last of the three commands leaves only kept ones in the namespace.  *)
LEMMA LastDelete ==
  ASSUME TypeOK, Deleted, Delete, ~(n < Len(Cleanup)),
         NEW o \in cluster', o.ns = Namespace
  PROVE  o.kept
<1>1. n = 3 /\ ClusterOK
  BY DeleteOne, CleanupFacts, TypeParts
<1>2. o.kept \/ o \in cluster
  BY <1>1, DeletedOrKept DEF Delete
<1>3. SUFFICES ASSUME ~o.kept PROVE FALSE
  OBVIOUS
<1>4. o.kind \in {"pod", "service", "policy"}
  BY <1>1, <1>2, <1>3 DEF ClusterOK
<1>5. PICK j \in 1..3 : o.kind = Cleanup[j]
  BY <1>4, CleanupFacts
<1> QED
  BY <1>1, <1>3, <1>5, DeleteOne

LEMMA DeleteCluster ==
  ASSUME TypeOK, ClusterInv, Delete
  PROVE  ClusterInv'
<1> USE DEF ClusterInv
<1>1. /\ pc \in Cleaning /\ test' = test /\ Namespace' = Namespace
      /\ test \in TestIds /\ ClusterOK
      /\ \A o \in cluster' : o.kept \/ o \in cluster
  BY TypeParts, DeletedOrKept DEF Delete, Cleaning, Namespace, LoopsOK
<1>2. \A t \in TestIds : t < test => \A o \in cluster' :
        o.ns = Tests[t].namespace => o.kept \/ o.ns = Namespace
  BY <1>1 DEF Emptied, Cleaning, Stopped
<1>3. CASE n < Len(Cleanup)
  <2>1. n' = n + 1 /\ UNCHANGED <<run, loopVars, pc>>
    BY <1>3 DEF Delete, loopVars
  <2>2. Deleted'
    <3> SUFFICES ASSUME NEW o \in cluster', NEW j \in DOMAIN Cleanup,
                        o.ns = Namespace, j < n', ~o.kept
                 PROVE  o.kind # Cleanup[j]
      BY <1>1 DEF Deleted
    <3>1. j \in 1..3 /\ j <= n
      BY <2>1, DeleteOne, CleanupFacts
    <3> QED
      BY <3>1, DeleteOne
  <2>3. Owned' /\ Applied'
    BY <1>1, <2>1 DEF Owned, Applied, Cleaning
  <2>4. Emptied'
    BY <1>1, <1>2, <2>1 DEF Emptied, Cleaning, Writing
  <2> QED
    BY <2>2, <2>3, <2>4
<1>4. CASE ~(n < Len(Cleanup))
  <2>1. \A o \in cluster' : o.ns = Namespace' => o.kept
    BY <1>1, <1>4, LastDelete
  <2>2. pc' \in {"open", "setup"} /\ n' = 1 /\ LoopsOK'
    BY <1>1, <1>4, TypeParts, FirstInstanceFacts, NextInstanceFacts
       DEF Delete, AfterCleanup, FirstInstance, NextInstance, Cleaning, InInstance
  <2>3. Deleted' /\ Owned'
    BY <2>1, <2>2 DEF Deleted, Owned, Cleaning
  <2>4. Applied'
    <3> SUFFICES ASSUME pc' = "setup", NEW k \in DOMAIN Objects', k < 1
                 PROVE  FALSE
      BY <2>2 DEF Applied
    <3>1. DOMAIN Objects' = 1..Len(Objects') /\ Len(Objects') \in Nat
      BY <2>2, ObjectsThere DEF LoopsOK, InInstance
    <3> QED
      BY <3>1
  <2>5. \A t \in TestIds : t < test => \A o \in cluster' :
          o.ns = Tests[t].namespace => o.kept
    BY <1>1, <1>2, <2>1
  <2>6. Emptied'
    BY <1>1, <2>1, <2>2, <2>5 DEF Emptied, Writing
  <2> QED
    BY <2>3, <2>4, <2>6
<1> QED
  BY <1>3, <1>4

LEMMA CreateCluster ==
  ASSUME TypeOK, Owned, Applied, Emptied, Create
  PROVE  Deleted' /\ Owned' /\ Applied' /\ Emptied'
<1> DEFINE new == Object(Objects[n], Owner, FALSE)
           Same(x) == /\ x.ns = Namespace /\ x.kind = Objects[n].kind
                      /\ x.name = Objects[n].name
<1>1. /\ pc = "setup" /\ pc' \in {"setup", "traffic"}
      /\ UNCHANGED <<run, loopVars>> /\ cluster' \subseteq cluster \cup {new}
      /\ n \in Nat /\ n \in DOMAIN Objects
  BY TypeParts DEF Create, LoopsOK
<1>2. /\ Namespace' = Namespace /\ Owner' = Owner /\ test' = test /\ Objects' = Objects
      /\ new.ns = Namespace /\ new.owner = Owner
      /\ new.kind = Objects[n].kind /\ new.name = Objects[n].name
  BY <1>1 DEF Namespace, Owner, Objects, TheCase, TheConn, loopVars, Object
<1>3. /\ Objects[n].kind # "pod" => new \in cluster'
      /\ \A x \in cluster : x \in cluster' \/ (Same(x) /\ new \in cluster')
  BY DEF Create, Exists
<1> HIDE DEF new
<1>4. Deleted'
  BY <1>1 DEF Deleted, Cleaning
<1>5. Owned'
  BY <1>1, <1>2 DEF Owned, InInstance
<1>6. Emptied'
  BY <1>1, <1>2 DEF Emptied, InInstance, Writing, Stopped
<1>7. Applied'
  <2> SUFFICES ASSUME NEW k \in DOMAIN Objects, Objects[k].kind # "pod",
                      pc' = "setup" => k < n'
               PROVE  Has(k)'
    BY <1>2 DEF Applied
  <2>1. k \in Nat /\ k <= n
    BY <1>1, TypeParts, ObjectsHere DEF Create, LoopsOK, InInstance
  <2>2. CASE k = n
    BY <1>2, <1>3, <2>2 DEF Has
  <2>3. CASE k < n
    <3>1. PICK x \in cluster : /\ x.ns = Namespace /\ x.owner = Owner
                               /\ x.kind = Objects[k].kind /\ x.name = Objects[k].name
      BY <1>1, <2>3 DEF Applied, Has
    <3> QED
      BY <1>2, <1>3, <3>1 DEF Has
  <2> QED
    BY <1>1, <2>1, <2>2, <2>3
<1> QED
  BY <1>4, <1>5, <1>6, <1>7

LEMMA WriteCopyCluster ==
  ASSUME TypeOK, Emptied, WriteCopy
  PROVE  Deleted' /\ Owned' /\ Applied' /\ Emptied'
<1>1. /\ pc = "write_copy" /\ pc' \in {"configure", "report"}
      /\ cluster' = cluster /\ test \in TestIds
  BY TypeParts DEF WriteCopy, NextTest, LoopsOK
<1>2. ASSUME NEW t \in TestIds, t <= test, NEW o \in cluster, o.ns = Tests[t].namespace
      PROVE  o.kept
  <2>1. CASE t = test
    BY <1>1, <1>2, <2>1 DEF Emptied, Writing, Namespace
  <2>2. CASE t < test
    BY <1>1, <1>2, <2>2 DEF Emptied, Stopped, InInstance, Cleaning
  <2> QED
    BY <1>1, <1>2, <2>1, <2>2, Config
<1>3. Deleted' /\ Owned' /\ Applied'
  BY <1>1 DEF Deleted, Owned, Applied, Cleaning, InInstance
<1>4. CASE test < Len(Tests)
  <2>1. test' = test + 1 /\ pc' = "configure"
    BY <1>4 DEF WriteCopy, NextTest
  <2>2. \A t \in TestIds : t < test' => t <= test
    BY <1>1, <2>1, Config
  <2> QED
    BY <1>1, <1>2, <1>3, <2>1, <2>2 DEF Emptied, Writing, InInstance
<1>5. CASE ~(test < Len(Tests))
  <2>1. pc' = "report"
    BY <1>5 DEF WriteCopy, NextTest
  <2>2. \A t \in TestIds : t <= test
    BY <1>1, <1>5, Config
  <2> QED
    BY <1>1, <1>2, <1>3, <2>1, <2>2 DEF Emptied, Writing, InInstance
<1> QED
  BY <1>4, <1>5

LEMMA ClusterStep ==
  ASSUME TypeOK, ClusterInv, [Next]_vars
  PROVE  ClusterInv'
<1> USE DEF ClusterInv
<1>0. Deleted /\ Owned /\ Applied /\ Emptied
  OBVIOUS
<1>1. CASE Configure
  <2>1. /\ pc = "configure" /\ pc' \in {"cleanup_before", "raised"} /\ n' = 1
        /\ UNCHANGED <<loopVars, cluster>>
    BY <1>1 DEF Configure
  <2>2. Deleted' /\ Owned' /\ Applied'
    BY <2>1, CleanupFacts DEF Deleted, Owned, Applied, InInstance
  <2>3. Emptied'
    BY <1>0, <2>1 DEF Emptied, InInstance, Cleaning, Writing, Stopped, loopVars, Namespace
  <2> QED
    BY <2>2, <2>3
<1>2. CASE Delete
  BY <1>2, DeleteCluster
<1>3. CASE Create
  BY <1>0, <1>3, CreateCluster
<1>4. CASE InstanceReturns
  <2>1. /\ pc = "traffic" /\ pc' \in {"setup", "cleanup_after"} /\ n' = 1
        /\ UNCHANGED <<run, test, case, conn, inst, cluster>>
    BY <1>4 DEF InstanceReturns
  <2>2. /\ Owner' = Owner /\ Namespace' = Namespace
        /\ Objects' = Objects /\ DOMAIN Objects \subseteq Nat \ {0}
    BY <2>1, TypeParts, ObjectsHere DEF Owner, Namespace, Objects, TheCase, TheConn, LoopsOK,
                                        InInstance
  <2>3. Deleted' /\ Owned' /\ Applied'
    BY <1>0, <2>1, <2>2, CleanupFacts DEF Deleted, Owned, Applied
  <2>4. Emptied'
    BY <1>0, <2>1, <2>2 DEF Emptied, InInstance, Cleaning, Writing, Stopped
  <2> QED
    BY <2>3, <2>4
<1>5. CASE InstanceRaises \/ WriteRaises \/ Killed
  <2>1. pc' \in {"raised", "down"}
    BY <1>5 DEF InstanceRaises, WriteRaises, Killed
  <2> QED
    BY <2>1 DEF Deleted, Owned, Applied, Emptied, Cleaning, InInstance, Writing, Stopped
<1>6. CASE Open \/ Write
  <2>1. pc \in Writing /\ pc' \in Writing /\ UNCHANGED <<loopVars, cluster>>
    BY <1>6 DEF Open, Write, Writing
  <2>2. pc' \notin Cleaning /\ pc' \notin InInstance /\ pc \notin InInstance
    BY <2>1 DEF Writing, Cleaning, InInstance
  <2> QED
    BY <1>0, <2>1, <2>2 DEF Deleted, Owned, Applied, Emptied, Writing, Stopped, loopVars, Namespace
<1>7. CASE WriteCopy
  BY <1>0, <1>7, WriteCopyCluster
<1>8. CASE Report
  BY <1>0, <1>8 DEF Report, Deleted, Owned, Applied, Emptied, Cleaning, InInstance, Writing, Stopped
<1>9. CASE Restart
  <2>1. pc' = "configure" /\ test' = 1
    BY <1>9 DEF Restart
  <2>2. \A t \in TestIds : ~(t < 1)
    BY Config
  <2> QED
    BY <2>1, <2>2 DEF Deleted, Owned, Applied, Emptied, Cleaning, InInstance, Writing
<1>10. CASE UNCHANGED vars
  BY <1>0, <1>10 DEF vars, loopVars, Deleted, Owned, Applied, Has, Emptied, Owner, Namespace,
                     Objects, TheCase, TheConn
<1> QED
  BY <1>1, <1>2, <1>3, <1>4, <1>5, <1>6, <1>7, <1>8, <1>9, <1>10 DEF Next, Main, Over

-----------------------------------------------------------------------------
(* Every step keeps the files of the tests that are behind.                *)

LEMMA LenStep ==
  ASSUME TypeOK, LenInv, [Next]_vars
  PROVE  LenInv'
<1>1. /\ test \in TestIds /\ test \in Nat /\ done \in Seq(Seq(Results))
      /\ results \in Seq(Results)
  BY TypeParts, Config DEF LoopsOK, ResultsOK
<1>2. CASE Configure
  BY <1>2 DEF Configure, LenInv, Stopped, loopVars
<1>3. CASE Delete
  BY <1>3 DEF Delete, AfterCleanup, FirstInstance, NextInstance, LenInv, Stopped
<1>4. CASE Create \/ InstanceReturns
  BY <1>4 DEF Create, InstanceReturns, LenInv, Stopped, loopVars
<1>5. CASE InstanceRaises \/ WriteRaises \/ Killed
  BY <1>5 DEF InstanceRaises, WriteRaises, Killed, LenInv, Stopped
<1>6. CASE Open \/ Write
  BY <1>6 DEF Open, Write, LenInv, Stopped, loopVars
<1>7. CASE WriteCopy
  <2>1. Len(done) = test - 1 /\ done' = Append(done, results)
    BY <1>7 DEF WriteCopy, LenInv, Stopped
  <2>2. Len(done') = test
    BY <1>1, <2>1, AppendProperties
  <2> QED
    BY <1>1, <1>7, <2>2, Config DEF WriteCopy, NextTest, LenInv, Stopped
<1>8. CASE Report
  BY <1>8 DEF Report, LenInv, Stopped
<1>9. CASE Restart
  BY <1>9 DEF Restart, LenInv
<1>10. CASE UNCHANGED vars
  BY <1>10 DEF vars, loopVars, LenInv
<1> QED
  BY <1>2, <1>3, <1>4, <1>5, <1>6, <1>7, <1>8, <1>9, <1>10 DEF Next, Main, Over

(* Opening or writing a file of the current test touches no other file.    *)
LEMMA OtherFiles ==
  ASSUME TypeOK, LenInv, ~OutputBase, pc \in Writing,
         NEW which \in {"json", "RESULTS"}, NEW c \in Contents,
         files' = [files EXCEPT ![File(which)] = c]
  PROVE  /\ \A t \in DOMAIN done, w \in {"json", "RESULTS"} :
              files'[<<w, run, t>>] = files[<<w, run, t>>]
         /\ files'[<<which, run, test>>] = c
         /\ \A w \in {"json", "RESULTS"} :
              w # which => files'[<<w, run, test>>] = files[<<w, run, test>>]
<1>1. /\ files \in [FileNames -> Contents] /\ run \in 0..MaxRuns /\ test \in TestIds
      /\ done \in Seq(Seq(Results))
  BY TypeParts, RunsAssumption DEF LoopsOK, ResultsOK
<1>2. Len(done) = test - 1
  BY DEF LenInv, Writing, Stopped
<1>3. \A t \in DOMAIN done : t \in 0..Len(Tests) /\ t # test
  BY <1>1, <1>2, Config, LenProperties
<1>4. test \in 0..Len(Tests)
  BY <1>1, Config
<1>5. File(which) = <<which, run, test>>
  BY DEF File
<1>6. \A t \in 0..Len(Tests), w \in {"json", "RESULTS"} : <<w, run, t>> \in FileNames
  BY <1>1 DEF FileNames
<1>7. \A t \in DOMAIN done, w \in {"json", "RESULTS"} : <<w, run, t>> # <<which, run, test>>
  BY <1>3
<1>8. \A f \in FileNames : files'[f] = IF f = <<which, run, test>> THEN c ELSE files[f]
  BY <1>1, <1>5
<1> QED
  BY <1>3, <1>4, <1>6, <1>7, <1>8

LEMMA FileStep ==
  ASSUME TypeOK, LenInv, FileInv, [Next]_vars
  PROVE  FileInv'
<1> SUFFICES ASSUME ~OutputBase
             PROVE  /\ (\A t \in DOMAIN done, which \in {"json", "RESULTS"} :
                          files[<<which, run, t>>] =
                            [status |-> "complete", test |-> t, data |-> done[t]])'
                    /\ pc' \in {"open_copy", "write_copy"} =>
                         (files[<<"json", run, test>>] = Content)'
  BY DEF FileInv
<1>0. /\ \A t \in DOMAIN done, which \in {"json", "RESULTS"} :
           files[<<which, run, t>>] = [status |-> "complete", test |-> t, data |-> done[t]]
      /\ pc \in {"open_copy", "write_copy"} => files[<<"json", run, test>>] = Content
  BY DEF FileInv
<1>1. /\ files \in [FileNames -> Contents] /\ run \in 1..MaxRuns /\ test \in TestIds
      /\ results \in Seq(Results) /\ done \in Seq(Seq(Results))
  BY TypeParts DEF LoopsOK, ResultsOK
<1>2. /\ Content \in Contents
      /\ [NoFile EXCEPT !.status = "partial"] \in Contents
  BY <1>1, FilesStep
<1>3. CASE /\ Configure \/ Delete \/ Create \/ InstanceReturns \/ InstanceRaises
              \/ WriteRaises \/ Report \/ Killed
  <2>1. UNCHANGED <<run, done, files>> /\ pc' \notin {"open_copy", "write_copy"}
    BY <1>3 DEF Configure, Delete, AfterCleanup, FirstInstance, NextInstance, Create, InstanceReturns,
                InstanceRaises, WriteRaises, Report, Killed, Stopped
  <2> QED
    BY <1>0, <2>1
<1>4. CASE Open
  <2>1. CASE pc = "open"
    <3>1. files' = [files EXCEPT ![File("json")] = [NoFile EXCEPT !.status = "partial"]]
      BY <1>4, <2>1 DEF Open
    <3>2. pc' = "write" /\ UNCHANGED <<run, done>> /\ pc \in Writing
      BY <1>4, <2>1 DEF Open, Writing
    <3>3. \A t \in DOMAIN done, w \in {"json", "RESULTS"} :
            files'[<<w, run, t>>] = files[<<w, run, t>>]
      BY <1>2, <3>1, <3>2, OtherFiles
    <3> QED
      BY <1>0, <3>2, <3>3
  <2>2. CASE pc = "open_copy"
    <3>1. files' = [files EXCEPT ![File("RESULTS")] = [NoFile EXCEPT !.status = "partial"]]
      BY <1>4, <2>2 DEF Open
    <3>2. /\ pc' = "write_copy" /\ UNCHANGED <<run, done, results, test>> /\ pc \in Writing
      BY <1>4, <2>2 DEF Open, Writing, loopVars
    <3>3. Content' = Content
      BY <3>2 DEF Content
    <3>4. files'[<<"json", run, test>>] = Content
      BY <1>0, <1>2, <2>2, <3>1, <3>2, OtherFiles
    <3>5. \A t \in DOMAIN done, w \in {"json", "RESULTS"} :
            files'[<<w, run, t>>] = files[<<w, run, t>>]
      BY <1>2, <3>1, <3>2, OtherFiles
    <3> QED
      BY <1>0, <3>2, <3>3, <3>4, <3>5
  <2> QED
    BY <1>4, <2>1, <2>2 DEF Open
<1>5. CASE Write
  <2>1. /\ files' = [files EXCEPT ![File("json")] = Content]
        /\ UNCHANGED <<run, done, results, test>> /\ pc \in Writing
    BY <1>5 DEF Write, Writing, loopVars
  <2>2. Content' = Content
    BY <2>1 DEF Content
  <2>3. /\ \A t \in DOMAIN done, w \in {"json", "RESULTS"} :
             files'[<<w, run, t>>] = files[<<w, run, t>>]
        /\ files'[<<"json", run, test>>] = Content
    BY <1>2, <2>1, OtherFiles
  <2> QED
    BY <1>0, <2>1, <2>2, <2>3
<1>6. CASE WriteCopy
  <2>1. /\ files' = [files EXCEPT ![File("RESULTS")] = Content]
        /\ run' = run /\ done' = Append(done, results)
        /\ pc = "write_copy" /\ pc \in Writing /\ pc' \in {"configure", "report"}
    BY <1>6 DEF WriteCopy, NextTest, Writing
  <2>2. Len(done) = test - 1
    BY <2>1 DEF LenInv, Stopped
  <2>3. /\ \A t \in DOMAIN done, w \in {"json", "RESULTS"} :
             files'[<<w, run, t>>] = files[<<w, run, t>>]
        /\ files'[<<"RESULTS", run, test>>] = Content
        /\ files'[<<"json", run, test>>] = files[<<"json", run, test>>]
    BY <1>2, <2>1, OtherFiles
  <2>4. /\ DOMAIN done' = DOMAIN done \cup {test}
        /\ \A t \in DOMAIN done : done'[t] = done[t]
        /\ done'[test] = results
    BY <1>1, <2>1, <2>2, Config, AppendProperties, LenProperties
  <2>5. Content = [status |-> "complete", test |-> test, data |-> results]
    BY DEF Content
  <2>6. ASSUME NEW t \in DOMAIN done', NEW w \in {"json", "RESULTS"}
        PROVE  files'[<<w, run, t>>] = [status |-> "complete", test |-> t, data |-> done'[t]]
    <3>1. CASE t = test
      BY <1>0, <2>1, <2>3, <2>4, <2>5, <3>1
    <3>2. CASE t \in DOMAIN done
      BY <1>0, <2>3, <2>4, <3>2
    <3> QED
      BY <2>4, <3>1, <3>2
  <2> QED
    BY <2>1, <2>6
<1>7. CASE Restart
  <2>1. done' = <<>> /\ pc' = "configure"
    BY <1>7 DEF Restart
  <2> QED
    BY <2>1
<1>8. CASE UNCHANGED vars
  BY <1>0, <1>8 DEF vars, loopVars, Content
<1> QED
  BY <1>3, <1>4, <1>5, <1>6, <1>7, <1>8 DEF Next, Main, Over

LEMMA Invariance == Spec => []IInv
<1>1. IInv /\ [Next]_vars => IInv'
  BY TypeStep, ClusterStep, LenStep, FileStep DEF IInv
<1> QED
  BY InitInv, <1>1, PTL DEF Spec

-----------------------------------------------------------------------------
(* The variables of a run keep their types.                                *)
THEOREM TypeCorrect == Spec => []TypeOK
<1>1. IInv => TypeOK
  BY DEF IInv
<1> QED
  BY <1>1, Invariance, PTL

(* No instance of any configuration runs among the objects of another one, *)
(* whatever was left behind before, but for objects whose own deletion     *)
(* failed; and the services and policies it asked for are its own, whatever*)
(* failed (src/task.py:572-636, 652, src/trafficFlowTests.py:34-60).       *)
THEOREM OwnObjects == Spec => []OwnNamespace
<1>1. IInv => OwnNamespace
  BY DEF IInv, ClusterInv, Owned, Applied, Has, OwnNamespace
<1> QED
  BY <1>1, Invariance, PTL

(* Whatever earlier invocations left in the namespaces of the tests is     *)
(* gone when an invocation comes to its end, but for objects whose own     *)
(* deletion failed and for pods that were asked to stay, of which nothing  *)
(* is said (src/trafficFlowTests.py:40-48, 147, 163).                      *)
THEOREM EndsClean == Spec => []CleanAtEnd
<1>1. IInv => CleanAtEnd
  BY DEF IInv, ClusterInv, Emptied, CleanAtEnd
<1> QED
  BY <1>1, Invariance, PTL

(* Both files of every test hold its results when main() comes to its end  *)
(* (src/trafficFlowTests.py:177-182).                                      *)
THEOREM FilesWritten == Spec => []ResultsOnDisk
<1>1. IInv => ResultsOnDisk
  <2> SUFFICES ASSUME IInv, pc = "ended", ~OutputBase,
                      NEW t \in TestIds, NEW which \in {"json", "RESULTS"}
               PROVE  files[<<which, run, t>>] =
                        [status |-> "complete", test |-> t, data |-> done[t]]
    BY DEF ResultsOnDisk
  <2>1. Len(done) = Len(Tests)
    BY DEF IInv, LenInv
  <2>2. done \in Seq(Seq(Results))
    BY TypeParts DEF IInv, ResultsOK
  <2>3. t \in DOMAIN done
    BY <2>1, <2>2, Config, LenProperties
  <2> QED
    BY <2>3 DEF IInv, FileInv
<1> QED
  BY <1>1, Invariance, PTL

-----------------------------------------------------------------------------
(* The results of the loops over test cases, connections and instances.    *)
LegSet(res) == {res[i].leg : i \in DOMAIN res}

(* Every leg of `res' is there once.                                       *)
Distinct(res) == IsFiniteSet(LegSet(res)) /\ Len(res) = Cardinality(LegSet(res))

(* The order in which the loops come to the legs.                          *)
SameInstance(l) == l.case = case /\ l.conn = conn /\ l.inst = inst
InstanceBefore(l) ==
  \/ l.case < case
  \/ l.case = case /\ l.conn < conn
  \/ l.case = case /\ l.conn = conn /\ l.inst < inst

(* The results of the current test are those of the legs that are behind.  *)
LegsDone ==
  /\ pc \in {"configure", "cleanup_before"} => results = <<>>
  /\ pc \in InInstance => Distinct(results)
  /\ pc \in {"setup", "traffic"} =>
       /\ rev => TheConn.reverse
       /\ LegSet(results) = {l \in LegsOf(test) :
            InstanceBefore(l) \/ (SameInstance(l) /\ rev /\ ~l.rev)}
  /\ pc = "cleanup_after" =>
       LegSet(results) = {l \in LegsOf(test) : InstanceBefore(l) \/ SameInstance(l)}
  /\ pc \in Writing => Distinct(results) /\ LegSet(results) = LegsOf(test)

(* Those of the tests that are behind are complete.                        *)
TestsDone ==
  /\ \A t \in DOMAIN done : EachLegOnce(t, done[t])
  /\ pc = "ended" /\ Check =>
       (exitCode = 0 <=> \A t \in DOMAIN done : AllPass(done[t]))

RInv == LegsDone /\ TestsDone /\ FilesComplete

-----------------------------------------------------------------------------
LEMMA LegsFacts ==
  ASSUME NEW t \in TestIds, NEW l
  PROVE  l \in LegsOf(t) <=>
           /\ l \in Legs
           /\ l.case \in 1..Len(Tests[t].cases) /\ l.conn \in 1..Len(Tests[t].conns)
           /\ l.inst \in 1..Tests[t].conns[l.conn].instances
           /\ l.rev => Tests[t].conns[l.conn].reverse
<1> DEFINE R(k) == [case : DOMAIN Tests[t].cases, conn : {k},
                    inst : 1..Tests[t].conns[k].instances,
                    rev : IF Tests[t].conns[k].reverse THEN BOOLEAN ELSE {FALSE}]
<1>1. /\ DOMAIN Tests[t].cases = 1..Len(Tests[t].cases) /\ Len(Tests[t].cases) \in Nat
      /\ DOMAIN Tests[t].conns = 1..Len(Tests[t].conns) /\ Len(Tests[t].conns) \in Nat
      /\ \A k \in DOMAIN Tests[t].conns : Tests[t].conns[k] \in Conns
  BY Config
<1>2. \A k \in DOMAIN Tests[t].conns :
        /\ Tests[t].conns[k].instances \in Nat /\ Tests[t].conns[k].reverse \in BOOLEAN
  BY <1>1 DEF Conns
<1>3. l \in LegsOf(t) <=> \E k \in DOMAIN Tests[t].conns : l \in R(k)
  BY DEF LegsOf
<1>4. ASSUME NEW k \in DOMAIN Tests[t].conns
      PROVE  l \in R(k) <=> /\ l \in Legs /\ l.conn = k
                            /\ l.case \in DOMAIN Tests[t].cases
                            /\ l.inst \in 1..Tests[t].conns[k].instances
                            /\ l.rev => Tests[t].conns[k].reverse
  <2> DEFINE B == IF Tests[t].conns[k].reverse THEN BOOLEAN ELSE {FALSE}
             C == DOMAIN Tests[t].cases
             I == 1..Tests[t].conns[k].instances
  <2>1. \A x : x \in B <=> x \in BOOLEAN /\ (x => Tests[t].conns[k].reverse)
    BY <1>2
  <2>2. C \subseteq Nat /\ I \subseteq Nat /\ k \in Nat
    BY <1>1, <1>2
  <2>3. R(k) = [case : C, conn : {k}, inst : I, rev : B]
    OBVIOUS
  <2> HIDE DEF B, C, I, R
  <2>4. l \in R(k) <=> /\ l \in [case : Nat, conn : Nat, inst : Nat, rev : BOOLEAN]
                       /\ l.conn = k /\ l.case \in C /\ l.inst \in I /\ l.rev \in B
    <3>1. B \subseteq BOOLEAN
      BY <2>1
    <3>2. ASSUME l \in [case : C, conn : {k}, inst : I, rev : B]
          PROVE  /\ l \in [case : Nat, conn : Nat, inst : Nat, rev : BOOLEAN]
                 /\ l.conn = k /\ l.case \in C /\ l.inst \in I /\ l.rev \in B
      BY <2>2, <3>1, <3>2
    <3>3. ASSUME l \in [case : Nat, conn : Nat, inst : Nat, rev : BOOLEAN],
                 l.conn = k, l.case \in C, l.inst \in I, l.rev \in B
          PROVE  l \in [case : C, conn : {k}, inst : I, rev : B]
      BY <3>3
    <3> QED
      BY <2>3, <3>2, <3>3
  <2>5. l \in R(k) <=> l \in Legs /\ l.conn = k /\ l.case \in C /\ l.inst \in I /\ l.rev \in B
    BY <2>4 DEF Legs
  <2>6. l \in Legs => l.rev \in BOOLEAN
    BY DEF Legs
  <2> QED
    BY <2>1, <2>5, <2>6 DEF C, I
<1> HIDE DEF R
<1> QED
  BY <1>1, <1>3, <1>4

(* A leg appended that was not there.                                      *)
LEMMA AppendLeg ==
  ASSUME NEW res \in Seq(Results), Distinct(res), NEW r \in Results, r.leg \notin LegSet(res)
  PROVE  /\ Distinct(Append(res, r))
         /\ LegSet(Append(res, r)) = LegSet(res) \cup {r.leg}
<1> DEFINE new == Append(res, r)
<1>1. /\ Len(new) = Len(res) + 1 /\ DOMAIN new = DOMAIN res \cup {Len(res) + 1}
      /\ \A i \in DOMAIN res : new[i] = res[i]
      /\ new[Len(res) + 1] = r
  BY AppendProperties, LenProperties
<1> HIDE DEF new
<1>2. LegSet(new) = LegSet(res) \cup {r.leg}
  BY <1>1 DEF LegSet
<1>3. /\ IsFiniteSet(LegSet(res) \cup {r.leg})
      /\ Cardinality(LegSet(res) \cup {r.leg}) = Cardinality(LegSet(res)) + 1
  BY FS_AddElement DEF Distinct
<1> QED
  BY <1>1, <1>2, <1>3 DEF Distinct, new

LEMMA NoLegs == LegSet(<<>>) = {} /\ Distinct(<<>>)
<1>1. LegSet(<<>>) = {}
  BY DEF LegSet
<1> QED
  BY <1>1, FS_EmptySet DEF Distinct

LEMMA CompleteOnce ==
  ASSUME NEW t, NEW res
  PROVE  Distinct(res) /\ LegSet(res) = LegsOf(t) => EachLegOnce(t, res)
BY DEF Distinct, EachLegOnce, LegSet

LEMMA InitResults == Init => RInv
<1> SUFFICES ASSUME Init PROVE RInv
  OBVIOUS
<1>1. LegsDone
  BY DEF Init, LegsDone, InInstance, Writing
<1>2. TestsDone
  BY DEF Init, TestsDone
<1>3. FilesComplete
  BY DEF Init, FilesComplete, NoFile
<1> QED
  BY <1>1, <1>2, <1>3 DEF RInv

-----------------------------------------------------------------------------
(* The loops, one by one.                                                  *)
LEMMA ReturnLegs ==
  ASSUME TypeOK, LegsDone, InstanceReturns
  PROVE  LegsDone'
<1>1. /\ pc = "traffic" /\ test \in TestIds /\ results \in Seq(Results)
      /\ case \in CaseIds /\ conn \in ConnIds /\ inst \in 1..TheConn.instances
      /\ case \in Nat /\ conn \in Nat /\ inst \in Nat
      /\ UNCHANGED <<test, case, conn, inst>> /\ pc' \in {"setup", "cleanup_after"}
  BY TypeParts DEF LoopsOK, ResultsOK, InInstance, InstanceReturns
<1>2. /\ Distinct(results)
      /\ rev => TheConn.reverse
      /\ LegSet(results) = {l \in LegsOf(test) :
           InstanceBefore(l) \/ (SameInstance(l) /\ rev /\ ~l.rev)}
  BY <1>1 DEF LegsDone, InInstance
<1>3. rev \in BOOLEAN
  BY TypeParts DEF LoopsOK
<1>4. /\ Leg \in Legs /\ Leg.case = case /\ Leg.conn = conn /\ Leg.inst = inst
      /\ Leg.rev = rev
  BY <1>1, <1>3 DEF Leg, Legs
<1>5. Leg \in LegsOf(test)
  <2>1. /\ Leg.case \in 1..Len(Tests[test].cases) /\ Leg.conn \in 1..Len(Tests[test].conns)
        /\ Leg.inst \in 1..Tests[test].conns[Leg.conn].instances
    BY <1>1, <1>4, Config DEF CaseIds, ConnIds, TheConn
  <2>2. Leg.rev => Tests[test].conns[Leg.conn].reverse
    <3>1. Tests[test].conns[Leg.conn] = TheConn
      BY <1>4 DEF TheConn
    <3>2. Leg.rev = rev
      BY <1>4
    <3> QED
      BY <1>2, <3>1, <3>2, Zenon
  <2> QED
    BY <1>1, <1>4, <2>1, <2>2, LegsFacts
<1>6. Leg \notin LegSet(results)
  BY <1>1, <1>2, <1>4 DEF InstanceBefore
<1>7. PICK b \in BOOLEAN : results' = Append(results, [leg |-> Leg, ok |-> b])
  BY DEF InstanceReturns
<1>8. [leg |-> Leg, ok |-> b] \in Results
  BY <1>4 DEF Results
<1>9. Distinct(results') /\ LegSet(results') = LegSet(results) \cup {Leg}
  <2> DEFINE r == [leg |-> Leg, ok |-> b]
  <2>1. r \in Results /\ r.leg = Leg /\ results' = Append(results, r)
    BY <1>7, <1>8
  <2> HIDE DEF r
  <2>2. r \in Results /\ r.leg \notin LegSet(results)
    BY <1>6, <2>1
  <2>3. results \in Seq(Results) /\ Distinct(results)
    BY <1>1, <1>2
  <2>4. /\ Distinct(Append(results, r))
        /\ LegSet(Append(results, r)) = LegSet(results) \cup {r.leg}
    BY <2>2, <2>3, AppendLeg, Zenon
  <2> QED
    BY <2>1, <2>4
<1>10. \A l \in LegsOf(test) : SameInstance(l) /\ (l.rev <=> rev) => l = Leg
  BY <1>1, <1>3, LegsFacts DEF SameInstance, Leg, Legs
<1>11. \A l \in LegsOf(test) : l.rev \in BOOLEAN /\ (l.rev => Tests[test].conns[l.conn].reverse)
  BY <1>1, LegsFacts DEF Legs
<1>12. \A l : /\ SameInstance(l)' <=> SameInstance(l)
              /\ InstanceBefore(l)' <=> InstanceBefore(l)
  BY <1>1 DEF SameInstance, InstanceBefore
<1>13. SameInstance(Leg)
  BY <1>4 DEF SameInstance
<1>14. CASE TheConn.reverse /\ ~rev
  <2>1. rev' = TRUE /\ pc' = "setup" /\ TheConn' = TheConn
    BY <1>1, <1>14 DEF InstanceReturns, TheConn
  <2>2. LegSet(results') = {l \in LegsOf(test) : InstanceBefore(l) \/ (SameInstance(l) /\ ~l.rev)}
    BY <1>2, <1>4, <1>5, <1>9, <1>10, <1>13, <1>14
  <2>3. LegSet(results') = {l \in LegsOf(test') :
           InstanceBefore(l)' \/ (SameInstance(l)' /\ rev' /\ ~l.rev)}
    BY <1>1, <1>12, <2>1, <2>2
  <2> QED
    BY <1>9, <1>14, <2>1, <2>3 DEF LegsDone, InInstance, Writing
<1>15. CASE ~(TheConn.reverse /\ ~rev)
  <2>1. rev' = FALSE /\ pc' = "cleanup_after"
    BY <1>1, <1>15 DEF InstanceReturns
  <2>2. LegSet(results') = {l \in LegsOf(test) : InstanceBefore(l) \/ SameInstance(l)}
    <3>1. ASSUME NEW l \in LegsOf(test), SameInstance(l)
          PROVE  l \in LegSet(results')
      <4>1. l.rev => TheConn.reverse
        BY <1>11, <3>1 DEF SameInstance, TheConn
      <4>2. CASE l.rev <=> rev
        BY <1>9, <1>10, <3>1, <4>2
      <4>3. CASE ~(l.rev <=> rev)
        BY <1>2, <1>3, <1>9, <1>11, <1>15, <3>1, <4>1, <4>3
      <4> QED
        BY <4>2, <4>3
    <3> QED
      BY <1>2, <1>5, <1>9, <1>13, <3>1
  <2>3. LegSet(results') = {l \in LegsOf(test') : InstanceBefore(l)' \/ SameInstance(l)'}
    BY <1>1, <1>12, <2>2
  <2> QED
    BY <1>9, <2>1, <2>3 DEF LegsDone, InInstance, Writing
<1> QED
  BY <1>14, <1>15

LEMMA FirstLegs ==
  ASSUME TypeOK, LegsDone, pc = "cleanup_before", FirstInstance, UNCHANGED <<test, results>>
  PROVE  LegsDone'
<1>1. /\ results' = <<>> /\ test' = test /\ test \in TestIds
      /\ case' = 1 /\ conn' = 1 /\ inst' = 1 /\ rev' = FALSE
      /\ pc' = IF CaseIds = {} THEN "open" ELSE "setup"
  BY TypeParts DEF LegsDone, FirstInstance, LoopsOK
<1>2. CASE CaseIds = {}
  <2>1. LegsOf(test) = {}
    BY <1>1, <1>2, LegsFacts, Config DEF CaseIds
  <2> QED
    BY <1>1, <1>2, <2>1, NoLegs DEF LegsDone, InInstance, Writing
<1>3. CASE CaseIds # {}
  <2>1. \A l \in LegsOf(test) : ~(l.case < 1) /\ ~(l.conn < 1) /\ ~(l.inst < 1)
    BY <1>1, LegsFacts, Config
  <2>2. \A l \in LegsOf(test') : ~(InstanceBefore(l)' \/ (SameInstance(l)' /\ rev' /\ ~l.rev))
    BY <1>1, <2>1 DEF InstanceBefore
  <2> QED
    BY <1>1, <1>3, <2>2, NoLegs DEF LegsDone, InInstance, Writing
<1> QED
  BY <1>2, <1>3

LEMMA NextLegs ==
  ASSUME TypeOK, LegsDone, pc = "cleanup_after", NextInstance, UNCHANGED <<test, results>>
  PROVE  LegsDone'
<1>1. /\ test \in TestIds /\ case \in 1..Len(Tests[test].cases)
      /\ conn \in 1..Len(Tests[test].conns) /\ inst \in 1..TheConn.instances
      /\ TheConn = Tests[test].conns[conn] /\ TheConn.instances \in Nat
      /\ Len(Tests[test].cases) \in Nat /\ Len(Tests[test].conns) \in Nat
  <2>1. /\ test \in TestIds /\ case \in CaseIds /\ conn \in ConnIds
        /\ inst \in 1..TheConn.instances
    BY TypeParts DEF LoopsOK, InInstance
  <2>2. TheConn \in Conns
    BY <2>1, Config DEF TheConn, ConnIds
  <2> QED
    BY <2>1, <2>2, Config DEF CaseIds, ConnIds, TheConn, Conns
<1>2. /\ Distinct(results)
      /\ LegSet(results) = {l \in LegsOf(test) : InstanceBefore(l) \/ SameInstance(l)}
  BY DEF LegsDone, InInstance
<1>3. \A l \in LegsOf(test) :
        /\ l.case \in 1..Len(Tests[test].cases) /\ l.conn \in 1..Len(Tests[test].conns)
        /\ l.inst \in Nat \ {0} /\ l.inst <= Tests[test].conns[l.conn].instances
  BY <1>1, LegsFacts DEF Legs
<1> DEFINE C == Len(Tests[test].cases)
           K == Len(Tests[test].conns)
           I == TheConn.instances
<1>7. /\ case \in 1..C /\ conn \in 1..K /\ inst \in 1..I /\ C \in Nat /\ K \in Nat /\ I \in Nat
      /\ \A l \in LegsOf(test) :
           /\ l.case \in 1..C /\ l.conn \in 1..K /\ l.inst \in Nat \ {0}
           /\ l.conn = conn => l.inst <= I
  BY <1>1, <1>3
<1>8. \/ inst < I /\ inst' = inst + 1 /\ conn' = conn /\ case' = case /\ pc' = "setup"
      \/ ~(inst < I) /\ conn < K /\ inst' = 1 /\ conn' = conn + 1 /\ case' = case
      \/ /\ ~(inst < I) /\ ~(conn < K) /\ case < C
         /\ inst' = 1 /\ conn' = 1 /\ case' = case + 1
      \/ ~(inst < I) /\ ~(conn < K) /\ ~(case < C) /\ pc' = "open"
  BY Zenon DEF NextInstance
<1> HIDE DEF C, K, I
<1>4. rev' = FALSE /\ test' = test /\ results' = results /\ pc' \in {"setup", "open"}
  BY DEF NextInstance
<1>5. CASE pc' = "setup"
  <2>1. \A l \in LegsOf(test) :
          InstanceBefore(l)' <=> InstanceBefore(l) \/ SameInstance(l)
    <3> TAKE l \in LegsOf(test)
    <3>1. /\ l.case \in 1..C /\ l.conn \in 1..K /\ l.inst \in Nat \ {0}
          /\ l.conn = conn => l.inst <= I
      BY <1>7
    <3> DEFINE x == l.case
               y == l.conn
               z == l.inst
    <3>2. /\ InstanceBefore(l) <=> x < case \/ (x = case /\ y < conn)
                                     \/ (x = case /\ y = conn /\ z < inst)
          /\ SameInstance(l) <=> x = case /\ y = conn /\ z = inst
          /\ InstanceBefore(l)' <=> x < case' \/ (x = case' /\ y < conn')
                                      \/ (x = case' /\ y = conn' /\ z < inst')
      BY Zenon DEF InstanceBefore, SameInstance
    <3> HIDE DEF x, y, z
    <3>3. x \in 1..C /\ y \in 1..K /\ z \in Nat \ {0} /\ (y = conn => z <= I)
      BY <3>1, Zenon DEF x, y, z
    <3>4. CASE inst < I
      BY <1>7, <1>8, <3>2, <3>3, <3>4
    <3>5. CASE ~(inst < I) /\ conn < K
      BY <1>7, <1>8, <3>2, <3>3, <3>5
    <3>6. CASE ~(inst < I) /\ ~(conn < K)
      BY <1>5, <1>7, <1>8, <3>2, <3>3, <3>6
    <3> QED
      BY <3>4, <3>5, <3>6
  <2>2. LegSet(results') = {l \in LegsOf(test') :
           InstanceBefore(l)' \/ (SameInstance(l)' /\ rev' /\ ~l.rev)}
    BY <1>2, <1>4, <2>1
  <2> QED
    BY <1>2, <1>4, <1>5, <2>2 DEF LegsDone, InInstance, Writing
<1>6. CASE pc' = "open"
  <2>1. ~(inst < I) /\ ~(conn < K) /\ ~(case < C)
    <3>1. pc' # "setup"
      BY <1>6
    <3> QED
      BY <1>6, <3>1, Zenon DEF NextInstance, C, K, I
  <2>2. ASSUME NEW l \in LegsOf(test)
        PROVE  InstanceBefore(l) \/ SameInstance(l)
    <3>1. /\ l.case \in 1..C /\ l.conn \in 1..K /\ l.inst \in Nat \ {0}
          /\ l.conn = conn => l.inst <= I
      BY <1>7
    <3>2. case = C /\ conn = K /\ inst = I
      BY <1>7, <2>1
    <3> DEFINE x == l.case
               y == l.conn
               z == l.inst
    <3>3. x \in 1..C /\ y \in 1..K /\ z \in Nat \ {0} /\ (y = conn => z <= I)
      BY <3>1, Zenon DEF x, y, z
    <3> HIDE DEF x, y, z
    <3>4. \/ x < case \/ (x = case /\ y < conn) \/ (x = case /\ y = conn /\ z < inst)
          \/ x = case /\ y = conn /\ z = inst
      BY <1>7, <3>2, <3>3
    <3> QED
      BY <3>4, Zenon DEF InstanceBefore, SameInstance, x, y, z
  <2>3. LegSet(results') = LegsOf(test')
    BY <1>2, <1>4, <2>2
  <2> QED
    BY <1>2, <1>4, <1>6, <2>3 DEF LegsDone, InInstance, Writing
<1> QED
  BY <1>4, <1>5, <1>6

LEMMA LegsStep ==
  ASSUME TypeOK, LegsDone, [Next]_vars
  PROVE  LegsDone'
<1>1. CASE Configure
  BY <1>1 DEF Configure, LegsDone, InInstance, Writing
<1>2. CASE Delete
  <2>1. CASE n < Len(Cleanup)
    <3>1. UNCHANGED <<pc, loopVars, results>>
      BY <1>2, <2>1 DEF Delete, loopVars
    <3> QED
      BY <3>1 DEF LegsDone, TheConn, InstanceBefore, SameInstance, loopVars
  <2>2. CASE ~(n < Len(Cleanup)) /\ pc = "cleanup_before"
    BY <1>2, <2>2, FirstLegs DEF Delete, AfterCleanup
  <2>3. CASE ~(n < Len(Cleanup)) /\ pc = "cleanup_after"
    BY <1>2, <2>3, NextLegs DEF Delete, AfterCleanup
  <2> QED
    BY <1>2, <2>1, <2>2, <2>3 DEF Delete
<1>3. CASE Create
  <2>1. /\ pc = "setup" /\ pc' \in {"setup", "traffic"}
        /\ UNCHANGED <<loopVars, results>>
    BY <1>3 DEF Create
  <2> QED
    BY <2>1 DEF LegsDone, InInstance, Writing, TheConn, InstanceBefore, SameInstance, loopVars
<1>4. CASE InstanceReturns
  BY <1>4, ReturnLegs
<1>5. CASE InstanceRaises \/ WriteRaises \/ Killed \/ Report
  BY <1>5 DEF InstanceRaises, WriteRaises, Killed, Report, LegsDone, InInstance, Writing
<1>6. CASE Open \/ Write
  <2>1. pc \in Writing /\ pc' \in Writing /\ UNCHANGED <<loopVars, results>>
    BY <1>6 DEF Open, Write, Writing
  <2>2. pc' \notin InInstance \cup {"configure", "cleanup_before"}
    BY <2>1 DEF InInstance, Writing
  <2> QED
    BY <2>1, <2>2 DEF LegsDone, InInstance, loopVars
<1>7. CASE WriteCopy
  BY <1>7 DEF WriteCopy, NextTest, LegsDone, InInstance, Writing
<1>8. CASE Restart
  BY <1>8 DEF Restart, LegsDone, InInstance, Writing
<1>9. CASE UNCHANGED vars
  BY <1>9 DEF vars, loopVars, LegsDone, TheConn, InstanceBefore, SameInstance
<1> QED
  BY <1>1, <1>2, <1>3, <1>4, <1>5, <1>6, <1>7, <1>8, <1>9 DEF Next, Main, Over

-----------------------------------------------------------------------------
(* What is written, reported and kept.                                     *)
LEMMA TestsStep ==
  ASSUME TypeOK, LenInv, LegsDone, TestsDone, [Next]_vars
  PROVE  TestsDone'
<1>1. /\ results \in Seq(Results) /\ done \in Seq(Seq(Results)) /\ test \in TestIds
  BY TypeParts DEF ResultsOK, LoopsOK
<1>2. CASE Configure \/ Delete \/ Create \/ InstanceReturns \/ InstanceRaises
           \/ Open \/ Write \/ WriteRaises \/ Killed
  <2>1. done' = done /\ pc' # "ended"
    BY <1>2 DEF Configure, Delete, AfterCleanup, FirstInstance, NextInstance, Create, InstanceReturns,
                InstanceRaises, Open, Write, WriteRaises, Killed
  <2> QED
    BY <2>1 DEF TestsDone
<1>3. CASE WriteCopy
  <2>1. pc = "write_copy" /\ done' = Append(done, results) /\ pc' # "ended"
    BY <1>3 DEF WriteCopy, NextTest
  <2>2. EachLegOnce(test, results)
    BY <2>1, CompleteOnce DEF LegsDone, Writing
  <2>3. Len(done) = test - 1
    BY <2>1 DEF LenInv, Stopped
  <2>4. /\ DOMAIN done' = DOMAIN done \cup {test}
        /\ \A t \in DOMAIN done : done'[t] = done[t]
        /\ done'[test] = results
    BY <1>1, <2>1, <2>3, Config, AppendProperties, LenProperties
  <2>5. \A t \in DOMAIN done' : EachLegOnce(t, done'[t])
    <3> SUFFICES ASSUME NEW t \in DOMAIN done' PROVE EachLegOnce(t, done'[t])
      OBVIOUS
    <3>1. CASE t \in DOMAIN done
      BY <2>4, <3>1 DEF TestsDone
    <3>2. CASE t = test
      BY <2>2, <2>4, <3>2
    <3> QED
      BY <2>4, <3>1, <3>2
  <2> QED
    BY <2>1, <2>5 DEF TestsDone
<1>4. CASE Report
  BY <1>4 DEF Report, TestsDone
<1>5. CASE Restart
  BY <1>5 DEF Restart, TestsDone
<1>6. CASE UNCHANGED vars
  BY <1>6 DEF vars, TestsDone
<1> QED
  BY <1>2, <1>3, <1>4, <1>5, <1>6 DEF Next, Main, Over

LEMMA CompleteStep ==
  ASSUME TypeOK, LegsDone, FilesComplete, [Next]_vars
  PROVE  FilesComplete'
<1>1. files \in [FileNames -> Contents]
  BY TypeParts
<1>2. CASE Configure \/ Delete \/ Create \/ InstanceReturns \/ InstanceRaises
           \/ WriteRaises \/ Report \/ Killed \/ Restart \/ UNCHANGED vars
  <2>1. files' = files
    BY <1>2 DEF Configure, Delete, Create, InstanceReturns, InstanceRaises, WriteRaises,
                Report, Killed, Restart, vars
  <2> QED
    BY <2>1 DEF FilesComplete
<1>3. CASE Open
  <2>1. PICK f : files' = [files EXCEPT ![f] = [NoFile EXCEPT !.status = "partial"]]
    BY <1>3 DEF Open
  <2>2. [NoFile EXCEPT !.status = "partial"].status = "partial"
    BY DEF NoFile
  <2>3. \A g \in FileNames : files'[g] = files[g] \/ files'[g].status = "partial"
    BY <1>1, <2>1, <2>2
  <2> QED
    BY <2>3 DEF FilesComplete
<1>4. CASE Write \/ WriteCopy
  <2>1. PICK f : files' = [files EXCEPT ![f] = Content]
    BY <1>4 DEF Write, WriteCopy
  <2>2. EachLegOnce(test, results)
    BY <1>4, CompleteOnce DEF Write, WriteCopy, LegsDone, Writing
  <2>3. Content.test = test /\ Content.data = results
    BY DEF Content
  <2>4. \A g \in FileNames : files'[g] = files[g] \/ files'[g] = Content
    BY <1>1, <2>1
  <2> QED
    BY <2>2, <2>3, <2>4 DEF FilesComplete
<1> QED
  BY <1>2, <1>3, <1>4 DEF Next, Main, Over

LEMMA ResultsInvariance == Spec => []RInv
<1>1. IInv /\ RInv /\ [Next]_vars => RInv'
  BY LegsStep, TestsStep, CompleteStep DEF RInv, IInv
<1> QED
  BY InitResults, Invariance, <1>1, PTL DEF Spec

-----------------------------------------------------------------------------
(* A result file that is complete as a file has one entry for every test   *)
(* case, connection, instance and direction of its test, for every         *)
(* configuration and wherever any invocation stopped                       *)
(* (src/trafficFlowTests.py:125-154, 177-182).                             *)
THEOREM FilesAreComplete == Spec => []FilesComplete
<1>1. RInv => FilesComplete
  BY DEF RInv
<1> QED
  BY <1>1, ResultsInvariance, PTL

(* With --check the exit code is 0 if and only if every leg of every test  *)
(* was run and passed (src/tft.py:161-185).                                *)
THEOREM ExitCodeTells == Spec => []ExitCodeTruthful
<1>1. IInv /\ RInv => ExitCodeTruthful
  <2> SUFFICES ASSUME IInv, RInv, pc = "ended", Check
               PROVE  exitCode = 0 <=>
                        \A t \in TestIds : /\ t \in DOMAIN done
                                           /\ EachLegOnce(t, done[t]) /\ AllPass(done[t])
    BY DEF ExitCodeTruthful
  <2>1. Len(done) = Len(Tests) /\ done \in Seq(Seq(Results))
    BY TypeParts DEF IInv, LenInv, ResultsOK
  <2>2. DOMAIN done = TestIds
    BY <2>1, Config, LenProperties
  <2> QED
    BY <2>2 DEF RInv, TestsDone
<1> QED
  BY <1>1, Invariance, ResultsInvariance, PTL
=============================================================================
