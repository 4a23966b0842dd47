--------------------------- MODULE Kubeconfigs_proofs ---------------------------
(***************************************************************************)
(* Proofs about Kubeconfigs, for any number of threads, whatever the user  *)
(* gives and however often the files change.                               *)
(***************************************************************************)
EXTENDS Kubeconfigs, TLAPS

(* Who holds the lock is inside, and nobody else.                          *)
Locking == \A p \in Procs : at[p] \in Inside <=> lock = p

(* Before the TestConfig serves, no task exists; after system_check() the  *)
(* main thread makes no calls.                                             *)
Staged ==
  /\ stage # "serving" => \A p \in Callers : at[p] = "idle" /\ result[p] = None
                                               /\ told[p] = None
  /\ stage # "check" => at[Main] = "idle"
  /\ stage \in {"options", "init"} =>
       pair = NoPair /\ result[Main] = None /\ asks[Main].side = "kubeconfig"
  /\ stage = "check" => systemCheck

(* What TestConfig is given is of the deciding source.                     *)
PassedOK ==
  stage \in {"init", "check", "serving"} =>
    /\ passed # None => Deciding = passed /\ given[passed]["kubeconfig"] # None
    /\ passed = None => Deciding \in {"config", None}

(* The pair is missing only when it is still to be detected.               *)
PairOK ==
  /\ PairFromOneSource
  /\ pair # NoPair => pair["kubeconfig"] # NoPath
  /\ stage \in {"check", "serving"} /\ pair = NoPair => Deciding = None
  /\ \A p \in Procs : at[p] \in Looks => pair = NoPair
  /\ \A p \in Procs : at[p] \in {"inside", "construct"} => pair # NoPair

Count(s) == IF client[s] = NoClient THEN 0 ELSE 1

ClientOK ==
  /\ OneClientPerSide
  /\ \A s \in Sides : client[s] # NoClient => client[s].path = pair[s] /\ pair # NoPair
  /\ made = Count("kubeconfig") + Count("kubeconfig_infra")
  /\ \A p \in Procs : at[p] = "construct" =>
       /\ client[asks[p].side] = NoClient /\ pair[asks[p].side] # NoPath
       /\ asks[p].what = "client"

(* What the last call of system_check() has achieved.                      *)
CheckOK ==
  /\ stage = "check" /\ result[Main] = "ok" =>
       /\ pair # NoPair
       /\ asks[Main].what = "client" => client[asks[Main].side] # NoClient
  /\ stage = "check" =>
       /\ asks[Main].side = "kubeconfig_infra" => client["kubeconfig"] # NoClient
  /\ stage = "serving" /\ systemCheck =>
       /\ client["kubeconfig"] # NoClient
       /\ pair["kubeconfig_infra"] # NoPath => client["kubeconfig_infra"] # NoClient

(* Who was told of an infra cluster may ask for it.                        *)
CallerOK ==
  \A p \in Callers :
    /\ told[p] = "DPU" => pair["kubeconfig_infra"] # NoPath
    /\ at[p] # "idle" /\ asks[p] = [what |-> "client", side |-> "kubeconfig_infra"] =>
         pair["kubeconfig_infra"] # NoPath
    /\ result[p] # "no_infra"
    /\ systemCheck => result[p] \notin Problems

IInv == TypeOK /\ Locking /\ Staged /\ PassedOK /\ PairOK /\ ClientOK /\ CheckOK /\ CallerOK

USE DEF Main, None, Empty, Sides, Sources, Procs, Looks, Inside, Problems, Stages

LEMMA PathFacts ==
  /\ NoPath \notin Paths
  /\ \A name : Root(name) # NoPath
  /\ \A s \in Sides : <<"cwd", s>> # NoPath /\ <<"configdir", s>> # NoPath
  /\ \A s \in Sides : <<"cwd", s>> \in Paths /\ <<"configdir", s>> \in Paths
  /\ \A name \in Looks : Root(name) \in Paths
BY DEF Paths, Detectable, NoPath, Root

LEMMA PairFacts ==
  /\ NoPair \in [Sides -> Paths \cup {NoPath}]
  /\ \A s \in Sides : NoPair[s] = NoPath
BY DEF NoPair

LEMMA ClientFacts ==
  /\ NoClient \notin Clients
  /\ \A path \in Paths, k \in 1..2 :
       /\ [path |-> path, nr |-> k] \in Clients
       /\ [path |-> path, nr |-> k] # NoClient
       /\ [path |-> path, nr |-> k].path = path
BY DEF NoClient, Clients

LEMMA CallFacts ==
  /\ \A c \in Calls : c.what \in {"pair", "client"} /\ c.side \in Sides
  /\ \A what \in {"pair", "client"}, s \in Sides :
       /\ [what |-> what, side |-> s] \in Calls
       /\ [what |-> what, side |-> s].what = what
       /\ [what |-> what, side |-> s].side = s
BY DEF Calls

LEMMA SameDeciding == given' = given => Deciding' = Deciding
BY DEF Deciding, Sets

USE PairFacts

LEMMA InitOK == Init => IInv
<1> SUFFICES ASSUME Init PROVE IInv
  OBVIOUS
<1> USE KubeconfigsAssumption DEF Init
<1>1. TypeOK
  <2>1. files \in [Paths -> {"missing", "invalid", "valid"}] /\ changes \in 0..MaxChanges
    OBVIOUS
  <2>2. pair \in [Sides -> Paths \cup {NoPath}] /\ asks \in [Procs -> Calls]
    BY CallFacts
  <2> QED
    BY <2>1, <2>2 DEF TypeOK
<1>2. Locking /\ Staged /\ PassedOK
  BY DEF Locking, Staged, PassedOK
<1>3. PairOK
  BY DEF PairOK, PairFromOneSource
<1>4. ClientOK
  <2>1. OneClientPerSide
    BY DEF OneClientPerSide
  <2>2. made = Count("kubeconfig") + Count("kubeconfig_infra")
    BY DEF Count
  <2> QED
    BY <2>1, <2>2 DEF ClientOK
<1>5. CheckOK /\ CallerOK
  BY DEF CheckOK, CallerOK
<1> QED
  BY <1>1, <1>2, <1>3, <1>4, <1>5 DEF IInv

LEMMA OptionsStep == IInv /\ Options => IInv'
<1> SUFFICES ASSUME IInv, Options PROVE IInv'
  OBVIOUS
<1> USE KubeconfigsAssumption DEF IInv, Options, callVars, Pass
<1>1. TypeOK'
  BY DEF TypeOK
<1>2. Locking' /\ Staged'
  BY DEF Locking, Staged
<1>3. PassedOK'
  BY DEF PassedOK, Deciding, Sets, TypeOK
<1>4. PairOK'
  BY DEF PairOK, PairFromOneSource, Staged
<1>5. ClientOK' /\ CheckOK' /\ CallerOK'
  BY DEF ClientOK, OneClientPerSide, Count, CheckOK, CallerOK
<1> QED
  BY <1>1, <1>2, <1>3, <1>4, <1>5

(* Nobody has a client before the pair is known.                           *)
LEMMA Unmade == IInv /\ pair = NoPair
                  => \A s \in Sides : client[s] = NoClient /\ handed[s] = {}
<1> SUFFICES ASSUME IInv, pair = NoPair, NEW s \in Sides
             PROVE  client[s] = NoClient /\ handed[s] = {}
  OBVIOUS
<1>1. client[s] = NoClient
  BY DEF IInv, ClientOK
<1>2. \A c \in handed[s] : c \in Clients /\ c = client[s]
  BY DEF IInv, TypeOK, ClientOK, OneClientPerSide
<1> QED
  BY <1>1, <1>2, ClientFacts

LEMMA InitTestConfigStep == IInv /\ InitTestConfig => IInv'
<1> SUFFICES ASSUME IInv, InitTestConfig PROVE IInv'
  OBVIOUS
<1> USE KubeconfigsAssumption DEF IInv, InitTestConfig, callVars
<1>0. given' = given /\ pair = NoPair
  BY DEF Staged
<1>1. TypeOK'
  BY PathFacts DEF TypeOK, From
<1>2. Locking' /\ Staged' /\ PassedOK'
  BY DEF Locking, Staged, PassedOK, Deciding, Sets
<1>3. PairOK'
  <2> DEFINE source == IF passed = None THEN "config" ELSE passed
             dir    == IF passed = None THEN "configdir" ELSE "cwd"
  <2>1. CASE stage' = "failed"
    BY <2>1, <1>0 DEF PairOK, PairFromOneSource, Staged
  <2>2. CASE stage' # "failed"
    <3>1. pair' = From(source, dir)
      BY <2>2
    <3>2. \A s \in Sides :
            pair'[s] = IF given[source][s] = None THEN NoPath ELSE <<dir, s>>
      BY <3>1 DEF From
    <3>3. pair' # NoPair => given[source]["kubeconfig"] # None
      <4>1. CASE passed # None
        BY <4>1 DEF PassedOK
      <4>2. CASE passed = None
        <5>1. ConfigParses
          BY <2>2
        <5>2. given["config"]["kubeconfig"] = None => pair' = [s \in Sides |-> NoPath]
          BY <3>1, <4>2, <5>1 DEF ConfigParses, From
        <5> QED
          BY <4>2, <5>2 DEF NoPair
      <4> QED
        BY <4>1, <4>2
    <3>4. CASE pair' = NoPair
      <4>1. given[source]["kubeconfig"] = None /\ given[source]["kubeconfig_infra"] = None
        BY <3>2, <3>4, PathFacts
      <4>2. Deciding = None
        BY <4>1 DEF PassedOK, Deciding, Sets
      <4> QED
        BY <1>0, <3>4, <4>2, SameDeciding DEF PairOK, PairFromOneSource, Staged
    <3>5. CASE pair' # NoPair
      <4>1. Deciding = source /\ source # None
        BY <3>3, <3>5 DEF PassedOK, Deciding, Sets, TypeOK
      <4>2. (source = "config") <=> (passed = None)
        BY DEF TypeOK
      <4>3. PairFromOneSource'
        BY <1>0, <3>2, <4>1, <4>2, SameDeciding, PathFacts DEF PairFromOneSource
      <4>4. pair'["kubeconfig"] # NoPath
        BY <3>2, <3>3, <3>5, PathFacts
      <4> QED
        BY <1>0, <3>5, <4>3, <4>4 DEF PairOK, Staged
    <3> QED
      BY <3>4, <3>5
  <2> QED
    BY <2>1, <2>2
<1>4. ClientOK'
  <2>1. \A s \in Sides : client[s] = NoClient /\ handed[s] = {}
    BY <1>0, Unmade
  <2>2. ClientOK' <=> made' = Count("kubeconfig")' + Count("kubeconfig_infra")'
    BY <2>1 DEF ClientOK, OneClientPerSide, Staged
  <2> QED
    BY <2>2 DEF ClientOK, Count
<1>5. CheckOK' /\ CallerOK'
  BY <1>0 DEF CheckOK, CallerOK, Staged
<1> QED
  BY <1>1, <1>2, <1>3, <1>4, <1>5

LEMMA EnterStep == ASSUME NEW p \in Procs, IInv, Enter(p) PROVE IInv'
<1> USE KubeconfigsAssumption DEF IInv, Enter, NotInCalls
<1>1. TypeOK'
  BY DEF TypeOK
<1>2. Locking' /\ Staged'
  BY DEF Locking, Staged, TypeOK
<1>6. PassedOK'
  BY SameDeciding DEF PassedOK
<1>3. PairOK'
  BY SameDeciding DEF PairOK, PairFromOneSource, TypeOK
<1>4. ClientOK'
  BY DEF ClientOK, OneClientPerSide, Count, TypeOK
<1>5. CheckOK' /\ CallerOK'
  BY DEF CheckOK, CallerOK, TypeOK
<1> QED
  BY <1>1, <1>2, <1>3, <1>4, <1>5, <1>6

(* What holds of process p while it holds the lock: no other is inside.    *)
LEMMA Alone == ASSUME NEW p \in Procs, IInv, at[p] \in Inside
               PROVE  \A q \in Procs : at[q] \in Inside => q = p
BY DEF IInv, Locking

(* A call that raises leaves everything as it is.                          *)
LEMMA RaiseStep ==
  ASSUME NEW p \in Procs, IInv, at[p] \in Inside,
         NEW problem \in Problems, Raise(p, problem), UNCHANGED asks, NotInCalls,
         p \in Callers => ~systemCheck /\ problem # "no_infra"
  PROVE  IInv'
<1> USE KubeconfigsAssumption DEF IInv, Raise, Leave, NotInCalls
<1>1. TypeOK'
  BY DEF TypeOK
<1>2. Locking' /\ Staged'
  BY DEF Locking, Staged, TypeOK
<1>6. PassedOK'
  BY SameDeciding DEF PassedOK
<1>3. PairOK'
  BY SameDeciding DEF PairOK, PairFromOneSource, TypeOK
<1>4. ClientOK'
  BY DEF ClientOK, OneClientPerSide, Count, TypeOK
<1>5. CheckOK' /\ CallerOK'
  BY DEF CheckOK, CallerOK, TypeOK
<1> QED
  BY <1>1, <1>2, <1>3, <1>4, <1>5, <1>6

LEMMA LookStep == ASSUME NEW p \in Procs, IInv, Look(p) PROVE IInv'
<1> USE KubeconfigsAssumption DEF IInv, NotInCalls
<1>0. /\ at[p] \in Looks /\ pair = NoPair /\ NotInCalls
      /\ stage \in {"check", "serving"} /\ Deciding = None
      /\ p \in Callers => ~systemCheck
  BY DEF Look, Staged, TypeOK, PairOK, CheckOK, ClientOK
<1>1. ASSUME NEW tenant, NEW infra, Detected(p, tenant, infra),
             \/ tenant \in {Root("nicmode"), Root("smartnic")} /\ infra = NoPath
             \/ tenant = Root("tenant") /\ infra = Root("infra")
      PROVE  IInv'
  <2> USE <1>0, <1>1 DEF Detected
  <2>1. TypeOK'
    BY PathFacts DEF TypeOK
  <2>2. Locking' /\ Staged'
    BY DEF Locking, Staged, TypeOK
  <2>6. PassedOK'
    BY SameDeciding DEF PassedOK
  <2>3. PairOK'
    <3>1. PairFromOneSource'
      BY SameDeciding DEF PairFromOneSource
    <3>2. \A q \in Procs : at'[q] \notin Looks
      BY Alone DEF TypeOK
    <3>3. pair'["kubeconfig"] # NoPath
      BY PathFacts
    <3>4. pair' # NoPair
      BY <3>3
    <3> QED
      BY <3>1, <3>2, <3>3, <3>4 DEF PairOK
  <2>4. ClientOK'
    <3>1. \A q \in Procs : at'[q] # "construct"
      <4>1. at'[p] = "inside" /\ \A q \in Procs \ {p} : at'[q] = at[q]
        BY DEF TypeOK
      <4>2. \A q \in Procs \ {p} : at[q] \notin Inside
        BY Alone
      <4> QED
        BY <4>1, <4>2
    <3>2. OneClientPerSide' /\ \A s \in Sides : client'[s] = NoClient
      BY Unmade DEF OneClientPerSide
    <3>3. made' = Count("kubeconfig")' + Count("kubeconfig_infra")'
      BY DEF ClientOK, Count
    <3> QED
      BY <3>1, <3>2, <3>3 DEF ClientOK
  <2>5. CheckOK'
    BY Unmade DEF CheckOK
  <2>7. CallerOK'
    <3>1. \A q \in Callers : at'[q] # "idle" => at[q] # "idle"
      BY DEF TypeOK
    <3>2. \A q \in Callers : told[q] # "DPU"
      BY DEF CallerOK
    <3>3. \A q \in Callers : at[q] # "idle" =>
            asks[q] # [what |-> "client", side |-> "kubeconfig_infra"]
      BY DEF CallerOK
    <3> QED
      BY <3>1, <3>2, <3>3 DEF CallerOK
  <2> QED
    BY <2>1, <2>2, <2>3, <2>4, <2>5, <2>6, <2>7
<1>2. ASSUME NEW place \in Looks, Goto(p, place) PROVE IInv'
  <2> USE <1>0, <1>2 DEF Goto
  <2>1. TypeOK'
    BY DEF TypeOK
  <2>2. Locking' /\ Staged'
    BY DEF Locking, Staged, TypeOK
  <2>6. PassedOK'
    BY SameDeciding DEF PassedOK
  <2>3. PairOK'
    BY SameDeciding DEF PairOK, PairFromOneSource, TypeOK
  <2>4. ClientOK'
    BY DEF ClientOK, OneClientPerSide, Count, TypeOK
  <2>5. CheckOK' /\ CallerOK'
    BY DEF CheckOK, CallerOK, TypeOK
  <2> QED
    BY <2>1, <2>2, <2>3, <2>4, <2>5, <2>6
<1>3. Raise(p, "undetected") /\ UNCHANGED asks => IInv'
  BY <1>0, RaiseStep
<1>4. \/ \E tenant \in {Root("nicmode"), Root("smartnic")} : Detected(p, tenant, NoPath)
      \/ Detected(p, Root("tenant"), Root("infra"))
      \/ \E place \in Looks : Goto(p, place)
      \/ Raise(p, "undetected") /\ UNCHANGED asks
  BY DEF Look
<1> QED
  BY <1>1, <1>2, <1>3, <1>4

LEMMA ReturnPairStep == ASSUME NEW p \in Procs, IInv, ReturnPair(p) PROVE IInv'
<1> USE KubeconfigsAssumption DEF IInv, ReturnPair, Leave, NotInCalls
<1>1. TypeOK'
  BY DEF TypeOK, Mode
<1>2. Locking' /\ Staged'
  BY DEF Locking, Staged, TypeOK
<1>3. PassedOK'
  BY SameDeciding DEF PassedOK
<1>4. PairOK'
  BY SameDeciding DEF PairOK, PairFromOneSource, TypeOK
<1>5. ClientOK'
  BY DEF ClientOK, OneClientPerSide, Count, TypeOK
<1>6. CheckOK'
  BY DEF CheckOK, TypeOK, PairOK
<1>7. CallerOK'
  BY DEF CallerOK, TypeOK, Mode
<1> QED
  BY <1>1, <1>2, <1>3, <1>4, <1>5, <1>6, <1>7

LEMMA ReturnClientStep == ASSUME NEW p \in Procs, IInv, ReturnClient(p) PROVE IInv'
<1> USE KubeconfigsAssumption DEF IInv, NotInCalls
<1> DEFINE s == asks[p].side
<1>0. /\ s \in Sides /\ at[p] = "inside" /\ asks[p].what = "client" /\ pair # NoPair
      /\ NotInCalls /\ UNCHANGED asks
      /\ stage \in {"check", "serving"}
  BY CallFacts DEF ReturnClient, TypeOK, PairOK, Staged
<1>1. CASE pair[s] = NoPath
  <2>1. s = "kubeconfig_infra"
    BY <1>0, <1>1 DEF PairOK
  <2>2. asks[p] = [what |-> "client", side |-> "kubeconfig_infra"]
    BY <1>0, <2>1 DEF TypeOK, Calls
  <2>3. p \notin Callers
    BY <1>0, <1>1, <2>1, <2>2 DEF CallerOK
  <2>4. Raise(p, "no_infra")
    BY <1>1 DEF ReturnClient
  <2> QED
    BY <1>0, <2>3, <2>4, RaiseStep
<1>2. CASE pair[s] # NoPath /\ client[s] = NoClient
  <2> USE <1>0, <1>2 DEF ReturnClient
  <2>1. TypeOK'
    BY DEF TypeOK
  <2>2. Locking' /\ Staged'
    BY DEF Locking, Staged, TypeOK
  <2>3. PassedOK'
    BY SameDeciding DEF PassedOK
  <2>4. PairOK'
    BY SameDeciding DEF PairOK, PairFromOneSource, TypeOK
  <2>5. ClientOK'
    BY DEF ClientOK, OneClientPerSide, Count, TypeOK
  <2>6. CheckOK' /\ CallerOK'
    BY DEF CheckOK, CallerOK, TypeOK
  <2> QED
    BY <2>1, <2>2, <2>3, <2>4, <2>5, <2>6
<1>3. CASE pair[s] # NoPath /\ client[s] # NoClient
  <2> USE <1>0, <1>3 DEF ReturnClient, Leave, Hand
  <2>1. TypeOK'
    BY DEF TypeOK
  <2>2. Locking' /\ Staged'
    BY DEF Locking, Staged, TypeOK
  <2>3. PassedOK'
    BY SameDeciding DEF PassedOK
  <2>4. PairOK'
    BY SameDeciding DEF PairOK, PairFromOneSource, TypeOK
  <2>5. ClientOK'
    <3>1. OneClientPerSide'
      BY DEF ClientOK, OneClientPerSide, TypeOK
    <3>2. \A q \in Procs : at'[q] = "construct" => at[q] = "construct"
      BY DEF TypeOK
    <3>3. UNCHANGED <<pair, client, made>>
      OBVIOUS
    <3> QED
      BY <3>1, <3>2, <3>3 DEF ClientOK, Count
  <2>6. CheckOK' /\ CallerOK'
    BY DEF CheckOK, CallerOK, TypeOK
  <2> QED
    BY <2>1, <2>2, <2>3, <2>4, <2>5, <2>6
<1> QED
  BY <1>1, <1>2, <1>3

LEMMA ConstructStep == ASSUME NEW p \in Procs, IInv, Construct(p) PROVE IInv'
<1> USE KubeconfigsAssumption DEF IInv, NotInCalls
<1> DEFINE s == asks[p].side
           new == [path |-> pair[s], nr |-> made + 1]
<1>0. /\ s \in Sides /\ at[p] = "construct" /\ asks[p].what = "client" /\ pair # NoPair
      /\ NotInCalls /\ UNCHANGED asks
      /\ client[s] = NoClient /\ pair[s] \in Paths
      /\ stage \in {"check", "serving"}
  BY CallFacts DEF Construct, TypeOK, PairOK, Staged, ClientOK
<1>1. p \in Callers => ~systemCheck
  <2>1. p \in Callers => stage = "serving"
    BY <1>0 DEF Staged
  <2>2. pair[s] # NoPath
    BY <1>0, PathFacts
  <2> QED
    BY <1>0, <2>1, <2>2 DEF CheckOK
<1>2. CASE files[pair[s]] # "valid"
  <2>1. Raise(p, "bad_file")
    BY <1>2 DEF Construct
  <2> QED
    BY <1>0, <1>1, <2>1, RaiseStep
<1>3. CASE files[pair[s]] = "valid"
  <2>0. made + 1 \in 1..2 /\ new \in Clients /\ new # NoClient /\ new.path = pair[s]
    <3>1. made \in 0..1
      BY <1>0 DEF ClientOK, Count, TypeOK
    <3>2. made + 1 \in 1..2
      BY <3>1
    <3> QED
      BY <3>2, <1>0 DEF Clients, NoClient
  <2> HIDE DEF new
  <2>9. /\ client' = [client EXCEPT ![s] = new] /\ made' = made + 1
        /\ Leave(p, "ok") /\ Hand(s, new) /\ UNCHANGED <<pair, told>>
    BY <1>3 DEF Construct, new
  <2> USE <1>0, <2>0, <2>9 DEF Leave, Hand
  <2>1. TypeOK'
    BY DEF TypeOK
  <2>2. Locking' /\ Staged'
    BY DEF Locking, Staged, TypeOK
  <2>3. PassedOK'
    BY SameDeciding DEF PassedOK
  <2>4. PairOK'
    BY SameDeciding DEF PairOK, PairFromOneSource, TypeOK
  <2>5. ClientOK'
    <3>1. \A q \in Procs : at'[q] # "construct"
      BY Alone DEF TypeOK
    <3>2. \A r \in Sides : \A c \in handed[r] : r # s
      BY ClientFacts DEF ClientOK, OneClientPerSide, TypeOK
    <3>3. OneClientPerSide'
      BY <3>2 DEF ClientOK, OneClientPerSide, TypeOK
    <3>4. made' = Count("kubeconfig")' + Count("kubeconfig_infra")'
      BY DEF ClientOK, Count, TypeOK
    <3>5. \A r \in Sides : client'[r] # NoClient => client'[r].path = pair'[r] /\ pair' # NoPair
      BY DEF ClientOK, TypeOK
    <3> QED
      BY <3>1, <3>3, <3>4, <3>5 DEF ClientOK
  <2>6. CheckOK' /\ CallerOK'
    BY DEF CheckOK, CallerOK, TypeOK
  <2> QED
    BY <2>1, <2>2, <2>3, <2>4, <2>5, <2>6
<1> QED
  BY <1>2, <1>3

LEMMA CallStep == ASSUME NEW p \in Callers, IInv, Call(p) PROVE IInv'
<1> USE KubeconfigsAssumption, CallFacts DEF IInv, Call, Ask
<1>1. TypeOK'
  BY DEF TypeOK
<1>2. Locking' /\ Staged'
  BY DEF Locking, Staged, TypeOK
<1>3. PassedOK'
  BY SameDeciding DEF PassedOK
<1>4. PairOK'
  BY SameDeciding DEF PairOK, PairFromOneSource, TypeOK
<1>5. ClientOK'
  BY DEF ClientOK, OneClientPerSide, Count, TypeOK
<1>6. CheckOK' /\ CallerOK'
  BY DEF CheckOK, CallerOK, TypeOK, Calls
<1> QED
  BY <1>1, <1>2, <1>3, <1>4, <1>5, <1>6

LEMMA CheckStepOK == IInv /\ Check => IInv'
<1> SUFFICES ASSUME IInv, Check PROVE IInv'
  OBVIOUS
<1> USE KubeconfigsAssumption, CallFacts DEF IInv, Check, CheckStep, CheckAsk, Ask, Checking
<1>1. TypeOK'
  BY DEF TypeOK
<1>2. Locking' /\ Staged'
  BY DEF Locking, Staged, TypeOK
<1>3. PassedOK'
  BY SameDeciding DEF PassedOK
<1>4. PairOK'
  BY SameDeciding DEF PairOK, PairFromOneSource, TypeOK
<1>5. ClientOK'
  BY DEF ClientOK, OneClientPerSide, Count, TypeOK
<1>6. CheckOK' /\ CallerOK'
  BY DEF CheckOK, CallerOK, TypeOK, Calls, Staged
<1> QED
  BY <1>1, <1>2, <1>3, <1>4, <1>5, <1>6

LEMMA ChangeFileStep == IInv /\ ChangeFile => IInv'
<1> SUFFICES ASSUME IInv, ChangeFile PROVE IInv'
  OBVIOUS
<1> USE KubeconfigsAssumption DEF IInv, ChangeFile, callVars
<1>1. TypeOK'
  BY DEF TypeOK
<1>2. Locking' /\ Staged' /\ CheckOK' /\ CallerOK'
  BY DEF Locking, Staged, CheckOK, CallerOK
<1>3. PassedOK' /\ PairOK'
  BY SameDeciding DEF PassedOK, PairOK, PairFromOneSource
<1>4. ClientOK'
  BY DEF ClientOK, OneClientPerSide, Count
<1> QED
  BY <1>1, <1>2, <1>3, <1>4

LEMMA SameVars == IInv /\ UNCHANGED vars => IInv'
<1> SUFFICES ASSUME IInv, UNCHANGED vars PROVE IInv'
  OBVIOUS
<1> USE DEF IInv, vars, callVars
<1>1. TypeOK' /\ Locking' /\ Staged' /\ CheckOK' /\ CallerOK'
  BY DEF TypeOK, Locking, Staged, CheckOK, CallerOK
<1>2. PassedOK' /\ PairOK'
  BY SameDeciding DEF PassedOK, PairOK, PairFromOneSource
<1>3. ClientOK'
  BY DEF ClientOK, OneClientPerSide, Count
<1> QED
  BY <1>1, <1>2, <1>3

LEMMA Invariance == Spec => []IInv
<1>1. IInv /\ [Next]_vars => IInv'
  BY OptionsStep, InitTestConfigStep, CheckStepOK, CallStep, EnterStep, LookStep,
     ReturnPairStep, ReturnClientStep, ConstructStep, ChangeFileStep, SameVars
     DEF Next, Step, Failed
<1> QED
  BY InitOK, <1>1, PTL DEF Spec

(* TypeOK: every variable keeps its type, and no third client is made,     *)
(* however many threads call client().                                     *)
THEOREM TypeCorrect == Spec => []TypeOK
BY Invariance, PTL DEF IInv

(* PairFromOneSource: the two KUBECONFIG files are of one source, the      *)
(* highest that gives any (option_get_kubeconfigs(), TestConfig.__init__). *)
THEOREM OneSource == Spec => []PairFromOneSource
BY Invariance, PTL DEF IInv, PairOK

(* OneClientPerSide: all threads share one client of each side, made of    *)
(* the file that the pair names (TestConfig.client()).                     *)
THEOREM OneClient == Spec => []OneClientPerSide
BY Invariance, PTL DEF IInv, ClientOK

(* ModeKeepsItsWord: a task that was let in because the mode is DPU is     *)
(* never told that there is no infra cluster.                              *)
THEOREM ModeHolds == Spec => []ModeKeepsItsWord
<1>1. IInv => ModeKeepsItsWord
  BY DEF IInv, CallerOK, ModeKeepsItsWord
<1> QED
  BY Invariance, <1>1, PTL

(* CheckedNeverRaises: after system_check() no call for a client raises,   *)
(* whatever happens to the files.                                          *)
THEOREM CheckedHolds == Spec => []CheckedNeverRaises
<1>1. IInv => CheckedNeverRaises
  BY DEF IInv, CallerOK, CheckedNeverRaises
<1> QED
  BY Invariance, <1>1, PTL
=============================================================================
