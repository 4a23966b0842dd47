------------------------------ MODULE Kubeconfigs ------------------------------
(***************************************************************************)
(* From which source the program takes its two KUBECONFIG files, and the    *)
(* clients that it makes of them: option_get_kubeconfigs() of tft.py and    *)
(* TestConfig with its lock, its lazily detected pair of files and its      *)
(* lazily made clients.                                                     *)
(*                                                                         *)
(* main() makes a TestConfig and lets system_check() make the clients      *)
(* before any task exists; the tasks, in threads of their own, then call   *)
(* client() and ask for the mode.  Other users of the class, its tests     *)
(* among them, make a TestConfig without system_check().                   *)
(* Meanwhile anybody may write or remove the files.                        *)
(*                                                                         *)
(* K8sClient() is ktoolbox's; it raises unless its file can be read and    *)
(* is valid, as _system_check_kubeconfig() expects of it.                  *)
(***************************************************************************)
EXTENDS Naturals

CONSTANTS
  Callers,      \* threads that use the TestConfig
  Givens,       \* what a user may give at each source: a set of pairs
  AtStart,      \* files of which some exist when the program starts
  MaxChanges    \* bound: changes of the files while the program runs

Main  == "main"
None  == "none"   \* not given
Empty == "empty"  \* the empty string
Sides == {"kubeconfig", "kubeconfig_infra"}
Sources == {"command_line", "environment", "config"}

(* What one source gives.                                                  *)
Pairs == [Sides -> {None, Empty, "given"}]
(* A file is known by the directory that its name is relative to.          *)
Root(name) == <<"root", name>>
Detectable == {Root("nicmode"), Root("smartnic"), Root("tenant"), Root("infra")}
Paths == Detectable \cup ({"cwd", "configdir"} \X Sides)
ASSUME GivensAssumption == Givens \subseteq [Sources -> Pairs]
ASSUME KubeconfigsAssumption ==
  /\ MaxChanges \in Nat
  /\ AtStart \subseteq Paths
  /\ Main \notin Callers /\ None \notin Callers

NoPath == <<None, None>>
NoPair == [s \in Sides |-> NoPath]

Procs == Callers \cup {Main}
Clients == [path : Paths, nr : 1..2]
NoClient == [path |-> NoPath, nr |-> 0]

Stages == {"options", "init", "check", "serving", "failed"}
Looks  == {"nicmode", "smartnic", "tenant", "infra"}
Inside == Looks \cup {"inside", "construct"}
Problems == {"undetected", "no_infra", "bad_file"}

VARIABLES
  given,    \* what the user gave at each source
  systemCheck, \* does the owner call system_check() first?
  files,    \* Paths -> missing, invalid or valid
  changes,  \* how often they changed meanwhile
  stage,    \* where the owner of the TestConfig is
  passed,   \* argument "kubeconfigs" of TestConfig: the source it is from
  pair,     \* _kubeconfig_pair
  client,   \* _client_tenant, _client_infra
  made,     \* number of K8sClient objects
  lock,     \* _lock
  at,       \* Procs -> where in its call
  asks,     \* Procs -> what it calls: a property of the pair, or client()
  result,   \* Procs -> how its last call ended
  told,     \* Callers -> the mode it was told last
  handed    \* Sides -> the clients that calls returned so far

callVars == <<lock, at, asks, result, told, handed>>
vars == <<given, systemCheck, files, changes, stage, passed, pair, client, made, callVars>>

Calls == [what : {"pair", "client"}, side : Sides]

TypeOK ==
  /\ given \in Givens /\ systemCheck \in BOOLEAN
  /\ files \in [Paths -> {"missing", "invalid", "valid"}]
  /\ changes \in 0..MaxChanges
  /\ stage \in Stages
  /\ passed \in {None, "command_line", "environment"}
  /\ pair \in [Sides -> Paths \cup {NoPath}]
  /\ client \in [Sides -> Clients \cup {NoClient}]
  /\ made \in 0..2
  /\ lock \in Procs \cup {None}
  /\ at \in [Procs -> {"idle", "want"} \cup Inside]
  /\ asks \in [Procs -> Calls]
  /\ result \in [Procs -> {None, "ok"} \cup Problems]
  /\ told \in [Callers -> {None, "SINGLE", "DPU"}]
  /\ handed \in [Sides -> SUBSET Clients]

Init ==
  /\ given \in Givens /\ systemCheck \in BOOLEAN
  /\ \E present \in SUBSET AtStart :
       files = [f \in Paths |-> IF f \in present THEN "valid" ELSE "missing"]
  /\ changes = 0
  /\ stage = "options" /\ passed = None
  /\ pair = NoPair /\ client = [s \in Sides |-> NoClient] /\ made = 0
  /\ lock = None
  /\ at = [p \in Procs |-> "idle"]
  /\ asks = [p \in Procs |-> [what |-> "pair", side |-> "kubeconfig"]]
  /\ result = [p \in Procs |-> None]
  /\ told = [p \in Callers |-> None]
  /\ handed = [s \in Sides |-> {}]

-----------------------------------------------------------------------------
(* tft.py, option_get_kubeconfigs()                                        *)
Sets(source) == \E s \in Sides : given[source][s] # None

Pass(source) ==
  IF given[source]["kubeconfig"] = None
    THEN stage' = "failed" /\ passed' = None
    ELSE stage' = "init" /\ passed' = source

Options ==
  /\ stage = "options"
  /\ IF Sets("command_line") THEN Pass("command_line")
       ELSE IF Sets("environment") THEN Pass("environment")
              ELSE stage' = "init" /\ passed' = None
  /\ UNCHANGED <<given, systemCheck, files, changes, pair, client, made, callVars>>

(* TestConfig.__init__(): ConfConfig.parse() looks at the two keys of the  *)
(* configuration whatever else is given.                                   *)
ConfigParses ==
  given["config"]["kubeconfig_infra"] = None \/ given["config"]["kubeconfig"] # None

From(source, dir) ==
  [s \in Sides |-> IF given[source][s] = None THEN NoPath ELSE <<dir, s>>]

(* Variation: what is missing is taken from the configuration.             *)
InitTestConfigMixed ==
  /\ stage = "init"
  /\ LET source == IF passed = None THEN "config" ELSE passed
         dir    == IF passed = None THEN "configdir" ELSE "cwd"
         chosen == From(source, dir)
         other  == From("config", "configdir")
     IN  IF ConfigParses /\ \A s \in Sides : given[source][s] # Empty
           THEN /\ pair' = [s \in Sides |-> IF chosen[s] = NoPath THEN other[s] ELSE chosen[s]]
                /\ stage' = IF systemCheck THEN "check" ELSE "serving"
           ELSE stage' = "failed" /\ UNCHANGED pair
  /\ UNCHANGED <<given, systemCheck, files, changes, passed, client, made, callVars>>

InitTestConfig ==
  /\ stage = "init"
  /\ LET source == IF passed = None THEN "config" ELSE passed
         dir    == IF passed = None THEN "configdir" ELSE "cwd"
     IN  IF ConfigParses /\ \A s \in Sides : given[source][s] # Empty
           THEN /\ pair' = From(source, dir)
                /\ stage' = IF systemCheck THEN "check" ELSE "serving"
           ELSE stage' = "failed" /\ UNCHANGED pair
  /\ UNCHANGED <<given, systemCheck, files, changes, passed, client, made, callVars>>

-----------------------------------------------------------------------------
(* A call of process p: the properties kubeconfig, kubeconfig_infra and    *)
(* mode read the pair, client() returns a client.  Everything happens in   *)
(* "with self._lock", which is left by return and by raise.                *)

Ask(p, what, s) ==
  /\ at[p] = "idle"
  /\ at' = [at EXCEPT ![p] = "want"]
  /\ asks' = [asks EXCEPT ![p] = [what |-> what, side |-> s]]
  /\ result' = [result EXCEPT ![p] = None]

Leave(p, how) ==
  /\ lock' = None
  /\ at' = [at EXCEPT ![p] = "idle"]
  /\ result' = [result EXCEPT ![p] = how]

Raise(p, problem) ==
  /\ Leave(p, problem)
  /\ UNCHANGED <<pair, client, made, told, handed>>

Goto(p, place) ==
  /\ at' = [at EXCEPT ![p] = place]
  /\ UNCHANGED <<pair, client, made, lock, asks, result, told, handed>>

Hand(s, c) == handed' = [handed EXCEPT ![s] = @ \cup {c}]

NotInCalls == UNCHANGED <<given, systemCheck, files, changes, stage, passed>>

Enter(p) ==
  /\ at[p] = "want" /\ lock = None
  /\ lock' = p
  /\ at' = [at EXCEPT ![p] = IF pair = NoPair THEN "nicmode" ELSE "inside"]
  /\ UNCHANGED <<pair, client, made, asks, result, told, handed>> /\ NotInCalls

(* _detect_kubeconfigs() looks at one file after the other.                *)
Exists(path) == files[path] # "missing"

Detected(p, tenant, infra) ==
  /\ pair' = [kubeconfig |-> tenant, kubeconfig_infra |-> infra]
  /\ at' = [at EXCEPT ![p] = "inside"]
  /\ UNCHANGED <<client, made, lock, asks, result, told, handed>>

Look(p) ==
  /\ at[p] \in Looks
  /\ CASE at[p] \in {"nicmode", "smartnic"} /\ Exists(Root(at[p])) ->
            Detected(p, Root(at[p]), NoPath)
       [] at[p] = "nicmode" /\ ~Exists(Root("nicmode")) -> Goto(p, "smartnic")
       [] at[p] = "smartnic" /\ ~Exists(Root("smartnic")) -> Goto(p, "tenant")
       [] at[p] = "tenant" /\ Exists(Root("tenant")) -> Goto(p, "infra")
       [] at[p] = "infra" /\ Exists(Root("infra")) ->
            Detected(p, Root("tenant"), Root("infra"))
       [] OTHER -> Raise(p, "undetected") /\ UNCHANGED asks
  /\ NotInCalls

Mode == IF pair["kubeconfig_infra"] = NoPath THEN "SINGLE" ELSE "DPU"

ReturnPair(p) ==
  /\ at[p] = "inside" /\ asks[p].what = "pair"
  /\ Leave(p, "ok")
  /\ told' = IF p = Main THEN told ELSE [told EXCEPT ![p] = Mode]
  /\ UNCHANGED <<pair, client, made, asks, handed>> /\ NotInCalls

ReturnClient(p) ==
  LET s == asks[p].side IN
  /\ at[p] = "inside" /\ asks[p].what = "client"
  /\ IF pair[s] = NoPath THEN Raise(p, "no_infra")
       ELSE IF client[s] = NoClient
         THEN /\ at' = [at EXCEPT ![p] = "construct"]
              /\ UNCHANGED <<pair, client, made, lock, result, told, handed>>
         ELSE /\ Leave(p, "ok") /\ Hand(s, client[s])
              /\ UNCHANGED <<pair, client, made, told>>
  /\ UNCHANGED asks /\ NotInCalls

(* Variation: every call makes a client.                                   *)
ConstructUncached(p) ==
  LET s == asks[p].side
      new == [path |-> pair[s], nr |-> made + 1] IN
  /\ at[p] = "construct"
  /\ IF files[pair[s]] # "valid" THEN Raise(p, "bad_file")
       ELSE /\ made' = made + 1
            /\ Leave(p, "ok") /\ Hand(s, new)
            /\ UNCHANGED <<pair, client, told>>
  /\ UNCHANGED asks /\ NotInCalls

(* K8sClient(), which reads the file.                                      *)
Construct(p) ==
  LET s == asks[p].side
      new == [path |-> pair[s], nr |-> made + 1] IN
  /\ at[p] = "construct"
  /\ IF files[pair[s]] # "valid" THEN Raise(p, "bad_file")
       ELSE /\ client' = [client EXCEPT ![s] = new] /\ made' = made + 1
            /\ Leave(p, "ok") /\ Hand(s, new)
            /\ UNCHANGED <<pair, told>>
  /\ UNCHANGED asks /\ NotInCalls

Step(p) == Enter(p) \/ Look(p) \/ ReturnPair(p) \/ ReturnClient(p) \/ Construct(p)

-----------------------------------------------------------------------------
(* system_check(): of each side it reads the name of the file and makes    *)
(* the client, unless there is no infra cluster; at last the file of       *)
(* --evaluator-config may not exist.                                       *)
Checking(what, s) == asks[Main] = [what |-> what, side |-> s]

CheckAsk(what, s) ==
  Ask(Main, what, s) /\ UNCHANGED stage

CheckStep ==
  \/ result[Main] = None /\ CheckAsk("pair", "kubeconfig")
  \/ /\ result[Main] = "ok" /\ asks[Main].what = "pair"
     /\ \E s \in Sides :
          Checking("pair", s) /\ pair[s] # NoPath /\ CheckAsk("client", s)
  \/ /\ result[Main] = "ok" /\ Checking("client", "kubeconfig")
     /\ CheckAsk("pair", "kubeconfig_infra")
  \/ /\ result[Main] = "ok"
     /\ \/ Checking("client", "kubeconfig_infra")
        \/ Checking("pair", "kubeconfig_infra") /\ pair["kubeconfig_infra"] = NoPath
     /\ stage' \in {"serving", "failed"} /\ UNCHANGED <<at, asks, result>>
  \/ /\ result[Main] \in Problems
     /\ stage' = "failed" /\ UNCHANGED <<at, asks, result>>

(* Variation: only the tenant's client is made.                            *)
CheckTenantOnly ==
  /\ stage = "check" /\ at[Main] = "idle"
  /\ \/ /\ result[Main] = "ok" /\ Checking("client", "kubeconfig")
        /\ stage' = "serving" /\ UNCHANGED <<at, asks, result>>
     \/ ~(result[Main] = "ok" /\ Checking("client", "kubeconfig")) /\ CheckStep
  /\ UNCHANGED <<given, systemCheck, files, changes, passed, pair, client, made, lock, told, handed>>

Check ==
  /\ stage = "check" /\ at[Main] = "idle"
  /\ CheckStep
  /\ UNCHANGED <<given, systemCheck, files, changes, passed, pair, client, made, lock, told, handed>>

(* The tasks.  One for the infra cluster is refused when the mode is       *)
(* SINGLE (Task.__init__()).                                               *)
Call(p) ==
  /\ stage = "serving" /\ p \in Callers
  /\ \/ Ask(p, "pair", "kubeconfig_infra")
     \/ Ask(p, "client", "kubeconfig")
     \/ told[p] = "DPU" /\ Ask(p, "client", "kubeconfig_infra")
  /\ UNCHANGED <<given, systemCheck, files, changes, stage, passed, pair, client, made, lock,
                 told, handed>>

(* Somebody writes, truncates or removes a file.                           *)
ChangeFile ==
  /\ changes < MaxChanges /\ changes' = changes + 1
  /\ \E f \in Paths, s \in {"missing", "invalid", "valid"} :
       files[f] # s /\ files' = [files EXCEPT ![f] = s]
  /\ UNCHANGED <<given, systemCheck, stage, passed, pair, client, made, callVars>>

Failed == stage = "failed" /\ UNCHANGED vars

Next ==
  \/ Options \/ InitTestConfig \/ Check
  \/ \E p \in Procs : Step(p)
  \/ \E p \in Callers : Call(p)
  \/ ChangeFile \/ Failed

Spec == Init /\ [][Next]_vars

-----------------------------------------------------------------------------
(* The source that decides: the first of command line, environment and     *)
(* configuration that gives either of the two, else none.                  *)
Deciding ==
  IF Sets("command_line") THEN "command_line"
    ELSE IF Sets("environment") THEN "environment"
      ELSE IF Sets("config") THEN "config" ELSE None

(* Both files are from the source that decides, are found where that       *)
(* source's user expects them, and are never one file of one source and    *)
(* one of another - in particular not of an infra cluster that was given   *)
(* elsewhere (help of --kubeconfig-infra).                                 *)
PairFromOneSource ==
  pair # NoPair =>
    IF Deciding = None
      THEN pair \in {[kubeconfig |-> Root("nicmode"), kubeconfig_infra |-> NoPath],
                     [kubeconfig |-> Root("smartnic"), kubeconfig_infra |-> NoPath],
                     [kubeconfig |-> Root("tenant"), kubeconfig_infra |-> Root("infra")]}
      ELSE /\ \A s \in Sides : pair[s] = NoPath <=> given[Deciding][s] = None
           /\ \A s \in Sides : pair[s] # NoPath =>
                pair[s] = <<IF Deciding = "config" THEN "configdir" ELSE "cwd", s>>

(* However calls of several threads interleave, all get the same client of *)
(* a side, and it was made of the file that the pair names (client()).     *)
OneClientPerSide ==
  \A s \in Sides : \A c \in handed[s] : c = client[s] /\ c.path = pair[s]

(* A task that was created because there is an infra cluster is never told *)
(* later that there is none: the answer to mode stays true (mode, client). *)
ModeKeepsItsWord == \A p \in Callers : result[p] # "no_infra"

(* After system_check() no call raises, whatever becomes of the files: a   *)
(* test that has started does not fail for want of a client.               *)
CheckedNeverRaises == systemCheck => \A p \in Callers : result[p] \notin Problems
=============================================================================
