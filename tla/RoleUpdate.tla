----------------------------- MODULE RoleUpdate -----------------------------
(* The commands that change one classic virtual machine                      *)
(* (commands/asm/vm/vmclient.js).  Each lists the deployments, reads the     *)
(* role of the VM again, edits its copy and writes the whole role back; no   *)
(* request says which version it replaces.  Several processes do so at once. *)
(*                                                                           *)
(* Service (external): stores the role it is given, and refuses a data disk  *)
(* on a LUN that is taken.  A port stands for a pair of port and protocol,   *)
(* a setting of a load-balanced set for its probe.                           *)
EXTENDS Integers, FiniteSets, FiniteSetsExt, TLC

CONSTANTS Procs,         \* processes of the CLI
          VMs,           \* the VMs of one deployment
          Commands,      \* the commands that may be given
          InitialRoles,  \* what the service may have at first
          MaxRuns        \* bound: commands a process runs

VARIABLES roles,         \* the deployment, as the service stores it
          proc           \* per process, the command and what it has read

vars == <<roles, proc>>

NoSet == "no set"

(* verifyAndGetEndPointObj() makes an endpoint of the arguments of createEP: *)
(* its probe, direct server return and idle time-out, and no rules.          *)
Endpoint(name, port, set, probe, dsr, idle) ==
  [name |-> name, port |-> port, set |-> set, probe |-> probe, dsr |-> dsr, idle |-> idle,
   acl |-> {}]

EmptyRole == [eps |-> {}, ips |-> {}, static |-> FALSE, nics |-> {}, exts |-> {},
              disks |-> {}, debug |-> "none"]

EndpointFields == {"name", "port", "set", "probe", "dsr", "idle", "acl"}

Unique(things) == \A x, y \in things : x.name = y.name => x = y
Names(eps) == {e.name : e \in eps}
Ports(eps) == {e.port : e \in eps}
AclOps == {"createAcl", "deleteAcl", "updateAcl"}
Idle(p) == proc[p].step = "idle"

Init ==
  /\ roles \in InitialRoles
  /\ proc = [p \in Procs |-> [step |-> "idle", runs |-> 0, result |-> "none"]]

(* The command ends.                                                         *)
Ends(p, result) ==
  /\ proc' = [proc EXCEPT ![p] = [step |-> "idle", runs |-> @.runs, result |-> result]]
  /\ UNCHANGED roles

(* Mutant: the setting is written to the role itself.                        *)
DebugOnRole(r, c) == IF "debug" \in DOMAIN c THEN ("bootDiagnostics" :> c.debug) @@ r ELSE r

(* updateDebugSettings(): without the option the settings are dropped.       *)
DebugSettings(r, c) == [r EXCEPT !.debug = IF "debug" \in DOMAIN c THEN c.debug ELSE "none"]

(* The copy is edited, and the request that writes it back is sent.          *)
Sends(p, c, base, edited, step) ==
  /\ proc' = [proc EXCEPT ![p] =
       [step |-> step, runs |-> @.runs, cmd |-> c, base |-> base,
        copy |-> DebugSettings(edited, c)]]
  /\ UNCHANGED roles

(* verifyEndPoints(): the endpoints of one command differ from each other.   *)
Distinct(eps) ==
  /\ Cardinality(Names(eps)) = Cardinality(eps)
  /\ Cardinality(Ports(eps)) = Cardinality(eps)
  /\ \A e, f \in eps : e.set = f.set /\ e # f => e.set = NoSet

(* getAllLBSettings(): the endpoints that are in load-balanced sets.         *)
LbEndpoints(rs, set) == {e \in UNION {rs[v].eps : v \in VMs} : set # NoSet /\ e.set = set}

(* What an endpoint that joins a set which exists may become: createEP()     *)
(* takes over the probe but reads the direct server return under another     *)
(* name than getAllLBSettings() gives it ...                                 *)
AdoptedByCreate(rs, e) ==
  {[e EXCEPT !.probe = k.probe, !.dsr = "undefined"] : k \in LbEndpoints(rs, e.set)}

(* ... and createMultipleEP() takes over both.                               *)
AdoptedByMultiple(rs, e) ==
  {[e EXCEPT !.probe = k.probe, !.dsr = k.dsr] : k \in LbEndpoints(rs, e.set)}

Adopted(rs, e, op) ==
  IF LbEndpoints(rs, e.set) = {} THEN {e}
  ELSE IF op = "createEP" THEN AdoptedByCreate(rs, e) ELSE AdoptedByMultiple(rs, e)

(* The name of the VM, which has none, was typed with capitals.              *)
Capitals(c) == "capitals" \in DOMAIN c

(* The sets the VM is found to be in.  Their lists have the names of the VMs *)
(* in lower case, and are searched for the name as it was typed.             *)
OwnSets(c) ==
  IF Capitals(c) THEN {} ELSE {e.set : e \in roles[c.vm].eps} \ {NoSet}

Creates(c) == c.op \in {"createEP", "createMultipleEP"}
NewEps(c) == IF Creates(c) THEN c.eps ELSE {}

(* getDeployments(), getVMDeployment() and what follows at once: whoever     *)
(* creates endpoints looks at the load-balanced sets now, and not when the   *)
(* role is read again.                                                       *)
List(p, c) ==
  /\ Idle(p) /\ proc[p].runs < MaxRuns
  /\ c.op \notin {"setVM", "setExtension", "setChefExtension", "attach", "detach", "updateDisk"}
  /\ IF ~Distinct(NewEps(c)) \/ \E e \in NewEps(c) : e.set \in OwnSets(c)
       THEN proc' = [proc EXCEPT ![p] =
              [step |-> "idle", runs |-> @.runs + 1, result |-> "error"]]
       ELSE \E eps \in SUBSET UNION {Adopted(roles, e, c.op) : e \in NewEps(c)} :
              /\ Names(eps) = Names(NewEps(c)) /\ Unique(eps)
              /\ proc' = [proc EXCEPT ![p] =
                   [step |-> "read", runs |-> @.runs + 1,
                    cmd |-> IF Creates(c) THEN [c EXCEPT !.eps = eps] ELSE c]]
  /\ UNCHANGED roles

(* virtualMachines.get() is answered to process p, whose command is op.      *)
Reads(p, op) == proc[p].step = "read" /\ proc[p].cmd.op = op

(* The answer does not come.                                                 *)
ReadFails(p) == proc[p].step = "read" /\ Ends(p, "error")
-----------------------------------------------------------------------------
(* Mutant: only the names are compared.                                      *)
ClashByName(old, new) == Names(old) \cap Names(new) # {}

(* Endpoints of one VM differ in their names and in their ports.             *)
Clash(old, new) ==
  Names(old) \cap Names(new) # {} \/ Ports(old) \cap Ports(new) # {}

(* The endpoints are added if their names and ports are new to the VM.       *)
AddsEndpoints(p) ==
  LET c == proc[p].cmd
      r == roles[c.vm]
  IN  IF Clash(r.eps, c.eps) THEN Ends(p, "error")
      ELSE Sends(p, c, r, [r EXCEPT !.eps = @ \cup c.eps], "write")

CreateEP(p) == Reads(p, "createEP") /\ AddsEndpoints(p)

CreateMultipleEP(p) == Reads(p, "createMultipleEP") /\ AddsEndpoints(p)

DeleteEP(p) ==
  /\ Reads(p, "deleteEP")
  /\ LET c == proc[p].cmd
         r == roles[c.vm]
     IN  IF c.name \notin Names(r.eps) THEN Ends(p, "error")
         ELSE Sends(p, c, r, [r EXCEPT !.eps = {e \in @ : e.name # c.name}], "write")

(* setEndpointProperties(): what is given replaces what was there, but a     *)
(* given idle time-out is read from the utility itself, which has none.  The *)
(* settings of a set that the endpoint joins are not looked up.              *)
WithProperties(e, c) ==
  [e EXCEPT !.name  = IF "newName" \in DOMAIN c THEN c.newName ELSE @,
            !.port  = IF "port" \in DOMAIN c THEN c.port ELSE @,
            !.set   = IF "set" \in DOMAIN c THEN c.set ELSE @,
            !.probe = IF "probe" \in DOMAIN c THEN c.probe ELSE @,
            !.dsr   = IF "dsr" \in DOMAIN c THEN c.dsr ELSE @,
            !.idle  = IF "idle" \in DOMAIN c THEN "undefined" ELSE @]

(* Mutant: the edited endpoint becomes the only one.                         *)
OthersForgotten(r, e) == {}

(* The other endpoints an edited one must differ from.                       *)
Others(r, e) == r.eps \ {e}

SetEP(p) ==
  /\ Reads(p, "setEP")
  /\ LET c == proc[p].cmd
         r == roles[c.vm]
     IN  IF c.name \notin Names(r.eps) THEN Ends(p, "error")
         ELSE LET e == CHOOSE x \in r.eps : x.name = c.name
                  n == WithProperties(e, c)
              IN  IF Clash(Others(r, e), {n}) THEN Ends(p, "error")
                  ELSE Sends(p, c, r, [r EXCEPT !.eps = Others(r, e) \cup {n}], "write")

(* findNewtworkConfigAndEndpoint(), and the rules of the endpoint replaced.  *)
SendsAcl(p, c, r, acl, step) ==
  LET e == CHOOSE x \in r.eps : x.name = c.name
  IN  Sends(p, c, r, [r EXCEPT !.eps = (@ \ {e}) \cup {[e EXCEPT !.acl = acl]}], step)

AclOf(r, name) == UNION {e.acl : e \in {x \in r.eps : x.name = name}}
Orders(acl) == {x.order : x \in acl}

CreateEPAclRule(p) ==
  /\ Reads(p, "createAcl")
  /\ LET c   == proc[p].cmd
         r   == roles[c.vm]
         acl == AclOf(r, c.name)
     IN  IF c.name \notin Names(r.eps) \/ c.order \in Orders(acl) THEN Ends(p, "error")
         ELSE SendsAcl(p, c, r, acl \cup {[order |-> c.order, action |-> c.action]}, "write")

DeleteEPAclRule(p) ==
  /\ Reads(p, "deleteAcl")
  /\ LET c   == proc[p].cmd
         r   == roles[c.vm]
         acl == AclOf(r, c.name)
     IN  IF c.order \notin Orders(acl) THEN Ends(p, "error")
         ELSE SendsAcl(p, c, r, {x \in acl : x.order # c.order}, "confirm")

(* A new order of 0 counts as none: if (aclRuleInput.newOrder).              *)
UpdateEPAclRule(p) ==
  /\ Reads(p, "updateAcl")
  /\ LET c     == proc[p].cmd
         r     == roles[c.vm]
         acl   == AclOf(r, c.name)
         kept  == {x \in acl : x.order # c.order}
         order == IF c.newOrder = 0 THEN c.order ELSE c.newOrder
     IN  IF c.order \notin Orders(acl) \/ c.newOrder \in Orders(kept) \ {0}
           THEN Ends(p, "error")
           ELSE SendsAcl(p, c, r, kept \cup {[order |-> order, action |-> c.action]}, "write")
-----------------------------------------------------------------------------
(* The address belongs to a subnet of the virtual network: options are valid.*)
SetStaticIP(p) ==
  /\ Reads(p, "setStaticIP")
  /\ LET c == proc[p].cmd
     IN  Sends(p, c, roles[c.vm], [roles[c.vm] EXCEPT !.static = TRUE], "write")

(* Mutant: the test for an address that is there is inverted.                *)
RemoveStaticIPInverted(p) ==
  /\ Reads(p, "removeStaticIP")
  /\ LET c == proc[p].cmd
     IN  IF roles[c.vm].static THEN Ends(p, "ok")
         ELSE Sends(p, c, roles[c.vm], [roles[c.vm] EXCEPT !.static = FALSE], "write")

RemoveStaticIP(p) ==
  /\ Reads(p, "removeStaticIP")
  /\ LET c == proc[p].cmd
     IN  IF ~roles[c.vm].static THEN Ends(p, "ok")
         ELSE Sends(p, c, roles[c.vm], [roles[c.vm] EXCEPT !.static = FALSE], "write")

(* A public IP that is there is left alone without a time-out (0) and, if    *)
(* the option's text compares equal to what the SDK gives, with the same one.*)
SetPublicIP(p) ==
  /\ Reads(p, "setPublicIP")
  /\ LET c   == proc[p].cmd
         r   == roles[c.vm]
         old == {i \in r.ips : i.name = c.name}
     IN  \/ /\ old # {}
            /\ c.timeout = 0 \/ \A i \in old : i.timeout = c.timeout
            /\ Ends(p, "ok")
         \/ /\ old = {} \/ c.timeout # 0
            /\ Sends(p, c, r, [r EXCEPT !.ips = (@ \ old) \cup
                              {[name |-> c.name, timeout |-> c.timeout]}], "write")

RemovePublicIP(p) ==
  /\ Reads(p, "removePublicIP")
  /\ LET c == proc[p].cmd
         r == roles[c.vm]
     IN  IF \A i \in r.ips : i.name # c.name THEN Ends(p, "error")
         ELSE Sends(p, c, r, [r EXCEPT !.ips = {i \in @ : i.name # c.name}], "confirm")

AddNic(p) ==
  /\ Reads(p, "addNic")
  /\ LET c == proc[p].cmd
         r == roles[c.vm]
     IN  IF c.name \in r.nics THEN Ends(p, "error")
         ELSE Sends(p, c, r, [r EXCEPT !.nics = @ \cup {c.name}], "write")

(* setVM(), setExtension() and setChefExtension() edit the role of   *)
(* the list they started with.                                               *)
Starts(p, c, edited) ==
  /\ Idle(p) /\ proc[p].runs < MaxRuns
  /\ proc' = [proc EXCEPT ![p] =
       [step |-> "write", runs |-> @.runs + 1, cmd |-> c, base |-> roles[c.vm],
        copy |-> DebugSettings(edited, c)]]
  /\ UNCHANGED roles

SetVM(p, c) == c.op = "setVM" /\ Starts(p, c, roles[c.vm])

WithExtension(r, c, version) ==
  [r EXCEPT !.exts = {x \in @ : x.name # c.name} \cup
                     {[name |-> c.name, state |-> c.state, version |-> version]}]

SetExtension(p, c) ==
  /\ c.op = "setExtension"
  /\ Starts(p, c, WithExtension(roles[c.vm], c, c.version))

(* Without a version the newest one is asked for, and the answer is not      *)
(* waited for: the extension may be written before it has come.              *)
SetChefExtension(p, c) ==
  /\ c.op = "setChefExtension"
  /\ \E version \in IF "version" \in DOMAIN c THEN {c.version} ELSE {"newest", "undefined"} :
       Starts(p, c, WithExtension(roles[c.vm], c, version))
-----------------------------------------------------------------------------
(* The answer to "Remove the ACL Rule ... ?" or "Remove the PublicIP ... ?". *)
Confirm(p) ==
  /\ proc[p].step = "confirm"
  /\ proc' = [proc EXCEPT ![p].step = "write"]
  /\ UNCHANGED roles

Decline(p) == proc[p].step = "confirm" /\ Ends(p, "ok")

(* The members of the set of an endpoint get its rules.                      *)
WithRules(r, e) ==
  [r EXCEPT !.eps = {IF x.set = e.set THEN [x EXCEPT !.acl = e.acl] ELSE x : x \in @}]

(* virtualMachines.update(): the role replaces what the service has.  For an *)
(* endpoint in a load-balanced set updateLoadBalancedEndpointSet() is called *)
(* instead.  A new rule is sent with a list of the set's endpoints, which    *)
(* lies in the network configuration: the service may find it there and give *)
(* the rules to all members, or not.  When a rule is deleted or updated      *)
(* there is no such list, and nothing changes.                               *)
Stored(p) ==
  LET c  == proc[p].cmd
      in == {e \in proc[p].copy.eps : c.op \in AclOps /\ e.name = c.name /\ e.set # NoSet}
  IN  IF in = {} THEN {[roles EXCEPT ![c.vm] = proc[p].copy]}
      ELSE {roles} \cup {[v \in VMs |-> WithRules(roles[v], e)] :
                           e \in {x \in in : c.op = "createAcl"}}

(* The request is carried out, though the answer may be lost.                *)
Write(p) ==
  /\ proc[p].step = "write"
  /\ roles' \in Stored(p)
  /\ \E result \in {"ok", "error"} :
       proc' = [proc EXCEPT ![p] = [step |-> "idle", runs |-> @.runs, result |-> result]]

(* The request is not carried out.                                           *)
WriteFails(p) == proc[p].step \in {"write", "disk"} /\ Ends(p, "error")

(* Mutant: a disk without a number is not counted.                           *)
NextLunNoZero(disks) == IF disks \ {0} = {} THEN 0 ELSE Max(disks) + 1

(* diskAttachDetach(): the next LUN follows the highest one of the list, in  *)
(* which a missing number (the SDK's zero) is 0.                             *)
NextLun(disks) == IF disks = {} THEN 0 ELSE Max(disks) + 1

(* A command on a disk, with the LUN it asks for.  The VM is looked up by its*)
(* exact name, and if it is not found the command ends well.                 *)
Disk(p, c, lun) ==
  /\ Idle(p) /\ proc[p].runs < MaxRuns
  /\ proc' = [proc EXCEPT ![p] =
       IF Capitals(c) THEN [step |-> "idle", runs |-> @.runs + 1, result |-> "ok"]
       ELSE [step |-> "disk", runs |-> @.runs + 1, cmd |-> c, base |-> roles[c.vm], lun |-> lun]]
  /\ UNCHANGED roles

AttachDisk(p, c) == c.op = "attach" /\ Disk(p, c, NextLun(roles[c.vm].disks))

DetachDisk(p, c) == c.op = "detach" /\ Disk(p, c, c.lun)

(* The host caching of a disk is set, if the list has the disk.              *)
UpdateDataDisk(p, c) ==
  /\ c.op = "updateDisk"
  /\ IF Capitals(c) \/ c.lun \in roles[c.vm].disks THEN Disk(p, c, c.lun)
     ELSE /\ Idle(p) /\ proc[p].runs < MaxRuns
          /\ proc' = [proc EXCEPT ![p] =
               [step |-> "idle", runs |-> @.runs + 1, result |-> "error"]]
          /\ UNCHANGED roles

(* createDataDisk(), deleteDataDisk() or updateDataDisk() is refused or      *)
(* carried out by the service, though the answer may be lost.                *)
DiskAnswered(p) ==
  /\ proc[p].step = "disk"
  /\ LET vm      == proc[p].cmd.vm
         lun     == proc[p].lun
         op      == proc[p].cmd.op
         refused == (op = "attach") <=> lun \in roles[vm].disks
     IN  /\ roles' = [roles EXCEPT ![vm].disks =
                        IF refused \/ op = "updateDisk" THEN @
                        ELSE IF op = "attach" THEN @ \cup {lun} ELSE @ \ {lun}]
         /\ \E result \in IF refused THEN {"refused"} ELSE {"ok", "error"} :
              proc' = [proc EXCEPT ![p] = [step |-> "idle", runs |-> @.runs, result |-> result]]

Next ==
  \E p \in Procs :
    \/ \E c \in Commands : \/ List(p, c) \/ SetVM(p, c)
                           \/ SetExtension(p, c) \/ SetChefExtension(p, c)
                           \/ AttachDisk(p, c) \/ DetachDisk(p, c) \/ UpdateDataDisk(p, c)
    \/ ReadFails(p) \/ CreateEP(p) \/ CreateMultipleEP(p) \/ DeleteEP(p) \/ SetEP(p)
    \/ CreateEPAclRule(p) \/ DeleteEPAclRule(p) \/ UpdateEPAclRule(p)
    \/ SetStaticIP(p) \/ RemoveStaticIP(p) \/ SetPublicIP(p) \/ RemovePublicIP(p)
    \/ AddNic(p) \/ Confirm(p) \/ Decline(p) \/ Write(p) \/ WriteFails(p)
    \/ DiskAnswered(p)

Spec == Init /\ [][Next]_vars
-----------------------------------------------------------------------------
(* What a role is made of.                                                   *)
IsRole(r) ==
  /\ DOMAIN r = DOMAIN EmptyRole
  /\ IsFiniteSet(r.eps)
  /\ \A e \in r.eps : DOMAIN e = EndpointFields /\ IsFiniteSet(e.acl)
  /\ r.static \in BOOLEAN
  /\ r.disks \subseteq Nat /\ IsFiniteSet(r.disks)

(* The type invariant.                                                       *)
TypeOK ==
  /\ DOMAIN roles = VMs
  /\ \A v \in VMs : IsRole(roles[v])
  /\ \A p \in Procs :
       /\ proc[p].step \in {"idle", "read", "confirm", "write", "disk"}
       /\ proc[p].runs \in 0 .. MaxRuns
       /\ Idle(p) => proc[p].result \in {"none", "ok", "error", "refused"}
       /\ ~Idle(p) => proc[p].cmd.vm \in VMs

IsValid(r) ==
  /\ Cardinality(Names(r.eps)) = Cardinality(r.eps)
  /\ Cardinality(Ports(r.eps)) = Cardinality(r.eps)
  /\ \A e \in r.eps : Cardinality(Orders(e.acl)) = Cardinality(e.acl)
  /\ Unique(r.ips) /\ Unique(r.exts)

(* What the service has at first is valid, and so are the arguments: every   *)
(* endpoint is made by verifyAndGetEndPointObj(), without rules, and only    *)
(* "vm set" has an option for the boot diagnostics.                          *)
ASSUME MaxRunsAssumption == MaxRuns \in Nat
ASSUME InitialRolesAssumption ==
  \A rs \in InitialRoles :
    /\ rs = [v \in VMs |-> rs[v]]
    /\ \A v \in VMs : IsRole(rs[v]) /\ IsValid(rs[v])
ASSUME CommandsAssumption ==
  \A c \in Commands :
    /\ {"op", "vm"} \subseteq DOMAIN c /\ c.vm \in VMs
    /\ Creates(c) =>
         /\ "eps" \in DOMAIN c /\ IsFiniteSet(c.eps)
         /\ \A e \in c.eps : e = Endpoint(e.name, e.port, e.set, e.probe, e.dsr, e.idle)
    /\ c.op = "setEP" => "name" \in DOMAIN c /\ ("dsr" \in DOMAIN c => c.dsr # "undefined")
    /\ c.op = "setExtension" => "version" \in DOMAIN c
    /\ "debug" \in DOMAIN c => c.op = "setVM" /\ c.debug # "none"

(* The service never holds a role the commands are meant to refuse: names    *)
(* and ports of the endpoints are unique, and so are the orders of the rules *)
(* of each, the public IPs and the extensions; although every check is made  *)
(* on a copy that other processes may have replaced since.                   *)
RoleStaysValid == \A v \in VMs : IsValid(roles[v])

(* What a role consists of.                                                  *)
Things(r) ==
  {<<"endpoint", e.name>> : e \in r.eps} \cup {<<"ip", i.name>> : i \in r.ips}
  \cup (UNION {{<<"rule", e.name, o>> : o \in Orders(e.acl)} : e \in r.eps})
  \cup {<<"nic", n>> : n \in r.nics} \cup {<<"extension", x.name>> : x \in r.exts}
  \cup {<<"disk", l>> : l \in r.disks} \cup {<<"static">> : b \in {r.static} \ {FALSE}}

Parts(r) == Things(r) \cup {<<"diagnostics">> : d \in {r.debug} \ {"none"}}

(* What a command is asked to take away from the role it has read.           *)
Removes(c, base) ==
  CASE c.op = "deleteEP" \/ (c.op = "setEP" /\ "newName" \in DOMAIN c) ->
         {x \in Things(base) : x[1] \in {"endpoint", "rule"} /\ x[2] = c.name}
    [] c.op = "removePublicIP" -> {<<"ip", c.name>>}
    [] c.op = "removeStaticIP" -> {<<"static">>}
    [] c.op \in {"deleteAcl", "updateAcl"} -> {<<"rule", c.name, c.order>>}
    [] OTHER -> {}

(* What it takes away: the boot diagnostics too, unless it sets them.        *)
TakesAway(c, base) ==
  Removes(c, base) \cup (IF "debug" \in DOMAIN c THEN {} ELSE {<<"diagnostics">>})

SetsOf(r, name) == {e.set : e \in {x \in r.eps : x.name = name}}

(* The endpoint of a command on rules is in a load-balanced set.             *)
InSet(c, base) == c.op \in AclOps /\ SetsOf(base, c.name) # {NoSet}

(* A process takes something away from the VM only when its command says so, *)
(* or when the thing was not there yet when it read the role: an update is   *)
(* lost to an overlapping command, and to no other.  Two things are lost     *)
(* otherwise: the boot diagnostics, to every command that does not set them, *)
(* and rules of the members of a set, which are replaced together.           *)
LostOnlyByOverlap ==
  [][\A p \in Procs :
       proc[p].step = "write" /\ proc'[p].step = "idle" =>
         LET c == proc[p].cmd
             lost == Parts(roles[c.vm]) \ Parts(roles'[c.vm])
             others == {x \in lost : x[1] = "rule" /\ c.op = "createAcl" /\ InSet(c, proc[p].base)}
         IN  lost \ others \subseteq
               (Parts(roles[c.vm]) \ Parts(proc[p].base)) \cup TakesAway(c, proc[p].base)]_vars
-----------------------------------------------------------------------------
Unless(done, what) == IF done THEN {} ELSE {what}

(* The fields of an endpoint that is asked for that no endpoint of its name  *)
(* has, or whose value was lost before the role was written.                 *)
LacksEP(r, e) ==
  {f \in DOMAIN e : \/ f = "dsr" /\ e.dsr = "undefined"
                   \/ \A x \in r.eps : x.name = e.name => x[f] # e[f]}

(* What setEP() is given of an endpoint.                                     *)
AskedOf(c) ==
  [f \in DOMAIN c \cap (EndpointFields \ {"acl"}) |->
     IF f = "name" /\ "newName" \in DOMAIN c THEN c.newName ELSE c[f]]

(* What a role lacks of what a command was asked for: the endpoints with all *)
(* their fields, as the set they join completes them, the address with its   *)
(* time-out if there is one, the extension in its version, ...               *)
Lacks(c, r) ==
  CASE Creates(c)      -> UNION {LacksEP(r, e) : e \in c.eps}
    [] c.op = "setEP"  -> LacksEP(r, AskedOf(c))
    [] c.op = "deleteEP" -> Unless(c.name \notin Names(r.eps), "endpoint gone")
    [] c.op = "createAcl" ->
         Unless([order |-> c.order, action |-> c.action] \in AclOf(r, c.name), "rule")
    [] c.op = "updateAcl" ->
         Unless([order |-> c.newOrder, action |-> c.action] \in AclOf(r, c.name), "rule")
    [] c.op = "deleteAcl" -> Unless(c.order \notin Orders(AclOf(r, c.name)), "rule")
    [] c.op = "setStaticIP" -> Unless(r.static, "static")
    [] c.op = "removeStaticIP" -> Unless(~r.static, "static gone")
    [] c.op = "setPublicIP" ->
         Unless(\E i \in r.ips : i.name = c.name /\ c.timeout \in {0, i.timeout}, "ip")
    [] c.op = "removePublicIP" -> Unless(\A i \in r.ips : i.name # c.name, "ip gone")
    [] c.op = "addNic" -> Unless(c.name \in r.nics, "nic")
    [] c.op \in {"setExtension", "setChefExtension"} ->
         LET x == {y \in r.exts : y.name = c.name}
             version == IF "version" \in DOMAIN c THEN c.version ELSE "newest"
         IN  Unless(\E y \in x : y.state = c.state, "state")
             \cup Unless(\E y \in x : y.version = version, "version")
    [] c.op = "setVM" /\ "debug" \in DOMAIN c -> Unless(r.debug = c.debug, "debug")
    [] OTHER -> {}

(* What the VM lacks when process p is answered, of its command or its disk. *)
Missing(p, r) ==
  LET q == proc[p]
  IN  IF q.step # "disk" THEN Lacks(q.cmd, r)
      ELSE CASE q.cmd.op = "attach" -> Unless(q.lun \in r.disks, "disk")
             [] q.cmd.op = "detach" -> Unless(q.lun \notin r.disks, "disk gone")
             [] OTHER -> {}

EndsWell(p) ==
  /\ proc[p].step \in {"read", "write", "disk"}
  /\ Idle(p)' /\ proc'[p].result = "ok"

(* What a command may lose by itself.                                        *)
Forgets(c, base) ==
  CASE Creates(c) /\ (\E e \in c.eps : e.dsr = "undefined") -> {"dsr"}
    [] c.op = "setEP" /\ "idle" \in DOMAIN c -> {"idle"}
    [] c.op = "setChefExtension" /\ "version" \notin DOMAIN c -> {"version"}
    [] c.op = "updateAcl" /\ c.newOrder = 0 -> {"rule"}
    [] InSet(c, base) -> {"rule"}
    [] OTHER -> {}

(* A command that ends well leaves the VM with all it was asked for, also    *)
(* when it finds nothing to do, and whatever was written since it read; but  *)
(* for what commands lose by themselves: the direct server return of an      *)
(* endpoint that joins a set, the idle time-out that is set, the version     *)
(* that was looked up, a new order of 0, and rules of an endpoint in a set.  *)
SuccessMeansAchieved ==
  [][\A p \in Procs : EndsWell(p) =>
       Missing(p, roles'[proc[p].cmd.vm]) \subseteq Forgets(proc[p].cmd, proc[p].base)]_vars

(* The LUN of a new disk is refused only if the disks of the VM changed      *)
(* after the process had read them.                                          *)
AttachFindsFreeLun ==
  [][\A p \in Procs :
       /\ proc[p].step = "disk" /\ proc[p].cmd.op = "attach"
       /\ Idle(p)' /\ proc'[p].result = "refused"
       => roles[proc[p].cmd.vm].disks # proc[p].base.disks]_vars
=============================================================================
