------------------------- MODULE RoleUpdate_proofs --------------------------
(* What TLAPS proves about RoleUpdate, for every set of processes, VMs and   *)
(* commands, and everything the service may hold at first.                   *)
EXTENDS RoleUpdate, FiniteSetTheorems, TLAPS

(* A new order of 0 counts as none: a command that asks for it does not get  *)
(* it.                                                                       *)
AsksForNone(c) == c.op = "updateAcl" /\ c.newOrder = 0

(* No two endpoints of a set have a name or a port in common.                *)
Apart(eps) == \A e, f \in eps : e.name = f.name \/ e.port = f.port => e = f

RulesApart(acl) == \A x, y \in acl : x.order = y.order => x = y

(* A role as the service may have it.                                        *)
Sound(r) ==
  /\ IsRole(r)
  /\ Apart(r.eps)
  /\ \A e \in r.eps : RulesApart(e.acl)
  /\ Unique(r.ips) /\ Unique(r.exts)

(* The endpoints of a command, before and after the probes of the sets they  *)
(* join have been taken over.                                                *)
NewEndpoints(eps) ==
  /\ IsFiniteSet(eps) /\ Apart(eps)
  /\ \A e \in eps : DOMAIN e = EndpointFields /\ e.acl = {}

(* A command is as it was given, but for the probes of its endpoints.        *)
Given(c) == (Creates(c) /\ "debug" \notin DOMAIN c) \/ c \in Commands

(* A command whose endpoints have been settled.                              *)
Settled(c) == Given(c) /\ c.vm \in VMs /\ (Creates(c) => NewEndpoints(c.eps))

(* What an edited copy has to do with the role it was made from, but for the *)
(* debug settings, which are edited at the end.                              *)
Edits(c, base, copy) ==
  /\ Sound(copy)
  /\ Things(base) \ Things(copy) \subseteq Removes(c, base)
  /\ c.op = "setVM" \/ Lacks(c, copy) \subseteq Forgets(c, base)
  /\ c.op \in AclOps => SetsOf(copy, c.name) = SetsOf(base, c.name)

IdleOk(q) == q.result \in {"none", "ok", "error", "refused"}

WriteOk(q) ==
  /\ DOMAIN q = {"step", "runs", "cmd", "base", "copy"}
  /\ Given(q.cmd) /\ q.cmd.vm \in VMs
  /\ Edits(q.cmd, q.base, q.copy)
  /\ q.copy.debug = IF "debug" \in DOMAIN q.cmd THEN q.cmd.debug ELSE "none"

DiskOk(q) ==
  /\ q.cmd.vm \in VMs
  /\ q.cmd.op \in {"attach", "detach", "updateDisk"}
  /\ q.lun \in Nat \/ q.cmd.op # "attach"
  /\ q.cmd.op = "attach" => q.lun \notin q.base.disks

ProcOk(q) ==
  /\ q.runs \in 0 .. MaxRuns
  /\ \/ q.step = "idle" /\ IdleOk(q)
     \/ q.step = "read" /\ Settled(q.cmd)
     \/ q.step \in {"confirm", "write"} /\ WriteOk(q)
     \/ q.step = "disk" /\ DiskOk(q)

(* The inductive invariant.                                                  *)
RolesOk == DOMAIN roles = VMs /\ \A v \in VMs : Sound(roles[v])

ProcsOk == DOMAIN proc = Procs /\ \A p \in Procs : ProcOk(proc[p])

IInv == RolesOk /\ ProcsOk
-----------------------------------------------------------------------------
(* A set is as large as the set of its elements' names, ports or orders just *)
(* when no two elements have the same.                                       *)
LEMMA NamesCount ==
  ASSUME NEW S, IsFiniteSet(S)
  PROVE  /\ Cardinality(Names(S)) = Cardinality(S) <=> \A e, f \in S : e.name = f.name => e = f
         /\ IsFiniteSet(Names(S))
<1> DEFINE g == [e \in S |-> e.name]
<1>1. g \in Surjection(S, Names(S))
  BY DEF Surjection, Names
<1>2. g \in Injection(S, Names(S)) <=> \A e, f \in S : e.name = f.name => e = f
  BY <1>1 DEF Injection, IsInjective, Surjection
<1> HIDE DEF g
<1> QED
  BY <1>1, <1>2, FS_Surjection

LEMMA PortsCount ==
  ASSUME NEW S, IsFiniteSet(S)
  PROVE  Cardinality(Ports(S)) = Cardinality(S) <=> \A e, f \in S : e.port = f.port => e = f
<1> DEFINE g == [e \in S |-> e.port]
<1>1. g \in Surjection(S, Ports(S))
  BY DEF Surjection, Ports
<1>2. g \in Injection(S, Ports(S)) <=> \A e, f \in S : e.port = f.port => e = f
  BY <1>1 DEF Injection, IsInjective, Surjection
<1> HIDE DEF g
<1> QED
  BY <1>1, <1>2, FS_Surjection

LEMMA OrdersCount ==
  ASSUME NEW S, IsFiniteSet(S)
  PROVE  Cardinality(Orders(S)) = Cardinality(S) <=> RulesApart(S)
<1> DEFINE g == [e \in S |-> e.order]
<1>1. g \in Surjection(S, Orders(S))
  BY DEF Surjection, Orders
<1>2. g \in Injection(S, Orders(S)) <=> RulesApart(S)
  BY <1>1 DEF Injection, IsInjective, Surjection, RulesApart
<1> HIDE DEF g
<1> QED
  BY <1>1, <1>2, FS_Surjection

(* The two ways to say that a role is valid.                                 *)
LEMMA SoundIsValid ==
  ASSUME NEW r
  PROVE  Sound(r) <=> IsRole(r) /\ IsValid(r)
<1>1. ASSUME IsRole(r)
      PROVE  /\ Apart(r.eps) <=> /\ Cardinality(Names(r.eps)) = Cardinality(r.eps)
                                 /\ Cardinality(Ports(r.eps)) = Cardinality(r.eps)
             /\ \A e \in r.eps : RulesApart(e.acl) <=> Cardinality(Orders(e.acl)) = Cardinality(e.acl)
  <2>1. IsFiniteSet(r.eps) /\ \A e \in r.eps : IsFiniteSet(e.acl)
    BY <1>1 DEF IsRole
  <2>2. Apart(r.eps) <=> /\ \A e, f \in r.eps : e.name = f.name => e = f
                         /\ \A e, f \in r.eps : e.port = f.port => e = f
    BY DEF Apart
  <2> QED
    BY <2>1, <2>2, NamesCount, PortsCount, OrdersCount
<1> QED
  BY <1>1 DEF Sound, IsValid

(* A set of numbers that is finite has a greatest element.                   *)
LEMMA FiniteHasMax ==
  ASSUME NEW S \in SUBSET Nat, IsFiniteSet(S), S # {}
  PROVE  Max(S) \in S /\ \A y \in S : Max(S) >= y
<1> DEFINE Above(x) == {y \in S : y > x}
           T == {Above(x) : x \in S}
<1>1. T \subseteq FiniteSubsetsOf(S) /\ T # {}
  <2>1. \A x : Above(x) \subseteq S
    OBVIOUS
  <2> HIDE DEF Above
  <2>2. \A x : IsFiniteSet(Above(x))
    BY <2>1, FS_Subset
  <2> QED
    BY <2>1, <2>2 DEF FiniteSubsetsOf
<1>2. PICK U \in T : \A W \in T : <<W, U>> \notin StrictSubsetOrdering(S)
  <2> HIDE DEF T
  <2> QED
    BY <1>1, FS_StrictSubsetOrderingWellFounded, WFMin
<1>3. PICK x \in S : U = Above(x)
  BY <1>2
<1>4. ASSUME NEW y \in S, y > x
      PROVE  FALSE
  <2>1. y \in Above(x) /\ y \notin Above(y) /\ Above(y) \subseteq Above(x)
    <3>1. S \subseteq Nat /\ x \in Nat /\ y \in Nat
      BY <1>3
    <3>2. \A z \in S : z > y => z > x
      BY <1>4, <3>1
    <3>3. ~ (y > y)
      BY <3>1
    <3> QED
      BY <1>4, <3>2, <3>3
  <2>2. <<Above(y), U>> \in StrictSubsetOrdering(S)
    BY <2>1, <1>3 DEF StrictSubsetOrdering
  <2> QED
    BY <2>2, <1>2
<1>5. x \in S /\ \A y \in S : x >= y
  BY <1>4
<1> QED
  BY <1>5 DEF Max

(* diskAttachDetach() asks for a LUN that the list does not have.            *)
LEMMA NextLunIsFree ==
  ASSUME NEW S \in SUBSET Nat, IsFiniteSet(S)
  PROVE  NextLun(S) \in Nat /\ NextLun(S) \notin S
<1>1. CASE S = {}
  BY <1>1 DEF NextLun
<1>2. CASE S # {}
  <2>1. Max(S) \in S /\ \A y \in S : Max(S) >= y
    BY <1>2, FiniteHasMax
  <2> DEFINE m == Max(S)
  <2>2. m \in Nat /\ NextLun(S) = m + 1
    BY <1>2, <2>1 DEF NextLun
  <2> HIDE DEF m
  <2>3. \A y \in S : m >= y
    BY <2>1 DEF m
  <2> QED
    BY <2>2, <2>3
<1> QED
  BY <1>1, <1>2
-----------------------------------------------------------------------------
(* s has everything that r has but its endpoints and the debug settings.     *)
SameButEps(r, s) ==
  /\ DOMAIN s = DOMAIN r
  /\ s.ips = r.ips /\ s.static = r.static /\ s.nics = r.nics
  /\ s.exts = r.exts /\ s.disks = r.disks

SameRole(r, s) == SameButEps(r, s) /\ s.eps = r.eps

(* What is lost of the endpoints old and their rules is in T.                *)
KeepsEps(old, new, T) ==
  \A e \in old :
    /\ <<"endpoint", e.name>> \in T \/ e.name \in Names(new)
    /\ \A o \in Orders(e.acl) :
         \/ <<"rule", e.name, o>> \in T
         \/ \E f \in new : f.name = e.name /\ o \in Orders(f.acl)

KeepsNamed(kind, old, new, T) ==
  \A i \in old : <<kind, i.name>> \in T \/ i.name \in Names(new)

(* What a role consists of, kind by kind.                                    *)
LEMMA ThingsAre ==
  ASSUME NEW r, r.static \in BOOLEAN, NEW x
  PROVE  x \in Things(r) <=>
           \/ \E e \in r.eps : x = <<"endpoint", e.name>>
           \/ \E e \in r.eps : \E o \in Orders(e.acl) : x = <<"rule", e.name, o>>
           \/ \E i \in r.ips : x = <<"ip", i.name>>
           \/ \E n \in r.nics : x = <<"nic", n>>
           \/ \E i \in r.exts : x = <<"extension", i.name>>
           \/ \E l \in r.disks : x = <<"disk", l>>
           \/ r.static /\ x = <<"static">>
<1>1. {<<"static">> : b \in {r.static} \ {FALSE}} = IF r.static THEN {<<"static">>} ELSE {}
  OBVIOUS
<1>2. (\E e \in r.eps : \E o \in Orders(e.acl) : x = <<"rule", e.name, o>>) <=>
      x \in UNION {{<<"rule", e.name, o>> : o \in Orders(e.acl)} : e \in r.eps}
  OBVIOUS
<1> QED
  BY <1>1, <1>2 DEF Things

LEMMA ThingsLost ==
  ASSUME NEW r, NEW s, NEW T,
         r.static \in BOOLEAN, s.static \in BOOLEAN,
         KeepsEps(r.eps, s.eps, T),
         KeepsNamed("ip", r.ips, s.ips, T), KeepsNamed("extension", r.exts, s.exts, T),
         r.nics \subseteq s.nics, r.disks \subseteq s.disks,
         r.static => s.static \/ <<"static">> \in T
  PROVE  Things(r) \ Things(s) \subseteq T
<1> SUFFICES ASSUME NEW x \in Things(r), x \notin T
             PROVE  x \in Things(s)
  OBVIOUS
<1>1. CASE \E e \in r.eps : x = <<"endpoint", e.name>>
  BY <1>1, ThingsAre DEF KeepsEps, Names
<1>2. CASE \E e \in r.eps : \E o \in Orders(e.acl) : x = <<"rule", e.name, o>>
  <2>1. PICK e \in r.eps : \E o \in Orders(e.acl) : x = <<"rule", e.name, o>>
    BY <1>2
  <2>2. PICK o \in Orders(e.acl) : x = <<"rule", e.name, o>>
    BY <2>1
  <2>3. PICK f \in s.eps : f.name = e.name /\ o \in Orders(f.acl)
    BY <2>2 DEF KeepsEps
  <2> QED
    BY <2>2, <2>3, ThingsAre
<1>3. CASE \E i \in r.ips : x = <<"ip", i.name>>
  BY <1>3, ThingsAre DEF KeepsNamed, Names
<1>4. CASE \E n \in r.nics : x = <<"nic", n>>
  BY <1>4, ThingsAre
<1>5. CASE \E i \in r.exts : x = <<"extension", i.name>>
  BY <1>5, ThingsAre DEF KeepsNamed, Names
<1>6. CASE \E l \in r.disks : x = <<"disk", l>>
  BY <1>6, ThingsAre
<1>7. CASE r.static /\ x = <<"static">>
  BY <1>7, ThingsAre
<1> QED
  BY <1>1, <1>2, <1>3, <1>4, <1>5, <1>6, <1>7, ThingsAre

LEMMA KeepsItself ==
  ASSUME NEW S, NEW T
  PROVE  KeepsEps(S, S, T) /\ KeepsNamed("ip", S, S, T) /\ KeepsNamed("extension", S, S, T)
BY DEF KeepsEps, KeepsNamed, Names

LEMMA RoleFields == DOMAIN EmptyRole = {"eps", "ips", "static", "nics", "exts", "disks", "debug"}
BY DEF EmptyRole

(* The debug settings are no part of what the other commands are about.      *)
LEMMA SameRoleEdits ==
  ASSUME NEW c, NEW base, NEW r, NEW s, SameRole(r, s), Edits(c, base, r)
  PROVE  Edits(c, base, s)
<1>1. Sound(s)
  BY DEF Edits, Sound, IsRole, SameRole, SameButEps
<1>2. Things(s) = Things(r)
  BY DEF Things, SameRole, SameButEps
<1>3. SetsOf(s, c.name) = SetsOf(r, c.name) /\ AclOf(s, c.name) = AclOf(r, c.name)
  BY DEF SetsOf, AclOf, SameRole, SameButEps
<1>4. c.op # "setVM" => Lacks(c, s) = Lacks(c, r)
  BY <1>3 DEF Lacks, LacksEP, SameRole, SameButEps
<1> QED
  BY <1>1, <1>2, <1>3, <1>4 DEF Edits

LEMMA DebugEdits ==
  ASSUME NEW c, NEW base, NEW r, Edits(c, base, r)
  PROVE  /\ Edits(c, base, DebugSettings(r, c))
         /\ DebugSettings(r, c).debug = IF "debug" \in DOMAIN c THEN c.debug ELSE "none"
<1>1. DOMAIN r = {"eps", "ips", "static", "nics", "exts", "disks", "debug"}
  BY RoleFields DEF Edits, Sound, IsRole
<1>2. /\ SameRole(r, DebugSettings(r, c))
      /\ DebugSettings(r, c).debug = IF "debug" \in DOMAIN c THEN c.debug ELSE "none"
  BY <1>1 DEF DebugSettings, SameRole, SameButEps
<1> QED
  BY <1>2, SameRoleEdits
-----------------------------------------------------------------------------
(* Endpoints as a role may have them.                                        *)
GoodEps(eps) ==
  /\ IsFiniteSet(eps) /\ Apart(eps)
  /\ \A e \in eps : DOMAIN e = EndpointFields /\ IsFiniteSet(e.acl) /\ RulesApart(e.acl)

LEMMA SoundHasGoodEps ==
  ASSUME NEW r, Sound(r)
  PROVE  GoodEps(r.eps)
BY DEF Sound, IsRole, GoodEps

(* A role whose endpoints are edited.                                        *)
LEMMA EditedEps ==
  ASSUME NEW r, Sound(r), NEW eps, GoodEps(eps), NEW T, KeepsEps(r.eps, eps, T)
  PROVE  LET s == [r EXCEPT !.eps = eps]
         IN  Sound(s) /\ Things(r) \ Things(s) \subseteq T /\ s.eps = eps
<1> DEFINE s == [r EXCEPT !.eps = eps]
<1>1. s.eps = eps /\ SameButEps(r, s)
  BY RoleFields DEF Sound, IsRole, SameButEps
<1> HIDE DEF s
<1>2. Sound(s)
  BY <1>1 DEF Sound, IsRole, SameButEps, GoodEps
<1>3. Things(r) \ Things(s) \subseteq T
  <2>1. r.static \in BOOLEAN /\ s.static \in BOOLEAN
    BY <1>2 DEF Sound, IsRole
  <2>2. KeepsEps(r.eps, s.eps, T)
    BY <1>1
  <2>3. KeepsNamed("ip", r.ips, s.ips, T) /\ KeepsNamed("extension", r.exts, s.exts, T)
    BY <1>1, KeepsItself DEF SameButEps
  <2>4. r.nics \subseteq s.nics /\ r.disks \subseteq s.disks /\ r.static = s.static
    BY <1>1 DEF SameButEps
  <2> QED
    BY <2>1, <2>2, <2>3, <2>4, ThingsLost
<1> QED
  BY <1>1, <1>2, <1>3 DEF s

LEMMA OpsApart ==
  ASSUME NEW c
  PROVE  /\ Creates(c) => c.op \in {"createEP", "createMultipleEP"}
         /\ c.op \in AclOps => c.op \in {"createAcl", "deleteAcl", "updateAcl"}
BY DEF Creates, AclOps

(* createEP() and createMultipleEP(): the new endpoints do not clash.        *)
LEMMA AddingEdits ==
  ASSUME NEW r, Sound(r), NEW c, Creates(c), NewEndpoints(c.eps), ~Clash(r.eps, c.eps)
  PROVE  Edits(c, r, [r EXCEPT !.eps = r.eps \cup c.eps])
<1> DEFINE eps == r.eps \cup c.eps
<1>1. GoodEps(eps)
  <2>1. Apart(eps)
    BY DEF Apart, NewEndpoints, Sound, Clash, Names, Ports
  <2>2. IsFiniteSet(eps)
    BY FS_Union DEF Sound, IsRole, NewEndpoints
  <2>3. \A e \in c.eps : IsFiniteSet(e.acl) /\ RulesApart(e.acl)
    BY FS_EmptySet DEF NewEndpoints, RulesApart
  <2> QED
    BY <2>1, <2>2, <2>3, SoundHasGoodEps DEF GoodEps, NewEndpoints
<1>2. KeepsEps(r.eps, eps, Removes(c, r))
  BY DEF KeepsEps, Names
<1>3. c.eps \subseteq eps
  OBVIOUS
<1> HIDE DEF eps
<1> DEFINE s == [r EXCEPT !.eps = eps]
<1>4. Sound(s) /\ Things(r) \ Things(s) \subseteq Removes(c, r) /\ s.eps = eps
  BY <1>1, <1>2, EditedEps
<1>5. Lacks(c, s) \subseteq Forgets(c, r)
  <2>1. ASSUME NEW e \in c.eps, NEW f \in LacksEP(s, e)
        PROVE  f = "dsr" /\ e.dsr = "undefined"
    BY <1>3, <1>4, <2>1 DEF LacksEP
  <2>2. Lacks(c, s) = UNION {LacksEP(s, e) : e \in c.eps}
    BY DEF Lacks, Creates
  <2>3. (\E e \in c.eps : e.dsr = "undefined") => "dsr" \in Forgets(c, r)
    BY DEF Forgets, InSet, Creates, AclOps
  <2> QED
    BY <2>1, <2>2, <2>3
<1>6. c.op \notin AclOps
  BY OpsApart DEF AclOps, Creates
<1>7. Edits(c, r, s)
  BY <1>4, <1>5, <1>6 DEF Edits
<1> QED
  BY <1>7 DEF eps

LEMMA SubsetIsGood ==
  ASSUME NEW eps, GoodEps(eps), NEW S \in SUBSET eps
  PROVE  GoodEps(S)
BY FS_Subset DEF GoodEps, Apart

LEMMA DeletingEdits ==
  ASSUME NEW r, Sound(r), NEW c, c.op = "deleteEP"
  PROVE  Edits(c, r, [r EXCEPT !.eps = {e \in r.eps : e.name # c.name}])
<1> DEFINE eps == {e \in r.eps : e.name # c.name}
           T == Removes(c, r)
<1>1. GoodEps(eps)
  BY SoundHasGoodEps, SubsetIsGood
<1>2. \A x : x \in T <=> x \in Things(r) /\ x[1] \in {"endpoint", "rule"} /\ x[2] = c.name
  BY DEF Removes
<1> HIDE DEF T
<1>3. KeepsEps(r.eps, eps, T)
  <2>1. r.static \in BOOLEAN
    BY DEF Sound, IsRole
  <2>2. ASSUME NEW e \in r.eps, e.name = c.name
        PROVE  <<"endpoint", e.name>> \in T /\ \A o \in Orders(e.acl) : <<"rule", e.name, o>> \in T
    BY <1>2, <2>1, <2>2, ThingsAre
  <2>3. ASSUME NEW e \in r.eps, e.name # c.name
        PROVE  e \in eps
    BY <2>3
  <2> HIDE DEF eps
  <2> QED
    BY <2>2, <2>3 DEF KeepsEps, Names
<1>4. c.name \notin Names(eps)
  BY DEF Names
<1> HIDE DEF eps
<1> DEFINE s == [r EXCEPT !.eps = eps]
<1>5. Sound(s) /\ Things(r) \ Things(s) \subseteq T /\ s.eps = eps
  BY <1>1, <1>3, EditedEps
<1>6. Lacks(c, s) = {}
  BY <1>4, <1>5 DEF Lacks, Unless, Creates
<1>7. c.op \notin AclOps
  BY DEF AclOps
<1>8. Edits(c, r, s)
  BY <1>5, <1>6, <1>7 DEF Edits, T
<1> QED
  BY <1>8 DEF eps
-----------------------------------------------------------------------------
(* setEndpointProperties(): the endpoint gets what is asked for but the idle *)
(* time-out.                                                                 *)
LEMMA WithPropertiesIs ==
  ASSUME NEW e, DOMAIN e = EndpointFields, NEW c
  PROVE  LET n == WithProperties(e, c)
         IN  /\ DOMAIN n = EndpointFields
             /\ n.acl = e.acl
             /\ "newName" \notin DOMAIN c => n.name = e.name
             /\ "name" \in DOMAIN c /\ c.name = e.name =>
                  /\ AskedOf(c).name = n.name
                  /\ \A f \in DOMAIN AskedOf(c) : f = "idle" \/ AskedOf(c)[f] = n[f]
<1> DEFINE n == WithProperties(e, c)
           value == [f \in EndpointFields |->
             CASE f = "name"  -> IF "newName" \in DOMAIN c THEN c.newName ELSE e.name
               [] f = "port"  -> IF "port" \in DOMAIN c THEN c.port ELSE e.port
               [] f = "set"   -> IF "set" \in DOMAIN c THEN c.set ELSE e.set
               [] f = "probe" -> IF "probe" \in DOMAIN c THEN c.probe ELSE e.probe
               [] f = "dsr"   -> IF "dsr" \in DOMAIN c THEN c.dsr ELSE e.dsr
               [] f = "idle"  -> IF "idle" \in DOMAIN c THEN "undefined" ELSE e.idle
               [] f = "acl"   -> e.acl]
<1>1. n = value
  BY DEF WithProperties, EndpointFields
<1>2. "name" \in DOMAIN c /\ c.name = e.name =>
        /\ AskedOf(c).name = value.name
        /\ \A f \in DOMAIN AskedOf(c) : f = "idle" \/ AskedOf(c)[f] = value[f]
  BY DEF AskedOf, EndpointFields
<1>3. /\ DOMAIN value = EndpointFields
      /\ value.acl = e.acl
      /\ "newName" \notin DOMAIN c => value.name = e.name
  BY DEF EndpointFields
<1> HIDE DEF n, value
<1>4. DOMAIN n = EndpointFields /\ n.acl = e.acl
  BY <1>1, <1>3
<1>5. "name" \in DOMAIN c /\ c.name = e.name =>
        /\ AskedOf(c).name = n.name
        /\ \A f \in DOMAIN AskedOf(c) : f = "idle" \/ AskedOf(c)[f] = n[f]
  BY <1>1, <1>2
<1> QED
  BY <1>1, <1>3, <1>4, <1>5 DEF n

(* One endpoint of a role is replaced by one that does not clash.            *)
LEMMA ReplacedIsGood ==
  ASSUME NEW eps, GoodEps(eps), NEW e \in eps, NEW n,
         DOMAIN n = EndpointFields, IsFiniteSet(n.acl), RulesApart(n.acl),
         \A f \in eps \ {e} : f.name # n.name /\ f.port # n.port
  PROVE  GoodEps((eps \ {e}) \cup {n})
<1> DEFINE new == (eps \ {e}) \cup {n}
<1>1. IsFiniteSet(new)
  BY FS_RemoveElement, FS_AddElement DEF GoodEps
<1>2. Apart(new)
  BY DEF GoodEps, Apart
<1> QED
  BY <1>1, <1>2 DEF GoodEps

LEMMA SettingEdits ==
  ASSUME NEW r, Sound(r), NEW c, c.op = "setEP",
         "name" \in DOMAIN c, "dsr" \in DOMAIN c => c.dsr # "undefined",
         NEW e \in r.eps, e.name = c.name,
         ~Clash(Others(r, e), {WithProperties(e, c)})
  PROVE  Edits(c, r, [r EXCEPT !.eps = Others(r, e) \cup {WithProperties(e, c)}])
<1> DEFINE n == WithProperties(e, c)
           eps == (r.eps \ {e}) \cup {n}
           T == Removes(c, r)
<1>1. DOMAIN e = EndpointFields /\ IsFiniteSet(e.acl) /\ RulesApart(e.acl)
  BY DEF Sound, IsRole
<1>2. /\ DOMAIN n = EndpointFields
      /\ n.acl = e.acl
      /\ "newName" \notin DOMAIN c => n.name = e.name
      /\ AskedOf(c).name = n.name
      /\ \A f \in DOMAIN AskedOf(c) : f = "idle" \/ AskedOf(c)[f] = n[f]
  BY <1>1, WithPropertiesIs
<1>3. \A f \in r.eps \ {e} : f.name # n.name /\ f.port # n.port
  BY DEF Clash, Others, Names, Ports
<1> HIDE DEF n
<1>4. GoodEps(eps)
  BY <1>1, <1>2, <1>3, SoundHasGoodEps, ReplacedIsGood
<1>5. "newName" \in DOMAIN c =>
        \A x : x \in T <=> x \in Things(r) /\ x[1] \in {"endpoint", "rule"} /\ x[2] = c.name
  BY DEF Removes
<1> HIDE DEF T
<1>6. KeepsEps(r.eps, eps, T)
  <2>1. ASSUME NEW f \in r.eps, f # e
        PROVE  f \in eps
    BY <2>1
  <2>2. n \in eps
    OBVIOUS
  <2>3. CASE "newName" \in DOMAIN c
    <3>1. r.static \in BOOLEAN
      BY DEF Sound, IsRole
    <3>2. <<"endpoint", e.name>> \in T /\ \A o \in Orders(e.acl) : <<"rule", e.name, o>> \in T
      BY <2>3, <1>5, <3>1, ThingsAre
    <3> HIDE DEF eps
    <3> QED
      BY <2>1, <3>2 DEF KeepsEps, Names
  <2>4. CASE "newName" \notin DOMAIN c
    <3>1. n.name = e.name /\ n.acl = e.acl
      BY <2>4, <1>2
    <3> HIDE DEF eps
    <3> QED
      BY <2>1, <2>2, <3>1 DEF KeepsEps, Names
  <2> QED
    BY <2>3, <2>4
<1>7. n \in eps
  OBVIOUS
<1> HIDE DEF eps
<1> DEFINE s == [r EXCEPT !.eps = eps]
<1>8. Sound(s) /\ Things(r) \ Things(s) \subseteq T /\ s.eps = eps
  BY <1>4, <1>6, EditedEps
<1>9. Lacks(c, s) \subseteq Forgets(c, r)
  <2>1. Lacks(c, s) = LacksEP(s, AskedOf(c))
    BY DEF Lacks, Creates
  <2>2. "dsr" \in DOMAIN AskedOf(c) => AskedOf(c).dsr # "undefined"
    BY DEF AskedOf, EndpointFields
  <2>3. LacksEP(s, AskedOf(c)) \subseteq {"idle"} \cap DOMAIN AskedOf(c)
    BY <1>2, <1>7, <1>8, <2>2 DEF LacksEP
  <2>4. "idle" \in DOMAIN AskedOf(c) => "idle" \in DOMAIN c
    BY DEF AskedOf
  <2>5. "idle" \in DOMAIN c => Forgets(c, r) = {"idle"}
    BY DEF Forgets, Creates, InSet, AclOps
  <2> QED
    BY <2>1, <2>3, <2>4, <2>5
<1>10. c.op \notin AclOps
  BY DEF AclOps
<1>11. Edits(c, r, s)
  BY <1>8, <1>9, <1>10 DEF Edits, T
<1> QED
  BY <1>11 DEF eps, n, Others
-----------------------------------------------------------------------------
(* An endpoint is found by its name: there is only one.                      *)
LEMMA FoundByName ==
  ASSUME NEW eps, Apart(eps), NEW name, name \in Names(eps)
  PROVE  \E e \in eps : /\ e.name = name
                        /\ (CHOOSE x \in eps : x.name = name) = e
                        /\ \A x \in eps : x.name = name => x = e
BY DEF Apart, Names

LEMMA AclOfOne ==
  ASSUME NEW r, NEW e \in r.eps, NEW name, e.name = name,
         \A x \in r.eps : x.name = name => x = e
  PROVE  AclOf(r, name) = e.acl /\ SetsOf(r, name) = {e.set}
<1>1. {x \in r.eps : x.name = name} = {e}
  OBVIOUS
<1> QED
  BY <1>1 DEF AclOf, SetsOf

(* findNewtworkConfigAndEndpoint(): the endpoint gets other rules.           *)
LEMMA AclReplaced ==
  ASSUME NEW r, Sound(r), NEW name, NEW e \in r.eps, e.name = name,
         NEW acl, IsFiniteSet(acl), RulesApart(acl), NEW T,
         \A o \in Orders(e.acl) : o \in Orders(acl) \/ <<"rule", name, o>> \in T
  PROVE  LET s == [r EXCEPT !.eps = (r.eps \ {e}) \cup {[e EXCEPT !.acl = acl]}]
         IN  /\ Sound(s) /\ Things(r) \ Things(s) \subseteq T
             /\ AclOf(s, name) = acl /\ SetsOf(s, name) = SetsOf(r, name)
<1> DEFINE n == [e EXCEPT !.acl = acl]
           eps == (r.eps \ {e}) \cup {n}
           s == [r EXCEPT !.eps = eps]
<1>1. DOMAIN n = EndpointFields /\ n.acl = acl
      /\ n.name = e.name /\ n.port = e.port /\ n.set = e.set
  BY DEF Sound, IsRole, EndpointFields
<1> HIDE DEF n
<1>2. \A f \in r.eps \ {e} : f.name # n.name /\ f.port # n.port
  BY <1>1 DEF Sound, Apart
<1>3. GoodEps(eps)
  BY <1>1, <1>2, SoundHasGoodEps, ReplacedIsGood
<1>4. KeepsEps(r.eps, eps, T)
  BY <1>1 DEF KeepsEps, Names
<1>5. n \in eps /\ \A x \in eps : x.name = name => x = n
  BY <1>1, <1>2
<1> HIDE DEF eps
<1>6. Sound(s) /\ Things(r) \ Things(s) \subseteq T /\ s.eps = eps
  BY <1>3, <1>4, EditedEps
<1> HIDE DEF s
<1>7. AclOf(s, name) = n.acl /\ SetsOf(s, name) = {n.set}
  <2>1. n \in s.eps /\ n.name = name /\ \A x \in s.eps : x.name = name => x = n
    BY <1>1, <1>5, <1>6
  <2> QED
    BY <2>1, AclOfOne
<1>8. SetsOf(r, name) = {e.set}
  <2>1. \A x \in r.eps : x.name = name => x = e
    BY DEF Sound, Apart
  <2> QED
    BY <2>1, AclOfOne
<1> QED
  BY <1>1, <1>6, <1>7, <1>8 DEF s, eps, n
-----------------------------------------------------------------------------
(* The copy that SendsAcl() sends, and what the user asked of the rules.     *)
RulesEdited(r, c, acl) ==
  LET e == CHOOSE x \in r.eps : x.name = c.name
  IN  [r EXCEPT !.eps = (@ \ {e}) \cup {[e EXCEPT !.acl = acl]}]

RulesAchieved(c, acl) ==
  /\ c.op = "createAcl" => [order |-> c.order, action |-> c.action] \in acl
  /\ c.op = "deleteAcl" => c.order \notin Orders(acl)
  /\ c.op = "updateAcl" => [order |-> c.newOrder, action |-> c.action] \in acl

RulesKept(c, old, new, T) ==
  \A o \in Orders(old) : o \in Orders(new) \/ <<"rule", c.name, o>> \in T

LEMMA RulesOfRole ==
  ASSUME NEW r, Sound(r), NEW name, name \in Names(r.eps)
  PROVE  IsFiniteSet(AclOf(r, name)) /\ RulesApart(AclOf(r, name))
<1>1. PICK e \in r.eps : e.name = name /\ \A x \in r.eps : x.name = name => x = e
  BY FoundByName DEF Sound
<1>2. AclOf(r, name) = e.acl
  BY <1>1, AclOfOne
<1> QED
  BY <1>2 DEF Sound, IsRole

LEMMA RulesEdits ==
  ASSUME NEW r, Sound(r), NEW c, c.op \in AclOps, c.name \in Names(r.eps),
         NEW acl, IsFiniteSet(acl), RulesApart(acl),
         AsksForNone(c) \/ RulesAchieved(c, acl),
         RulesKept(c, AclOf(r, c.name), acl, Removes(c, r))
  PROVE  Edits(c, r, RulesEdited(r, c, acl))
<1> DEFINE T == Removes(c, r)
<1>1. PICK e \in r.eps : /\ e.name = c.name
                         /\ (CHOOSE x \in r.eps : x.name = c.name) = e
                         /\ \A x \in r.eps : x.name = c.name => x = e
  BY FoundByName DEF Sound
<1>2. AclOf(r, c.name) = e.acl
  BY <1>1, AclOfOne
<1> DEFINE s == [r EXCEPT !.eps = (r.eps \ {e}) \cup {[e EXCEPT !.acl = acl]}]
<1>3. RulesEdited(r, c, acl) = s
  BY <1>1 DEF RulesEdited
<1> HIDE DEF T
<1>4. \A o \in Orders(e.acl) : o \in Orders(acl) \/ <<"rule", c.name, o>> \in T
  BY <1>2 DEF RulesKept, T
<1>5. /\ Sound(s) /\ Things(r) \ Things(s) \subseteq T
      /\ AclOf(s, c.name) = acl /\ SetsOf(s, c.name) = SetsOf(r, c.name)
  BY <1>1, <1>4, AclReplaced
<1> HIDE DEF s
<1>6. Lacks(c, s) \subseteq Forgets(c, r)
  <2>1. CASE RulesAchieved(c, acl)
    BY <1>5, <2>1 DEF RulesAchieved, Lacks, Unless, Creates, AclOps
  <2>2. CASE AsksForNone(c)
    BY <2>2 DEF AsksForNone, Lacks, Forgets, Unless, Creates, InSet, AclOps
  <2> QED
    BY <2>1, <2>2
<1> QED
  BY <1>3, <1>5, <1>6 DEF Edits, T

LEMMA AddedRule ==
  ASSUME NEW acl, IsFiniteSet(acl), RulesApart(acl), NEW order, NEW action,
         order \notin Orders(acl)
  PROVE  LET new == acl \cup {[order |-> order, action |-> action]}
         IN  IsFiniteSet(new) /\ RulesApart(new) /\ Orders(acl) \subseteq Orders(new)
<1>1. RulesApart(acl \cup {[order |-> order, action |-> action]})
  BY DEF RulesApart, Orders
<1> QED
  BY <1>1, FS_AddElement DEF Orders

LEMMA CreatingRuleEdits ==
  ASSUME NEW r, Sound(r), NEW c, c.op = "createAcl", c.name \in Names(r.eps),
         c.order \notin Orders(AclOf(r, c.name))
  PROVE  Edits(c, r, RulesEdited(r, c, AclOf(r, c.name) \cup
                                        {[order |-> c.order, action |-> c.action]}))
<1> DEFINE old == AclOf(r, c.name)
           rule == [order |-> c.order, action |-> c.action]
           acl == old \cup {rule}
<1>1. IsFiniteSet(old) /\ RulesApart(old)
  BY RulesOfRole
<1>2. IsFiniteSet(acl) /\ RulesApart(acl) /\ Orders(old) \subseteq Orders(acl)
  BY <1>1, AddedRule
<1>3. RulesKept(c, old, acl, Removes(c, r))
  BY <1>2 DEF RulesKept
<1>4. RulesAchieved(c, acl) /\ c.op \in AclOps
  BY DEF RulesAchieved, AclOps
<1> HIDE DEF acl
<1> QED
  BY <1>2, <1>3, <1>4, RulesEdits DEF acl

RulesBut(acl, order) == {x \in acl : x.order # order}

LEMMA KeptRules ==
  ASSUME NEW acl, IsFiniteSet(acl), RulesApart(acl), NEW order,
         NEW kept, kept = RulesBut(acl, order)
  PROVE  /\ IsFiniteSet(kept) /\ RulesApart(kept)
         /\ order \notin Orders(kept)
         /\ \A o \in Orders(acl) : o \in Orders(kept) \/ o = order
<1>1. IsFiniteSet(kept)
  BY FS_Subset DEF RulesBut
<1> QED
  BY <1>1 DEF RulesBut, RulesApart, Orders

LEMMA DeletingRuleEdits ==
  ASSUME NEW r, Sound(r), NEW c, c.op = "deleteAcl", c.name \in Names(r.eps)
  PROVE  Edits(c, r, RulesEdited(r, c, {x \in AclOf(r, c.name) : x.order # c.order}))
<1> DEFINE old == AclOf(r, c.name)
           acl == {x \in old : x.order # c.order}
<1>1. IsFiniteSet(old) /\ RulesApart(old) /\ acl = RulesBut(old, c.order)
  BY RulesOfRole DEF RulesBut
<1> HIDE DEF acl, old
<1>2. /\ IsFiniteSet(acl) /\ RulesApart(acl) /\ c.order \notin Orders(acl)
      /\ \A o \in Orders(old) : o \in Orders(acl) \/ o = c.order
  BY <1>1, KeptRules
<1>3. Removes(c, r) = {<<"rule", c.name, c.order>>}
  BY DEF Removes
<1>4. RulesKept(c, old, acl, Removes(c, r))
  BY <1>2, <1>3 DEF RulesKept, old
<1>5. RulesAchieved(c, acl) /\ c.op \in AclOps
  BY <1>2 DEF RulesAchieved, AclOps
<1> QED
  BY <1>2, <1>4, <1>5, RulesEdits DEF acl, old

LEMMA UpdatingRuleEdits ==
  ASSUME NEW r, Sound(r), NEW c, c.op = "updateAcl", c.name \in Names(r.eps),
         NEW kept, kept = {x \in AclOf(r, c.name) : x.order # c.order},
         c.newOrder \notin Orders(kept) \ {0},
         NEW order, order = IF c.newOrder = 0 THEN c.order ELSE c.newOrder
  PROVE  Edits(c, r, RulesEdited(r, c, kept \cup {[order |-> order, action |-> c.action]}))
<1> DEFINE old == AclOf(r, c.name)
           acl == kept \cup {[order |-> order, action |-> c.action]}
<1>1. IsFiniteSet(old) /\ RulesApart(old) /\ kept = RulesBut(old, c.order)
  BY RulesOfRole DEF RulesBut
<1> HIDE DEF old
<1>2. /\ IsFiniteSet(kept) /\ RulesApart(kept) /\ c.order \notin Orders(kept)
      /\ \A o \in Orders(old) : o \in Orders(kept) \/ o = c.order
  BY <1>1, KeptRules
<1>3. order \notin Orders(kept)
  BY <1>2
<1>4. IsFiniteSet(acl) /\ RulesApart(acl) /\ Orders(kept) \subseteq Orders(acl)
  BY <1>2, <1>3, AddedRule
<1>5. Removes(c, r) = {<<"rule", c.name, c.order>>}
  BY DEF Removes
<1>6. AsksForNone(c) \/ RulesAchieved(c, acl)
  BY DEF AsksForNone, RulesAchieved
<1> HIDE DEF acl
<1>7. RulesKept(c, old, acl, Removes(c, r))
  BY <1>2, <1>4, <1>5 DEF RulesKept
<1>8. c.op \in AclOps
  BY DEF AclOps
<1> QED
  BY <1>4, <1>6, <1>7, <1>8, RulesEdits DEF acl, old
-----------------------------------------------------------------------------
(* A role of which something other than the endpoints is edited.             *)
LEMMA EditedRest ==
  ASSUME NEW r, Sound(r), NEW s, DOMAIN s = DOMAIN r, s.eps = r.eps,
         s.static \in BOOLEAN, s.disks = r.disks, r.nics \subseteq s.nics,
         Unique(s.ips), Unique(s.exts), NEW T,
         KeepsNamed("ip", r.ips, s.ips, T), KeepsNamed("extension", r.exts, s.exts, T),
         r.static => s.static \/ <<"static">> \in T
  PROVE  Sound(s) /\ Things(r) \ Things(s) \subseteq T
<1>1. Sound(s)
  BY DEF Sound, IsRole
<1>2. KeepsEps(r.eps, s.eps, T) /\ r.static \in BOOLEAN
  BY KeepsItself DEF Sound, IsRole
<1> QED
  BY <1>1, <1>2, ThingsLost

LEMMA NoRules ==
  ASSUME NEW c, c.op \notin AclOps, NEW base, NEW copy, Sound(copy),
         Things(base) \ Things(copy) \subseteq Removes(c, base),
         c.op = "setVM" \/ Lacks(c, copy) \subseteq Forgets(c, base)
  PROVE  Edits(c, base, copy)
BY DEF Edits

(* setStaticIP() and removeStaticIP().                                       *)
LEMMA StaticEdits ==
  ASSUME NEW r, Sound(r), NEW c, NEW b \in BOOLEAN,
         c.op = IF b THEN "setStaticIP" ELSE "removeStaticIP"
  PROVE  Edits(c, r, [r EXCEPT !.static = b])
<1> DEFINE s == [r EXCEPT !.static = b]
<1>1. /\ DOMAIN s = DOMAIN r /\ s.static = b /\ s.eps = r.eps /\ s.ips = r.ips
      /\ s.nics = r.nics /\ s.exts = r.exts /\ s.disks = r.disks
  BY RoleFields DEF Sound, IsRole
<1> HIDE DEF s
<1>2. Unique(s.ips) /\ Unique(s.exts)
  BY <1>1 DEF Sound
<1>3. KeepsNamed("ip", r.ips, s.ips, Removes(c, r))
      /\ KeepsNamed("extension", r.exts, s.exts, Removes(c, r))
  BY <1>1, KeepsItself
<1>4. ~b => <<"static">> \in Removes(c, r)
  BY DEF Removes
<1>5. Sound(s) /\ Things(r) \ Things(s) \subseteq Removes(c, r)
  BY <1>1, <1>2, <1>3, <1>4, EditedRest
<1>6. Lacks(c, s) = {}
  <2>1. CASE b
    BY <1>1, <2>1 DEF Lacks, Unless, Creates
  <2>2. CASE ~b
    BY <1>1, <2>2 DEF Lacks, Unless, Creates
  <2> QED
    BY <2>1, <2>2
<1>7. c.op \notin AclOps
  BY DEF AclOps
<1> QED
  BY <1>5, <1>6, <1>7, NoRules DEF s

(* setPublicIP() and removePublicIP().                                       *)
LEMMA PublicEdits ==
  ASSUME NEW r, Sound(r), NEW c, NEW ips, Unique(ips),
         \/ /\ c.op = "setPublicIP"
            /\ \E i \in ips : i.name = c.name /\ i.timeout = c.timeout
            /\ Names(r.ips) \subseteq Names(ips)
         \/ c.op = "removePublicIP" /\ c.name \notin Names(ips)
                                    /\ Names(r.ips) \subseteq Names(ips) \cup {c.name}
  PROVE  Edits(c, r, [r EXCEPT !.ips = ips])
<1> DEFINE s == [r EXCEPT !.ips = ips]
<1>1. /\ DOMAIN s = DOMAIN r /\ s.ips = ips /\ s.eps = r.eps /\ s.static = r.static
      /\ s.nics = r.nics /\ s.exts = r.exts /\ s.disks = r.disks
  BY RoleFields DEF Sound, IsRole
<1> HIDE DEF s
<1>2. Unique(s.ips) /\ Unique(s.exts) /\ r.static \in BOOLEAN
  BY <1>1 DEF Sound, IsRole
<1>3. c.op = "removePublicIP" => <<"ip", c.name>> \in Removes(c, r)
  BY DEF Removes
<1>4. KeepsNamed("ip", r.ips, s.ips, Removes(c, r))
  BY <1>1, <1>3 DEF KeepsNamed, Names
<1>5. KeepsNamed("extension", r.exts, s.exts, Removes(c, r))
  BY <1>1, KeepsItself
<1>6. Sound(s) /\ Things(r) \ Things(s) \subseteq Removes(c, r)
  BY <1>1, <1>2, <1>4, <1>5, EditedRest
<1>7. Lacks(c, s) = {}
  <2>1. CASE c.op = "setPublicIP"
    BY <1>1, <2>1 DEF Lacks, Unless, Creates, Names
  <2>2. CASE c.op = "removePublicIP"
    BY <1>1, <2>2 DEF Lacks, Unless, Creates, Names
  <2> QED
    BY <2>1, <2>2
<1>8. c.op \notin AclOps
  BY DEF AclOps
<1> QED
  BY <1>6, <1>7, <1>8, NoRules DEF s

LEMMA NicEdits ==
  ASSUME NEW r, Sound(r), NEW c, c.op = "addNic"
  PROVE  Edits(c, r, [r EXCEPT !.nics = r.nics \cup {c.name}])
<1> DEFINE s == [r EXCEPT !.nics = r.nics \cup {c.name}]
<1>1. /\ DOMAIN s = DOMAIN r /\ s.nics = r.nics \cup {c.name} /\ s.eps = r.eps
      /\ s.static = r.static /\ s.ips = r.ips /\ s.exts = r.exts /\ s.disks = r.disks
  BY RoleFields DEF Sound, IsRole
<1> HIDE DEF s
<1>2. Unique(s.ips) /\ Unique(s.exts) /\ r.static \in BOOLEAN
  BY <1>1 DEF Sound, IsRole
<1>3. KeepsNamed("ip", r.ips, s.ips, Removes(c, r))
      /\ KeepsNamed("extension", r.exts, s.exts, Removes(c, r))
  BY <1>1, KeepsItself
<1>4. Sound(s) /\ Things(r) \ Things(s) \subseteq Removes(c, r)
  BY <1>1, <1>2, <1>3, EditedRest
<1>5. Lacks(c, s) = {} /\ c.op \notin AclOps
  BY <1>1 DEF Lacks, Unless, Creates, AclOps
<1> QED
  BY <1>4, <1>5, NoRules DEF s

(* setVM() changes nothing that is modelled but the debug settings.          *)
LEMMA SameEdits ==
  ASSUME NEW r, Sound(r), NEW c, c.op = "setVM"
  PROVE  Edits(c, r, r)
<1>1. c.op \notin AclOps
  BY DEF AclOps
<1> QED
  BY <1>1, NoRules

(* setExtension() and setChefExtension().                                    *)
LEMMA ExtensionEdits ==
  ASSUME NEW r, Sound(r), NEW c, NEW version,
         \/ c.op \in {"setExtension", "setChefExtension"} /\ "version" \in DOMAIN c /\ version = c.version
         \/ c.op = "setChefExtension" /\ "version" \notin DOMAIN c
  PROVE  Edits(c, r, WithExtension(r, c, version))
<1> DEFINE ext == [name |-> c.name, state |-> c.state, version |-> version]
           exts == {x \in r.exts : x.name # c.name} \cup {ext}
           s == [r EXCEPT !.exts = exts]
<1>1. WithExtension(r, c, version) = s
  BY DEF WithExtension
<1>2. /\ DOMAIN s = DOMAIN r /\ s.exts = exts /\ s.eps = r.eps /\ s.static = r.static
      /\ s.nics = r.nics /\ s.ips = r.ips /\ s.disks = r.disks
  BY RoleFields DEF Sound, IsRole
<1>3. Unique(exts)
  BY DEF Sound, Unique
<1>4. ext \in exts /\ ext.name = c.name /\ ext.state = c.state /\ ext.version = version
  OBVIOUS
<1>5. \A x \in r.exts : x.name # c.name => x \in exts
  OBVIOUS
<1> HIDE DEF s, exts, ext
<1>6. Unique(s.ips) /\ Unique(s.exts) /\ r.static \in BOOLEAN
  BY <1>2, <1>3 DEF Sound, IsRole
<1>7. KeepsNamed("extension", r.exts, s.exts, Removes(c, r))
  BY <1>2, <1>4, <1>5 DEF KeepsNamed, Names
<1>8. KeepsNamed("ip", r.ips, s.ips, Removes(c, r))
  BY <1>2, KeepsItself
<1>9. Sound(s) /\ Things(r) \ Things(s) \subseteq Removes(c, r)
  BY <1>2, <1>6, <1>7, <1>8, EditedRest
<1>10. Lacks(c, s) \subseteq Forgets(c, r)
  <2> DEFINE x == {y \in s.exts : y.name = c.name}
             asked == IF "version" \in DOMAIN c THEN c.version ELSE "newest"
  <2>1. Lacks(c, s) = Unless(\E y \in x : y.state = c.state, "state")
                      \cup Unless(\E y \in x : y.version = asked, "version")
    BY DEF Lacks, Creates
  <2>2. ext \in x
    BY <1>2, <1>4
  <2>3. Unless(\E y \in x : y.state = c.state, "state") = {}
    BY <1>4, <2>2 DEF Unless
  <2>4. CASE "version" \in DOMAIN c
    <3>1. Unless(\E y \in x : y.version = asked, "version") = {}
      BY <1>4, <2>2, <2>4 DEF Unless
    <3> QED
      BY <2>1, <2>3, <3>1
  <2>5. CASE "version" \notin DOMAIN c
    <3>1. c.op = "setChefExtension"
      BY <2>5
    <3>2. Forgets(c, r) = {"version"}
      BY <2>5, <3>1 DEF Forgets, Creates, InSet, AclOps
    <3> QED
      BY <2>1, <2>3, <3>2 DEF Unless
  <2> QED
    BY <2>4, <2>5
<1>11. c.op \notin AclOps
  BY DEF AclOps
<1> QED
  BY <1>1, <1>9, <1>10, <1>11, NoRules
-----------------------------------------------------------------------------
(* A step of process p that leaves the service alone: what the process comes *)
(* to is allowed, and when it ends well there was nothing to do.             *)
Quiet(p, q) ==
  /\ proc' = [proc EXCEPT ![p] = q]
  /\ roles' = roles
  /\ ProcOk(q)
  /\ proc[p].step = "disk" => q.step = "idle" /\ q.result = "error"
  /\ q.step = "idle" /\ q.result = "ok" /\ proc[p].step \in {"read", "write"} =>
       Lacks(proc[p].cmd, roles[proc[p].cmd.vm]) = {}

LEMMA EndsQuietly ==
  ASSUME IInv, NEW p \in Procs, NEW result \in {"ok", "error"}, Ends(p, result),
         proc[p].step \in {"read", "confirm", "write", "disk"},
         result = "ok" => \/ proc[p].step = "confirm"
                          \/ /\ proc[p].step # "disk"
                             /\ Lacks(proc[p].cmd, roles[proc[p].cmd.vm]) = {}
  PROVE  \E q : Quiet(p, q)
<1> DEFINE q == [step |-> "idle", runs |-> proc[p].runs, result |-> result]
<1>1. proc' = [proc EXCEPT ![p] = q] /\ roles' = roles
  BY DEF Ends, IInv, ProcsOk
<1>2. q.step = "idle" /\ q.runs = proc[p].runs /\ q.result = result
  OBVIOUS
<1> HIDE DEF q
<1>3. ProcOk(q)
  BY <1>2 DEF IInv, ProcsOk, ProcOk, IdleOk
<1>4. Quiet(p, q)
  BY <1>1, <1>2, <1>3 DEF Quiet
<1> QED
  BY <1>4

LEMMA SendsQuietly ==
  ASSUME IInv, NEW p \in Procs, NEW c, Settled(c), NEW base, NEW edited,
         Edits(c, base, edited), NEW step \in {"write", "confirm"},
         Sends(p, c, base, edited, step), proc[p].step = "read"
  PROVE  \E q : Quiet(p, q)
<1> DEFINE copy == DebugSettings(edited, c)
           q == [step |-> step, runs |-> proc[p].runs, cmd |-> c, base |-> base, copy |-> copy]
<1>1. /\ Edits(c, base, copy)
      /\ copy.debug = IF "debug" \in DOMAIN c THEN c.debug ELSE "none"
  BY DebugEdits
<1>2. proc' = [proc EXCEPT ![p] = q] /\ roles' = roles
  BY DEF Sends, IInv, ProcsOk
<1> HIDE DEF copy
<1>3. /\ DOMAIN q = {"step", "runs", "cmd", "base", "copy"}
      /\ q.step = step /\ q.runs = proc[p].runs /\ q.cmd = c /\ q.base = base /\ q.copy = copy
  OBVIOUS
<1> HIDE DEF q
<1>4. WriteOk(q)
  BY <1>1, <1>3 DEF WriteOk, Settled
<1>5. ProcOk(q)
  BY <1>3, <1>4 DEF IInv, ProcsOk, ProcOk
<1>6. Quiet(p, q)
  BY <1>2, <1>3, <1>5 DEF Quiet
<1> QED
  BY <1>6

LEMMA RunsOneMore ==
  ASSUME IInv, NEW p \in Procs, proc[p].runs < MaxRuns
  PROVE  proc[p].runs + 1 \in 0 .. MaxRuns
<1>1. proc[p].runs \in 0 .. MaxRuns
  BY DEF IInv, ProcsOk, ProcOk
<1> QED
  BY <1>1, MaxRunsAssumption

LEMMA StartsQuietly ==
  ASSUME IInv, NEW p \in Procs, NEW c \in Commands, NEW edited,
         Edits(c, roles[c.vm], edited), Starts(p, c, edited)
  PROVE  \E q : Quiet(p, q)
<1> DEFINE copy == DebugSettings(edited, c)
           base == roles[c.vm]
           q == [step |-> "write", runs |-> proc[p].runs + 1, cmd |-> c,
                 base |-> base, copy |-> copy]
<1>1. /\ Edits(c, base, copy)
      /\ copy.debug = IF "debug" \in DOMAIN c THEN c.debug ELSE "none"
  BY DebugEdits
<1>2. proc' = [proc EXCEPT ![p] = q] /\ roles' = roles
  BY DEF Starts, IInv, ProcsOk
<1> HIDE DEF copy, base
<1>3. /\ DOMAIN q = {"step", "runs", "cmd", "base", "copy"}
      /\ q.step = "write" /\ q.runs = proc[p].runs + 1 /\ q.cmd = c
      /\ q.base = base /\ q.copy = copy
  OBVIOUS
<1> HIDE DEF q
<1>4. WriteOk(q)
  BY <1>1, <1>3, CommandsAssumption DEF WriteOk, Given
<1>5. q.runs \in 0 .. MaxRuns
  BY <1>3, RunsOneMore DEF Starts
<1>6. ProcOk(q)
  BY <1>3, <1>4, <1>5 DEF ProcOk
<1>7. Quiet(p, q)
  BY <1>2, <1>3, <1>6 DEF Quiet, Starts, Idle
<1> QED
  BY <1>7

LEMMA ReadsWhat ==
  ASSUME IInv, NEW p \in Procs, proc[p].step = "read"
  PROVE  Settled(proc[p].cmd) /\ Sound(roles[proc[p].cmd.vm])
BY DEF IInv, ProcsOk, RolesOk, ProcOk, Settled
-----------------------------------------------------------------------------
LEMMA AddsQuietly ==
  ASSUME IInv, NEW p \in Procs, CreateEP(p) \/ CreateMultipleEP(p)
  PROVE  \E q : Quiet(p, q)
<1> DEFINE c == proc[p].cmd
           r == roles[c.vm]
<1>1. AddsEndpoints(p) /\ Creates(c) /\ proc[p].step = "read"
  BY DEF CreateEP, CreateMultipleEP, Reads, Creates
<1>2. Settled(c) /\ Sound(r)
  BY <1>1, ReadsWhat
<1>3. CASE Clash(r.eps, c.eps)
  BY <1>1, <1>3, EndsQuietly DEF AddsEndpoints
<1>4. CASE ~Clash(r.eps, c.eps)
  <2> DEFINE edited == [r EXCEPT !.eps = r.eps \cup c.eps]
  <2>1. Sends(p, c, r, edited, "write")
    BY <1>1, <1>4 DEF AddsEndpoints
  <2>2. Edits(c, r, edited)
    BY <1>1, <1>2, <1>4, AddingEdits DEF Settled
  <2> HIDE DEF edited, r
  <2> QED
    BY <1>1, <1>2, <2>1, <2>2, SendsQuietly
<1> QED
  BY <1>3, <1>4

LEMMA DeletesQuietly ==
  ASSUME IInv, NEW p \in Procs, DeleteEP(p)
  PROVE  \E q : Quiet(p, q)
<1> DEFINE c == proc[p].cmd
           r == roles[c.vm]
           edited == [r EXCEPT !.eps = {e \in r.eps : e.name # c.name}]
<1>1. c.op = "deleteEP" /\ proc[p].step = "read"
  BY DEF DeleteEP, Reads
<1>2. Settled(c) /\ Sound(r)
  BY <1>1, ReadsWhat
<1>3. Edits(c, r, edited)
  BY <1>1, <1>2, DeletingEdits
<1>4. Ends(p, "error") \/ Sends(p, c, r, edited, "write")
  BY DEF DeleteEP
<1> HIDE DEF edited, r, c
<1>5. CASE Ends(p, "error")
  BY <1>1, <1>5, EndsQuietly
<1>6. CASE Sends(p, c, r, edited, "write")
  BY <1>1, <1>2, <1>3, <1>6, SendsQuietly
<1> QED
  BY <1>4, <1>5, <1>6

LEMMA SetsQuietly ==
  ASSUME IInv, NEW p \in Procs, SetEP(p)
  PROVE  \E q : Quiet(p, q)
<1> DEFINE c == proc[p].cmd
           r == roles[c.vm]
<1>1. c.op = "setEP" /\ proc[p].step = "read"
  BY DEF SetEP, Reads
<1>2. Settled(c) /\ Sound(r)
  BY <1>1, ReadsWhat
<1>3. CASE Ends(p, "error")
  BY <1>1, <1>3, EndsQuietly
<1>4. CASE ~Ends(p, "error")
  <2> DEFINE e == CHOOSE x \in r.eps : x.name = c.name
             edited == [r EXCEPT !.eps = Others(r, e) \cup {WithProperties(e, c)}]
  <2>1. e \in r.eps /\ e.name = c.name
    BY <1>4 DEF SetEP, Names
  <2>2. ~Clash(Others(r, e), {WithProperties(e, c)}) /\ Sends(p, c, r, edited, "write")
    BY <1>4 DEF SetEP
  <2> HIDE DEF e
  <2>3. Edits(c, r, edited)
    <3>1. "name" \in DOMAIN c /\ ("dsr" \in DOMAIN c => c.dsr # "undefined")
      BY <1>1, <1>2, CommandsAssumption DEF Settled, Given, Creates
    <3> QED
      BY <1>1, <1>2, <2>1, <2>2, <3>1, SettingEdits
  <2> HIDE DEF edited, r, c
  <2> QED
    BY <1>1, <1>2, <2>2, <2>3, SendsQuietly
<1> QED
  BY <1>3, <1>4
-----------------------------------------------------------------------------
LEMMA SendsAclIs ==
  ASSUME NEW p, NEW c, NEW r, NEW acl, NEW step, SendsAcl(p, c, r, acl, step)
  PROVE  Sends(p, c, r, RulesEdited(r, c, acl), step)
BY DEF SendsAcl, RulesEdited

(* The orders of an endpoint that is not there are none.                     *)
LEMMA OrdersMeanEndpoint ==
  ASSUME NEW r, NEW name, NEW o \in Orders(AclOf(r, name))
  PROVE  name \in Names(r.eps)
BY DEF Orders, AclOf, Names

LEMMA CreatesRuleQuietly ==
  ASSUME IInv, NEW p \in Procs, CreateEPAclRule(p)
  PROVE  \E q : Quiet(p, q)
<1> DEFINE c == proc[p].cmd
           r == roles[c.vm]
           acl == AclOf(r, c.name) \cup {[order |-> c.order, action |-> c.action]}
<1>1. c.op = "createAcl" /\ proc[p].step = "read"
  BY DEF CreateEPAclRule, Reads
<1>2. Settled(c) /\ Sound(r)
  BY <1>1, ReadsWhat
<1>3. CASE c.name \notin Names(r.eps) \/ c.order \in Orders(AclOf(r, c.name))
  <2>1. Ends(p, "error")
    BY <1>3 DEF CreateEPAclRule
  <2> QED
    BY <1>1, <2>1, EndsQuietly
<1>4. CASE ~(c.name \notin Names(r.eps) \/ c.order \in Orders(AclOf(r, c.name)))
  <2>1. SendsAcl(p, c, r, acl, "write")
    BY <1>4 DEF CreateEPAclRule
  <2>2. Edits(c, r, RulesEdited(r, c, acl))
    BY <1>1, <1>2, <1>4, CreatingRuleEdits
  <2> HIDE DEF acl, r, c
  <2>3. Sends(p, c, r, RulesEdited(r, c, acl), "write")
    BY <2>1, SendsAclIs
  <2> QED
    BY <1>1, <1>2, <2>2, <2>3, SendsQuietly
<1> QED
  BY <1>3, <1>4

LEMMA DeletesRuleQuietly ==
  ASSUME IInv, NEW p \in Procs, DeleteEPAclRule(p)
  PROVE  \E q : Quiet(p, q)
<1> DEFINE c == proc[p].cmd
           r == roles[c.vm]
           acl == {x \in AclOf(r, c.name) : x.order # c.order}
<1>1. c.op = "deleteAcl" /\ proc[p].step = "read"
  BY DEF DeleteEPAclRule, Reads
<1>2. Settled(c) /\ Sound(r)
  BY <1>1, ReadsWhat
<1>3. CASE c.order \notin Orders(AclOf(r, c.name))
  <2>1. Ends(p, "error")
    BY <1>3 DEF DeleteEPAclRule
  <2> QED
    BY <1>1, <2>1, EndsQuietly
<1>4. CASE c.order \in Orders(AclOf(r, c.name))
  <2>1. SendsAcl(p, c, r, acl, "confirm")
    BY <1>4 DEF DeleteEPAclRule
  <2>2. c.name \in Names(r.eps)
    BY <1>4, OrdersMeanEndpoint
  <2>3. Edits(c, r, RulesEdited(r, c, acl))
    BY <1>1, <1>2, <2>2, DeletingRuleEdits
  <2> HIDE DEF acl, r, c
  <2>4. Sends(p, c, r, RulesEdited(r, c, acl), "confirm")
    BY <2>1, SendsAclIs
  <2> QED
    BY <1>1, <1>2, <2>3, <2>4, SendsQuietly
<1> QED
  BY <1>3, <1>4

LEMMA UpdatesRuleQuietly ==
  ASSUME IInv, NEW p \in Procs, UpdateEPAclRule(p)
  PROVE  \E q : Quiet(p, q)
<1> DEFINE c == proc[p].cmd
           r == roles[c.vm]
           kept == {x \in AclOf(r, c.name) : x.order # c.order}
           order == IF c.newOrder = 0 THEN c.order ELSE c.newOrder
           acl == kept \cup {[order |-> order, action |-> c.action]}
<1>1. c.op = "updateAcl" /\ proc[p].step = "read"
  BY DEF UpdateEPAclRule, Reads
<1>2. Settled(c) /\ Sound(r)
  BY <1>1, ReadsWhat
<1>3. CASE c.order \notin Orders(AclOf(r, c.name)) \/ c.newOrder \in Orders(kept) \ {0}
  <2>1. Ends(p, "error")
    BY <1>3 DEF UpdateEPAclRule
  <2> QED
    BY <1>1, <2>1, EndsQuietly
<1>4. CASE ~(c.order \notin Orders(AclOf(r, c.name)) \/ c.newOrder \in Orders(kept) \ {0})
  <2>1. SendsAcl(p, c, r, acl, "write")
    BY <1>4 DEF UpdateEPAclRule
  <2>2. c.name \in Names(r.eps)
    BY <1>4, OrdersMeanEndpoint
  <2>3. Edits(c, r, RulesEdited(r, c, acl))
    BY <1>1, <1>2, <1>4, <2>2, UpdatingRuleEdits
  <2> HIDE DEF acl, kept, order, r, c
  <2>4. Sends(p, c, r, RulesEdited(r, c, acl), "write")
    BY <2>1, SendsAclIs
  <2> QED
    BY <1>1, <1>2, <2>3, <2>4, SendsQuietly
<1> QED
  BY <1>3, <1>4
-----------------------------------------------------------------------------
LEMMA StaticQuietly ==
  ASSUME IInv, NEW p \in Procs, SetStaticIP(p) \/ RemoveStaticIP(p)
  PROVE  \E q : Quiet(p, q)
<1> DEFINE c == proc[p].cmd
           r == roles[c.vm]
           edited(b) == [r EXCEPT !.static = b]
<1>1. proc[p].step = "read"
  BY DEF SetStaticIP, RemoveStaticIP, Reads
<1>2. Settled(c) /\ Sound(r)
  BY <1>1, ReadsWhat
<1>3. CASE SetStaticIP(p)
  <2>1. c.op = "setStaticIP" /\ Sends(p, c, r, edited(TRUE), "write")
    BY <1>3 DEF SetStaticIP, Reads
  <2>2. Edits(c, r, edited(TRUE))
    BY <1>2, <2>1, StaticEdits
  <2> HIDE DEF edited, r, c
  <2> QED
    BY <1>1, <1>2, <2>1, <2>2, SendsQuietly
<1>4. CASE RemoveStaticIP(p)
  <2>1. c.op = "removeStaticIP"
    BY <1>4 DEF RemoveStaticIP, Reads
  <2>2. CASE ~r.static
    <3>1. Ends(p, "ok")
      BY <1>4, <2>2 DEF RemoveStaticIP
    <3>2. Lacks(c, r) = {}
      BY <2>1, <2>2 DEF Lacks, Unless, Creates
    <3> QED
      BY <1>1, <3>1, <3>2, EndsQuietly
  <2>3. CASE r.static
    <3>1. Sends(p, c, r, edited(FALSE), "write")
      BY <1>4, <2>3 DEF RemoveStaticIP
    <3>2. Edits(c, r, edited(FALSE))
      BY <1>2, <2>1, StaticEdits
    <3> HIDE DEF edited, r, c
    <3> QED
      BY <1>1, <1>2, <3>1, <3>2, SendsQuietly
  <2> QED
    BY <2>2, <2>3
<1> QED
  BY <1>3, <1>4

LEMMA AddressSet ==
  ASSUME NEW S, Unique(S), NEW i,
         NEW new, new = (S \ {j \in S : j.name = i.name}) \cup {i}
  PROVE  Unique(new) /\ i.name \in Names(new) /\ Names(S) \subseteq Names(new)
<1>1. \A j \in new : j = i \/ (j \in S /\ j.name # i.name)
  OBVIOUS
<1>2. i \in new /\ \A j \in S : j \in new \/ j.name = i.name
  OBVIOUS
<1>3. Unique(new)
  BY <1>1 DEF Unique
<1> QED
  BY <1>2, <1>3 DEF Names

LEMMA PublicQuietly ==
  ASSUME IInv, NEW p \in Procs, SetPublicIP(p) \/ RemovePublicIP(p)
  PROVE  \E q : Quiet(p, q)
<1> DEFINE c == proc[p].cmd
           r == roles[c.vm]
           old == {i \in r.ips : i.name = c.name}
           edited(ips) == [r EXCEPT !.ips = ips]
<1>1. proc[p].step = "read"
  BY DEF SetPublicIP, RemovePublicIP, Reads
<1>2. Settled(c) /\ Sound(r)
  BY <1>1, ReadsWhat
<1>3. CASE SetPublicIP(p)
  <2> DEFINE ips == (r.ips \ old) \cup {[name |-> c.name, timeout |-> c.timeout]}
  <2>1. c.op = "setPublicIP"
    BY <1>3 DEF SetPublicIP, Reads
  <2>2. \/ /\ old # {} /\ Ends(p, "ok")
           /\ c.timeout = 0 \/ \A i \in old : i.timeout = c.timeout
        \/ Sends(p, c, r, edited(ips), "write")
    BY <1>3 DEF SetPublicIP
  <2>3. CASE /\ old # {} /\ Ends(p, "ok")
             /\ c.timeout = 0 \/ \A i \in old : i.timeout = c.timeout
    <3>1. Lacks(c, r) = {}
      BY <2>1, <2>3 DEF Lacks, Unless, Creates
    <3> QED
      BY <1>1, <2>3, <3>1, EndsQuietly
  <2>4. CASE Sends(p, c, r, edited(ips), "write")
    <3>1. /\ Unique(ips) /\ Names(r.ips) \subseteq Names(ips)
          /\ \E j \in ips : j.name = c.name /\ j.timeout = c.timeout
      <4> DEFINE i == [name |-> c.name, timeout |-> c.timeout]
      <4>1. i.name = c.name /\ i.timeout = c.timeout /\ Unique(r.ips)
        BY <1>2 DEF Sound
      <4>2. ips = (r.ips \ {j \in r.ips : j.name = i.name}) \cup {i}
        BY <4>1
      <4> HIDE DEF i, ips, r, c
      <4>3. Unique(ips) /\ Names(r.ips) \subseteq Names(ips)
        BY <4>1, <4>2, AddressSet
      <4>4. i \in ips
        BY <4>2
      <4> QED
        BY <4>1, <4>3, <4>4
    <3> HIDE DEF ips
    <3>2. Edits(c, r, edited(ips))
      BY <1>2, <2>1, <3>1, PublicEdits
    <3> HIDE DEF edited, r, c
    <3> QED
      BY <1>1, <1>2, <2>4, <3>2, SendsQuietly
  <2> QED
    BY <2>2, <2>3, <2>4
<1>4. CASE RemovePublicIP(p)
  <2> DEFINE ips == {i \in r.ips : i.name # c.name}
  <2>1. c.op = "removePublicIP"
    BY <1>4 DEF RemovePublicIP, Reads
  <2>2. Ends(p, "error") \/ Sends(p, c, r, edited(ips), "confirm")
    BY <1>4 DEF RemovePublicIP
  <2>3. CASE Ends(p, "error")
    BY <1>1, <2>3, EndsQuietly
  <2>4. CASE Sends(p, c, r, edited(ips), "confirm")
    <3>1. /\ Unique(ips) /\ c.name \notin Names(ips)
          /\ Names(r.ips) \subseteq Names(ips) \cup {c.name}
      BY <1>2 DEF Sound, Unique, Names
    <3> HIDE DEF ips
    <3>2. Edits(c, r, edited(ips))
      BY <1>2, <2>1, <3>1, PublicEdits
    <3> HIDE DEF edited, r, c
    <3> QED
      BY <1>1, <1>2, <2>4, <3>2, SendsQuietly
  <2> QED
    BY <2>2, <2>3, <2>4
<1> QED
  BY <1>3, <1>4

LEMMA NicQuietly ==
  ASSUME IInv, NEW p \in Procs, AddNic(p)
  PROVE  \E q : Quiet(p, q)
<1> DEFINE c == proc[p].cmd
           r == roles[c.vm]
           edited == [r EXCEPT !.nics = r.nics \cup {c.name}]
<1>1. proc[p].step = "read" /\ c.op = "addNic"
  BY DEF AddNic, Reads
<1>2. Settled(c) /\ Sound(r)
  BY <1>1, ReadsWhat
<1>3. Edits(c, r, edited)
  BY <1>1, <1>2, NicEdits
<1>4. Ends(p, "error") \/ Sends(p, c, r, edited, "write")
  BY DEF AddNic
<1> HIDE DEF edited, r, c
<1>5. CASE Ends(p, "error")
  BY <1>1, <1>5, EndsQuietly
<1>6. CASE Sends(p, c, r, edited, "write")
  BY <1>1, <1>2, <1>3, <1>6, SendsQuietly
<1> QED
  BY <1>4, <1>5, <1>6

LEMMA OthersStartQuietly ==
  ASSUME IInv, NEW p \in Procs, NEW c \in Commands,
         SetVM(p, c) \/ SetExtension(p, c) \/ SetChefExtension(p, c)
  PROVE  \E q : Quiet(p, q)
<1> DEFINE r == roles[c.vm]
<1>1. Sound(r)
  BY CommandsAssumption DEF IInv, RolesOk
<1>2. CASE SetVM(p, c)
  <2>1. Edits(c, r, r)
    BY <1>1, <1>2, SameEdits DEF SetVM
  <2> QED
    BY <1>2, <2>1, StartsQuietly DEF SetVM
<1>3. CASE SetExtension(p, c) \/ SetChefExtension(p, c)
  <2>1. PICK version :
          /\ Starts(p, c, WithExtension(r, c, version))
          /\ \/ "version" \in DOMAIN c /\ version = c.version
             \/ c.op = "setChefExtension" /\ "version" \notin DOMAIN c
    BY <1>3, CommandsAssumption DEF SetExtension, SetChefExtension
  <2>2. c.op \in {"setExtension", "setChefExtension"}
    BY <1>3 DEF SetExtension, SetChefExtension
  <2>3. Edits(c, r, WithExtension(r, c, version))
    BY <1>1, <2>1, <2>2, ExtensionEdits
  <2> QED
    BY <2>1, <2>3, StartsQuietly
<1> QED
  BY <1>2, <1>3
-----------------------------------------------------------------------------
(* createEP() and createMultipleEP() take over a probe, and no more.         *)
LEMMA AdoptedIs ==
  ASSUME NEW rs, NEW e, DOMAIN e = EndpointFields, NEW op, NEW x \in Adopted(rs, e, op)
  PROVE  /\ DOMAIN x = EndpointFields /\ x.acl = e.acl
         /\ x.name = e.name /\ x.port = e.port
BY DEF Adopted, AdoptedByCreate, AdoptedByMultiple, EndpointFields

(* verifyEndPoints() compares the endpoints before they join their sets, and *)
(* they stay different.                                                      *)
LEMMA AdoptedStayApart ==
  ASSUME NEW S, NewEndpoints(S), NEW rs, NEW op,
         NEW eps \in SUBSET UNION {Adopted(rs, e, op) : e \in S},
         Names(eps) \subseteq Names(S), Unique(eps)
  PROVE  NewEndpoints(eps)
<1>1. ASSUME NEW x \in eps
      PROVE  \E e \in S : /\ DOMAIN x = EndpointFields /\ x.acl = {}
                          /\ x.name = e.name /\ x.port = e.port
  <2>1. PICK e \in S : x \in Adopted(rs, e, op)
    OBVIOUS
  <2> QED
    BY <2>1, AdoptedIs DEF NewEndpoints
<1>2. Apart(eps)
  <2> SUFFICES ASSUME NEW x \in eps, NEW y \in eps, x.name = y.name \/ x.port = y.port
               PROVE  x = y
    BY DEF Apart
  <2>1. PICK e \in S : x.name = e.name /\ x.port = e.port
    BY <1>1
  <2>2. PICK f \in S : y.name = f.name /\ y.port = f.port
    BY <1>1
  <2>3. e = f
    BY <2>1, <2>2 DEF NewEndpoints, Apart
  <2> QED
    BY <2>1, <2>2, <2>3 DEF Unique
<1>3. IsFiniteSet(eps)
  <2> DEFINE g == [x \in eps |-> x.name]
  <2>1. g \in Injection(eps, Names(S))
    BY DEF Injection, IsInjective, Names, Unique
  <2>2. IsFiniteSet(Names(S))
    BY NamesCount DEF NewEndpoints
  <2> HIDE DEF g
  <2> QED
    BY <2>1, <2>2, FS_Injection
<1> QED
  BY <1>1, <1>2, <1>3 DEF NewEndpoints

LEMMA DistinctIsApart ==
  ASSUME NEW S, IsFiniteSet(S), Distinct(S)
  PROVE  Apart(S)
<1>1. \A e, f \in S : e.name = f.name => e = f
  BY NamesCount DEF Distinct
<1>2. \A e, f \in S : e.port = f.port => e = f
  BY PortsCount DEF Distinct
<1> QED
  BY <1>1, <1>2 DEF Apart

LEMMA GivenEndpoints ==
  ASSUME NEW c \in Commands, Creates(c), Distinct(c.eps)
  PROVE  NewEndpoints(c.eps)
<1>1. IsFiniteSet(c.eps) /\ \A e \in c.eps :
             e = Endpoint(e.name, e.port, e.set, e.probe, e.dsr, e.idle)
  BY CommandsAssumption
<1>2. \A e \in c.eps : DOMAIN e = EndpointFields /\ e.acl = {}
  BY <1>1 DEF Endpoint, EndpointFields
<1> QED
  BY <1>1, <1>2, DistinctIsApart DEF NewEndpoints

LEMMA ListsQuietly ==
  ASSUME IInv, NEW p \in Procs, NEW c \in Commands, List(p, c)
  PROVE  \E q : Quiet(p, q)
<1>1. /\ roles' = roles /\ proc[p].step = "idle"
      /\ proc[p].runs + 1 \in 0 .. MaxRuns
  BY RunsOneMore DEF List, Idle
<1>2. CASE ~Distinct(NewEps(c)) \/ \E e \in NewEps(c) : e.set \in OwnSets(c)
  <2> DEFINE q == [step |-> "idle", runs |-> proc[p].runs + 1, result |-> "error"]
  <2>1. proc' = [proc EXCEPT ![p] = q]
    BY <1>2 DEF List, IInv, ProcsOk
  <2>2. q.step = "idle" /\ q.runs = proc[p].runs + 1 /\ q.result = "error"
    OBVIOUS
  <2> HIDE DEF q
  <2>3. ProcOk(q)
    BY <1>1, <2>2 DEF ProcOk, IdleOk
  <2>4. Quiet(p, q)
    BY <1>1, <2>1, <2>2, <2>3 DEF Quiet
  <2> QED
    BY <2>4
<1>3. CASE ~(~Distinct(NewEps(c)) \/ \E e \in NewEps(c) : e.set \in OwnSets(c))
  <2>1. PICK eps \in SUBSET UNION {Adopted(roles, e, c.op) : e \in NewEps(c)} :
          /\ Names(eps) = Names(NewEps(c)) /\ Unique(eps)
          /\ proc' = [proc EXCEPT ![p] =
               [step |-> "read", runs |-> @.runs + 1,
                cmd |-> IF Creates(c) THEN [c EXCEPT !.eps = eps] ELSE c]]
    BY <1>3 DEF List
  <2> DEFINE d == IF Creates(c) THEN [c EXCEPT !.eps = eps] ELSE c
             q == [step |-> "read", runs |-> proc[p].runs + 1, cmd |-> d]
  <2>2. proc' = [proc EXCEPT ![p] = q]
    BY <2>1 DEF IInv, ProcsOk
  <2>3. Settled(d)
    <3>1. CASE Creates(c)
      <4>1. NewEps(c) = c.eps /\ Distinct(c.eps)
        BY <1>3, <3>1 DEF NewEps
      <4>2. NewEndpoints(eps)
        BY <2>1, <3>1, <4>1, GivenEndpoints, AdoptedStayApart
      <4>3. /\ d.eps = eps /\ d.vm = c.vm /\ c.vm \in VMs /\ Creates(d)
            /\ "debug" \notin DOMAIN d
        BY <3>1, CommandsAssumption DEF Creates
      <4> HIDE DEF d
      <4> QED
        BY <4>2, <4>3 DEF Settled, Given
    <3>2. CASE ~Creates(c)
      BY <3>2, CommandsAssumption DEF Settled, Given
    <3> QED
      BY <3>1, <3>2
  <2> HIDE DEF d
  <2>4. q.step = "read" /\ q.runs = proc[p].runs + 1 /\ q.cmd = d
    OBVIOUS
  <2> HIDE DEF q
  <2>5. ProcOk(q)
    BY <1>1, <2>3, <2>4 DEF ProcOk
  <2>6. Quiet(p, q)
    BY <1>1, <2>2, <2>4, <2>5 DEF Quiet
  <2> QED
    BY <2>6
<1> QED
  BY <1>2, <1>3
-----------------------------------------------------------------------------
LEMMA FailsQuietly ==
  ASSUME IInv, NEW p \in Procs, ReadFails(p) \/ WriteFails(p) \/ Decline(p)
  PROVE  \E q : Quiet(p, q)
<1>1. CASE ReadFails(p) \/ WriteFails(p)
  BY <1>1, EndsQuietly DEF ReadFails, WriteFails
<1>2. CASE Decline(p)
  BY <1>2, EndsQuietly DEF Decline
<1> QED
  BY <1>1, <1>2

LEMMA ConfirmsQuietly ==
  ASSUME IInv, NEW p \in Procs, Confirm(p)
  PROVE  \E q : Quiet(p, q)
<1> DEFINE q == [proc[p] EXCEPT !.step = "write"]
<1>1. proc' = [proc EXCEPT ![p] = q] /\ roles' = roles /\ proc[p].step = "confirm"
  BY DEF Confirm, IInv, ProcsOk
<1>2. WriteOk(proc[p]) /\ proc[p].runs \in 0 .. MaxRuns
  BY <1>1 DEF IInv, ProcsOk, ProcOk
<1>3. /\ DOMAIN q = {"step", "runs", "cmd", "base", "copy"}
      /\ q.step = "write" /\ q.runs = proc[p].runs /\ q.cmd = proc[p].cmd
      /\ q.base = proc[p].base /\ q.copy = proc[p].copy
  BY <1>2 DEF WriteOk
<1> HIDE DEF q
<1>4. WriteOk(q)
  BY <1>2, <1>3 DEF WriteOk
<1>5. ProcOk(q)
  BY <1>2, <1>3, <1>4 DEF ProcOk
<1>6. Quiet(p, q)
  BY <1>1, <1>3, <1>5 DEF Quiet
<1> QED
  BY <1>6

LEMMA DisksQuietly ==
  ASSUME IInv, NEW p \in Procs, NEW c \in Commands,
         AttachDisk(p, c) \/ DetachDisk(p, c) \/ UpdateDataDisk(p, c)
  PROVE  \E q : Quiet(p, q)
<1>1. /\ roles' = roles /\ proc[p].step = "idle"
      /\ proc[p].runs + 1 \in 0 .. MaxRuns
  BY RunsOneMore DEF AttachDisk, DetachDisk, UpdateDataDisk, Disk, Idle
<1>2. ASSUME NEW result \in {"ok", "error"},
             proc' = [proc EXCEPT ![p] =
                        [step |-> "idle", runs |-> @.runs + 1, result |-> result]]
      PROVE  \E q : Quiet(p, q)
  <2> DEFINE q == [step |-> "idle", runs |-> proc[p].runs + 1, result |-> result]
  <2>1. proc' = [proc EXCEPT ![p] = q]
    BY <1>2 DEF IInv, ProcsOk
  <2>2. q.step = "idle" /\ q.runs = proc[p].runs + 1 /\ q.result = result
    OBVIOUS
  <2> HIDE DEF q
  <2>3. ProcOk(q)
    BY <1>1, <2>2 DEF ProcOk, IdleOk
  <2>4. Quiet(p, q)
    BY <1>1, <2>1, <2>2, <2>3 DEF Quiet
  <2> QED
    BY <2>4
<1>3. ASSUME NEW lun, c.op \in {"attach", "detach", "updateDisk"},
             c.op = "attach" => lun = NextLun(roles[c.vm].disks), Disk(p, c, lun)
      PROVE  \E q : Quiet(p, q)
  <2>1. CASE Capitals(c)
    BY <1>3, <2>1, <1>2 DEF Disk
  <2>2. CASE ~Capitals(c)
    <3> DEFINE base == roles[c.vm]
               q == [step |-> "disk", runs |-> proc[p].runs + 1, cmd |-> c, base |-> base, lun |-> lun]
    <3>1. proc' = [proc EXCEPT ![p] = q]
      BY <1>3, <2>2 DEF Disk, IInv, ProcsOk
    <3>2. c.vm \in VMs /\ Sound(base)
      BY CommandsAssumption DEF IInv, RolesOk
    <3>3. c.op = "attach" => lun \in Nat /\ lun \notin base.disks
      BY <1>3, <3>2, NextLunIsFree DEF Sound, IsRole
    <3> HIDE DEF base
    <3>4. /\ q.step = "disk" /\ q.runs = proc[p].runs + 1 /\ q.cmd = c
          /\ q.base = base /\ q.lun = lun
      OBVIOUS
    <3> HIDE DEF q
    <3>5. ProcOk(q)
      BY <1>1, <1>3, <3>2, <3>3, <3>4 DEF ProcOk, DiskOk
    <3>6. Quiet(p, q)
      BY <1>1, <3>1, <3>4, <3>5 DEF Quiet
    <3> QED
      BY <3>6
  <2> QED
    BY <2>1, <2>2
<1>4. CASE AttachDisk(p, c)
  BY <1>3, <1>4 DEF AttachDisk
<1>5. CASE DetachDisk(p, c)
  BY <1>3, <1>5 DEF DetachDisk
<1>6. CASE UpdateDataDisk(p, c)
  <2>1. CASE Capitals(c) \/ c.lun \in roles[c.vm].disks
    BY <1>3, <1>6, <2>1 DEF UpdateDataDisk
  <2>2. CASE ~(Capitals(c) \/ c.lun \in roles[c.vm].disks)
    BY <1>2, <1>6, <2>2 DEF UpdateDataDisk
  <2> QED
    BY <2>1, <2>2
<1> QED
  BY <1>4, <1>5, <1>6
-----------------------------------------------------------------------------
(* updateLoadBalancedEndpointSet(): the members of the set get the rules and *)
(* keep the rest.                                                            *)
LEMMA WithRulesIs ==
  ASSUME NEW r, Sound(r), NEW e, IsFiniteSet(e.acl), RulesApart(e.acl)
  PROVE  LET s == WithRules(r, e)
         IN  /\ Sound(s)
             /\ \A x \in Things(r) \ Things(s) : x[1] = "rule"
             /\ s.debug = r.debug
<1> DEFINE g == [x \in r.eps |-> IF x.set = e.set THEN [x EXCEPT !.acl = e.acl] ELSE x]
           eps == {IF x.set = e.set THEN [x EXCEPT !.acl = e.acl] ELSE x : x \in r.eps}
           s == [r EXCEPT !.eps = eps]
<1>1. WithRules(r, e) = s
  BY DEF WithRules
<1>2. \A x \in r.eps : g[x] \in eps
  OBVIOUS
<1>3. \A y \in eps : \E x \in r.eps : y = g[x]
  OBVIOUS
<1>4. ASSUME NEW x \in r.eps
      PROVE  /\ DOMAIN g[x] = EndpointFields /\ g[x].name = x.name /\ g[x].port = x.port
             /\ g[x].set = x.set
             /\ g[x].acl = IF x.set = e.set THEN e.acl ELSE x.acl
  BY DEF Sound, IsRole, EndpointFields
<1>5. DOMAIN g = r.eps
  OBVIOUS
<1>6. g \in [r.eps -> eps]
  OBVIOUS
<1> HIDE DEF g, eps
<1>7. GoodEps(eps)
  <2>1. g \in Surjection(r.eps, eps)
    BY <1>3, <1>6 DEF Surjection
  <2>2. IsFiniteSet(eps)
    BY <2>1, FS_Surjection DEF Sound, IsRole
  <2>3. Apart(eps)
    BY <1>3, <1>4 DEF Apart, Sound
  <2>4. \A y \in eps : DOMAIN y = EndpointFields /\ IsFiniteSet(y.acl) /\ RulesApart(y.acl)
    BY <1>3, <1>4 DEF Sound, IsRole
  <2> QED
    BY <2>2, <2>3, <2>4 DEF GoodEps
<1> DEFINE T == {x \in Things(r) : x[1] = "rule"}
<1>8. KeepsEps(r.eps, eps, T)
  <2>1. \A x \in r.eps : x.name \in Names(eps)
    BY <1>2, <1>4 DEF Names
  <2>2. \A x \in r.eps : \A o \in Orders(x.acl) : <<"rule", x.name, o>> \in T
    BY ThingsAre DEF Sound, IsRole
  <2> HIDE DEF T
  <2> QED
    BY <2>1, <2>2 DEF KeepsEps
<1> HIDE DEF T
<1>9. Sound(s) /\ Things(r) \ Things(s) \subseteq T
  BY <1>7, <1>8, EditedEps
<1>10. s.debug = r.debug
  BY RoleFields DEF Sound, IsRole
<1> HIDE DEF s
<1>11. \A x \in Things(r) \ Things(s) : x[1] = "rule"
  BY <1>9 DEF T
<1> QED
  BY <1>1, <1>9, <1>10, <1>11

(* What the service has once a role has been written to it.                  *)
LEMMA StoredIs ==
  ASSUME IInv, NEW p \in Procs, proc[p].step = "write", NEW rs \in Stored(p)
  PROVE  LET c == proc[p].cmd
         IN  \/ rs = [roles EXCEPT ![c.vm] = proc[p].copy]
             \/ InSet(c, proc[p].base) /\ rs = roles
             \/ \E e \in proc[p].copy.eps :
                  /\ InSet(c, proc[p].base) /\ c.op = "createAcl"
                  /\ rs = [v \in VMs |-> WithRules(roles[v], e)]
<1> DEFINE c == proc[p].cmd
           in == {e \in proc[p].copy.eps : c.op \in AclOps /\ e.name = c.name /\ e.set # NoSet}
           shared == {[v \in VMs |-> WithRules(roles[v], e)] : e \in {x \in in : c.op = "createAcl"}}
<1>1. CASE in = {}
  BY <1>1 DEF Stored
<1>2. CASE in # {}
  <2>1. rs = roles \/ rs \in shared
    BY <1>2 DEF Stored
  <2>2. PICK e \in in : TRUE
    BY <1>2
  <2>3. Edits(c, proc[p].base, proc[p].copy)
    BY DEF IInv, ProcsOk, ProcOk, WriteOk
  <2>4. SetsOf(proc[p].base, c.name) = SetsOf(proc[p].copy, c.name)
    BY <2>2, <2>3 DEF Edits
  <2>5. e.set \in SetsOf(proc[p].copy, c.name) /\ e.set # NoSet
    BY <2>2 DEF SetsOf
  <2>6. InSet(c, proc[p].base)
    BY <2>2, <2>4, <2>5 DEF InSet
  <2> QED
    BY <2>1, <2>6
<1> QED
  BY <1>1, <1>2

LEMMA Writing ==
  ASSUME IInv, NEW p \in Procs, proc[p].step = "write"
  PROVE  /\ proc[p].cmd.vm \in VMs /\ Sound(roles[proc[p].cmd.vm])
         /\ Edits(proc[p].cmd, proc[p].base, proc[p].copy)
         /\ proc[p].copy.debug =
              IF "debug" \in DOMAIN proc[p].cmd THEN proc[p].cmd.debug ELSE "none"
         /\ Given(proc[p].cmd)
         /\ proc[p].runs \in 0 .. MaxRuns
BY DEF IInv, ProcsOk, RolesOk, ProcOk, WriteOk

LEMMA RulesOfCopy ==
  ASSUME NEW copy, Sound(copy), NEW e \in copy.eps
  PROVE  IsFiniteSet(e.acl) /\ RulesApart(e.acl)
BY DEF Sound, IsRole

LEMMA WriteKeeps ==
  ASSUME IInv, NEW p \in Procs, Write(p)
  PROVE  IInv'
<1> DEFINE c == proc[p].cmd
<1>1. proc[p].step = "write" /\ roles' \in Stored(p)
  BY DEF Write
<1>2. c.vm \in VMs /\ Edits(c, proc[p].base, proc[p].copy) /\ proc[p].runs \in 0 .. MaxRuns
  BY <1>1, Writing
<1>3. RolesOk'
  <2>1. CASE roles' = [roles EXCEPT ![c.vm] = proc[p].copy]
    BY <1>2, <2>1 DEF IInv, RolesOk, Edits
  <2>2. CASE roles' = roles
    BY <2>2 DEF IInv, RolesOk
  <2>3. CASE \E e \in proc[p].copy.eps : roles' = [v \in VMs |-> WithRules(roles[v], e)]
    <3>1. PICK e \in proc[p].copy.eps : roles' = [v \in VMs |-> WithRules(roles[v], e)]
      BY <2>3
    <3>2. IsFiniteSet(e.acl) /\ RulesApart(e.acl)
      BY <1>2, RulesOfCopy DEF Edits
    <3>3. \A v \in VMs : Sound(WithRules(roles[v], e))
      BY <3>2, WithRulesIs DEF IInv, RolesOk
    <3> QED
      BY <3>1, <3>3 DEF RolesOk
  <2> QED
    BY <1>1, <2>1, <2>2, <2>3, StoredIs
<1>4. PICK result \in {"ok", "error"} :
        proc' = [proc EXCEPT ![p] = [step |-> "idle", runs |-> @.runs, result |-> result]]
  BY DEF Write
<1> DEFINE q == [step |-> "idle", runs |-> proc[p].runs, result |-> result]
<1>5. proc' = [proc EXCEPT ![p] = q]
  BY <1>4 DEF IInv, ProcsOk
<1>6. q.step = "idle" /\ q.runs = proc[p].runs /\ q.result = result
  OBVIOUS
<1> HIDE DEF q
<1>7. ProcOk(q)
  BY <1>2, <1>6 DEF ProcOk, IdleOk
<1>8. ProcsOk'
  BY <1>5, <1>7 DEF IInv, ProcsOk
<1> QED
  BY <1>3, <1>8 DEF IInv

LEMMA AnswerKeeps ==
  ASSUME IInv, NEW p \in Procs, DiskAnswered(p)
  PROVE  IInv'
<1> DEFINE vm == proc[p].cmd.vm
           lun == proc[p].lun
           op == proc[p].cmd.op
           refused == (op = "attach") <=> lun \in roles[vm].disks
           disks == IF refused \/ op = "updateDisk" THEN roles[vm].disks
                    ELSE IF op = "attach" THEN roles[vm].disks \cup {lun}
                    ELSE roles[vm].disks \ {lun}
<1>1. DiskOk(proc[p]) /\ proc[p].runs \in 0 .. MaxRuns
  BY DEF DiskAnswered, IInv, ProcsOk, ProcOk
<1>2. vm \in VMs /\ Sound(roles[vm])
  BY <1>1 DEF DiskOk, IInv, RolesOk
<1>3. disks \subseteq Nat /\ IsFiniteSet(disks)
  <2>1. roles[vm].disks \subseteq Nat /\ IsFiniteSet(roles[vm].disks)
    BY <1>2 DEF Sound, IsRole
  <2>2. IsFiniteSet(roles[vm].disks \cup {lun}) /\ IsFiniteSet(roles[vm].disks \ {lun})
    BY <2>1, FS_AddElement, FS_RemoveElement
  <2>3. op = "attach" => lun \in Nat
    BY <1>1 DEF DiskOk
  <2> QED
    BY <2>1, <2>2, <2>3
<1>4. roles' = [roles EXCEPT ![vm] = [roles[vm] EXCEPT !.disks = disks]]
  BY <1>2 DEF DiskAnswered, IInv, RolesOk
<1> PICK result \in {"refused", "ok", "error"} :
         proc' = [proc EXCEPT ![p] = [step |-> "idle", runs |-> @.runs, result |-> result]]
  BY DEF DiskAnswered
<1> DEFINE q == [step |-> "idle", runs |-> proc[p].runs, result |-> result]
<1>5. proc' = [proc EXCEPT ![p] = q]
  BY DEF IInv, ProcsOk
<1>6. q.step = "idle" /\ q.runs = proc[p].runs /\ q.result = result
  OBVIOUS
<1> HIDE DEF disks, q, vm
<1>7. Sound([roles[vm] EXCEPT !.disks = disks])
  <2> DEFINE r == roles[vm]
             s == [r EXCEPT !.disks = disks]
  <2>1. /\ DOMAIN s = DOMAIN r /\ s.disks = disks /\ s.eps = r.eps /\ s.ips = r.ips
        /\ s.static = r.static /\ s.nics = r.nics /\ s.exts = r.exts
    BY <1>2, RoleFields DEF Sound, IsRole
  <2> HIDE DEF s
  <2>2. Sound(s)
    BY <1>2, <1>3, <2>1 DEF Sound, IsRole
  <2> QED
    BY <2>2 DEF s
<1>8. RolesOk'
  BY <1>2, <1>4, <1>7 DEF IInv, RolesOk
<1>9. ProcOk(q)
  BY <1>1, <1>6 DEF ProcOk, IdleOk
<1>10. ProcsOk'
  BY <1>5, <1>9 DEF IInv, ProcsOk
<1> QED
  BY <1>8, <1>10 DEF IInv
-----------------------------------------------------------------------------
(* Every step is quiet but the two that reach the service.                   *)
LEMMA StepIs ==
  ASSUME IInv, Next
  PROVE  \E p \in Procs : (\E q : Quiet(p, q)) \/ Write(p) \/ DiskAnswered(p)
<1>1. ASSUME NEW p \in Procs, NEW c \in Commands,
             \/ List(p, c) \/ SetVM(p, c) \/ SetExtension(p, c) \/ SetChefExtension(p, c)
             \/ AttachDisk(p, c) \/ DetachDisk(p, c) \/ UpdateDataDisk(p, c)
      PROVE  \E q : Quiet(p, q)
  BY <1>1, ListsQuietly, OthersStartQuietly, DisksQuietly
<1>2. ASSUME NEW p \in Procs,
             \/ ReadFails(p) \/ CreateEP(p) \/ CreateMultipleEP(p) \/ DeleteEP(p) \/ SetEP(p)
             \/ CreateEPAclRule(p) \/ DeleteEPAclRule(p) \/ UpdateEPAclRule(p)
             \/ SetStaticIP(p) \/ RemoveStaticIP(p) \/ SetPublicIP(p) \/ RemovePublicIP(p)
             \/ AddNic(p) \/ Confirm(p) \/ Decline(p) \/ WriteFails(p)
      PROVE  \E q : Quiet(p, q)
  BY <1>2, FailsQuietly, AddsQuietly, DeletesQuietly, SetsQuietly, CreatesRuleQuietly,
     DeletesRuleQuietly, UpdatesRuleQuietly, StaticQuietly, PublicQuietly, NicQuietly,
     ConfirmsQuietly
<1> QED
  BY <1>1, <1>2 DEF Next

LEMMA InitIsOk ==
  ASSUME Init
  PROVE  IInv
<1>1. RolesOk
  BY InitialRolesAssumption, SoundIsValid DEF Init, RolesOk
<1>2. ProcsOk
  BY MaxRunsAssumption DEF Init, ProcsOk, ProcOk, IdleOk
<1> QED
  BY <1>1, <1>2 DEF IInv

LEMMA StepKeeps ==
  ASSUME IInv, [Next]_vars
  PROVE  IInv'
<1>1. ASSUME NEW p \in Procs, NEW q, Quiet(p, q)
      PROVE  IInv'
  BY <1>1 DEF Quiet, IInv, RolesOk, ProcsOk
<1>2. CASE UNCHANGED vars
  BY <1>2 DEF vars, IInv, RolesOk, ProcsOk
<1>3. CASE Next
  BY <1>1, <1>3, StepIs, WriteKeeps, AnswerKeeps
<1> QED
  BY <1>2, <1>3

(* Every role of the service and every copy that a process is about to write *)
(* is valid, and each copy does to its base what the command asks for, but   *)
(* for what the command loses (Forgets), and takes away no more than it asks *)
(* for and the debug settings.                                               *)
THEOREM Inductive == Spec => []IInv
<1>1. Init => IInv
  BY InitIsOk
<1>2. IInv /\ [Next]_vars => IInv'
  BY StepKeeps
<1> QED
  BY <1>1, <1>2, PTL DEF Spec

(* The types of the roles and of what the processes are at.                  *)
THEOREM TypeCorrect == Spec => []TypeOK
<1>1. IInv => TypeOK
  BY DEF IInv, RolesOk, ProcsOk, Sound, ProcOk, IdleOk, WriteOk, DiskOk, Settled, TypeOK, Idle
<1> QED
  BY <1>1, Inductive, PTL

(* The service never holds a role with a name, a port or an order twice,     *)
(* although every command checks a copy that others may have replaced since. *)
THEOREM RolesStayValid == Spec => []RoleStaysValid
<1>1. IInv => RoleStaysValid
  BY SoundIsValid DEF IInv, RolesOk, RoleStaysValid
<1> QED
  BY <1>1, Inductive, PTL
-----------------------------------------------------------------------------
(* A step that ends the write of a process.                                  *)
LEMMA WriteEnds ==
  ASSUME IInv, Next, NEW p \in Procs, proc[p].step = "write", proc'[p].step = "idle"
  PROVE  Write(p) \/ \E q : Quiet(p, q)
<1>1. PICK o \in Procs : (\E q : Quiet(o, q)) \/ Write(o) \/ DiskAnswered(o)
  BY StepIs
<1>2. \E q : proc' = [proc EXCEPT ![o] = q]
  BY <1>1 DEF Quiet, Write, DiskAnswered
<1>3. o = p
  BY <1>2 DEF IInv, ProcsOk
<1>4. ~DiskAnswered(p)
  BY DEF DiskAnswered
<1> QED
  BY <1>1, <1>3, <1>4

(* What p has written has lost only what the command takes away or what has  *)
(* come since the base was read.                                             *)
LostByOverlap(p) ==
  LET c == proc[p].cmd
      lost == Parts(roles[c.vm]) \ Parts(roles'[c.vm])
      others == {x \in lost : x[1] = "rule" /\ c.op = "createAcl" /\ InSet(c, proc[p].base)}
  IN  lost \ others \subseteq
        (Parts(roles[c.vm]) \ Parts(proc[p].base)) \cup TakesAway(c, proc[p].base)

LEMMA WriteLoses ==
  ASSUME IInv, NEW p \in Procs, Write(p)
  PROVE  LostByOverlap(p)
<1> DEFINE c == proc[p].cmd
           base == proc[p].base
           now == roles[c.vm]
           then == roles'[c.vm]
           T == TakesAway(c, base)
<1>1. proc[p].step = "write" /\ roles' \in Stored(p)
  BY DEF Write
<1>2. /\ c.vm \in VMs /\ Edits(c, base, proc[p].copy) /\ Sound(now) /\ Given(c)
      /\ proc[p].copy.debug = IF "debug" \in DOMAIN c THEN c.debug ELSE "none"
  BY <1>1, Writing
<1>3. ASSUME NEW x \in Parts(now) \ Parts(then),
             ~(x[1] = "rule" /\ c.op = "createAcl" /\ InSet(c, base))
      PROVE  x \notin Parts(base) \/ x \in T
  <2>1. CASE roles' = [roles EXCEPT ![c.vm] = proc[p].copy]
    <3>1. then = proc[p].copy
      BY <1>2, <2>1 DEF IInv, RolesOk
    <3>2. CASE x = <<"diagnostics">>
      <4>1. then.debug = "none"
        BY <1>3, <3>2 DEF Parts
      <4>2. "debug" \notin DOMAIN c
        BY <1>2, <3>1, <4>1, CommandsAssumption DEF Given
      <4> QED
        BY <3>2, <4>2 DEF TakesAway
    <3>3. CASE x # <<"diagnostics">>
      <4>1. \A r : x \in Parts(r) <=> x \in Things(r)
        BY <3>3 DEF Parts
      <4>2. x \in Things(base) => x \in Removes(c, base)
        BY <1>2, <1>3, <3>1, <4>1 DEF Edits
      <4> QED
        BY <4>1, <4>2 DEF TakesAway
    <3> QED
      BY <3>2, <3>3
  <2>2. CASE roles' = roles
    BY <1>3, <2>2
  <2>3. CASE \E e \in proc[p].copy.eps :
               /\ InSet(c, base) /\ c.op = "createAcl"
               /\ roles' = [v \in VMs |-> WithRules(roles[v], e)]
    <3>1. PICK e \in proc[p].copy.eps :
            /\ InSet(c, base) /\ c.op = "createAcl"
            /\ roles' = [v \in VMs |-> WithRules(roles[v], e)]
      BY <2>3
    <3>2. then = WithRules(now, e)
      BY <1>2, <3>1
    <3>3. IsFiniteSet(e.acl) /\ RulesApart(e.acl)
      BY <1>2, RulesOfCopy DEF Edits
    <3>4. /\ \A y \in Things(now) \ Things(then) : y[1] = "rule"
          /\ then.debug = now.debug
      BY <1>2, <3>2, <3>3, WithRulesIs
    <3>5. x \in Things(now) \ Things(then)
      BY <1>3, <3>4 DEF Parts
    <3> QED
      BY <1>3, <3>1, <3>4, <3>5
  <2> QED
    BY <1>1, <2>1, <2>2, <2>3, StoredIs
<1> HIDE DEF now, then, T, base
<1>4. LET lost == Parts(now) \ Parts(then)
          others == {x \in lost : x[1] = "rule" /\ c.op = "createAcl" /\ InSet(c, base)}
      IN  lost \ others \subseteq (Parts(now) \ Parts(base)) \cup T
  BY <1>3
<1> QED
  BY <1>4 DEF LostByOverlap, now, then, T, base

(* A process takes something away from a VM only when its command says so,   *)
(* or when it came after the process had read the role, but for the boot     *)
(* diagnostics and the rules of the other members of a set.                  *)
THEOREM LostOnlyWhenOverlapped == Spec => LostOnlyByOverlap
<1> DEFINE Safe == \A p \in Procs : proc[p].step = "write" /\ proc'[p].step = "idle" =>
                                      LostByOverlap(p)
<1>1. ASSUME IInv, [Next]_vars
      PROVE  Safe
  <2> SUFFICES ASSUME NEW p \in Procs, proc[p].step = "write", proc'[p].step = "idle"
               PROVE  LostByOverlap(p)
    OBVIOUS
  <2>1. Next
    BY <1>1 DEF vars
  <2>2. CASE Write(p)
    BY <1>1, <2>2, WriteLoses
  <2>3. CASE roles' = roles
    BY <2>3 DEF LostByOverlap
  <2> QED
    BY <1>1, <2>1, <2>2, <2>3, WriteEnds DEF Quiet
<1>2. Safe => \A p \in Procs :
        proc[p].step = "write" /\ proc'[p].step = "idle" =>
          LET c == proc[p].cmd
              lost == Parts(roles[c.vm]) \ Parts(roles'[c.vm])
              others == {x \in lost : x[1] = "rule" /\ c.op = "createAcl" /\ InSet(c, proc[p].base)}
          IN  lost \ others \subseteq
                (Parts(roles[c.vm]) \ Parts(proc[p].base)) \cup TakesAway(c, proc[p].base)
  BY DEF LostByOverlap
<1> QED
  BY <1>1, <1>2, Inductive, PTL DEF Spec, LostOnlyByOverlap
-----------------------------------------------------------------------------
(* What p was asked to do is done, but for what the command may lose itself. *)
AchievedBy(p) ==
  Missing(p, roles'[proc[p].cmd.vm]) \subseteq Forgets(proc[p].cmd, proc[p].base)

LEMMA RulesLacking ==
  ASSUME NEW c, NEW base, InSet(c, base), NEW r
  PROVE  Lacks(c, r) \subseteq Forgets(c, base)
<1>1. Lacks(c, r) \subseteq {"rule"}
  BY DEF InSet, AclOps, Lacks, Unless, Creates
<1>2. Forgets(c, base) = {"rule"}
  BY DEF InSet, AclOps, Forgets, Creates
<1> QED
  BY <1>1, <1>2

LEMMA WriteAchieves ==
  ASSUME IInv, NEW p \in Procs, Write(p)
  PROVE  AchievedBy(p)
<1> DEFINE c == proc[p].cmd
           base == proc[p].base
           copy == proc[p].copy
           then == roles'[c.vm]
<1>1. proc[p].step = "write" /\ roles' \in Stored(p)
  BY DEF Write
<1>2. /\ c.vm \in VMs /\ Edits(c, base, copy)
      /\ copy.debug = IF "debug" \in DOMAIN c THEN c.debug ELSE "none"
  BY <1>1, Writing
<1>3. Missing(p, then) = Lacks(c, then)
  BY <1>1 DEF Missing
<1>4. CASE roles' = [roles EXCEPT ![c.vm] = copy]
  <2>1. then = copy
    BY <1>2, <1>4 DEF IInv, RolesOk
  <2>2. CASE c.op = "setVM"
    <3>1. Lacks(c, copy) = {}
      BY <1>2, <2>2 DEF Lacks, Unless, Creates
    <3> QED
      BY <1>3, <2>1, <3>1 DEF AchievedBy
  <2>3. CASE c.op # "setVM"
    BY <1>2, <1>3, <2>1, <2>3 DEF AchievedBy, Edits
  <2> QED
    BY <2>2, <2>3
<1>5. CASE InSet(c, base)
  BY <1>3, <1>5, RulesLacking DEF AchievedBy
<1> QED
  BY <1>1, <1>4, <1>5, StoredIs

LEMMA AnswerAchieves ==
  ASSUME IInv, NEW p \in Procs, DiskAnswered(p), EndsWell(p)
  PROVE  AchievedBy(p)
<1> DEFINE q == proc[p]
           vm == q.cmd.vm
           refused == (q.cmd.op = "attach") <=> q.lun \in roles[vm].disks
<1>1. q.step = "disk" /\ DiskOk(q) /\ vm \in VMs
  BY DEF DiskAnswered, IInv, ProcsOk, ProcOk, DiskOk
<1>2. ~refused
  BY DEF DiskAnswered, EndsWell, IInv, ProcsOk
<1>3. roles'[vm].disks = IF q.cmd.op = "updateDisk" THEN roles[vm].disks
                         ELSE IF q.cmd.op = "attach" THEN roles[vm].disks \cup {q.lun}
                         ELSE roles[vm].disks \ {q.lun}
  <2>1. Sound(roles[vm])
    BY <1>1 DEF IInv, RolesOk
  <2> QED
    BY <1>1, <1>2, <2>1, RoleFields DEF DiskAnswered, IInv, RolesOk, Sound, IsRole
<1>4. Missing(p, roles'[vm]) = {}
  BY <1>1, <1>3 DEF Missing, Unless, DiskOk
<1> QED
  BY <1>4 DEF AchievedBy

(* A command that ends well leaves the VM as it was asked to, but for what   *)
(* the command loses itself, whatever others have written.                   *)
THEOREM SuccessIsReal == Spec => SuccessMeansAchieved
<1>1. ASSUME IInv, [Next]_vars, NEW p \in Procs, EndsWell(p)
      PROVE  AchievedBy(p)
  <2>1. proc'[p].step = "idle" /\ Next
    BY <1>1 DEF EndsWell, Idle, vars
  <2>2. PICK o \in Procs : (\E q : Quiet(o, q)) \/ Write(o) \/ DiskAnswered(o)
    BY <1>1, <2>1, StepIs
  <2>3. o = p
    <3>1. \E q : proc' = [proc EXCEPT ![o] = q]
      BY <2>2 DEF Quiet, Write, DiskAnswered
    <3> QED
      BY <1>1, <2>1, <3>1 DEF EndsWell, IInv, ProcsOk
  <2>4. CASE \E q : Quiet(p, q)
    <3>1. PICK q : Quiet(p, q)
      BY <2>4
    <3>2. proc'[p] = q
      BY <1>1, <3>1 DEF Quiet, IInv, ProcsOk
    <3>3. proc[p].step \in {"read", "write"} /\ Lacks(proc[p].cmd, roles[proc[p].cmd.vm]) = {}
      BY <1>1, <2>1, <3>1, <3>2 DEF Quiet, EndsWell
    <3>4. Missing(p, roles'[proc[p].cmd.vm]) = {}
      BY <3>1, <3>3 DEF Quiet, Missing
    <3> QED
      BY <3>4 DEF AchievedBy
  <2>5. CASE Write(p)
    BY <1>1, <2>5, WriteAchieves
  <2>6. CASE DiskAnswered(p)
    BY <1>1, <2>6, AnswerAchieves
  <2> QED
    BY <2>2, <2>3, <2>4, <2>5, <2>6
<1> DEFINE Safe == \A p \in Procs : EndsWell(p) => AchievedBy(p)
<1>2. IInv /\ [Next]_vars => Safe
  BY <1>1
<1>3. Safe => \A p \in Procs : EndsWell(p) =>
        Missing(p, roles'[proc[p].cmd.vm]) \subseteq Forgets(proc[p].cmd, proc[p].base)
  BY DEF AchievedBy
<1> QED
  BY <1>2, <1>3, Inductive, PTL DEF Spec, SuccessMeansAchieved
-----------------------------------------------------------------------------
(* The LUN of a new disk is refused only if the disks of the VM changed      *)
(* after the process had read them.                                          *)
THEOREM LunIsFree == Spec => AttachFindsFreeLun
<1>1. ASSUME IInv, [Next]_vars, NEW p \in Procs,
             proc[p].step = "disk", proc[p].cmd.op = "attach",
             Idle(p)', proc'[p].result = "refused"
      PROVE  roles[proc[p].cmd.vm].disks # proc[p].base.disks
  <2>1. proc'[p].step = "idle" /\ Next
    BY <1>1 DEF Idle, vars
  <2>2. PICK o \in Procs : (\E q : Quiet(o, q)) \/ Write(o) \/ DiskAnswered(o)
    BY <1>1, <2>1, StepIs
  <2>3. o = p
    <3>1. \E q : proc' = [proc EXCEPT ![o] = q]
      BY <2>2 DEF Quiet, Write, DiskAnswered
    <3> QED
      BY <1>1, <2>1, <3>1 DEF IInv, ProcsOk
  <2>4. DiskAnswered(p)
    BY <1>1, <2>2, <2>3 DEF Quiet, Write, IInv, ProcsOk
  <2>5. proc[p].lun \notin proc[p].base.disks
    BY <1>1 DEF IInv, ProcsOk, ProcOk, DiskOk
  <2>6. proc[p].lun \in roles[proc[p].cmd.vm].disks
    BY <1>1, <2>4 DEF DiskAnswered, IInv, ProcsOk
  <2> QED
    BY <2>5, <2>6
<1>2. IInv /\ [Next]_vars =>
        \A p \in Procs :
          /\ proc[p].step = "disk" /\ proc[p].cmd.op = "attach"
          /\ Idle(p)' /\ proc'[p].result = "refused"
          => roles[proc[p].cmd.vm].disks # proc[p].base.disks
  BY <1>1
<1> QED
  BY <1>2, Inductive, PTL DEF Spec, AttachFindsFreeLun
=============================================================================
