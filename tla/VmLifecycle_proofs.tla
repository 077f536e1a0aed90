------------------------- MODULE VmLifecycle_proofs -------------------------
(* Any number of processes that create and delete VMs of one hosted service: *)
(* what a failed command created is taken away, and nothing else is.         *)
EXTENDS VmLifecycle, FiniteSetTheorems, TLAPS

Shape ==
  /\ proc = [p \in Procs |-> proc[p]]
  /\ svc = [exists |-> svc.exists, owner |-> svc.owner, roles |-> svc.roles]
  /\ svc.exists \in BOOLEAN
  /\ IsFiniteSet(svc.roles)

Fields(p) ==
  /\ DOMAIN proc[p] = DOMAIN Fresh
  /\ proc[p].runs \in Nat
  /\ proc[p].created \in BOOLEAN /\ proc[p].found \in BOOLEAN /\ proc[p].image \in BOOLEAN
  /\ proc[p].error \in BOOLEAN /\ proc[p].skipped \in BOOLEAN
  /\ ~At(p, "idle") => proc[p].runs > 0

(* The service is the one that the process's command has created.            *)
Owns(p) == svc.exists /\ svc.owner = Me(p)

(* A command that has created the service did not find it before, and while  *)
(* it runs it is on the way to cmdCallbackHook(); it knows that it has, but  *)
(* for a lost answer; when it has failed, the service is no longer the one   *)
(* it created.                                                               *)
Creator(p) ==
  /\ proc[p].created => proc[p].step \in {"idle", "image", "role", "send", "hook", "rollback"}
  /\ At(p, "create") \/ (proc[p].created /\ ~At(p, "idle")) => ~proc[p].found
  /\ At(p, "rollback") => proc[p].created
  /\ ~At(p, "idle") => "service" \notin proc[p].lost
  /\ Owns(p) => proc[p].created \/ "service" \in proc[p].lost
  /\ At(p, "idle") /\ ~proc[p].skipped /\ proc[p].result = "error"
       /\ "service" \notin proc[p].denied \cup proc[p].lost => ~Owns(p)

(* The community image is there while the command remembers it, or because   *)
(* its deletion was refused or skipped, or because it was reported as failed.*)
Copier(p) ==
  Me(p) \in images =>
    \/ proc[p].step \in {"hook", "rollback", "idle"} /\ "image" \in proc[p].lost
    \/ proc[p].step \in {"role", "send", "hook"} /\ proc[p].image
    \/ At(p, "rollback") /\ "image" \in proc[p].denied
    \/ At(p, "idle") /\ (proc[p].skipped \/ "image" \in proc[p].denied)

(* A deployment is only deleted whole when the VM was its only one.          *)
Deleter(p) ==
  /\ proc[p].step \in {"confirm", "delete role", "delete deployment"} =>
       proc[p].name \in proc[p].seen /\ IsFiniteSet(proc[p].seen)
  /\ At(p, "delete deployment") => Cardinality(proc[p].seen) <= 1

(* No image is of a run to come, and no service.                             *)
Started(i) == \E p \in Procs : \E n \in 1 .. proc[p].runs : i = <<p, n>>
Runs ==
  /\ \A i \in images : Started(i)
  /\ svc.exists => svc.owner = <<>> \/ Started(svc.owner)

Mine(p) == Fields(p) /\ Creator(p) /\ Copier(p) /\ Deleter(p)

IInv == Shape /\ Runs /\ \A p \in Procs : Mine(p)
-----------------------------------------------------------------------------
(* What the ways to change a process's record do to its fields.              *)
LEMMA GoesFields ==
  ASSUME Shape, NEW p \in Procs, Fields(p), NEW r, Goes(p, r)
  PROVE  /\ proc' = [q \in Procs |-> proc'[q]]
         /\ \A q \in Procs \ {p} : proc'[q] = proc[q]
         /\ DOMAIN proc'[p] = DOMAIN Fresh
         /\ \A f \in DOMAIN Fresh : proc'[p][f] = IF f \in DOMAIN r THEN r[f] ELSE proc[p][f]
<1> DEFINE new == [f \in DOMAIN Fresh |-> IF f \in DOMAIN r THEN r[f] ELSE proc[p][f]]
<1>1. proc' = [proc EXCEPT ![p] = new] /\ DOMAIN proc = Procs
  BY DEF Goes, Shape
<1>2. proc'[p] = new /\ proc' = [q \in Procs |-> proc'[q]]
  <2> HIDE DEF new
  <2> QED
    BY <1>1
<1> QED
  BY <1>1, <1>2

LEMMA EndsFields ==
  ASSUME Shape, NEW p \in Procs, Fields(p), NEW result, NEW denied, NEW lost, NEW skipped,
         EndsWith(p, result, denied, lost, skipped)
  PROVE  /\ proc' = [q \in Procs |-> proc'[q]]
         /\ \A q \in Procs \ {p} : proc'[q] = proc[q]
         /\ DOMAIN proc'[p] = DOMAIN Fresh
         /\ proc'[p].step = "idle" /\ proc'[p].runs = proc[p].runs
         /\ proc'[p].created = proc[p].created /\ proc'[p].result = result
         /\ proc'[p].denied = denied /\ proc'[p].lost = lost /\ proc'[p].skipped = skipped
         /\ proc'[p].found = FALSE /\ proc'[p].image = FALSE /\ proc'[p].error = FALSE
<1> DEFINE new == [Fresh EXCEPT
             !.runs = proc[p].runs, !.created = proc[p].created, !.answers = proc[p].answers + 1,
             !.result = result, !.denied = denied, !.lost = lost, !.skipped = skipped]
<1>1. proc' = [proc EXCEPT ![p] = new] /\ DOMAIN proc = Procs
  BY DEF EndsWith, Shape
<1>2. proc'[p] = new /\ proc' = [q \in Procs |-> proc'[q]] /\ \A q \in Procs \ {p} : proc'[q] = proc[q]
  <2> HIDE DEF new
  <2> QED
    BY <1>1
<1>3. /\ DOMAIN new = DOMAIN Fresh
      /\ new.step = "idle" /\ new.runs = proc[p].runs
      /\ new.created = proc[p].created /\ new.result = result
      /\ new.denied = denied /\ new.lost = lost /\ new.skipped = skipped
      /\ new.found = FALSE /\ new.image = FALSE /\ new.error = FALSE
  BY DEF Fresh
<1> QED
  BY <1>2, <1>3

LEMMA OwnerKnows ==
  ASSUME NEW p, Creator(p), ~At(p, "idle"), ~proc[p].created PROVE ~Owns(p)
BY DEF Creator

(* What a step of p does to the service: it is gone, new, or still the same. *)
ServiceMoves(p) ==
  /\ svc' = [exists |-> svc'.exists, owner |-> svc'.owner, roles |-> svc'.roles]
  /\ svc'.exists \in BOOLEAN /\ IsFiniteSet(svc'.roles)
  /\ svc'.exists => \/ svc'.owner = Me(p) /\ proc[p].runs > 0
                    \/ svc.exists /\ svc'.owner = svc.owner

LEMMA ServiceUntouched ==
  ASSUME Shape, NEW p, svc' = svc PROVE ServiceMoves(p)
BY DEF Shape, ServiceMoves

LEMMA ServiceNew ==
  ASSUME NEW p, NEW o, NEW e \in BOOLEAN, e => o = Me(p) /\ proc[p].runs > 0,
         svc' = [exists |-> e, owner |-> o, roles |-> {}]
  PROVE  ServiceMoves(p)
BY FS_EmptySet DEF ServiceMoves

LEMMA ServiceGone ==
  ASSUME NEW p, svc' = NoService PROVE ServiceMoves(p)
BY ServiceNew DEF NoService

LEMMA RolesChange ==
  ASSUME Shape, NEW p, NEW S, IsFiniteSet(S), svc' = [svc EXCEPT !.roles = S]
  PROVE  ServiceMoves(p) /\ svc'.roles = S /\ svc'.exists = svc.exists /\ svc'.owner = svc.owner
<1>1. svc' = [exists |-> svc.exists, owner |-> svc.owner, roles |-> S]
  BY DEF Shape
<1> QED
  BY <1>1 DEF Shape, ServiceMoves

(* A step of p keeps the invariant when it keeps the parts of p: the others  *)
(* only depend on their own images and on their own service.                 *)
LEMMA StepKeeps ==
  ASSUME IInv, NEW p \in Procs,
         proc' = [q \in Procs |-> proc'[q]], \A q \in Procs \ {p} : proc'[q] = proc[q],
         ServiceMoves(p),
         images' \subseteq images \cup {Me(p)},
         proc'[p].runs \in {proc[p].runs, proc[p].runs + 1},
         images' \subseteq images \/ proc[p].runs > 0,
         Mine(p)'
  PROVE  IInv'
<1>1. \A q \in Procs : proc[q].runs \in Nat
  BY DEF IInv, Mine, Fields
<1>2. Shape'
  BY DEF Shape, ServiceMoves
<1>3. Runs'
  <2> DEFINE Later(i) == \E q \in Procs : \E n \in 1 .. proc'[q].runs : i = <<q, n>>
  <2>1. \A i : Started(i) => Later(i)
    <3> SUFFICES ASSUME NEW i, Started(i) PROVE Later(i)
      OBVIOUS
    <3>1. PICK q \in Procs : \E n \in 1 .. proc[q].runs : i = <<q, n>>
      BY DEF Started
    <3>2. proc[q].runs \in Nat /\ proc'[q].runs \in {proc[q].runs, proc[q].runs + 1}
      BY <1>1
    <3>3. 1 .. proc[q].runs \subseteq 1 .. proc'[q].runs
      BY <3>2
    <3> QED
      BY <3>1, <3>3
  <2>2. proc[p].runs > 0 => Started(Me(p))
    BY <1>1 DEF Started, Me
  <2>3. \A i \in images' : Started(i)
    BY <2>2 DEF IInv, Runs
  <2>4. svc'.exists => svc'.owner = <<>> \/ Started(svc'.owner)
    BY <2>2 DEF IInv, Runs, ServiceMoves
  <2>5. (\A i \in images' : Later(i)) /\ (svc'.exists => svc'.owner = <<>> \/ Later(svc'.owner))
    <3> HIDE DEF Later
    <3> QED
      BY <2>1, <2>3, <2>4
  <2> QED
    BY <2>5 DEF Runs, Started
<1>4. ASSUME NEW q \in Procs, q # p PROVE Mine(q)'
  <2>1. proc'[q] = proc[q] /\ Mine(q)
    BY <1>4 DEF IInv
  <2>2. Me(q)' = Me(q) /\ Me(q) # Me(p)
    BY <1>4, <2>1 DEF Me
  <2>3. Me(q) \in images' => Me(q) \in images
    BY <2>2
  <2>4. Owns(q)' => Owns(q)
    BY <2>2 DEF ServiceMoves, Owns
  <2> QED
    BY <2>1, <2>2, <2>3, <2>4 DEF Mine, Fields, Creator, Copier, Deleter, At
<1> QED
  BY <1>2, <1>3, <1>4 DEF IInv

LEMMA GoesKeeps ==
  ASSUME IInv, NEW p \in Procs, NEW r, Goes(p, r), "runs" \notin DOMAIN r,
         \A f \in {"created", "found", "image", "error", "skipped"} \cap DOMAIN r : r[f] \in BOOLEAN,
         ServiceMoves(p),
         images' \subseteq images \cup {Me(p)}, proc[p].step # "idle",
         Creator(p)', Copier(p)', Deleter(p)'
  PROVE  IInv'
<1>1. Shape /\ Fields(p)
  BY DEF IInv, Mine
<1>2. /\ proc' = [q \in Procs |-> proc'[q]]
      /\ \A q \in Procs \ {p} : proc'[q] = proc[q]
      /\ DOMAIN proc'[p] = DOMAIN Fresh
      /\ \A f \in DOMAIN Fresh : proc'[p][f] = IF f \in DOMAIN r THEN r[f] ELSE proc[p][f]
  BY <1>1, GoesFields
<1>3. {"runs", "created", "found", "image", "error", "skipped"} \subseteq DOMAIN Fresh
  BY DEF Fresh
<1>4. /\ proc'[p].runs = proc[p].runs
      /\ proc'[p].created \in BOOLEAN /\ proc'[p].found \in BOOLEAN /\ proc'[p].image \in BOOLEAN
      /\ proc'[p].error \in BOOLEAN /\ proc'[p].skipped \in BOOLEAN
  BY <1>1, <1>2, <1>3 DEF Fields
<1>5. Mine(p)'
  BY <1>1, <1>2, <1>4 DEF Mine, Fields, At
<1> QED
  BY <1>1, <1>2, <1>4, <1>5, StepKeeps DEF Fields, At

LEMMA EndsKeeps ==
  ASSUME IInv, NEW p \in Procs, NEW result, NEW denied, NEW lost, NEW skipped \in BOOLEAN,
         EndsWith(p, result, denied, lost, skipped),
         ServiceMoves(p),
         images' \subseteq images,
         ~(svc'.exists /\ svc'.owner = Me(p)) \/ proc[p].created \/ "service" \in lost,
         skipped \/ result # "error" \/ "service" \in denied \cup lost
           \/ ~(svc'.exists /\ svc'.owner = Me(p)),
         skipped \/ "image" \in denied \cup lost \/ Me(p) \notin images'
  PROVE  IInv'
<1>1. Shape /\ Fields(p)
  BY DEF IInv, Mine
<1>2. /\ proc' = [q \in Procs |-> proc'[q]]
      /\ \A q \in Procs \ {p} : proc'[q] = proc[q]
      /\ DOMAIN proc'[p] = DOMAIN Fresh
      /\ proc'[p].step = "idle" /\ proc'[p].runs = proc[p].runs
      /\ proc'[p].created = proc[p].created /\ proc'[p].result = result
      /\ proc'[p].denied = denied /\ proc'[p].lost = lost /\ proc'[p].skipped = skipped
      /\ proc'[p].found = FALSE /\ proc'[p].image = FALSE /\ proc'[p].error = FALSE
  BY <1>1, EndsFields
<1>3. Fields(p)'
  BY <1>1, <1>2 DEF Fields, At
<1>4. Creator(p)' /\ Copier(p)' /\ Deleter(p)'
  BY <1>1, <1>2 DEF Creator, Copier, Deleter, Owns, At, Me, Fields
<1>5. Mine(p)'
  BY <1>3, <1>4 DEF Mine
<1> QED
  BY <1>2, <1>5, StepKeeps
-----------------------------------------------------------------------------
(* The command that creates a VM.                                            *)
LEMMA LookupKeeps ==
  ASSUME IInv, NEW p \in Procs, LookupService(p) \/ LookupFails(p) PROVE IInv'
<1>1. Shape /\ Mine(p) /\ At(p, "lookup") /\ UNCHANGED <<svc, images>>
  BY DEF IInv, LookupService, LookupFails
<1>2. Me(p) \notin images /\ ~proc[p].created /\ ServiceMoves(p) /\ ~Owns(p)
  BY <1>1, ServiceUntouched, OwnerKnows DEF Mine, Creator, Copier, At
<1>3. CASE LookupService(p)
  <2> DEFINE r == [found |-> svc.exists, step |-> IF svc.exists THEN "get" ELSE "create"]
  <2>1. Goes(p, r)
    BY <1>3 DEF LookupService
  <2>2. DOMAIN r = {"found", "step"} /\ r.found = svc.exists
        /\ r.step = IF svc.exists THEN "get" ELSE "create"
    OBVIOUS
  <2> HIDE DEF r
  <2>3. \A f \in DOMAIN Fresh : proc'[p][f] = IF f \in DOMAIN r THEN r[f] ELSE proc[p][f]
    BY <1>1, <2>1, GoesFields DEF Mine
  <2>4. /\ proc'[p].step = (IF svc.exists THEN "get" ELSE "create")
        /\ proc'[p].found = svc.exists /\ proc'[p].runs = proc[p].runs
        /\ proc'[p].created = proc[p].created /\ proc'[p].lost = proc[p].lost
    BY <2>2, <2>3 DEF Fresh
  <2>5. Creator(p)' /\ Copier(p)' /\ Deleter(p)'
    BY <1>1, <1>2, <2>4 DEF Mine, Creator, Copier, Deleter, Owns, At, Me
  <2> QED
    BY <1>1, <1>2, <2>1, <2>2, <2>5, GoesKeeps DEF Shape, At
<1>4. CASE LookupFails(p)
  BY <1>1, <1>2, <1>4, EndsKeeps DEF LookupFails, Ends, Owns
<1> QED
  BY <1>3, <1>4

(* The steps that only move a process on, from one step to another.          *)
LEMMA MovesOn ==
  ASSUME IInv, NEW p \in Procs, NEW step, Goes(p, [step |-> step]), UNCHANGED svc,
         images' \subseteq images,
         step \notin {"idle", "create", "rollback", "confirm", "delete role", "delete deployment"},
         proc[p].step # "idle", proc[p].created => step \in {"image", "role", "send", "hook"},
         Me(p) \in images' => step \in {"role", "send", "hook"} /\ proc[p].image
  PROVE  IInv'
<1>1. Shape /\ Mine(p) /\ ServiceMoves(p)
  BY ServiceUntouched DEF IInv
<1> DEFINE r == [step |-> step]
<1>2. Goes(p, r) /\ DOMAIN r = {"step"} /\ r.step = step
  OBVIOUS
<1> HIDE DEF r
<1>3. \A f \in DOMAIN Fresh : proc'[p][f] = IF f \in DOMAIN r THEN r[f] ELSE proc[p][f]
  BY <1>1, <1>2, GoesFields DEF Mine
<1>4. /\ proc'[p].step = step /\ proc'[p].runs = proc[p].runs /\ proc'[p].found = proc[p].found
      /\ proc'[p].created = proc[p].created /\ proc'[p].image = proc[p].image
      /\ proc'[p].lost = proc[p].lost
  BY <1>2, <1>3 DEF Fresh
<1>5. Creator(p)' /\ Copier(p)' /\ Deleter(p)'
  BY <1>1, <1>4 DEF Mine, Creator, Copier, Deleter, Owns, At, Me
<1> QED
  BY <1>1, <1>2, <1>5, GoesKeeps

LEMMA CreateKeeps ==
  ASSUME IInv, NEW p \in Procs, CreateService(p) \/ CreateServiceFails(p) PROVE IInv'
<1>1. Shape /\ Mine(p) /\ At(p, "create") /\ UNCHANGED images
  BY DEF IInv, CreateService, CreateServiceFails
<1>2. Me(p) \notin images /\ ~proc[p].created /\ ~proc[p].found /\ proc[p].runs > 0 /\ ~Owns(p)
  BY <1>1, OwnerKnows DEF Mine, Fields, Creator, Copier, At
<1>3. CASE CreateService(p)
  <2> DEFINE r == [created |-> TRUE, step |-> AfterService(p, TRUE)]
  <2>1. Goes(p, r) /\ svc' = [exists |-> TRUE, owner |-> Me(p), roles |-> {}]
    BY <1>3 DEF CreateService
  <2>2. DOMAIN r = {"created", "step"} /\ r.created = TRUE /\ r.step \in {"image", "send", "role"}
    BY DEF AfterService
  <2> HIDE DEF r
  <2>3. \A f \in DOMAIN Fresh : proc'[p][f] = IF f \in DOMAIN r THEN r[f] ELSE proc[p][f]
    BY <1>1, <2>1, GoesFields DEF Mine
  <2>4. /\ proc'[p].step \in {"image", "send", "role"}
        /\ proc'[p].found = proc[p].found /\ proc'[p].runs = proc[p].runs
        /\ proc'[p].created = TRUE /\ proc'[p].lost = proc[p].lost
    BY <2>2, <2>3 DEF Fresh
  <2>5. Creator(p)' /\ Copier(p)' /\ Deleter(p)'
    BY <1>1, <1>2, <2>4 DEF Mine, Creator, Copier, Deleter, Owns, At, Me
  <2>6. ServiceMoves(p)
    BY <1>2, <2>1, ServiceNew
  <2> QED
    BY <1>1, <2>1, <2>2, <2>5, <2>6, GoesKeeps DEF At
<1>4. CASE UNCHANGED svc /\ Ends(p, "error")
  <2>1. ServiceMoves(p)
    BY <1>1, <1>4, ServiceUntouched
  <2> QED
    BY <1>1, <1>2, <1>4, <2>1, EndsKeeps DEF Ends, Owns
<1>5. CASE /\ svc' = [exists |-> TRUE, owner |-> Me(p), roles |-> {}]
           /\ EndsWith(p, "error", {}, {"service"}, FALSE)
  <2>1. ServiceMoves(p)
    BY <1>2, <1>5, ServiceNew
  <2> QED
    BY <1>1, <1>2, <1>5, <2>1, EndsKeeps
<1> QED
  BY <1>3, <1>4, <1>5 DEF CreateServiceFails

LEMMA GetKeeps ==
  ASSUME IInv, NEW p \in Procs, GetService(p) \/ GetSlot(p) PROVE IInv'
<1>1. Shape /\ Mine(p) /\ proc[p].step \in {"get", "slot"} /\ UNCHANGED <<svc, images>>
  BY DEF IInv, GetService, GetSlot, At
<1>2. Me(p) \notin images /\ ~proc[p].created /\ ServiceMoves(p) /\ ~Owns(p)
  BY <1>1, ServiceUntouched, OwnerKnows DEF Mine, Creator, Copier, At
<1>3. AfterService(p, FALSE) \in {"image", "send", "role"}
  BY DEF AfterService
<1>4. CASE Ends(p, "error")
  BY <1>1, <1>2, <1>4, EndsKeeps DEF Ends, Owns
<1>5. CASE Goes(p, [step |-> "slot"])
  BY <1>1, <1>2, <1>5, MovesOn
<1>6. CASE Goes(p, [step |-> AfterService(p, FALSE)])
  BY <1>1, <1>2, <1>3, <1>6, MovesOn
<1>7. CASE Goes(p, [step |-> AfterService(p, FALSE), seen |-> svc.roles, name |-> NextName(svc.roles)])
  <2> DEFINE r == [step |-> AfterService(p, FALSE), seen |-> svc.roles, name |-> NextName(svc.roles)]
  <2>1. Goes(p, r) /\ DOMAIN r = {"step", "seen", "name"} /\ r.step \in {"image", "send", "role"}
    BY <1>3, <1>7
  <2> HIDE DEF r
  <2>2. \A f \in DOMAIN Fresh : proc'[p][f] = IF f \in DOMAIN r THEN r[f] ELSE proc[p][f]
    BY <1>1, <2>1, GoesFields DEF Mine
  <2>3. /\ proc'[p].step \in {"image", "send", "role"} /\ proc'[p].runs = proc[p].runs
        /\ proc'[p].created = proc[p].created /\ proc'[p].lost = proc[p].lost
    BY <2>1, <2>2 DEF Fresh
  <2>4. Creator(p)' /\ Copier(p)' /\ Deleter(p)'
    BY <1>1, <1>2, <2>3 DEF Mine, Creator, Copier, Deleter, Owns, At, Me
  <2> QED
    BY <1>1, <1>2, <2>1, <2>4, GoesKeeps
<1> QED
  BY <1>4, <1>5, <1>6, <1>7 DEF GetService, GetSlot

(* A copied image is remembered in the same step, or is among the lost.      *)
LEMMA CopyKeeps == ASSUME IInv, NEW p \in Procs, CopyImage(p) PROVE IInv'
<1>1. Shape /\ Mine(p) /\ At(p, "image") /\ UNCHANGED svc
  BY DEF IInv, CopyImage
<1>2. Me(p) \notin images /\ ServiceMoves(p) /\ (proc[p].created => ~proc[p].found)
  BY <1>1, ServiceUntouched DEF Mine, Creator, Copier, At
<1>3. ASSUME NEW r, Goes(p, r), DOMAIN r \subseteq {"image", "step", "error", "lost"},
             {"step"} \subseteq DOMAIN r, r.step \in {"role", "hook"},
             \A f \in {"image", "error"} \cap DOMAIN r : r[f] \in BOOLEAN,
             "lost" \in DOMAIN r => r.lost = {"image"} /\ r.step = "hook",
             \/ images' \subseteq images
             \/ images' = images \cup {Me(p)} /\ "image" \in DOMAIN r /\ r.image
             \/ images' = images \cup {Me(p)} /\ "lost" \in DOMAIN r
      PROVE  IInv'
  <2>1. \A f \in DOMAIN Fresh : proc'[p][f] = IF f \in DOMAIN r THEN r[f] ELSE proc[p][f]
    BY <1>1, <1>3, GoesFields DEF Mine
  <2>2. /\ proc'[p].step = r.step /\ proc'[p].runs = proc[p].runs /\ proc'[p].found = proc[p].found
        /\ proc'[p].created = proc[p].created /\ ("image" \in DOMAIN r => proc'[p].image = r.image)
        /\ proc'[p].lost = IF "lost" \in DOMAIN r THEN r.lost ELSE proc[p].lost
    BY <1>3, <2>1 DEF Fresh
  <2>3. Creator(p)'
    BY <1>1, <1>2, <1>3, <2>2 DEF Mine, Creator, Owns, At, Me
  <2>4. Copier(p)' /\ Deleter(p)'
    BY <1>1, <1>2, <1>3, <2>2 DEF Mine, Copier, Deleter, At, Me
  <2> QED
    BY <1>1, <1>2, <1>3, <2>3, <2>4, GoesKeeps DEF At
<1>4. CASE images' = images \cup {Me(p)} /\ Goes(p, [image |-> TRUE, step |-> "role"])
  <2> DEFINE r == [image |-> TRUE, step |-> "role"]
  <2>1. Goes(p, r) /\ DOMAIN r = {"image", "step"} /\ r.image = TRUE /\ r.step = "role"
    BY <1>4
  <2> HIDE DEF r
  <2> QED
    BY <1>3, <1>4, <2>1
<1>5. CASE images' = images \cup {Me(p)} /\ Goes(p, [image |-> TRUE, step |-> "hook", error |-> TRUE])
  <2> DEFINE r == [image |-> TRUE, step |-> "hook", error |-> TRUE]
  <2>1. Goes(p, r) /\ DOMAIN r = {"image", "step", "error"} /\ r.image = TRUE /\ r.step = "hook" /\ r.error = TRUE
    BY <1>5
  <2> HIDE DEF r
  <2> QED
    BY <1>3, <1>5, <2>1
<1>6. CASE images' = images /\ Goes(p, [step |-> "hook", error |-> TRUE])
  <2> DEFINE r == [step |-> "hook", error |-> TRUE]
  <2>1. Goes(p, r) /\ DOMAIN r = {"step", "error"} /\ r.step = "hook" /\ r.error = TRUE
    BY <1>6
  <2> HIDE DEF r
  <2> QED
    BY <1>3, <1>6, <2>1
<1>7. CASE images' = images \cup {Me(p)} /\ Goes(p, [step |-> "hook", error |-> TRUE, lost |-> {"image"}])
  <2> DEFINE r == [step |-> "hook", error |-> TRUE, lost |-> {"image"}]
  <2>1. /\ Goes(p, r) /\ DOMAIN r = {"step", "error", "lost"}
        /\ r.step = "hook" /\ r.error = TRUE /\ r.lost = {"image"}
    BY <1>7
  <2> HIDE DEF r
  <2> QED
    BY <1>3, <1>7, <2>1
<1> QED
  BY <1>4, <1>5, <1>6, <1>7 DEF CopyImage

(* An error of createRole() leaves everything where it is, and says so.      *)
LEMMA RoleKeeps == ASSUME IInv, NEW p \in Procs, RoleReady(p) \/ RoleFails(p) PROVE IInv'
<1>1. Shape /\ Mine(p) /\ proc[p].step = "role" /\ UNCHANGED <<svc, images>> /\ ServiceMoves(p)
  BY ServiceUntouched DEF IInv, RoleReady, RoleFails, At
<1>2. (Me(p) \in images => proc[p].image) /\ (proc[p].created => ~proc[p].found)
  BY <1>1 DEF Mine, Copier, Creator, At
<1>3. CASE Goes(p, [step |-> "send"])
  BY <1>1, <1>2, <1>3, MovesOn
<1>4. CASE Goes(p, [step |-> "send", role |-> FALSE, answers |-> proc[p].answers + 1])
  <2> DEFINE r == [step |-> "send", role |-> FALSE, answers |-> proc[p].answers + 1]
  <2>1. Goes(p, r) /\ DOMAIN r = {"step", "role", "answers"} /\ r.step = "send"
    BY <1>4
  <2> HIDE DEF r
  <2>2. \A f \in DOMAIN Fresh : proc'[p][f] = IF f \in DOMAIN r THEN r[f] ELSE proc[p][f]
    BY <1>1, <2>1, GoesFields DEF Mine
  <2>3. /\ proc'[p].step = "send" /\ proc'[p].runs = proc[p].runs /\ proc'[p].found = proc[p].found
        /\ proc'[p].created = proc[p].created /\ proc'[p].image = proc[p].image
        /\ proc'[p].lost = proc[p].lost
    BY <2>1, <2>2 DEF Fresh
  <2>4. Creator(p)' /\ Copier(p)' /\ Deleter(p)'
    BY <1>1, <1>2, <2>3 DEF Mine, Creator, Copier, Deleter, Owns, At, Me
  <2> QED
    BY <1>1, <2>1, <2>4, GoesKeeps
<1>5. CASE EndsWith(p, "error", {}, {}, TRUE)
  <2>1. ~Owns(p) \/ proc[p].created
    BY <1>1, OwnerKnows DEF Mine, At
  <2> QED
    BY <1>1, <1>5, <2>1, EndsKeeps DEF Owns
<1> QED
  BY <1>3, <1>4, <1>5 DEF RoleReady, RoleFails

LEMMA SendKeeps == ASSUME IInv, NEW p \in Procs, Send(p) \/ SendFails(p) PROVE IInv'
<1>1. Shape /\ Mine(p) /\ proc[p].step = "send" /\ UNCHANGED images
  BY DEF IInv, Send, SendFails, At
<1>2. (Me(p) \in images => proc[p].image) /\ (proc[p].created => ~proc[p].found)
  BY <1>1 DEF Mine, Copier, Creator, At
<1>3. ServiceMoves(p) /\ (Owns(p)' => svc.exists /\ svc.owner = Me(p)')
  <2>1. CASE Send(p)
    <3>1. IsFiniteSet(svc.roles \cup {proc[p].name})
      BY <1>1, FS_AddElement DEF Shape
    <3>2. svc' = [svc EXCEPT !.roles = svc.roles \cup {proc[p].name}]
      BY <2>1 DEF Send
    <3> QED
      BY <1>1, <3>1, <3>2, RolesChange DEF Owns
  <2>2. CASE SendFails(p)
    BY <1>1, <2>2, ServiceUntouched DEF SendFails, Owns
  <2> QED
    BY <2>1, <2>2
<1>4. PICK e \in BOOLEAN : Goes(p, [step |-> "hook", error |-> e])
  BY DEF Send, SendFails
<1> DEFINE r == [step |-> "hook", error |-> e]
<1>5. Goes(p, r) /\ DOMAIN r = {"step", "error"} /\ r.step = "hook" /\ r.error \in BOOLEAN
  BY <1>4
<1> HIDE DEF r
<1>6. \A f \in DOMAIN Fresh : proc'[p][f] = IF f \in DOMAIN r THEN r[f] ELSE proc[p][f]
  BY <1>1, <1>5, GoesFields DEF Mine
<1>7. /\ proc'[p].step = "hook" /\ proc'[p].runs = proc[p].runs /\ proc'[p].found = proc[p].found
      /\ proc'[p].created = proc[p].created /\ proc'[p].image = proc[p].image
      /\ proc'[p].lost = proc[p].lost
  BY <1>5, <1>6 DEF Fresh
<1>8. Owns(p)' => Owns(p)
  BY <1>3, <1>7 DEF Owns, Me
<1>9. Creator(p)' /\ Copier(p)' /\ Deleter(p)'
  BY <1>1, <1>2, <1>7, <1>8 DEF Mine, Creator, Copier, Deleter, At, Me
<1> QED
  BY <1>1, <1>3, <1>5, <1>9, GoesKeeps

(* cmdCallbackHook(): the image goes, or is denied; the service is next when *)
(* the command has failed and has created it.                                *)
LEMMA HookKeeps == ASSUME IInv, NEW p \in Procs, Hook(p) PROVE IInv'
<1>1. Shape /\ Mine(p) /\ proc[p].step = "hook" /\ UNCHANGED svc /\ ServiceMoves(p)
  BY ServiceUntouched DEF IInv, Hook, At
<1>2. PICK denied \in {{}, {"image"}} :
        /\ images' = IF proc[p].image /\ denied = {} THEN images \ {Me(p)} ELSE images
        /\ IF NeedsRollback(p) THEN Goes(p, [step |-> "rollback", denied |-> denied])
           ELSE EndsWith(p, IF proc[p].error THEN "error" ELSE "ok", denied, proc[p].lost, FALSE)
  BY DEF Hook
<1>3. images' \subseteq images /\ ("image" \in denied \cup proc[p].lost \/ Me(p) \notin images')
  BY <1>1, <1>2 DEF Mine, Copier, At
<1>4. CASE NeedsRollback(p)
  <2> DEFINE r == [step |-> "rollback", denied |-> denied]
  <2>1. Goes(p, r) /\ DOMAIN r = {"step", "denied"} /\ r.step = "rollback" /\ r.denied = denied
    BY <1>2, <1>4
  <2> HIDE DEF r
  <2>2. \A f \in DOMAIN Fresh : proc'[p][f] = IF f \in DOMAIN r THEN r[f] ELSE proc[p][f]
    BY <1>1, <2>1, GoesFields DEF Mine
  <2>3. /\ proc'[p].step = "rollback" /\ proc'[p].runs = proc[p].runs
        /\ proc'[p].found = proc[p].found /\ proc'[p].created = proc[p].created
        /\ proc'[p].denied = denied /\ proc'[p].lost = proc[p].lost
    BY <2>1, <2>2 DEF Fresh
  <2>4. proc[p].created /\ ~proc[p].found /\ "service" \notin proc[p].lost
    BY <1>1, <1>4 DEF NeedsRollback, Mine, Creator, At
  <2>5. Creator(p)' /\ Copier(p)' /\ Deleter(p)'
    BY <1>3, <2>3, <2>4 DEF Creator, Copier, Deleter, At, Me
  <2> QED
    BY <1>1, <1>3, <2>1, <2>5, GoesKeeps
<1>5. CASE ~NeedsRollback(p)
  <2>1. EndsWith(p, IF proc[p].error THEN "error" ELSE "ok", denied, proc[p].lost, FALSE)
    BY <1>2, <1>5
  <2>2. proc[p].created => (IF proc[p].error THEN "error" ELSE "ok") # "error"
    BY <1>5 DEF NeedsRollback
  <2>3. ~Owns(p) \/ proc[p].created
    BY <1>1, OwnerKnows DEF Mine, At
  <2> QED
    BY <1>1, <1>3, <2>1, <2>2, <2>3, EndsKeeps DEF Owns
<1> QED
  BY <1>4, <1>5

LEMMA RollbackKeeps == ASSUME IInv, NEW p \in Procs, Rollback(p) PROVE IInv'
<1>1. Shape /\ Mine(p) /\ proc[p].step = "rollback" /\ UNCHANGED images
  BY DEF IInv, Rollback, At
<1>2. /\ "image" \in proc[p].denied \cup proc[p].lost \/ Me(p) \notin images
      /\ proc[p].created
  BY <1>1 DEF Mine, Copier, Creator, At
<1>3. CASE svc' = NoService /\ Ends(p, "error")
  <2>1. ServiceMoves(p) /\ ~svc'.exists
    BY <1>3, ServiceGone DEF NoService
  <2> QED
    BY <1>1, <1>2, <1>3, <2>1, EndsKeeps DEF Ends
<1>4. CASE UNCHANGED svc /\ EndsWith(p, "error", proc[p].denied \cup {"service"}, proc[p].lost, FALSE)
  <2>1. ServiceMoves(p)
    BY <1>1, <1>4, ServiceUntouched
  <2> QED
    BY <1>1, <1>2, <1>4, <2>1, EndsKeeps
<1> QED
  BY <1>3, <1>4 DEF Rollback
-----------------------------------------------------------------------------
(* The command that deletes a VM.                                            *)
LEMMA DeleteKeeps ==
  ASSUME IInv, NEW p \in Procs,
         Confirm(p) \/ DeleteRole(p) \/ DeleteDeployment(p) \/ GetDetailed(p) \/ DeleteService(p)
  PROVE  IInv'
<1>1. /\ Shape /\ Mine(p) /\ UNCHANGED images
      /\ proc[p].step \in {"confirm", "delete role", "delete deployment", "detail", "delete service"}
  BY DEF IInv, Confirm, DeleteRole, DeleteDeployment, GetDetailed, DeleteService, At
<1>2. Me(p) \notin images /\ ~proc[p].created /\ ~Owns(p)
  BY <1>1, OwnerKnows DEF Mine, Creator, Copier, At
<1>3. ServiceMoves(p) /\ ~(svc'.exists /\ svc'.owner = Me(p))
  <2>1. CASE svc' = svc
    BY <1>1, <1>2, <2>1, ServiceUntouched DEF Owns
  <2>2. CASE svc' = NoService
    BY <2>2, ServiceGone DEF NoService
  <2>3. CASE svc' = [svc EXCEPT !.roles = svc.roles \ {proc[p].name}]
    <3>1. IsFiniteSet(svc.roles \ {proc[p].name})
      BY <1>1, FS_RemoveElement DEF Shape
    <3> QED
      BY <1>1, <1>2, <2>3, <3>1, RolesChange DEF Owns
  <2>4. CASE svc' = [svc EXCEPT !.roles = {}]
    BY <1>1, <1>2, <2>4, RolesChange, FS_EmptySet DEF Owns
  <2> QED
    BY <2>1, <2>2, <2>3, <2>4 DEF Confirm, DeleteRole, DeleteDeployment, GetDetailed, DeleteService
<1>4. CASE Ends(p, "ok") \/ Ends(p, "error")
  BY <1>1, <1>2, <1>3, <1>4, EndsKeeps DEF Ends
<1>5. ASSUME NEW step \in {"delete deployment", "delete role", "detail", "delete service"},
             Goes(p, [step |-> step]),
             step \in {"delete deployment", "delete role"} => At(p, "confirm"),
             step = "delete deployment" => OnlyVm(p)
      PROVE  IInv'
  <2> DEFINE r == [step |-> step]
  <2>1. Goes(p, r) /\ DOMAIN r = {"step"} /\ r.step = step
    BY <1>5
  <2> HIDE DEF r
  <2>2. \A f \in DOMAIN Fresh : proc'[p][f] = IF f \in DOMAIN r THEN r[f] ELSE proc[p][f]
    BY <1>1, <2>1, GoesFields DEF Mine
  <2>3. /\ proc'[p].step = step /\ proc'[p].runs = proc[p].runs /\ proc'[p].created = proc[p].created
        /\ proc'[p].name = proc[p].name /\ proc'[p].seen = proc[p].seen
        /\ proc'[p].lost = proc[p].lost
    BY <2>1, <2>2 DEF Fresh
  <2>4. Creator(p)' /\ Copier(p)'
    BY <1>1, <1>2, <1>3, <2>3 DEF Mine, Creator, Copier, Owns, At, Me
  <2>5. Deleter(p)'
    BY <1>1, <1>5, <2>3 DEF Mine, Deleter, At, OnlyVm
  <2> QED
    BY <1>1, <1>3, <2>1, <2>4, <2>5, GoesKeeps
<1>6. CASE Confirm(p)
  BY <1>4, <1>5, <1>6 DEF Confirm
<1>7. CASE DeleteRole(p) \/ DeleteService(p)
  BY <1>4, <1>7 DEF DeleteRole, DeleteService
<1>8. CASE DeleteDeployment(p) \/ GetDetailed(p)
  BY <1>4, <1>5, <1>8 DEF DeleteDeployment, GetDetailed
<1> QED
  BY <1>6, <1>7, <1>8
-----------------------------------------------------------------------------
(* A new command: its run is one nothing in the account belongs to.          *)
LEMMA StartsKeep ==
  ASSUME IInv, NEW p \in Procs, NEW new, proc' = [proc EXCEPT ![p] = new], UNCHANGED <<svc, images>>,
         DOMAIN new = DOMAIN Fresh, new.runs = proc[p].runs + 1,
         new.created = FALSE, new.found = FALSE, new.image = FALSE, new.error = FALSE,
         new.skipped = FALSE, new.lost = {}, new.step \in {"lookup", "idle", "confirm"},
         new.step = "confirm" => new.name \in svc.roles /\ new.seen = svc.roles
  PROVE  IInv'
<1>1. Shape /\ Mine(p) /\ ServiceMoves(p)
  BY ServiceUntouched DEF IInv
<1>2. /\ proc' = [q \in Procs |-> proc'[q]] /\ \A q \in Procs \ {p} : proc'[q] = proc[q]
      /\ proc'[p] = new
  BY <1>1 DEF Shape
<1>3. Me(p)' = <<p, proc[p].runs + 1>> /\ proc[p].runs \in Nat
  BY <1>1, <1>2 DEF Me, Mine, Fields
<1>4. Me(p)' \notin images' /\ ~Owns(p)'
  <2>1. ~Started(Me(p)')
    <3> SUFFICES ASSUME Started(Me(p)') PROVE FALSE
      OBVIOUS
    <3>1. PICK q \in Procs : \E n \in 1 .. proc[q].runs : Me(p)' = <<q, n>>
      BY DEF Started
    <3>2. q = p
      BY <1>3, <3>1
    <3> QED
      BY <1>3, <3>1, <3>2
  <2>2. Me(p)' # <<>>
    BY <1>3
  <2> QED
    BY <2>1, <2>2 DEF IInv, Runs, Owns
<1>5. Fields(p)'
  <2>1. proc'[p].runs \in Nat /\ proc'[p].runs > 0 /\ DOMAIN proc'[p] = DOMAIN Fresh
    BY <1>2, <1>3
  <2>2. /\ proc'[p].created \in BOOLEAN /\ proc'[p].found \in BOOLEAN /\ proc'[p].image \in BOOLEAN
        /\ proc'[p].error \in BOOLEAN /\ proc'[p].skipped \in BOOLEAN
    BY <1>2
  <2> QED
    BY <2>1, <2>2 DEF Fields, At
<1>6. Creator(p)' /\ Copier(p)'
  BY <1>2, <1>4 DEF Creator, Copier, At
<1>7. Deleter(p)'
  BY <1>1, <1>2 DEF Deleter, At, Shape
<1> QED
  BY <1>1, <1>2, <1>5, <1>6, <1>7, StepKeeps DEF Mine

LEMMA StartCreateKeeps ==
  ASSUME IInv, NEW p \in Procs, NEW o, StartCreate(p, o) PROVE IInv'
<1>1. PICK step \in {"lookup", "idle"} :
        proc' = [proc EXCEPT ![p] = [Fresh EXCEPT
          !.step = step, !.runs = proc[p].runs + 1,
          !.opt = IF step = "idle" THEN @ ELSE o,
          !.result = IF step = "idle" THEN "error" ELSE "none"]]
  BY DEF StartCreate
<1> DEFINE new == [Fresh EXCEPT
             !.step = step, !.runs = proc[p].runs + 1,
             !.opt = IF step = "idle" THEN @ ELSE o,
             !.result = IF step = "idle" THEN "error" ELSE "none"]
<1>2. /\ DOMAIN new = DOMAIN Fresh /\ new.runs = proc[p].runs + 1
      /\ new.created = FALSE /\ new.found = FALSE /\ new.image = FALSE /\ new.error = FALSE
      /\ new.skipped = FALSE /\ new.lost = {} /\ new.step = step
  BY DEF Fresh
<1>3. proc' = [proc EXCEPT ![p] = new] /\ UNCHANGED <<svc, images>>
  BY <1>1 DEF StartCreate
<1> HIDE DEF new
<1> QED
  BY <1>2, <1>3, StartsKeep

LEMMA StartDeleteKeeps ==
  ASSUME IInv, NEW p \in Procs, NEW name, StartDelete(p, name) PROVE IInv'
<1> DEFINE found == [Fresh EXCEPT !.step = "confirm", !.runs = proc[p].runs + 1,
                                  !.name = name, !.seen = svc.roles]
           absent == [Fresh EXCEPT !.runs = proc[p].runs + 1, !.result = "ok"]
           new == IF name \in svc.roles THEN found ELSE absent
<1>1. /\ DOMAIN found = DOMAIN Fresh /\ found.runs = proc[p].runs + 1
      /\ found.created = FALSE /\ found.found = FALSE /\ found.image = FALSE
      /\ found.error = FALSE /\ found.skipped = FALSE /\ found.lost = {} /\ found.step = "confirm"
      /\ found.name = name /\ found.seen = svc.roles
  BY DEF Fresh
<1>2. /\ DOMAIN absent = DOMAIN Fresh /\ absent.runs = proc[p].runs + 1
      /\ absent.created = FALSE /\ absent.found = FALSE /\ absent.image = FALSE
      /\ absent.error = FALSE /\ absent.skipped = FALSE /\ absent.lost = {} /\ absent.step = "idle"
  BY DEF Fresh
<1>3. proc' = [proc EXCEPT ![p] = new] /\ UNCHANGED <<svc, images>>
  BY DEF StartDelete
<1> HIDE DEF found, absent
<1> QED
  BY <1>1, <1>2, <1>3, StartsKeep
-----------------------------------------------------------------------------
LEMMA InitHolds == Init => IInv
<1> SUFFICES ASSUME Init PROVE IInv
  OBVIOUS
<1>1. \A p \in Procs : proc[p] = Fresh
  BY DEF Init
<1>2. Shape
  <2>1. proc = [p \in Procs |-> proc[p]]
    BY DEF Init
  <2>2. /\ svc = [exists |-> svc.exists, owner |-> svc.owner, roles |-> svc.roles]
        /\ svc.exists \in BOOLEAN /\ svc.roles \in {{}, {0, 1}}
    <3>1. ASSUME NEW e \in BOOLEAN, NEW S, svc = [exists |-> e, owner |-> <<>>, roles |-> S]
          PROVE  /\ svc = [exists |-> svc.exists, owner |-> svc.owner, roles |-> svc.roles]
                 /\ svc.exists \in BOOLEAN /\ svc.roles = S
      BY <3>1
    <3>2. CASE svc = NoService
      BY <3>1, <3>2 DEF NoService
    <3>3. CASE svc = [exists |-> TRUE, owner |-> <<>>, roles |-> {}]
      BY <3>1, <3>3
    <3>4. CASE svc = [exists |-> TRUE, owner |-> <<>>, roles |-> {0, 1}]
      BY <3>1, <3>4
    <3> QED
      BY <3>2, <3>3, <3>4 DEF Init
  <2>3. IsFiniteSet({0, 1})
    <3>1. IsFiniteSet({0} \cup {1})
      BY FS_Singleton, FS_AddElement
    <3>2. {0} \cup {1} = {0, 1}
      OBVIOUS
    <3> QED
      BY <3>1, <3>2
  <2> QED
    BY <2>1, <2>2, <2>3, FS_EmptySet DEF Shape
<1>3. images = {} /\ (svc.exists => svc.owner = <<>>)
  BY DEF Init, NoService
<1>5. Runs
  BY <1>3 DEF Runs
<1>4. ASSUME NEW p \in Procs PROVE Mine(p)
  <2>1. /\ proc[p].step = "idle" /\ proc[p].runs = 0 /\ proc[p].created = FALSE
        /\ proc[p].found = FALSE /\ proc[p].image = FALSE /\ proc[p].error = FALSE
        /\ proc[p].skipped = FALSE /\ proc[p].lost = {} /\ DOMAIN proc[p] = DOMAIN Fresh
        /\ proc[p].result = "none"
    BY <1>1 DEF Fresh
  <2> QED
    <3>1. Fields(p)
      <4>1. proc[p].runs \in Nat
        BY <2>1
      <4>2. /\ proc[p].created \in BOOLEAN /\ proc[p].found \in BOOLEAN /\ proc[p].image \in BOOLEAN
            /\ proc[p].error \in BOOLEAN /\ proc[p].skipped \in BOOLEAN
        BY <2>1
      <4> QED
        BY <2>1, <4>1, <4>2 DEF Fields, At
    <3>2. ~Owns(p)
      <4>1. Me(p) # <<>>
        BY DEF Me
      <4> QED
        BY <1>3, <4>1 DEF Owns
    <3>3. Creator(p) /\ Copier(p) /\ Deleter(p)
      BY <1>3, <2>1, <3>2 DEF Creator, Copier, Deleter, At
    <3> QED
      BY <3>1, <3>3 DEF Mine
<1> QED
  BY <1>2, <1>4, <1>5 DEF IInv

LEMMA NextKeeps == IInv /\ [Next]_vars => IInv'
<1> SUFFICES ASSUME IInv, [Next]_vars PROVE IInv'
  OBVIOUS
<1>1. CASE UNCHANGED vars
  BY <1>1 DEF vars, IInv, Shape, Runs, Started, Mine, Fields, Creator, Copier, Deleter, Owns, At, Me
<1>2. CASE Next
  <2>1. PICK p \in Procs :
          \/ \E o \in Options : StartCreate(p, o)
          \/ LookupService(p) \/ LookupFails(p) \/ CreateService(p) \/ CreateServiceFails(p)
          \/ GetService(p) \/ GetSlot(p) \/ CopyImage(p) \/ RoleReady(p) \/ RoleFails(p)
          \/ Send(p) \/ SendFails(p) \/ Hook(p) \/ Rollback(p)
          \/ \E name \in svc.roles \cup {0} : StartDelete(p, name)
          \/ Confirm(p) \/ DeleteRole(p) \/ DeleteDeployment(p) \/ GetDetailed(p) \/ DeleteService(p)
    BY <1>2 DEF Next
  <2> QED
    BY <2>1, StartCreateKeeps, LookupKeeps, CreateKeeps, GetKeeps, CopyKeeps, RoleKeeps, SendKeeps,
       HookKeeps, RollbackKeeps, StartDeleteKeeps, DeleteKeeps
<1> QED
  BY <1>1, <1>2

(* What every command has found, made and still owes agrees with the service *)
(* and the images at each of its steps (cmdCallbackHook(), vmclient.js).     *)
THEOREM Inductive == Spec => []IInv
  BY InitHolds, NextKeeps, PTL DEF Spec

(* A command that has ended has left nothing it made behind, unless the      *)
(* cleanup was refused or skipped, or the answer to the request that made it *)
(* was lost (cmdCallbackHook() and cleanupHostedServiceAndExit(),            *)
(* vmclient.js).                                                             *)
THEOREM CleanupComplete == Spec => []CleanupIsComplete
<1>1. IInv => CleanupIsComplete
  BY DEF IInv, Mine, Creator, Copier, Owns, At, CleanupIsComplete
<1> QED
  BY <1>1, Inductive, PTL

LEMMA OnlyOne ==
  ASSUME NEW S, IsFiniteSet(S), Cardinality(S) <= 1, NEW e \in S PROVE S = {e}
<1>1. Cardinality({e}) = 1 /\ {e} \subseteq S
  BY FS_Singleton
<1>2. /\ Cardinality({e}) <= Cardinality(S)
      /\ Cardinality({e}) = Cardinality(S) => {e} = S
  BY <1>1, FS_Subset
<1>3. Cardinality(S) \in Nat
  BY FS_CardinalityType
<1>4. Cardinality(S) = 1
  BY <1>1, <1>2, <1>3
<1> QED
  BY <1>1, <1>2, <1>4

(* A process that changes its record is the one that acts: it deletes its    *)
(* own role, or a deployment that had no other when it was listed.           *)
LEMMA DeleteStep ==
  IInv /\ Next =>
    \A p \in Procs :
      proc[p].step \in {"delete role", "delete deployment"} /\ proc'[p] # proc[p] =>
        (svc.roles \ svc'.roles) \cap proc[p].seen \subseteq {proc[p].name}
<1> SUFFICES ASSUME IInv, Next, NEW p \in Procs,
                    proc[p].step \in {"delete role", "delete deployment"}, proc'[p] # proc[p]
             PROVE  (svc.roles \ svc'.roles) \cap proc[p].seen \subseteq {proc[p].name}
  OBVIOUS
<1>1. Shape /\ Mine(p)
  BY DEF IInv
<1>2. ASSUME NEW q \in Procs, NEW r, Goes(q, r) PROVE q = p
  BY <1>1, <1>2 DEF Goes, Shape
<1>3. ASSUME NEW q \in Procs, NEW a, NEW b, NEW c, NEW d, EndsWith(q, a, b, c, d) PROVE q = p
  BY <1>1, <1>3 DEF EndsWith, Shape
<1>4. DeleteRole(p) \/ DeleteDeployment(p) \/ svc' = svc
  <2>1. PICK q \in Procs :
          \/ \E o \in Options : StartCreate(q, o)
          \/ LookupService(q) \/ LookupFails(q) \/ CreateService(q) \/ CreateServiceFails(q)
          \/ GetService(q) \/ GetSlot(q) \/ CopyImage(q) \/ RoleReady(q) \/ RoleFails(q)
          \/ Send(q) \/ SendFails(q) \/ Hook(q) \/ Rollback(q)
          \/ \E name \in svc.roles \cup {0} : StartDelete(q, name)
          \/ Confirm(q) \/ DeleteRole(q) \/ DeleteDeployment(q) \/ GetDetailed(q) \/ DeleteService(q)
    BY DEF Next
  <2>2. CASE q = p
    BY <2>1, <2>2 DEF StartCreate, LookupService, LookupFails, CreateService, CreateServiceFails,
       GetService, GetSlot, CopyImage, RoleReady, RoleFails, Send, SendFails, Hook, Rollback,
       StartDelete, Confirm, GetDetailed, DeleteService, At
  <2>3. CASE q # p
    <3>1. CASE CreateService(q) \/ CreateServiceFails(q)
      BY <1>2, <1>3, <2>3, <3>1 DEF CreateService, CreateServiceFails, Ends
    <3>2. CASE Send(q) \/ Rollback(q)
      BY <1>2, <1>3, <2>3, <3>2 DEF Send, Rollback, Ends
    <3>3. CASE DeleteRole(q) \/ DeleteDeployment(q) \/ DeleteService(q)
      BY <1>2, <1>3, <2>3, <3>3 DEF DeleteRole, DeleteDeployment, DeleteService, Ends
    <3> QED
      BY <2>1, <3>1, <3>2, <3>3 DEF StartCreate, LookupService, LookupFails, GetService, GetSlot,
         CopyImage, RoleReady, RoleFails, SendFails, Hook, StartDelete, Confirm, GetDetailed
  <2> QED
    BY <2>2, <2>3
<1>5. CASE svc' = svc
  BY <1>5
<1>6. CASE DeleteRole(p)
  <2>1. svc' = svc \/ svc' = [svc EXCEPT !.roles = svc.roles \ {proc[p].name}]
    BY <1>6 DEF DeleteRole
  <2>2. svc' = svc \/ svc'.roles = svc.roles \ {proc[p].name}
    BY <1>1, <2>1 DEF Shape
  <2> QED
    BY <2>2
<1>7. CASE DeleteDeployment(p)
  <2>1. proc[p].name \in proc[p].seen /\ IsFiniteSet(proc[p].seen) /\ Cardinality(proc[p].seen) <= 1
    BY <1>1, <1>7 DEF DeleteDeployment, At, Mine, Deleter
  <2>2. proc[p].seen = {proc[p].name}
    BY <2>1, OnlyOne
  <2> QED
    BY <2>2
<1> QED
  BY <1>4, <1>5, <1>6, <1>7

(* Deleting a VM takes away no other VM that was in the list it looked at    *)
(* (deleteVM(), deployment.roles.length > 1).                                *)
THEOREM DeleteIsSafe == Spec => DeleteSparesWhatItSaw
<1>1. IInv /\ [Next]_vars =>
        [\A p \in Procs :
           proc[p].step \in {"delete role", "delete deployment"} /\ proc'[p] # proc[p] =>
             (svc.roles \ svc'.roles) \cap proc[p].seen \subseteq {proc[p].name}]_vars
  BY DeleteStep
<1> QED
  BY <1>1, Inductive, PTL DEF Spec, DeleteSparesWhatItSaw

(* The rollback never takes away a service the command had found.            *)
THEOREM RollbackIsSafe == Spec => RollbackSparesFound
<1>1. IInv /\ [Next]_vars =>
        [\A p \in Procs :
           At(p, "rollback") /\ svc.exists /\ ~svc'.exists => ~proc[p].found]_vars
  BY DEF IInv, Mine, Creator, At
<1> QED
  BY <1>1, Inductive, PTL DEF Spec, RollbackSparesFound
=============================================================================
