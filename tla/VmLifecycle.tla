----------------------------- MODULE VmLifecycle ----------------------------
(* azure vm create and azure vm delete (commands/asm/vm/vmclient.js) for one *)
(* hosted service, by several processes at once: the command that needs the  *)
(* service creates it, takes it away when a later step fails, and the one    *)
(* that deletes the last VM deletes it too.                                  *)
(*                                                                           *)
(* Service (external): refuses to create what exists, to delete a hosted     *)
(* service with a deployment, and to delete the last role of a deployment.   *)
(* A VM's name is its number: 0 for the DNS prefix itself, n for "prefix-n". *)
EXTENDS Integers, FiniteSets, FiniteSetsExt

CONSTANTS Procs,
          MaxRuns,       \* bound: commands a process runs
          ExitDeferred   \* the process goes on after its callback was called

ASSUME ExitAssumption == ExitDeferred \in BOOLEAN

VARIABLES svc,           \* [exists, owner, roles]: no roles, no deployment
          images,        \* owners of the community images in the account
          proc

vars == <<svc, images, proc>>

Options == [community : BOOLEAN, roleFile : BOOLEAN, connect : BOOLEAN]
NoService == [exists |-> FALSE, owner |-> <<>>, roles |-> {}]
Fresh == [step |-> "idle", runs |-> 0, opt |-> [community |-> FALSE, roleFile |-> FALSE,
          connect |-> FALSE], found |-> FALSE, created |-> FALSE, image |-> FALSE,
          name |-> 0, seen |-> {}, role |-> TRUE, error |-> FALSE,
          result |-> "none", answers |-> 0, skipped |-> FALSE, denied |-> {}, lost |-> {}]

Init ==
  /\ svc \in {NoService, [exists |-> TRUE, owner |-> <<>>, roles |-> {}],
              [exists |-> TRUE, owner |-> <<>>, roles |-> {0, 1}]}
  /\ images = {}
  /\ proc = [p \in Procs |-> Fresh]

At(p, step) == proc[p].step = step
Me(p) == <<p, proc[p].runs>>

(* Process p changes the fields of its record that r has.                    *)
Goes(p, r) ==
  proc' = [proc EXCEPT ![p] = [f \in DOMAIN Fresh |-> IF f \in DOMAIN r THEN r[f] ELSE @[f]]]

(* The command's callback ends the process.  Three records that the code     *)
(* does not keep: what the cleanup could not take away is in denied, what    *)
(* the service made although the request was answered by an error is in      *)
(* lost, and skipped tells that there was no cleanup.                        *)
EndsWith(p, result, denied, lost, skipped) ==
  proc' = [proc EXCEPT ![p] = [Fresh EXCEPT
    !.runs = proc[p].runs, !.created = proc[p].created, !.answers = proc[p].answers + 1,
    !.result = result, !.denied = denied, !.lost = lost, !.skipped = skipped]]

Ends(p, result) == EndsWith(p, result, proc[p].denied, proc[p].lost, FALSE)

(* The options and the image are looked up and verified before anything is   *)
(* created: lookupImage(), verifyUserNameAndPwd(), verifyCertFingerPrint().  *)
StartCreate(p, o) ==
  /\ At(p, "idle") /\ proc[p].runs < MaxRuns
  /\ ~(o.community /\ o.roleFile)
  /\ \E step \in {"lookup", "idle"} :
       proc' = [proc EXCEPT ![p] = [Fresh EXCEPT
         !.step = step, !.runs = proc[p].runs + 1,
         !.opt = IF step = "idle" THEN @ ELSE o,
         !.result = IF step = "idle" THEN "error" ELSE "none"]]
  /\ UNCHANGED <<svc, images>>

(* Mutant: the service counts as created once it is there.                   *)
LookupServiceCreated(p) ==
  /\ At(p, "lookup")
  /\ Goes(p, [found |-> svc.exists, created |-> svc.exists,
              step |-> IF svc.exists THEN "get" ELSE "create"])
  /\ UNCHANGED <<svc, images>>

(* createHostedService(): hostedServices.list() is answered.                 *)
LookupService(p) ==
  /\ At(p, "lookup")
  /\ Goes(p, [found |-> svc.exists, step |-> IF svc.exists THEN "get" ELSE "create"])
  /\ UNCHANGED <<svc, images>>

LookupFails(p) == At(p, "lookup") /\ Ends(p, "error") /\ UNCHANGED <<svc, images>>

(* What follows once there is a service: copyAndRegCommunityImgIfRequired(), *)
(* then createRole() unless a file gives the role, whose certificate is only *)
(* uploaded to a new service.                                                *)
AfterService(p, new) ==
  IF proc[p].opt.community THEN "image"
  ELSE IF proc[p].opt.roleFile /\ ~new THEN "send" ELSE "role"

CreateService(p) ==
  /\ At(p, "create") /\ ~svc.exists
  /\ svc' = [exists |-> TRUE, owner |-> Me(p), roles |-> {}]
  /\ Goes(p, [created |-> TRUE, step |-> AfterService(p, TRUE)])
  /\ UNCHANGED images

(* The service exists by now, or the request fails; or its answer is lost,   *)
(* and hostedServiceCreated stays false of a service that was created.       *)
CreateServiceFails(p) ==
  /\ At(p, "create")
  /\ \/ UNCHANGED svc /\ Ends(p, "error")
     \/ /\ ~svc.exists
        /\ svc' = [exists |-> TRUE, owner |-> Me(p), roles |-> {}]
        /\ EndsWith(p, "error", {}, {"service"}, FALSE)
  /\ UNCHANGED images

(* createDeploymentInExistingHostedService(): hostedServices.get() ...       *)
GetService(p) ==
  /\ At(p, "get")
  /\ \/ svc.exists /\ Goes(p, [step |-> "slot"])
     \/ Ends(p, "error")
  /\ UNCHANGED <<svc, images>>

(* The number of the new VM follows the highest one of the deployment.       *)
NextName(roles) == Max(roles \cup {1}) + 1

(* ... and deployments.getBySlot(): without a deployment (404) a new one is  *)
(* made, else --connect is needed and the virtual networks must agree.       *)
GetSlot(p) ==
  /\ At(p, "slot")
  /\ \/ svc.roles = {} /\ Goes(p, [step |-> AfterService(p, FALSE)])
     \/ svc.roles # {} /\ proc[p].opt.connect
        /\ Goes(p, [step |-> AfterService(p, FALSE), seen |-> svc.roles,
                    name |-> NextName(svc.roles)])
     \/ Ends(p, "error")
  /\ UNCHANGED <<svc, images>>

(* imageCreate() and lookupImage() for a community image; an error goes to   *)
(* cmdCallbackHook(), which deletes an image that was reported as created:   *)
(* not one that was registered although the answer is an error.              *)
CopyImage(p) ==
  /\ At(p, "image")
  /\ \/ images' = images \cup {Me(p)} /\ Goes(p, [image |-> TRUE, step |-> "role"])
     \/ images' = images \cup {Me(p)} /\ Goes(p, [image |-> TRUE, step |-> "hook", error |-> TRUE])
     \/ images' = images \cup {Me(p)} /\ Goes(p, [step |-> "hook", error |-> TRUE, lost |-> {"image"}])
     \/ UNCHANGED images /\ Goes(p, [step |-> "hook", error |-> TRUE])
  /\ UNCHANGED svc

(* createRole() or, for a role of a file, configureCert().                   *)
RoleReady(p) ==
  /\ At(p, "role")
  /\ Goes(p, [step |-> "send"])
  /\ UNCHANGED <<svc, images>>

(* An error goes to the callback of the command, without a cleanup.  With a  *)
(* deferred exit the code behind the callback of createRole() goes on, and   *)
(* sends a request without a role.                                           *)
RoleFails(p) ==
  /\ At(p, "role")
  /\ IF ExitDeferred /\ ~proc[p].opt.roleFile
       THEN Goes(p, [step |-> "send", role |-> FALSE, answers |-> proc[p].answers + 1])
       ELSE EndsWith(p, "error", {}, {}, TRUE)
  /\ UNCHANGED <<svc, images>>

(* The service can carry the request out: createDeployment() for the first   *)
(* VM, virtualMachines.create() for one more.                                *)
Acceptable(p) ==
  /\ svc.exists /\ proc[p].role
  /\ proc[p].seen = {} <=> svc.roles = {}
  /\ proc[p].name \notin svc.roles

Send(p) ==
  /\ At(p, "send") /\ Acceptable(p)
  /\ svc' = [svc EXCEPT !.roles = @ \cup {proc[p].name}]
  /\ \E lost \in BOOLEAN : Goes(p, [step |-> "hook", error |-> lost])
  /\ UNCHANGED images

SendFails(p) ==
  /\ At(p, "send")
  /\ Goes(p, [step |-> "hook", error |-> TRUE])
  /\ UNCHANGED <<svc, images>>

(* Mutant: where there was an image to delete, nothing else is cleaned up.   *)
NeedsRollbackNoImage(p) == proc[p].error /\ proc[p].created /\ ~proc[p].image

(* cleanupHostedServiceAndExit() removes the service after an error if this  *)
(* command has created it.                                                   *)
NeedsRollback(p) == proc[p].error /\ proc[p].created

(* cmdCallbackHook(): the community image is deleted first.                  *)
Hook(p) ==
  /\ At(p, "hook")
  /\ \E denied \in {{}, {"image"}} :
       /\ denied # {} => proc[p].image
       /\ images' = IF proc[p].image /\ denied = {} THEN images \ {Me(p)} ELSE images
       /\ IF NeedsRollback(p) THEN Goes(p, [step |-> "rollback", denied |-> denied])
          ELSE EndsWith(p, IF proc[p].error THEN "error" ELSE "ok", denied, proc[p].lost, FALSE)
  /\ UNCHANGED svc

(* hostedServices.deleteMethod(); the error the command ends with is that of *)
(* the step that failed before.                                              *)
Rollback(p) ==
  /\ At(p, "rollback")
  /\ \/ svc.exists /\ svc.roles = {} /\ svc' = NoService /\ Ends(p, "error")
     \/ UNCHANGED svc /\ EndsWith(p, "error", proc[p].denied \cup {"service"}, proc[p].lost, FALSE)
  /\ UNCHANGED images
-----------------------------------------------------------------------------
(* deleteVM(): the VM is looked up in the list of the deployments ...        *)
StartDelete(p, name) ==
  /\ At(p, "idle") /\ proc[p].runs < MaxRuns
  /\ proc' = [proc EXCEPT ![p] =
       IF name \in svc.roles
         THEN [Fresh EXCEPT !.step = "confirm", !.runs = proc[p].runs + 1,
                            !.name = name, !.seen = svc.roles]
         ELSE [Fresh EXCEPT !.runs = proc[p].runs + 1, !.result = "ok"]]
  /\ UNCHANGED <<svc, images>>

(* Mutant: a deployment of two VMs counts as one of one.                     *)
OnlyVmWrong(p) == Cardinality(proc[p].seen) <= 2

(* deployment.roles.length > 1, of the deployment as it was listed.          *)
OnlyVm(p) == Cardinality(proc[p].seen) <= 1

(* ... the user confirms, at any later time, or declines ...                 *)
Confirm(p) ==
  /\ At(p, "confirm")
  /\ \/ Goes(p, [step |-> IF OnlyVm(p) THEN "delete deployment" ELSE "delete role"])
     \/ Ends(p, "ok")
  /\ UNCHANGED <<svc, images>>

(* ... and the role is deleted, if there were others ...                     *)
DeleteRole(p) ==
  /\ At(p, "delete role")
  /\ \/ /\ proc[p].name \in svc.roles /\ svc.roles # {proc[p].name}
        /\ svc' = [svc EXCEPT !.roles = @ \ {proc[p].name}]
        /\ Ends(p, "ok") \/ Ends(p, "error")
     \/ UNCHANGED svc /\ Ends(p, "error")
  /\ UNCHANGED images

(* ... or else the deployment of that name, whatever it has by now.          *)
DeleteDeployment(p) ==
  /\ At(p, "delete deployment")
  /\ \/ /\ svc.roles # {}
        /\ svc' = [svc EXCEPT !.roles = {}]
        /\ Goes(p, [step |-> "detail"]) \/ Ends(p, "error")
     \/ UNCHANGED svc /\ Ends(p, "error")
  /\ UNCHANGED images

(* deleteHostedServiceIfEmpty()                                              *)
GetDetailed(p) ==
  /\ At(p, "detail")
  /\ \/ svc.exists /\ svc.roles = {} /\ Goes(p, [step |-> "delete service"])
     \/ svc.exists /\ svc.roles # {} /\ Ends(p, "ok")
     \/ Ends(p, "error")
  /\ UNCHANGED <<svc, images>>

DeleteService(p) ==
  /\ At(p, "delete service")
  /\ \/ svc.exists /\ svc.roles = {} /\ svc' = NoService /\ (Ends(p, "ok") \/ Ends(p, "error"))
     \/ UNCHANGED svc /\ Ends(p, "error")
  /\ UNCHANGED images

Next ==
  \E p \in Procs :
    \/ \E o \in Options : StartCreate(p, o)
    \/ LookupService(p) \/ LookupFails(p) \/ CreateService(p) \/ CreateServiceFails(p)
    \/ GetService(p) \/ GetSlot(p) \/ CopyImage(p) \/ RoleReady(p) \/ RoleFails(p)
    \/ Send(p) \/ SendFails(p) \/ Hook(p) \/ Rollback(p)
    \/ \E name \in svc.roles \cup {0} : StartDelete(p, name)
    \/ Confirm(p) \/ DeleteRole(p) \/ DeleteDeployment(p) \/ GetDetailed(p) \/ DeleteService(p)

(* Requests are answered; a process need not start, nor a user answer.       *)
Spec == Init /\ [][Next]_vars
-----------------------------------------------------------------------------
(* Deleting a VM takes no other VM away that was there when the deployments  *)
(* were listed, although the decision between role and deployment is made    *)
(* on that list and the user may take any time to confirm.                   *)
DeleteSparesWhatItSaw ==
  [][\A p \in Procs :
       proc[p].step \in {"delete role", "delete deployment"} /\ proc'[p] # proc[p] =>
         (svc.roles \ svc'.roles) \cap proc[p].seen \subseteq {proc[p].name}]_vars

(* The rollback never takes away a service that the command had found.       *)
RollbackSparesFound ==
  [][\A p \in Procs :
       At(p, "rollback") /\ svc.exists /\ ~svc'.exists => ~proc[p].found]_vars

(* A command that has ended has left no community image of its own, and, if  *)
(* it failed, no hosted service of its own (cmdCallbackHook(),               *)
(* cleanupHostedServiceAndExit()).  Three exceptions, each of which leaves   *)
(* something: the cleanup was refused, the answer to the request that made   *)
(* it was lost, or the cleanup was skipped as after an error of createRole().*)
CleanupIsComplete ==
  \A p \in Procs :
    At(p, "idle") /\ ~proc[p].skipped =>
      /\ "image" \notin proc[p].denied \cup proc[p].lost => Me(p) \notin images
      /\ proc[p].result = "error" /\ "service" \notin proc[p].denied \cup proc[p].lost
           => ~(svc.exists /\ svc.owner = Me(p))
=============================================================================
