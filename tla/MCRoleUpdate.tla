---------------------------- MODULE MCRoleUpdate ----------------------------
(* Two processes and two VMs, with one command of every operation, such that *)
(* they meet on the same endpoints, rules, addresses and disks.              *)
EXTENDS RoleUpdate

CONSTANTS v1, v2, p1, p2

MCSymmetry == Permutations({p1, p2})

Rules == {[order |-> 0, action |-> "deny"], [order |-> 1, action |-> "permit"]}

MCInitialRoles ==
  {[v \in VMs |->
      [EmptyRole EXCEPT
         !.eps = {[Endpoint("a", 80, IF v = v1 THEN set ELSE "lb", "tcp", "on", "4")
                     EXCEPT !.acl = IF v = v1 THEN Rules ELSE {}]},
         !.disks = IF v = v1 THEN {0} ELSE {}, !.debug = "on"]]
   : set \in {NoSet, "lb"}}

OnFirst(c) == c @@ [vm |-> v1]

NewInSet(name, port) ==
  [op |-> "createEP", eps |-> {Endpoint(name, port, "lb", "http", "on", "5")}]

MCCommands ==
  {OnFirst(c) : c \in {
     NewInSet("b", 81),
     [op |-> "createMultipleEP", eps |-> {Endpoint("b", 80, NoSet, "none", "off", "5"),
                                          Endpoint("c", 81, "lb", "http", "on", "5")}],
     [op |-> "deleteEP", name |-> "a"],
     [op |-> "setEP", name |-> "a", newName |-> "b", idle |-> "6"],
     [op |-> "setEP", name |-> "a", port |-> 81, set |-> "lb"],
     [op |-> "createAcl", name |-> "a", order |-> 2, action |-> "deny"],
     [op |-> "deleteAcl", name |-> "a", order |-> 0],
     [op |-> "updateAcl", name |-> "a", order |-> 0, newOrder |-> 2, action |-> "permit"],
     [op |-> "updateAcl", name |-> "a", order |-> 1, newOrder |-> 0, action |-> "deny"],
     [op |-> "setStaticIP"],
     [op |-> "removeStaticIP"],
     [op |-> "setPublicIP", name |-> "i", timeout |-> 4],
     [op |-> "setPublicIP", name |-> "i", timeout |-> 0],
     [op |-> "removePublicIP", name |-> "i"],
     [op |-> "addNic", name |-> "n"],
     [op |-> "setVM", debug |-> "off"],
     [op |-> "setVM"],
     [op |-> "setExtension", name |-> "x", state |-> "Enable", version |-> "1"],
     [op |-> "setChefExtension", name |-> "x", state |-> "Enable"],
     [op |-> "attach"],
     [op |-> "attach", capitals |-> TRUE],
     [op |-> "detach", lun |-> 0],
     [op |-> "updateDisk", lun |-> 0],
     NewInSet("b", 81) @@ [capitals |-> TRUE]}}
=============================================================================
