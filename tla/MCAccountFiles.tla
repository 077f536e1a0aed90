--------------------------- MODULE MCAccountFiles ---------------------------
(* Bounds of the run: a person, two service principals that share a          *)
(* subscription, one of a publish settings file.                             *)
EXTENDS AccountFiles, TLC

CONSTANTS p1, p2, Ann, App1, App2, S1, S2

MCSubsOf == Ann :> {S1} @@ App1 :> {S1, S2} @@ App2 :> {S2}

(* As left by the logins of nobody, of the person, and of an application and *)
(* the person after it.                                                      *)
MCInitialFiles ==
  LET of(u, d) == [user |-> u, cert |-> FALSE, default |-> d]
  IN  {[subs |-> Empty, entries |-> {}],
       [subs |-> S1 :> of(Ann, TRUE), entries |-> {Token(Ann)}],
       [subs |-> S1 :> of(Ann, TRUE) @@ S2 :> of(App1, FALSE),
        entries |-> {Token(Ann), Token(App1), Key(App1)}]}

MCCommands ==
  {[op |-> "login", user |-> u, exact |-> TRUE, interactive |-> i] :
     u \in Users, i \in {FALSE}}
  \cup {[op |-> "login", user |-> Ann, exact |-> TRUE, interactive |-> TRUE]}
  \cup {[op |-> "logout", user |-> u, exact |-> e] : u \in {Ann, App1}, e \in BOOLEAN}
  \cup {[op |-> o, sub |-> s] : o \in {"set", "delete"}, s \in {S1, S2}}
  \cup {[op |-> o] : o \in {"import", "clear", "use"}}

MCSymmetry == Permutations(Procs)
=============================================================================
