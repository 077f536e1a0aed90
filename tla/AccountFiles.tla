---------------------------- MODULE AccountFiles ----------------------------
(* The two files that keep who is logged in: azureProfile.json with the      *)
(* subscriptions (util/profile/) and accessTokens.json with the token cache  *)
(* (util/authentication/).  A process reads the profile when it starts and   *)
(* the tokens when it first needs them, and from then on edits its own copy  *)
(* and rewrites a whole file: it truncates it and writes, at any later time. *)
(* Several processes do so, and may be killed in between.                    *)
(*                                                                           *)
(* A token stands for those of one user at one authority, a key for the      *)
(* cached secret of a service principal.  External: the directory and the    *)
(* service, which accept or refuse, and adal-node, which adds to the cache   *)
(* what the directory gave it.                                               *)
EXTENDS Naturals, FiniteSets, Sequences, Functions

CONSTANTS Procs,
          People, Principals,  \* users and service principals
          SubsOf,              \* the subscriptions the service lists for each
          Imported,            \* those a publish settings file has
          Commands,            \* the commands that may be given
          InitialFiles,        \* what the two files may hold at first
          MaxRuns              \* bound: commands a process runs

VARIABLES profile,   \* azureProfile.json: its text may be "torn"
          tokens,    \* accessTokens.json: its text may be "torn" or "empty"
          proc       \* per process: the command, its copies, what it must write

vars == <<profile, tokens, proc>>

Users == People \cup Principals
NoUser == "no user"
Empty == [s \in {} |-> {}]           \* a profile without subscriptions
Token(u) == [owner |-> u, kind |-> "token"]
Key(u) == [owner |-> u, kind |-> "key"]

Subscription == [user : Users \cup {NoUser}, cert : BOOLEAN, default : BOOLEAN]
Entries == {Token(u) : u \in Users} \cup {Key(u) : u \in Principals}

ASSUME NoUserAssumption == NoUser \notin Users /\ MaxRuns \in Nat

(* A service principal cannot log in but with its name (commands/login._js). *)
ASSUME CommandsAssumption ==
  \A c \in Commands :
    /\ c.op \in {"login", "logout", "set", "delete", "import", "clear", "use"}
    /\ c.op \in {"login", "logout"} => c.user \in Users
    /\ c.op = "login" => (c.interactive => c.user \notin Principals)

(* The files are as the program itself leaves them.                          *)
ASSUME InitialFilesAssumption ==
  \A f \in InitialFiles :
    /\ f.entries \subseteq Entries
    /\ f.subs \in [DOMAIN f.subs -> Subscription]
    /\ \/ DOMAIN f.subs = {}
       \/ \E d \in DOMAIN f.subs : \A s \in DOMAIN f.subs : f.subs[s].default = (s = d)

(* The subscriptions and entries of a file are those it last held as a whole. *)
(* seen: what this process read from, or last wrote to, the token file;      *)
(* alone: no other process has been active since it started.                 *)
Fresh == [step |-> "idle", runs |-> 0, cmd |-> [op |-> "none"], subs |-> Empty,
          loaded |-> FALSE, cache |-> {}, seen |-> {},
          writes |-> <<>>, truncated |-> FALSE, result |-> "none", alone |-> FALSE]

Init ==
  /\ \E f \in InitialFiles :
       /\ profile = [text |-> "whole", subs |-> f.subs]
       /\ tokens = [text |-> "whole", entries |-> f.entries]
  /\ proc = [p \in Procs |-> Fresh]

Idle(p) == proc[p].step = "idle"

(* Process p is at a step and has written what it had to write.              *)
At(p, step) == proc[p].step = step /\ proc[p].writes = <<>>

Goes(p, r) ==
  proc' = [proc EXCEPT ![p] = [f \in DOMAIN Fresh |-> IF f \in DOMAIN r THEN r[f] ELSE @[f]]]

Ends(p, result) ==
  proc' = [proc EXCEPT ![p] = [Fresh EXCEPT !.runs = proc[p].runs, !.cmd = proc[p].cmd,
                                            !.result = result, !.alone = proc[p].alone]]

Keeps == UNCHANGED <<profile, tokens>>

(* --- FileTokenStorage ---------------------------------------------------- *)

(* loadEntries(): an empty file counts as one without entries; TokenCache    *)
(* reads it once.                                                            *)
Readable(p) == proc[p].loaded \/ tokens.text # "torn"
Cache(p) ==
  IF proc[p].loaded THEN proc[p].cache
  ELSE IF tokens.text = "empty" THEN {} ELSE tokens.entries

TokenWrite(entries) == <<[file |-> "tokens", data |-> entries]>>
ProfileWrite(subs) == <<[file |-> "profile", data |-> subs]>>

(* The cache becomes entries, which the files get by these writes.           *)
Caches(p, entries, writes, step) ==
  Goes(p, [loaded |-> TRUE, cache |-> entries, writes |-> writes, step |-> step,
           seen |-> IF proc[p].loaded THEN proc[p].seen ELSE Cache(p)])

(* writeFile() truncates the file ...                                        *)
Truncate(p) ==
  /\ proc[p].writes # <<>> /\ ~proc[p].truncated
  /\ Goes(p, [truncated |-> TRUE])
  /\ IF Head(proc[p].writes).file = "tokens"
       THEN tokens' = [tokens EXCEPT !.text = "empty"] /\ UNCHANGED profile
       ELSE profile' = [profile EXCEPT !.text = "torn"] /\ UNCHANGED tokens

(* ... and writes: over what another process wrote meanwhile, whose longer   *)
(* text may stick out.                                                       *)
Fill(p) ==
  /\ proc[p].truncated
  /\ LET w == Head(proc[p].writes)
     IN  /\ \E text \in {"whole", "torn"} :
              IF w.file = "tokens"
                THEN /\ text = "torn" => tokens.text # "empty"
                     /\ tokens' = [text |-> text, entries |-> w.data]
                     /\ UNCHANGED profile
                ELSE /\ text = "torn" => profile.text = "whole"
                     /\ profile' = [text |-> text, subs |-> w.data]
                     /\ UNCHANGED tokens
         /\ Goes(p, [truncated |-> FALSE, writes |-> Tail(proc[p].writes),
                     seen |-> IF w.file = "tokens" THEN w.data ELSE proc[p].seen])

(* A process that is killed may have written a part of a file.               *)
Kill(p) ==
  /\ ~Idle(p)
  /\ Ends(p, "killed")
  /\ IF proc[p].truncated /\ Head(proc[p].writes).file = "tokens"
       THEN (\E text \in {tokens.text, "torn"} : tokens' = [tokens EXCEPT !.text = text])
            /\ UNCHANGED profile
       ELSE Keeps

(* --- TokenCache ---------------------------------------------------------- *)

(* Mutant: only the authority is compared.                                   *)
SameFieldsForgets(cache, e) == {x \in cache : x.kind = e.kind}

(* add() removes first what has the client, user and authority of the new    *)
(* entry.  A key has none of these fields, and neither has any other key.    *)
SameFields(cache, e) ==
  {x \in cache : x.kind = e.kind /\ (e.kind = "key" \/ x.owner = e.owner)}

Add(p, e, step) ==
  LET old  == SameFields(Cache(p), e)
      rest == Cache(p) \ old
  IN  Caches(p, rest \cup {e},
             (IF old = {} THEN <<>> ELSE TokenWrite(rest)) \o TokenWrite(rest \cup {e}), step)

(* Mutant: every id is compared as it was typed.                             *)
TokensOfTyped(cache, u, exact) == {x \in cache : x.owner = u /\ exact}

(* removeCachedToken(): the user id is compared in lower case, the ids of a  *)
(* service principal and of its client as they were typed.                   *)
TokensOf(cache, u, exact) == {x \in cache : x.owner = u /\ (exact \/ u \in People)}

Remove(p, gone, step) == Caches(p, Cache(p) \ gone, TokenWrite(Cache(p) \ gone), step)

(* --- Profile ------------------------------------------------------------- *)

Default(subs) == {s \in DOMAIN subs : subs[s].default}
SetDefault(subs, d) == [s \in DOMAIN subs |-> [subs[s] EXCEPT !.default = s \in d]]

(* addOrUpdateSubscription(), for each of these: what is there stays the     *)
(* default if it is, and keeps the certificate or user the new one lacks.    *)
AddOrUpdate(subs, new) ==
  [s \in DOMAIN subs \cup DOMAIN new |->
     IF s \notin DOMAIN new THEN subs[s]
     ELSE IF s \notin DOMAIN subs THEN new[s]
     ELSE [user    |-> IF new[s].user = NoUser THEN subs[s].user ELSE new[s].user,
           cert    |-> subs[s].cert \/ new[s].cert,
           default |-> subs[s].default]]

(* Mutant: no other subscription becomes the default.                        *)
DeletedOnly(subs, gone) == {Restrict(subs, DOMAIN subs \ gone)}

(* deleteSubscription(), for each of these, with any order of the others:    *)
(* when it was the default, the first one that remains becomes it.           *)
Deleted(subs, gone) ==
  LET rest == Restrict(subs, DOMAIN subs \ gone)
  IN  IF Default(subs) \cap gone = {} \/ DOMAIN rest = {} THEN {rest}
      ELSE {SetDefault(rest, {s}) : s \in DOMAIN rest}

(* logoutUser(): a subscription with a certificate only loses its user.      *)
UserSubs(subs, u) == {s \in DOMAIN subs : subs[s].user = u}

LoggedOut(subs, u) ==
  LET mine == UserSubs(subs, u)
  IN  Deleted([s \in DOMAIN subs |-> IF s \in mine THEN [subs[s] EXCEPT !.user = NoUser]
                                     ELSE subs[s]],
              {s \in mine : ~subs[s].cert})
-----------------------------------------------------------------------------
(* A process starts: load() reads the profile, and throws if it cannot.      *)
FirstStep(c) ==
  CASE c.op = "login"  -> IF c.interactive THEN "auth" ELSE "forget"
    [] c.op = "logout" -> "forget"
    [] OTHER           -> c.op

Start(p, c) ==
  /\ Idle(p) /\ proc[p].runs < MaxRuns
  /\ c.op \in {"set", "delete"} => c.sub \in DOMAIN profile.subs
  /\ proc' = [q \in Procs |->
       IF q # p THEN [proc[q] EXCEPT !.alone = FALSE]
       ELSE [Fresh EXCEPT
               !.runs = proc[p].runs + 1, !.cmd = c, !.subs = profile.subs,
               !.step = IF profile.text = "torn" THEN "fail" ELSE FirstStep(c),
               !.alone = \A r \in Procs \ {p} : Idle(r)]]
  /\ Keeps

(* The token file cannot be parsed: the command that needs it fails.         *)
Unreadable(p) ==
  /\ At(p, "forget") \/ At(p, "key") \/ At(p, "auth") \/ At(p, "use")
  /\ ~Readable(p)
  /\ Ends(p, "error") /\ Keeps

(* Mutant: whoever logs in has a key saved.                                  *)
AfterForgetKey(c) == IF c.op = "logout" THEN "log out" ELSE "key"

AfterForget(c) ==
  IF c.op = "logout" THEN "log out"
  ELSE IF c.user \in Principals THEN "key" ELSE "auth"

(* azure login -u and azure logout begin by removeCachedToken().             *)
Forget(p) ==
  /\ At(p, "forget") /\ Readable(p)
  /\ LET c == proc[p].cmd
     IN  Remove(p, TokensOf(Cache(p), c.user, c.exact), AfterForget(c))
  /\ Keeps

(* _saveServicePrincipalKey()                                                *)
SaveKey(p) ==
  /\ At(p, "key") /\ Readable(p)
  /\ Add(p, Key(proc[p].cmd.user), "auth")
  /\ Keeps

(* The directory is asked for a token, which adal adds to the cache; a key   *)
(* that was refused is removed again (afterTokenAcquisition()).              *)
Authenticate(p) ==
  /\ At(p, "auth") /\ Readable(p)
  /\ LET u == proc[p].cmd.user
     IN  \/ Add(p, Token(u), "list")
         \/ u \in Principals /\ Remove(p, {Key(u)}, "fail")
         \/ u \in People /\ Ends(p, "error")
  /\ Keeps

(* The subscriptions of the user are listed, and the profile is saved: the   *)
(* default stays if it is one of them.                                       *)
ListSubscriptions(p) ==
  /\ At(p, "list")
  /\ LET u    == proc[p].cmd.user
         new  == [s \in SubsOf[u] |-> [user |-> u, cert |-> FALSE, default |-> FALSE]]
         subs == AddOrUpdate(proc[p].subs, new)
         kept == Default(subs) \cap SubsOf[u]
     IN  \/ Ends(p, "error")
         \/ u \in People /\ Remove(p, TokensOf(Cache(p), u, TRUE), "fail")
         \/ SubsOf[u] = {} /\ Ends(p, "ok")
         \/ \E d \in IF kept = {} THEN {{s} : s \in SubsOf[u]} ELSE {kept} :
              Goes(p, [subs |-> SetDefault(subs, d), step |-> "end",
                       writes |-> ProfileWrite(SetDefault(subs, d))])
  /\ Keeps

(* What a command does to the subscriptions before it saves them; nobody     *)
(* logged in means nothing to save.                                          *)
LogOut(p) ==
  /\ At(p, "log out")
  /\ LET u == proc[p].cmd.user
     IN  IF UserSubs(proc[p].subs, u) = {} THEN Ends(p, "ok")
         ELSE \E subs \in LoggedOut(proc[p].subs, u) :
                Goes(p, [subs |-> subs, step |-> "end", writes |-> ProfileWrite(subs)])
  /\ Keeps

(* azure account set                                                         *)
Set(p) ==
  /\ At(p, "set")
  /\ LET subs == SetDefault(proc[p].subs, {proc[p].cmd.sub})
     IN  Goes(p, [subs |-> subs, step |-> "end", writes |-> ProfileWrite(subs)])
  /\ Keeps

(* azure account clear -s: the tokens stay.                                  *)
Delete(p) ==
  /\ At(p, "delete")
  /\ \E subs \in Deleted(proc[p].subs, {proc[p].cmd.sub}) :
       Goes(p, [subs |-> subs, step |-> "end", writes |-> ProfileWrite(subs)])
  /\ Keeps

(* azure account import: importPublishSettings()                             *)
Import(p) ==
  /\ At(p, "import")
  /\ LET new  == [s \in Imported |-> [user |-> NoUser, cert |-> TRUE, default |-> FALSE]]
         subs == AddOrUpdate(proc[p].subs, new)
     IN  \E d \in IF Default(subs) = {} THEN {{s} : s \in Imported} ELSE {Default(subs)} :
           Goes(p, [subs |-> SetDefault(subs, d), step |-> "end",
                    writes |-> ProfileWrite(SetDefault(subs, d))])
  /\ Keeps

(* azure account clear saves an empty profile, then clearAzureDir() deletes  *)
(* both files, and tokenCache.clear() writes one without entries.            *)
Clear(p) ==
  /\ At(p, "clear")
  /\ Goes(p, [subs |-> Empty, step |-> "unlink", writes |-> ProfileWrite(Empty)])
  /\ Keeps

Unlink(p) ==
  /\ At(p, "unlink")
  /\ profile' = [text |-> "whole", subs |-> Empty]
  /\ tokens' = [text |-> "whole", entries |-> {}]
  /\ Goes(p, [step |-> "end", writes |-> TokenWrite({})])

(* Any other command asks for a token of the user of the subscription: it is *)
(* in the cache, or refreshed and added, or not to be had, and then removed. *)
Use(p) ==
  /\ At(p, "use") /\ Readable(p)
  /\ \E s \in Default(proc[p].subs) :
       LET u == proc[p].subs[s].user
       IN  \/ u = NoUser /\ Goes(p, [step |-> "register"])
           \/ Token(u) \in Cache(p) /\ Caches(p, Cache(p), <<>>, "register")
           \/ u \in People /\ Token(u) \in Cache(p) /\ Add(p, Token(u), "register")
           \/ u \in People /\ Remove(p, TokensOf(Cache(p), u, TRUE), "fail")
           \/ Key(u) \in Cache(p) /\ Add(p, Token(u), "register")
           \/ Key(u) \in Cache(p) /\ Remove(p, {Key(u)}, "fail")
           \/ u \in Principals /\ Key(u) \notin Cache(p) /\ Ends(p, "error")
  /\ Keeps

(* getSubscription() throws without a default.                               *)
UseNothing(p) == At(p, "use") /\ Default(proc[p].subs) = {} /\ Ends(p, "error") /\ Keeps

(* registerAsmProvider() emits 'updated' when it has registered something,   *)
(* upon which the profile is saved, as it was read.                          *)
Register(p) ==
  /\ At(p, "register")
  /\ \/ Ends(p, "ok")
     \/ Goes(p, [step |-> "end", writes |-> ProfileWrite(proc[p].subs)])
  /\ Keeps

End(p) ==
  /\ \/ At(p, "end") /\ Ends(p, "ok")
     \/ At(p, "fail") /\ Ends(p, "error")
  /\ Keeps

Next ==
  \E p \in Procs :
    \/ \E c \in Commands : Start(p, c)
    \/ Truncate(p) \/ Fill(p) \/ Kill(p)
    \/ Unreadable(p) \/ Forget(p) \/ SaveKey(p) \/ Authenticate(p)
    \/ ListSubscriptions(p) \/ LogOut(p) \/ Set(p) \/ Delete(p) \/ Import(p)
    \/ Clear(p) \/ Unlink(p) \/ Use(p) \/ UseNothing(p) \/ Register(p) \/ End(p)

Spec == Init /\ [][Next]_vars
-----------------------------------------------------------------------------
(* The type invariant.                                                       *)
TypeOK ==
  /\ profile.text \in {"whole", "torn"} /\ tokens.text \in {"whole", "empty", "torn"}
  /\ \A s \in DOMAIN profile.subs : profile.subs[s] \in Subscription
  /\ tokens.entries \subseteq Entries
  /\ \A p \in Procs : DOMAIN proc[p] = DOMAIN Fresh /\ proc[p].runs \in 0 .. MaxRuns

(* The profile that was saved has a default subscription and no two, as long *)
(* as it has any: whatever was deleted, logged out of or merged into it.     *)
OneDefault ==
  profile.subs # Empty => Cardinality(Default(profile.subs)) = 1

(* The user a command is about.                                              *)
About(p) ==
  LET c == proc[p].cmd
  IN  IF c.op \in {"login", "logout"} THEN {c.user}
      ELSE {proc[p].subs[s].user : s \in Default(proc[p].subs)}

(* What a process writes to the token file takes away no entry of another    *)
(* user, and brings none back, but by overlap: it takes away what was added  *)
(* since it read the file, and brings back what was removed since; except    *)
(* for the keys that the key of a service principal replaces.                *)
OthersChangeOnlyByOverlap ==
  [][\A p \in Procs : proc[p].truncated /\ ~proc'[p].truncated /\ proc[p].cmd.op # "clear" =>
       /\ \A x \in tokens.entries \ tokens'.entries :
            \/ x.owner \in About(p) \/ x \notin proc[p].seen
            \/ x.kind = "key" /\ proc[p].cmd.op = "login" /\ proc[p].cmd.user \in Principals
       /\ \A x \in tokens'.entries \ tokens.entries :
            x.owner \in About(p) \/ x \in proc[p].seen]_vars

(* token-cache.js:136: "clean up entries with same fields."  A login takes   *)
(* no key of another service principal away that the process knows of.       *)
OtherKeysAreKept ==
  [][\A p \in Procs : proc[p].truncated /\ ~proc'[p].truncated /\ proc[p].cmd.op = "login" =>
       \A x \in tokens.entries \ tokens'.entries :
         x.kind = "key" /\ x \in proc[p].seen => x.owner = proc[p].cmd.user]_vars

(* What a command that nothing has overlapped has told to be done is done,   *)
(* in both files: who is logged in has a token, and a key if it needs one,   *)
(* for the subscriptions listed, one of which is the default; who is logged  *)
(* out has neither subscriptions nor, but for a service principal whose id   *)
(* was typed in another case, a secret.                                      *)
DoneAloneIsDone ==
  \A p \in Procs : Idle(p) /\ proc[p].alone /\ proc[p].result = "ok" =>
    LET c    == proc[p].cmd
        subs == profile.subs
    IN  /\ profile.text = "whole"
        /\ c.op = "login" =>
             /\ Token(c.user) \in tokens.entries
             /\ c.user \in Principals => Key(c.user) \in tokens.entries
             /\ SubsOf[c.user] \subseteq UserSubs(subs, c.user)
             /\ SubsOf[c.user] # {} => Default(subs) \subseteq SubsOf[c.user]
        /\ c.op = "logout" =>
             /\ UserSubs(subs, c.user) = {}
             /\ c.exact \/ c.user \in People => ~\E x \in tokens.entries : x.owner = c.user
        /\ c.op = "set" => Default(subs) = {c.sub}
        /\ c.op = "clear" => subs = Empty /\ tokens = [text |-> "whole", entries |-> {}]
=============================================================================
