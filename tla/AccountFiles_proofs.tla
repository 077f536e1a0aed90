------------------------- MODULE AccountFiles_proofs -------------------------
(* Any number of processes that edit their own copies of the two files: what *)
(* is saved has one default, only what a command is about changes but by     *)
(* overlap, and what runs alone is done.                                     *)
EXTENDS AccountFiles, FiniteSetTheorems, SequenceTheorems, TLAPS

(* A profile as the program saves it: as long as it has a subscription, one  *)
(* of them, and only one, is the default.                                    *)
IsProfile(subs) == subs \in [DOMAIN subs -> Subscription]
HasDefault(subs) ==
  \/ DOMAIN subs = {}
  \/ \E d \in DOMAIN subs : \A s \in DOMAIN subs : subs[s].default = (s = d)
Saved(subs) == IsProfile(subs) /\ HasDefault(subs)

(* About(), of the record of a process.                                      *)
Concerns(r) ==
  IF r.cmd.op \in {"login", "logout"} THEN {r.cmd.user}
  ELSE {r.subs[s].user : s \in Default(r.subs)}

(* What the command may do to the entries of a token file.                   *)
Allowed(r, old, new) ==
  /\ \A x \in old \ new :
       \/ x.owner \in Concerns(r)
       \/ x.kind = "key" /\ r.cmd.op = "login" /\ r.cmd.user \in Principals
  /\ \A x \in new \ old : x.owner \in Concerns(r)

(* What a process has still to write leads from what it read, or last wrote, *)
(* to its copy.                                                              *)
Writes(r) ==
  \/ r.writes = <<>> /\ ~r.truncated /\ r.seen = r.cache
  \/ r.writes = ProfileWrite(r.subs) /\ r.seen = r.cache
  \/ r.writes = TokenWrite(r.cache) /\ Allowed(r, r.seen, r.cache)
  \/ \E mid \in SUBSET r.cache :
       /\ r.writes = TokenWrite(mid) \o TokenWrite(r.cache)
       /\ Allowed(r, r.seen, mid) /\ Allowed(r, mid, r.cache)

Fields(r) ==
  /\ DOMAIN r = DOMAIN Fresh
  /\ r.runs \in 0 .. MaxRuns
  /\ r.truncated \in BOOLEAN /\ r.loaded \in BOOLEAN /\ r.alone \in BOOLEAN
  /\ r.cache \subseteq Entries
  /\ Saved(r.subs)

(* What a login or a logout has done to the copy of the token file.          *)
LoggedIn(r) ==
  /\ r.loaded /\ Token(r.cmd.user) \in r.cache
  /\ r.cmd.user \in Principals => Key(r.cmd.user) \in r.cache

Forgotten(r) ==
  /\ r.loaded
  /\ r.cmd.exact \/ r.cmd.user \in People => ~\E x \in r.cache : x.owner = r.cmd.user

(* What a command that reaches its end has done to its copies.               *)
Achieved(r) ==
  /\ r.cmd.op = "login" =>
       /\ LoggedIn(r)
       /\ SubsOf[r.cmd.user] \subseteq UserSubs(r.subs, r.cmd.user)
       /\ SubsOf[r.cmd.user] # {} => Default(r.subs) \subseteq SubsOf[r.cmd.user]
  /\ r.cmd.op = "logout" => Forgotten(r) /\ UserSubs(r.subs, r.cmd.user) = {}
  /\ r.cmd.op = "set" => Default(r.subs) = {r.cmd.sub}
  /\ r.cmd.op = "clear" => r.subs = Empty /\ r.cache = {}

(* What a command has come to at each of its steps.                          *)
Stage(r) ==
  \/ r.step = "idle" /\ r.writes = <<>>
  \/ /\ r.cmd \in Commands
     /\ \/ r.step = "forget" /\ r.cmd.op \in {"login", "logout"}
        \/ r.step = "key" /\ r.cmd.op = "login" /\ r.cmd.user \in Principals
        \/ /\ r.step = "auth" /\ r.cmd.op = "login"
           /\ r.cmd.user \in Principals => r.loaded /\ Key(r.cmd.user) \in r.cache
        \/ r.step = "list" /\ r.cmd.op = "login" /\ LoggedIn(r)
        \/ r.step = "log out" /\ r.cmd.op = "logout" /\ Forgotten(r)
        \/ r.step \in {"set", "delete"} /\ r.cmd.op = r.step /\ r.cmd.sub \in DOMAIN r.subs
        \/ r.step = "import" /\ r.cmd.op = "import"
        \/ r.step = "clear" /\ r.cmd.op = "clear" /\ r.cache = {}
        \/ r.step = "unlink" /\ r.cmd.op = "clear" /\ r.cache = {} /\ r.subs = Empty
        \/ r.step \in {"use", "register"} /\ r.cmd.op = "use"
        \/ r.step = "end" /\ Achieved(r)
        \/ r.step = "fail"

Own(r) == Fields(r) /\ Writes(r) /\ Stage(r)

Shape ==
  /\ proc = [p \in Procs |-> proc[p]]
  /\ profile = [text |-> profile.text, subs |-> profile.subs]
  /\ tokens = [text |-> tokens.text, entries |-> tokens.entries]
  /\ profile.text \in {"whole", "torn"} /\ tokens.text \in {"whole", "empty", "torn"}

FilesInv == Saved(profile.subs) /\ tokens.entries \subseteq Entries

IInv == Shape /\ FilesInv /\ \A p \in Procs : Own(proc[p])
-----------------------------------------------------------------------------
(* What a process that nothing has overlapped knows of the files.            *)
InSync(r, prof, toks) ==
  /\ r.writes # ProfileWrite(r.subs) => prof = [text |-> "whole", subs |-> r.subs]
  /\ r.writes = ProfileWrite(r.subs) => prof.text = IF r.truncated THEN "torn" ELSE "whole"
  /\ /\ r.cmd.op \in {"login", "logout"} /\ r.loaded
     /\ r.writes = << >> \/ r.writes = ProfileWrite(r.subs)
     => toks.entries = r.cache
  /\ r.writes # << >> /\ r.writes # ProfileWrite(r.subs) /\ r.truncated => toks.text = "empty"
  /\ r.cmd.op = "clear" /\ r.step = "end" =>
       /\ r.writes # ProfileWrite(r.subs)
       /\ toks = [text |-> IF r.truncated THEN "empty" ELSE "whole", entries |-> {}]

(* What a command was to do is done in both files.                           *)
Done(c, prof, toks) ==
  /\ prof.text = "whole"
  /\ c.op = "login" =>
       /\ Token(c.user) \in toks.entries
       /\ c.user \in Principals => Key(c.user) \in toks.entries
       /\ SubsOf[c.user] \subseteq UserSubs(prof.subs, c.user)
       /\ SubsOf[c.user] # {} => Default(prof.subs) \subseteq SubsOf[c.user]
  /\ c.op = "logout" =>
       /\ UserSubs(prof.subs, c.user) = {}
       /\ c.exact \/ c.user \in People => ~\E x \in toks.entries : x.owner = c.user
  /\ c.op = "set" => Default(prof.subs) = {c.sub}
  /\ c.op = "clear" => prof.subs = Empty /\ toks = [text |-> "whole", entries |-> {}]

AloneInv ==
  \A p \in Procs : proc[p].alone =>
    /\ \A q \in Procs \ {p} : Idle(q)
    /\ Idle(p) /\ proc[p].result = "ok" => Done(proc[p].cmd, profile, tokens)
    /\ ~Idle(p) /\ proc[p].step # "fail" => InSync(proc[p], profile, tokens)
-----------------------------------------------------------------------------
(* What the commands do to their copies of a profile.                        *)
LEMMA EmptySaved == Saved(Empty) /\ DOMAIN Empty = {}
<1>1. DOMAIN Empty = {}
  BY DEF Empty
<1>2. Empty \in [DOMAIN Empty -> Subscription]
  BY DEF Empty
<1> QED
  BY <1>1, <1>2 DEF Saved, IsProfile, HasDefault

LEMMA NothingIsEmpty ==
  ASSUME NEW subs, IsProfile(subs), DOMAIN subs = {}
  PROVE  subs = Empty
BY DEF IsProfile, Empty

(* A subscription, field by field.                                           *)
LEMMA SubscriptionFields ==
  ASSUME NEW x \in Subscription
  PROVE  /\ x.user \in Users \cup {NoUser} /\ x.cert \in BOOLEAN /\ x.default \in BOOLEAN
         /\ x = [user |-> x.user, cert |-> x.cert, default |-> x.default]
BY DEF Subscription

LEMMA SubscriptionDefault ==
  ASSUME NEW x \in Subscription, NEW b \in BOOLEAN
  PROVE  /\ [x EXCEPT !.default = b] \in Subscription
         /\ [x EXCEPT !.default = b].default = b
         /\ [x EXCEPT !.default = b].user = x.user
         /\ [x EXCEPT !.default = b].cert = x.cert
BY DEF Subscription

LEMMA SubscriptionUser ==
  ASSUME NEW x \in Subscription
  PROVE  /\ [x EXCEPT !.user = NoUser] \in Subscription
         /\ [x EXCEPT !.user = NoUser].default = x.default
         /\ [x EXCEPT !.user = NoUser].user = NoUser
         /\ [x EXCEPT !.user = NoUser].cert = x.cert
BY DEF Subscription

LEMMA DefaultOfSaved ==
  ASSUME NEW subs, Saved(subs)
  PROVE  IF subs = Empty THEN Default(subs) = {} ELSE \E d \in DOMAIN subs : Default(subs) = {d}
<1>1. CASE DOMAIN subs = {}
  BY <1>1, NothingIsEmpty DEF Saved, Default
<1>2. CASE DOMAIN subs # {}
  <2>1. PICK d \in DOMAIN subs : \A s \in DOMAIN subs : subs[s].default = (s = d)
    BY <1>2 DEF Saved, HasDefault
  <2>2. Default(subs) = {d}
    BY <2>1 DEF Default
  <2> QED
    BY <1>2, <2>2, EmptySaved
<1> QED
  BY <1>1, <1>2

LEMMA SetDefaultSaved ==
  ASSUME NEW subs, IsProfile(subs), NEW d \in DOMAIN subs
  PROVE  /\ Saved(SetDefault(subs, {d}))
         /\ DOMAIN SetDefault(subs, {d}) = DOMAIN subs
         /\ Default(SetDefault(subs, {d})) = {d}
         /\ \A u : UserSubs(SetDefault(subs, {d}), u) = UserSubs(subs, u)
<1> DEFINE new == SetDefault(subs, {d})
<1>1. new = [s \in DOMAIN subs |-> [subs[s] EXCEPT !.default = s \in {d}]]
  BY DEF SetDefault
<1>2. DOMAIN new = DOMAIN subs
  BY DEF SetDefault
<1>3. ASSUME NEW s \in DOMAIN subs
      PROVE  new[s] \in Subscription /\ new[s].default = (s = d) /\ new[s].user = subs[s].user
  <2>1. subs[s] \in Subscription
    BY DEF IsProfile
  <2> DEFINE b == s \in {d}
  <2>2. new[s] = [subs[s] EXCEPT !.default = b]
    BY DEF SetDefault
  <2>3. b = (s = d) /\ b \in BOOLEAN
    OBVIOUS
  <2> HIDE DEF new, b
  <2>4. new[s] \in Subscription /\ new[s].default = b /\ new[s].user = subs[s].user
    BY <2>1, <2>2, <2>3, SubscriptionDefault
  <2> QED
    BY <2>3, <2>4
<1>4. new \in [DOMAIN subs -> Subscription]
  BY <1>1, <1>3 DEF SetDefault
<1> HIDE DEF new
<1>5. Saved(new)
  BY <1>2, <1>3, <1>4 DEF Saved, IsProfile, HasDefault
<1>6. Default(new) = {d}
  BY <1>2, <1>3 DEF Default
<1>7. \A u : UserSubs(new, u) = UserSubs(subs, u)
  BY <1>2, <1>3 DEF UserSubs
<1> QED
  BY <1>2, <1>5, <1>6, <1>7 DEF new

(* Each of these subscriptions is to become x.                               *)
AllAre(add, S, x) == DOMAIN add = S /\ \A s \in S : add[s] = x

LEMMA AddOrUpdateDefault ==
  ASSUME NEW subs, IsProfile(subs), NEW S, NEW x \in Subscription, x.default = FALSE,
         NEW add, AllAre(add, S, x)
  PROVE  /\ IsProfile(AddOrUpdate(subs, add))
         /\ DOMAIN AddOrUpdate(subs, add) = DOMAIN subs \cup S
         /\ Default(AddOrUpdate(subs, add)) = Default(subs)
         /\ x.user # NoUser => S \subseteq UserSubs(AddOrUpdate(subs, add), x.user)
<1> DEFINE both(s) == [user    |-> IF x.user = NoUser THEN subs[s].user ELSE x.user,
                       cert    |-> subs[s].cert \/ x.cert,
                       default |-> subs[s].default]
           new == AddOrUpdate(subs, add)
<1>1. DOMAIN new = DOMAIN subs \cup S
  BY DEF AddOrUpdate, AllAre
<1>2. ASSUME NEW s \in DOMAIN subs \cup S
      PROVE  new[s] = IF s \notin S THEN subs[s] ELSE IF s \notin DOMAIN subs THEN x ELSE both(s)
  BY DEF AddOrUpdate, AllAre
<1>3. ASSUME NEW s \in DOMAIN subs \cap S
      PROVE  /\ both(s) \in Subscription /\ both(s).default = subs[s].default
             /\ x.user # NoUser => both(s).user = x.user
  <2>1. subs[s] \in Subscription
    BY DEF IsProfile
  <2> DEFINE u == IF x.user = NoUser THEN subs[s].user ELSE x.user
             k == subs[s].cert \/ x.cert
  <2>2. u \in Users \cup {NoUser} /\ subs[s].default \in BOOLEAN /\ (x.user # NoUser => u = x.user)
    BY <2>1, SubscriptionFields
  <2>3. k \in BOOLEAN
    OBVIOUS
  <2>4. both(s) = [user |-> u, cert |-> k, default |-> subs[s].default]
    OBVIOUS
  <2> HIDE DEF u, k, both
  <2> QED
    BY <2>2, <2>3, <2>4 DEF Subscription
<1>4. new = [s \in DOMAIN new |-> new[s]]
  BY DEF AddOrUpdate, AllAre
<1> HIDE DEF new, both
<1>5. ASSUME NEW s \in DOMAIN new
      PROVE  /\ new[s] \in Subscription
             /\ new[s].default = (s \in DOMAIN subs /\ subs[s].default)
             /\ s \in S /\ x.user # NoUser => new[s].user = x.user
  <2>1. CASE s \notin S
    <3>1. new[s] = subs[s] /\ s \in DOMAIN subs /\ subs[s] \in Subscription
      BY <1>1, <1>2, <2>1 DEF IsProfile
    <3>2. subs[s].default \in BOOLEAN
      BY <3>1, SubscriptionFields
    <3> QED
      BY <2>1, <3>1, <3>2
  <2>2. CASE s \in S /\ s \notin DOMAIN subs
    <3>1. new[s] = x
      BY <1>2, <2>2
    <3> QED
      BY <2>2, <3>1
  <2>3. CASE s \in S /\ s \in DOMAIN subs
    <3>1. new[s] = both(s)
      BY <1>2, <2>3
    <3>2. both(s) \in Subscription /\ both(s).default = subs[s].default
          /\ (x.user # NoUser => both(s).user = x.user)
      BY <1>3, <2>3
    <3>3. subs[s].default \in BOOLEAN
      BY <2>3, SubscriptionFields DEF IsProfile
    <3> QED
      BY <2>3, <3>1, <3>2, <3>3
  <2> QED
    BY <2>1, <2>2, <2>3
<1>6. IsProfile(new)
  BY <1>4, <1>5 DEF IsProfile
<1>7. Default(new) = Default(subs)
  BY <1>1, <1>5 DEF Default
<1>8. x.user # NoUser => S \subseteq UserSubs(new, x.user)
  BY <1>1, <1>5 DEF UserSubs
<1> QED
  BY <1>1, <1>6, <1>7, <1>8 DEF new

LEMMA DeletedSaved ==
  ASSUME NEW subs, Saved(subs), NEW gone, NEW new, new \in Deleted(subs, gone)
  PROVE  /\ Saved(new)
         /\ \A u : UserSubs(new, u) \subseteq UserSubs(subs, u)
<1> DEFINE rest == Restrict(subs, DOMAIN subs \ gone)
<1>1. /\ rest = [s \in DOMAIN subs \ gone |-> subs[s]]
      /\ DOMAIN rest = DOMAIN subs \ gone
      /\ \A s \in DOMAIN rest : rest[s] = subs[s]
      /\ IsProfile(rest)
  BY DEF Restrict, IsProfile, Saved
<1>2. IF Default(subs) \cap gone = {} \/ DOMAIN rest = {} THEN new = rest
      ELSE \E d \in DOMAIN rest : new = SetDefault(rest, {d})
  BY DEF Deleted
<1> HIDE DEF rest
<1>3. CASE DOMAIN rest = {}
  BY <1>1, <1>2, <1>3 DEF Saved, HasDefault, UserSubs
<1>4. CASE Default(subs) \cap gone = {} /\ DOMAIN rest # {}
  <2>1. PICK d \in DOMAIN subs : \A s \in DOMAIN subs : subs[s].default = (s = d)
    BY <1>1, <1>4 DEF Saved, HasDefault
  <2>2. d \in Default(subs)
    BY <2>1 DEF Default
  <2>3. d \in DOMAIN rest /\ \A s \in DOMAIN rest : rest[s].default = (s = d)
    BY <1>1, <1>4, <2>1, <2>2
  <2> QED
    BY <1>1, <1>2, <1>4, <2>3 DEF Saved, HasDefault, UserSubs
<1>5. CASE ~(Default(subs) \cap gone = {}) /\ DOMAIN rest # {}
  <2>1. PICK d \in DOMAIN rest : new = SetDefault(rest, {d})
    BY <1>2, <1>5
  <2> QED
    <3>1. Saved(new) /\ \A u : UserSubs(new, u) = UserSubs(rest, u)
      BY <1>1, <2>1, SetDefaultSaved
    <3>2. \A u : UserSubs(rest, u) \subseteq UserSubs(subs, u)
      BY <1>1 DEF UserSubs
    <3> QED
      BY <3>1, <3>2
<1> QED
  BY <1>3, <1>4, <1>5

LEMMA LoggedOutSaved ==
  ASSUME NEW subs, Saved(subs), NEW u \in Users, NEW new \in LoggedOut(subs, u)
  PROVE  Saved(new) /\ UserSubs(new, u) = {}
<1> DEFINE mine == UserSubs(subs, u)
           left == [s \in DOMAIN subs |-> IF s \in mine THEN [subs[s] EXCEPT !.user = NoUser]
                                          ELSE subs[s]]
           gone == {s \in mine : ~subs[s].cert}
<1>1. new \in Deleted(left, gone)
  BY DEF LoggedOut
<1>2. ASSUME NEW s \in DOMAIN subs
      PROVE  left[s] \in Subscription /\ left[s].default = subs[s].default /\ left[s].user # u
  <2>1. subs[s] \in Subscription
    BY DEF Saved, IsProfile
  <2>2. CASE s \in mine
    <3>1. left[s] = [subs[s] EXCEPT !.user = NoUser]
      BY <2>2
    <3>2. NoUser # u
      BY NoUserAssumption
    <3> HIDE DEF left
    <3> QED
      BY <2>1, <3>1, <3>2, SubscriptionUser
  <2>3. CASE s \notin mine
    BY <2>1, <2>3 DEF UserSubs
  <2> QED
    BY <2>2, <2>3
<1>3. DOMAIN left = DOMAIN subs /\ left = [s \in DOMAIN subs |-> left[s]]
  OBVIOUS
<1> HIDE DEF left, gone
<1>4. Saved(left)
  BY <1>2, <1>3 DEF Saved, IsProfile, HasDefault
<1>5. Saved(new) /\ UserSubs(new, u) \subseteq UserSubs(left, u)
  BY <1>1, <1>4, DeletedSaved
<1> QED
  BY <1>2, <1>3, <1>5 DEF UserSubs
-----------------------------------------------------------------------------
(* What is still to be written.                                              *)
LEMMA OneWrite ==
  ASSUME NEW d
  PROVE  /\ TokenWrite(d) # << >> /\ Tail(TokenWrite(d)) = << >>
         /\ Head(TokenWrite(d)).file = "tokens" /\ Head(TokenWrite(d)).data = d
         /\ ProfileWrite(d) # << >> /\ Tail(ProfileWrite(d)) = << >>
         /\ Head(ProfileWrite(d)).file = "profile" /\ Head(ProfileWrite(d)).data = d
         /\ << >> \o TokenWrite(d) = TokenWrite(d)
<1> DEFINE t == [file |-> "tokens", data |-> d]
           f == [file |-> "profile", data |-> d]
<1>1. t.file = "tokens" /\ t.data = d /\ f.file = "profile" /\ f.data = d
  OBVIOUS
<1>2. TokenWrite(d) = <<t>> /\ ProfileWrite(d) = <<f>>
  BY DEF TokenWrite, ProfileWrite
<1> HIDE DEF t, f
<1>3. <<t>> # << >> /\ <<f>> # << >> /\ Head(<<t>>) = t /\ Head(<<f>>) = f
  OBVIOUS
<1>4. Tail(<<t>>) = << >> /\ Tail(<<f>>) = << >>
  OBVIOUS
<1>5. << >> \o <<t>> = <<t>>
  OBVIOUS
<1> QED
  BY <1>1, <1>2, <1>3, <1>4, <1>5

LEMMA TwoWrites ==
  ASSUME NEW d, NEW e
  PROVE  /\ TokenWrite(d) \o TokenWrite(e) # << >>
         /\ Tail(TokenWrite(d) \o TokenWrite(e)) = TokenWrite(e)
         /\ Head(TokenWrite(d) \o TokenWrite(e)).file = "tokens"
         /\ Head(TokenWrite(d) \o TokenWrite(e)).data = d
<1> DEFINE t == [file |-> "tokens", data |-> d]
           u == [file |-> "tokens", data |-> e]
<1>1. t.file = "tokens" /\ t.data = d
  OBVIOUS
<1>2. TokenWrite(d) = <<t>> /\ TokenWrite(e) = <<u>>
  BY DEF TokenWrite
<1> HIDE DEF t, u
<1>3. <<t>> \o <<u>> = <<t, u>>
  <2>1. <<t>> \in Seq({t, u}) /\ <<u>> \in Seq({t, u}) /\ <<t, u>> \in Seq({t, u})
    OBVIOUS
  <2>2. Len(<<t>>) = 1 /\ Len(<<u>>) = 1 /\ Len(<<t, u>>) = 2
    OBVIOUS
  <2>3. /\ <<t>> \o <<u>> \in Seq({t, u}) /\ Len(<<t>> \o <<u>>) = 2
        /\ (<<t>> \o <<u>>)[1] = <<t>>[1] /\ (<<t>> \o <<u>>)[2] = <<u>>[1]
    BY <2>1, <2>2
  <2>4. <<t>>[1] = t /\ <<u>>[1] = u /\ <<t, u>>[1] = t /\ <<t, u>>[2] = u
    OBVIOUS
  <2>5. \A i \in 1 .. 2 : (<<t>> \o <<u>>)[i] = <<t, u>>[i]
    BY <2>3, <2>4
  <2> QED
    BY <2>1, <2>2, <2>3, <2>5, SeqEqual
<1>4. <<t, u>> # << >> /\ Head(<<t, u>>) = t /\ Tail(<<t, u>>) = <<u>>
  OBVIOUS
<1> QED
  BY <1>1, <1>2, <1>3, <1>4

(* Whether what is written next is the profile.                              *)
LEMMA NextWrite ==
  ASSUME NEW r, Writes(r)
  PROVE  /\ r.writes # << >> => Head(r.writes).file \in {"tokens", "profile"}
         /\ r.writes = ProfileWrite(r.subs) <=> r.writes # << >> /\ Head(r.writes).file = "profile"
BY OneWrite, TwoWrites DEF Writes

LEMMA EntriesOf ==
  ASSUME NEW u \in Users
  PROVE  /\ Token(u) \in Entries /\ Token(u).owner = u /\ Token(u).kind = "token"
         /\ Key(u).owner = u /\ Key(u).kind = "key"
         /\ u \in Principals <=> Key(u) \in Entries
BY DEF Entries, Token, Key, Users
-----------------------------------------------------------------------------
(* What the ways to change a process's record do to its fields.              *)
LEMMA FreshFields ==
  /\ DOMAIN Fresh = {"step", "runs", "cmd", "subs", "loaded", "cache", "seen",
                     "writes", "truncated", "result", "alone"}
  /\ Fresh.step = "idle" /\ Fresh.runs = 0 /\ Fresh.cmd = [op |-> "none"]
  /\ Fresh.subs = Empty /\ Fresh.loaded = FALSE /\ Fresh.cache = {} /\ Fresh.seen = {}
  /\ Fresh.writes = << >> /\ Fresh.truncated = FALSE /\ Fresh.result = "none"
  /\ Fresh.alone = FALSE
BY DEF Fresh

(* Only the record of p changes.                                             *)
OnlyOf(p) ==
  /\ proc' = [q \in Procs |-> proc'[q]]
  /\ \A q \in Procs \ {p} : proc'[q] = proc[q]

LEMMA GoesFields ==
  ASSUME Shape, NEW p \in Procs, NEW r, Goes(p, r)
  PROVE  /\ OnlyOf(p)
         /\ DOMAIN proc'[p] = DOMAIN Fresh
         /\ \A f \in DOMAIN Fresh : proc'[p][f] = IF f \in DOMAIN r THEN r[f] ELSE proc[p][f]
<1> DEFINE new == [f \in DOMAIN Fresh |-> IF f \in DOMAIN r THEN r[f] ELSE proc[p][f]]
<1>1. proc' = [proc EXCEPT ![p] = new] /\ DOMAIN proc = Procs
  BY DEF Goes, Shape
<1>2. proc'[p] = new /\ OnlyOf(p)
  <2> HIDE DEF new
  <2> QED
    BY <1>1 DEF OnlyOf
<1> QED
  BY <1>1, <1>2

LEMMA EndsFields ==
  ASSUME Shape, NEW p \in Procs, NEW result, Ends(p, result)
  PROVE  /\ OnlyOf(p)
         /\ DOMAIN proc'[p] = DOMAIN Fresh
         /\ proc'[p].step = "idle" /\ proc'[p].runs = proc[p].runs
         /\ proc'[p].cmd = proc[p].cmd /\ proc'[p].subs = Empty
         /\ proc'[p].loaded = FALSE /\ proc'[p].cache = {} /\ proc'[p].seen = {}
         /\ proc'[p].writes = << >> /\ proc'[p].truncated = FALSE
         /\ proc'[p].result = result /\ proc'[p].alone = proc[p].alone
<1> DEFINE new == [Fresh EXCEPT !.runs = proc[p].runs, !.cmd = proc[p].cmd,
                                !.result = result, !.alone = proc[p].alone]
<1>1. proc' = [proc EXCEPT ![p] = new] /\ DOMAIN proc = Procs
  BY DEF Ends, Shape
<1>2. proc'[p] = new /\ OnlyOf(p)
  <2> HIDE DEF new
  <2> QED
    BY <1>1 DEF OnlyOf
<1>3. /\ DOMAIN new = DOMAIN Fresh
      /\ new.step = "idle" /\ new.runs = proc[p].runs
      /\ new.cmd = proc[p].cmd /\ new.subs = Empty
      /\ new.loaded = FALSE /\ new.cache = {} /\ new.seen = {}
      /\ new.writes = << >> /\ new.truncated = FALSE
      /\ new.result = result /\ new.alone = proc[p].alone
  BY DEF Fresh
<1> QED
  BY <1>2, <1>3
-----------------------------------------------------------------------------
(* How the copy of the token file changes.                                   *)
LEMMA InStep ==
  ASSUME NEW r, Own(r), r.writes = << >>
  PROVE  r.truncated = FALSE /\ r.seen = r.cache
BY OneWrite, TwoWrites DEF Own, Writes, Fields

LEMMA CacheIsOfEntries ==
  ASSUME IInv, NEW p \in Procs
  PROVE  Cache(p) \subseteq Entries /\ (proc[p].loaded => Cache(p) = proc[p].cache)
<1>1. proc[p].cache \subseteq Entries /\ tokens.entries \subseteq Entries
  BY DEF IInv, Own, Fields, FilesInv
<1>2. Cache(p) \in {proc[p].cache, {}, tokens.entries}
  BY DEF Cache
<1>3. proc[p].loaded => Cache(p) = proc[p].cache
  BY DEF Cache
<1> QED
  BY <1>1, <1>2, <1>3

LEMMA CachesFields ==
  ASSUME IInv, NEW p \in Procs, proc[p].writes = << >>,
         NEW entries \in SUBSET Entries, NEW writes, NEW step,
         Caches(p, entries, writes, step)
  PROVE  /\ OnlyOf(p) /\ Fields(proc'[p])
         /\ proc'[p].step = step /\ proc'[p].cmd = proc[p].cmd
         /\ proc'[p].subs = proc[p].subs /\ proc'[p].alone = proc[p].alone
         /\ proc'[p].loaded = TRUE /\ proc'[p].cache = entries
         /\ proc'[p].seen = Cache(p) /\ proc'[p].writes = writes
         /\ proc'[p].truncated = FALSE
<1> DEFINE old == IF proc[p].loaded THEN proc[p].seen ELSE Cache(p)
           r == [loaded |-> TRUE, cache |-> entries, writes |-> writes, step |-> step, seen |-> old]
<1>1. Goes(p, r)
  BY DEF Caches
<1>2. DOMAIN r = {"loaded", "cache", "writes", "step", "seen"}
      /\ r["loaded"] = TRUE /\ r["cache"] = entries /\ r["writes"] = writes
      /\ r["step"] = step /\ r["seen"] = old
  OBVIOUS
<1>3. Shape /\ Own(proc[p])
  BY DEF IInv
<1>4. old = Cache(p) /\ proc[p].truncated = FALSE
  BY <1>3, InStep, CacheIsOfEntries
<1> HIDE DEF old, r
<1>5. /\ OnlyOf(p) /\ DOMAIN proc'[p] = DOMAIN Fresh
      /\ \A f \in DOMAIN Fresh : proc'[p][f] = IF f \in DOMAIN r THEN r[f] ELSE proc[p][f]
  BY <1>1, <1>3, GoesFields
<1>6. /\ proc'[p].step = step /\ proc'[p].cmd = proc[p].cmd
      /\ proc'[p].subs = proc[p].subs /\ proc'[p].alone = proc[p].alone
      /\ proc'[p].runs = proc[p].runs /\ proc'[p].truncated = proc[p].truncated
      /\ proc'[p].loaded = TRUE /\ proc'[p].cache = entries
      /\ proc'[p].seen = old /\ proc'[p].writes = writes
  BY <1>2, <1>5, FreshFields
<1>7. Fields(proc'[p])
  BY <1>3, <1>5, <1>6 DEF Own, Fields
<1> QED
  BY <1>4, <1>5, <1>6, <1>7

(* The copy has become entries, and they are still to be written.            *)
Cached(p, entries, step) ==
  /\ OnlyOf(p) /\ Fields(proc'[p]) /\ Writes(proc'[p])
  /\ proc'[p].step = step /\ proc'[p].cmd = proc[p].cmd
  /\ proc'[p].subs = proc[p].subs /\ proc'[p].alone = proc[p].alone
  /\ proc'[p].loaded = TRUE /\ proc'[p].cache = entries
  /\ proc'[p].writes # << >> /\ proc'[p].writes # ProfileWrite(proc'[p].subs)
  /\ proc'[p].truncated = FALSE

LEMMA RemoveCached ==
  ASSUME IInv, NEW p \in Procs, proc[p].writes = << >>, NEW gone, NEW step,
         \A x \in gone : x.owner \in Concerns(proc[p]),
         Remove(p, gone, step)
  PROVE  Cached(p, Cache(p) \ gone, step)
<1> DEFINE entries == Cache(p) \ gone
<1>1. entries \in SUBSET Entries /\ Caches(p, entries, TokenWrite(entries), step)
  BY CacheIsOfEntries DEF Remove
<1> HIDE DEF entries
<1>2. /\ OnlyOf(p) /\ Fields(proc'[p])
      /\ proc'[p].step = step /\ proc'[p].cmd = proc[p].cmd
      /\ proc'[p].subs = proc[p].subs /\ proc'[p].alone = proc[p].alone
      /\ proc'[p].loaded = TRUE /\ proc'[p].cache = entries
      /\ proc'[p].seen = Cache(p) /\ proc'[p].writes = TokenWrite(entries)
      /\ proc'[p].truncated = FALSE
  BY <1>1, CachesFields
<1>3. Concerns(proc'[p]) = Concerns(proc[p])
  BY <1>2 DEF Concerns
<1>4. Allowed(proc'[p], Cache(p), entries)
  BY <1>3 DEF Allowed, entries
<1>5. Writes(proc'[p])
  BY <1>2, <1>4 DEF Writes
<1>6. proc'[p].writes # << >> /\ proc'[p].writes # ProfileWrite(proc'[p].subs)
  BY <1>2, OneWrite
<1> QED
  BY <1>2, <1>5, <1>6 DEF Cached, entries

LEMMA AddCached ==
  ASSUME IInv, NEW p \in Procs, proc[p].writes = << >>, NEW e \in Entries, NEW step,
         e.owner \in Concerns(proc[p]),
         e.kind = "key" => proc[p].cmd.op = "login" /\ proc[p].cmd.user \in Principals,
         Add(p, e, step)
  PROVE  \E entries : e \in entries /\ Cached(p, entries, step)
           /\ \A x \in Cache(p) : x.kind # e.kind => x \in entries
<1> DEFINE old == SameFields(Cache(p), e)
           rest == Cache(p) \ old
           entries == rest \cup {e}
           writes == (IF old = {} THEN << >> ELSE TokenWrite(rest)) \o TokenWrite(entries)
<1>1. Caches(p, entries, writes, step)
  BY DEF Add
<1>2. entries \in SUBSET Entries
  BY CacheIsOfEntries
<1>3. \A x \in old : x.owner = e.owner \/ (x.kind = "key" /\ e.kind = "key")
  BY DEF SameFields
<1>4. IF old = {} THEN writes = TokenWrite(entries) ELSE writes = TokenWrite(rest) \o TokenWrite(entries)
  <2>1. writes = IF old = {} THEN << >> \o TokenWrite(entries) ELSE TokenWrite(rest) \o TokenWrite(entries)
    OBVIOUS
  <2> HIDE DEF old, rest, entries, writes
  <2> QED
    BY <2>1, OneWrite
<1> HIDE DEF old, rest, entries, writes
<1>5. /\ OnlyOf(p) /\ Fields(proc'[p])
      /\ proc'[p].step = step /\ proc'[p].cmd = proc[p].cmd
      /\ proc'[p].subs = proc[p].subs /\ proc'[p].alone = proc[p].alone
      /\ proc'[p].loaded = TRUE /\ proc'[p].cache = entries
      /\ proc'[p].seen = Cache(p) /\ proc'[p].writes = writes
      /\ proc'[p].truncated = FALSE
  BY <1>1, <1>2, CachesFields
<1>6. Concerns(proc'[p]) = Concerns(proc[p])
  BY <1>5 DEF Concerns
<1>7. Allowed(proc'[p], Cache(p), rest)
  BY <1>3, <1>5, <1>6 DEF Allowed, rest
<1>8. Allowed(proc'[p], rest, entries)
  BY <1>6 DEF Allowed, entries
<1>9. Writes(proc'[p])
  <2>1. CASE old = {}
    <3>1. rest = Cache(p)
      BY <2>1 DEF rest
    <3> QED
      BY <1>4, <1>5, <1>8, <2>1, <3>1 DEF Writes
  <2>2. CASE old # {}
    <3>1. rest \in SUBSET entries
      BY DEF entries
    <3> QED
      BY <1>4, <1>5, <1>7, <1>8, <2>2, <3>1 DEF Writes
  <2> QED
    BY <2>1, <2>2
<1>10. proc'[p].writes # << >> /\ proc'[p].writes # ProfileWrite(proc'[p].subs)
  BY <1>4, <1>5, OneWrite, TwoWrites
<1>11. e \in entries /\ \A x \in Cache(p) : x.kind # e.kind => x \in entries
  BY DEF entries, rest, old, SameFields
<1> QED
  BY <1>5, <1>9, <1>10, <1>11 DEF Cached

(* A profile is to be saved.                                                 *)
ProfileKept(p, step) ==
  /\ OnlyOf(p) /\ Fields(proc'[p]) /\ Writes(proc'[p])
  /\ proc'[p].step = step /\ proc'[p].cmd = proc[p].cmd
  /\ proc'[p].writes = ProfileWrite(proc'[p].subs)
  /\ proc'[p].cache = proc[p].cache /\ proc'[p].loaded = proc[p].loaded
  /\ proc'[p].truncated = FALSE /\ proc'[p].alone = proc[p].alone

LEMMA SaveKept ==
  ASSUME IInv, NEW p \in Procs, proc[p].writes = << >>, NEW subs, Saved(subs), NEW step,
         Goes(p, [subs |-> subs, step |-> step, writes |-> ProfileWrite(subs)])
  PROVE  ProfileKept(p, step) /\ proc'[p].subs = subs
<1> DEFINE r == [subs |-> subs, step |-> step, writes |-> ProfileWrite(subs)]
<1>1. DOMAIN r = {"subs", "step", "writes"}
      /\ r["subs"] = subs /\ r["step"] = step /\ r["writes"] = ProfileWrite(subs)
  OBVIOUS
<1>2. Shape /\ Own(proc[p]) /\ Goes(p, r)
  BY DEF IInv
<1>3. proc[p].truncated = FALSE /\ proc[p].seen = proc[p].cache
  BY <1>2, InStep
<1> HIDE DEF r
<1>4. /\ OnlyOf(p) /\ DOMAIN proc'[p] = DOMAIN Fresh
      /\ \A f \in DOMAIN Fresh : proc'[p][f] = IF f \in DOMAIN r THEN r[f] ELSE proc[p][f]
  BY <1>2, GoesFields
<1>5. /\ proc'[p].step = step /\ proc'[p].cmd = proc[p].cmd
      /\ proc'[p].subs = subs /\ proc'[p].alone = proc[p].alone
      /\ proc'[p].runs = proc[p].runs /\ proc'[p].truncated = proc[p].truncated
      /\ proc'[p].loaded = proc[p].loaded /\ proc'[p].cache = proc[p].cache
      /\ proc'[p].seen = proc[p].seen /\ proc'[p].writes = ProfileWrite(subs)
  BY <1>1, <1>4, FreshFields
<1>6. Fields(proc'[p])
  BY <1>2, <1>4, <1>5 DEF Own, Fields
<1>7. Writes(proc'[p])
  BY <1>3, <1>5 DEF Writes
<1> QED
  BY <1>3, <1>4, <1>5, <1>6, <1>7 DEF ProfileKept

(* Only a step, and at most a write, is new.                                 *)
LEMMA StepFields ==
  ASSUME IInv, NEW p \in Procs, NEW step, Goes(p, [step |-> step])
  PROVE  /\ OnlyOf(p) /\ DOMAIN proc'[p] = DOMAIN Fresh
         /\ proc'[p].step = step
         /\ \A f \in DOMAIN Fresh \ {"step"} : proc'[p][f] = proc[p][f]
<1> DEFINE r == [step |-> step]
<1>1. DOMAIN r = {"step"} /\ r["step"] = step
  OBVIOUS
<1>2. Shape /\ Goes(p, r)
  BY DEF IInv
<1> HIDE DEF r
<1>3. /\ OnlyOf(p) /\ DOMAIN proc'[p] = DOMAIN Fresh
      /\ \A f \in DOMAIN Fresh : proc'[p][f] = IF f \in DOMAIN r THEN r[f] ELSE proc[p][f]
  BY <1>2, GoesFields
<1> QED
  BY <1>1, <1>3, FreshFields

LEMMA StepWriteFields ==
  ASSUME IInv, NEW p \in Procs, NEW step, NEW writes, Goes(p, [step |-> step, writes |-> writes])
  PROVE  /\ OnlyOf(p) /\ DOMAIN proc'[p] = DOMAIN Fresh
         /\ proc'[p].step = step /\ proc'[p].writes = writes
         /\ \A f \in DOMAIN Fresh \ {"step", "writes"} : proc'[p][f] = proc[p][f]
<1> DEFINE r == [step |-> step, writes |-> writes]
<1>1. DOMAIN r = {"step", "writes"} /\ r["step"] = step /\ r["writes"] = writes
  OBVIOUS
<1>2. Shape /\ Goes(p, r)
  BY DEF IInv
<1> HIDE DEF r
<1>3. /\ OnlyOf(p) /\ DOMAIN proc'[p] = DOMAIN Fresh
      /\ \A f \in DOMAIN Fresh : proc'[p][f] = IF f \in DOMAIN r THEN r[f] ELSE proc[p][f]
  BY <1>2, GoesFields
<1> QED
  BY <1>1, <1>3, FreshFields

(* A process that has ended keeps its own part of the invariant.             *)
LEMMA EndsOwn ==
  ASSUME IInv, NEW p \in Procs, NEW result, Ends(p, result)
  PROVE  OnlyOf(p) /\ Own(proc'[p])
<1>1. Shape /\ Own(proc[p])
  BY DEF IInv
<1>2. /\ OnlyOf(p)
      /\ DOMAIN proc'[p] = DOMAIN Fresh
      /\ proc'[p].step = "idle" /\ proc'[p].runs = proc[p].runs
      /\ proc'[p].subs = Empty
      /\ proc'[p].loaded = FALSE /\ proc'[p].cache = {} /\ proc'[p].seen = {}
      /\ proc'[p].writes = << >> /\ proc'[p].truncated = FALSE
      /\ proc'[p].alone = proc[p].alone
  BY <1>1, EndsFields
<1>3. Fields(proc'[p])
  BY <1>1, <1>2, EmptySaved DEF Own, Fields
<1> QED
  BY <1>2, <1>3 DEF Own, Writes, Stage

(* A step of p that keeps its own part, and what is shared, keeps the whole. *)
LEMMA OwnIsEnough ==
  ASSUME IInv, NEW p \in Procs, OnlyOf(p), Own(proc'[p]), Shape', FilesInv'
  PROVE  IInv'
<1>1. \A q \in Procs : Own(proc'[q])
  <2> TAKE q \in Procs
  <2>1. CASE q = p
    BY <2>1
  <2>2. CASE q # p
    <3>1. proc'[q] = proc[q] /\ Own(proc[q])
      BY <2>2 DEF OnlyOf, IInv
    <3> QED
      BY <3>1
  <2> QED
    BY <2>1, <2>2
<1> QED
  BY <1>1 DEF IInv

LEMMA FilesUntouched ==
  ASSUME IInv, NEW p \in Procs, OnlyOf(p), Keeps
  PROVE  Shape' /\ FilesInv'
BY DEF IInv, OnlyOf, Keeps, Shape, FilesInv, Saved, IsProfile, HasDefault
-----------------------------------------------------------------------------
(* What a step of a command does: it ends the command, changes its copy of   *)
(* one of the files, which is then to be written, or only goes on.           *)
Moves(p) ==
  \/ \E result : result # "ok" /\ Ends(p, result)
  \/ /\ proc[p].step # "fail"
     /\ \/ /\ Ends(p, "ok") /\ Achieved(proc[p])
           /\ proc[p].cmd.op = "clear" => proc[p].step = "end"
        \/ /\ Cached(p, proc'[p].cache, proc'[p].step)
           /\ proc'[p].step \notin {"idle", "end"}
        \/ /\ ProfileKept(p, proc'[p].step)
           /\ proc'[p].step = "end" => proc'[p].cmd.op # "clear"
        \/ /\ proc'[p].step = "register" /\ proc'[p].writes = << >> /\ proc'[p].cmd = proc[p].cmd
           /\ proc'[p].subs = proc[p].subs /\ proc[p].cmd.op = "use"
           /\ proc'[p].alone = proc[p].alone

Advances(p) == OnlyOf(p) /\ Own(proc'[p]) /\ Moves(p)

LEMMA EndsAdvances ==
  ASSUME IInv, NEW p \in Procs, NEW result, result # "ok", Ends(p, result)
  PROVE  Advances(p)
BY EndsOwn DEF Advances, Moves

LEMMA EndsOkAdvances ==
  ASSUME IInv, NEW p \in Procs, Ends(p, "ok"), proc[p].step # "fail", Achieved(proc[p]),
         proc[p].cmd.op = "clear" => proc[p].step = "end"
  PROVE  Advances(p)
BY EndsOwn DEF Advances, Moves

LEMMA CachedAdvances ==
  ASSUME IInv, NEW p \in Procs, NEW entries, NEW step, Cached(p, entries, step),
         proc[p].step # "fail", step \notin {"idle", "end"}, Stage(proc'[p])
  PROVE  Advances(p)
BY DEF Advances, Moves, Cached, Own

LEMMA KeptAdvances ==
  ASSUME IInv, NEW p \in Procs, NEW step, ProfileKept(p, step),
         proc[p].step # "fail", step = "end" => proc[p].cmd.op # "clear", Stage(proc'[p])
  PROVE  Advances(p)
BY DEF Advances, Moves, ProfileKept, Own

(* The user of a login or logout.                                            *)
LEMMA UserOf ==
  ASSUME NEW p \in Procs, proc[p].cmd \in Commands, proc[p].cmd.op \in {"login", "logout"}
  PROVE  /\ proc[p].cmd.user \in Users /\ proc[p].cmd.user # NoUser
         /\ Concerns(proc[p]) = {proc[p].cmd.user}
BY CommandsAssumption, NoUserAssumption DEF Concerns

LEMMA ForgetAdvances ==
  ASSUME IInv, NEW p \in Procs, Forget(p)
  PROVE  Advances(p)
<1> DEFINE c == proc[p].cmd
           gone == TokensOf(Cache(p), c.user, c.exact)
<1>1. /\ proc[p].step = "forget" /\ proc[p].writes = << >>
      /\ Remove(p, gone, AfterForget(c)) /\ Own(proc[p])
  BY DEF Forget, At, IInv
<1>2. c \in Commands /\ c.op \in {"login", "logout"}
  BY <1>1 DEF Own, Stage
<1>3. \A x \in gone : x.owner = c.user
  BY DEF TokensOf
<1>4. Cached(p, Cache(p) \ gone, AfterForget(c))
  <2>1. \A x \in gone : x.owner \in Concerns(proc[p])
    BY <1>2, <1>3, UserOf
  <2> QED
    BY <1>1, <2>1, RemoveCached
<1>5. AfterForget(c) \in {"log out", "key", "auth"}
  BY DEF AfterForget
<1>6. Stage(proc'[p])
  <2>1. proc'[p].step = AfterForget(c) /\ proc'[p].cmd = c
        /\ proc'[p].cache = Cache(p) \ gone /\ proc'[p].loaded
    BY <1>4 DEF Cached
  <2>2. CASE c.op = "logout"
    <3>1. proc'[p].step = "log out"
      BY <2>1, <2>2 DEF AfterForget
    <3>2. c.exact \/ c.user \in People => ~\E x \in proc'[p].cache : x.owner = c.user
      BY <2>1 DEF TokensOf
    <3> QED
      BY <1>2, <2>1, <2>2, <3>1, <3>2 DEF Stage, Forgotten
  <2>3. CASE c.op = "login" /\ c.user \in Principals
    <3>1. proc'[p].step = "key"
      BY <2>1, <2>3 DEF AfterForget
    <3> QED
      BY <1>2, <2>1, <2>3, <3>1 DEF Stage
  <2>4. CASE c.op = "login" /\ c.user \notin Principals
    <3>1. proc'[p].step = "auth"
      BY <2>1, <2>4 DEF AfterForget
    <3> QED
      BY <1>2, <2>1, <2>4, <3>1 DEF Stage
  <2> QED
    BY <1>2, <2>2, <2>3, <2>4
<1> QED
  BY <1>1, <1>4, <1>5, <1>6, CachedAdvances

LEMMA SaveKeyAdvances ==
  ASSUME IInv, NEW p \in Procs, SaveKey(p)
  PROVE  Advances(p)
<1> DEFINE u == proc[p].cmd.user
<1>1. /\ proc[p].step = "key" /\ proc[p].writes = << >>
      /\ Add(p, Key(u), "auth") /\ Own(proc[p])
  BY DEF SaveKey, At, IInv
<1>2. proc[p].cmd \in Commands /\ proc[p].cmd.op = "login" /\ u \in Principals
  BY <1>1 DEF Own, Stage
<1>3. u \in Users /\ Concerns(proc[p]) = {u}
  BY <1>2, UserOf
<1>4. Key(u) \in Entries /\ Key(u).owner \in Concerns(proc[p])
  BY <1>2, <1>3, EntriesOf
<1>5. PICK entries : Key(u) \in entries /\ Cached(p, entries, "auth")
  <2> HIDE DEF u
  <2> QED
    BY <1>1, <1>2, <1>4, AddCached DEF u
<1>6. Stage(proc'[p])
  BY <1>2, <1>5 DEF Stage, Cached
<1> QED
  BY <1>1, <1>5, <1>6, CachedAdvances

LEMMA AuthenticateAdvances ==
  ASSUME IInv, NEW p \in Procs, Authenticate(p)
  PROVE  Advances(p)
<1> DEFINE u == proc[p].cmd.user
<1>1. /\ proc[p].step = "auth" /\ proc[p].writes = << >> /\ Own(proc[p])
      /\ \/ Add(p, Token(u), "list")
         \/ Remove(p, {Key(u)}, "fail")
         \/ Ends(p, "error")
  BY DEF Authenticate, At, IInv
<1>2. proc[p].cmd \in Commands /\ proc[p].cmd.op = "login"
      /\ (u \in Principals => proc[p].loaded /\ Key(u) \in proc[p].cache)
  BY <1>1 DEF Own, Stage
<1>3. u \in Users /\ Concerns(proc[p]) = {u}
  BY <1>2, UserOf
<1>4. /\ Token(u) \in Entries /\ Token(u).owner \in Concerns(proc[p])
      /\ Token(u).kind = "token" /\ Key(u).kind = "key" /\ Key(u).owner \in Concerns(proc[p])
  BY <1>3, EntriesOf
<1>5. CASE Add(p, Token(u), "list")
  <2>1. PICK entries : /\ Token(u) \in entries /\ Cached(p, entries, "list")
                       /\ \A x \in Cache(p) : x.kind # Token(u).kind => x \in entries
    BY <1>1, <1>4, <1>5, AddCached
  <2>2. u \in Principals => Key(u) \in entries
    BY <1>2, <1>4, <2>1, CacheIsOfEntries
  <2>3. Stage(proc'[p])
    BY <1>2, <2>1, <2>2 DEF Stage, Cached, LoggedIn
  <2> QED
    BY <1>1, <2>1, <2>3, CachedAdvances
<1>6. CASE Remove(p, {Key(u)}, "fail")
  <2>1. Cached(p, Cache(p) \ {Key(u)}, "fail")
    BY <1>1, <1>4, <1>6, RemoveCached
  <2>2. Stage(proc'[p])
    BY <1>2, <2>1 DEF Stage, Cached
  <2> QED
    BY <1>1, <2>1, <2>2, CachedAdvances
<1>7. CASE Ends(p, "error")
  BY <1>7, EndsAdvances
<1> QED
  BY <1>1, <1>5, <1>6, <1>7

LEMMA ListAdvances ==
  ASSUME IInv, NEW p \in Procs, ListSubscriptions(p)
  PROVE  Advances(p)
<1> DEFINE u    == proc[p].cmd.user
           x    == [user |-> u, cert |-> FALSE, default |-> FALSE]
           add  == [s \in SubsOf[u] |-> x]
           subs == AddOrUpdate(proc[p].subs, add)
           kept == Default(subs) \cap SubsOf[u]
           saves(d) == Goes(p, [subs |-> SetDefault(subs, d), step |-> "end",
                                writes |-> ProfileWrite(SetDefault(subs, d))])
<1>1. /\ proc[p].step = "list" /\ proc[p].writes = << >> /\ Own(proc[p])
      /\ \/ Ends(p, "error")
         \/ Remove(p, TokensOf(Cache(p), u, TRUE), "fail")
         \/ SubsOf[u] = {} /\ Ends(p, "ok")
         \/ \E d \in IF kept = {} THEN {{s} : s \in SubsOf[u]} ELSE {kept} : saves(d)
  BY DEF ListSubscriptions, At, IInv
<1>2. proc[p].cmd \in Commands /\ proc[p].cmd.op = "login" /\ LoggedIn(proc[p])
  BY <1>1 DEF Own, Stage
<1>3. u \in Users /\ u # NoUser /\ Concerns(proc[p]) = {u}
  BY <1>2, UserOf
<1>4. CASE Ends(p, "error")
  BY <1>4, EndsAdvances
<1>5. CASE Remove(p, TokensOf(Cache(p), u, TRUE), "fail")
  <2>1. \A y \in TokensOf(Cache(p), u, TRUE) : y.owner \in Concerns(proc[p])
    BY <1>3 DEF TokensOf
  <2>2. Cached(p, Cache(p) \ TokensOf(Cache(p), u, TRUE), "fail")
    BY <1>1, <1>5, <2>1, RemoveCached
  <2>3. Stage(proc'[p])
    BY <1>2, <2>2 DEF Stage, Cached
  <2> QED
    BY <1>1, <2>2, <2>3, CachedAdvances
<1>6. CASE SubsOf[u] = {} /\ Ends(p, "ok")
  <2>1. Achieved(proc[p])
    BY <1>2, <1>6 DEF Achieved
  <2> QED
    BY <1>1, <1>2, <1>6, <2>1, EndsOkAdvances
<1>7. CASE \E d \in IF kept = {} THEN {{s} : s \in SubsOf[u]} ELSE {kept} : saves(d)
  <2>1. x \in Subscription /\ x.default = FALSE /\ x.user = u
    BY <1>3 DEF Subscription
  <2>2. Saved(proc[p].subs)
    BY <1>1 DEF Own, Fields
  <2>3. /\ IsProfile(subs)
        /\ DOMAIN subs = DOMAIN proc[p].subs \cup SubsOf[u]
        /\ Default(subs) = Default(proc[p].subs)
        /\ SubsOf[u] \subseteq UserSubs(subs, u)
    <3>1. IsProfile(proc[p].subs) /\ AllAre(add, SubsOf[u], x)
      BY <2>2 DEF Saved, AllAre
    <3> HIDE DEF x, u, add
    <3> QED
      BY <1>3, <2>1, <3>1, AddOrUpdateDefault
  <2>4. PICK s \in SubsOf[u] : saves({s})
    <3>1. CASE kept = {}
      <4> HIDE DEF saves
      <4> QED
        BY <1>7, <3>1
    <3>2. CASE kept # {}
      <4>1. PICK s \in DOMAIN proc[p].subs : Default(proc[p].subs) = {s}
        BY <2>2, <2>3, <3>2, DefaultOfSaved
      <4>2. Default(subs) = {s}
        BY <2>3, <4>1
      <4>3. s \in SubsOf[u] /\ kept = {s}
        <5> HIDE DEF subs
        <5> QED
          BY <3>2, <4>2
      <4>4. saves(kept)
        <5> HIDE DEF saves
        <5> QED
          BY <1>7, <3>2
      <4> HIDE DEF kept, saves
      <4> QED
        BY <4>3, <4>4
    <3> QED
      BY <3>1, <3>2
  <2> DEFINE new == SetDefault(subs, {s})
  <2>5. /\ Saved(new) /\ DOMAIN new = DOMAIN subs /\ Default(new) = {s}
        /\ UserSubs(new, u) = UserSubs(subs, u)
    <3> HIDE DEF subs
    <3> QED
      BY <2>3, <2>4, SetDefaultSaved
  <2>6. Goes(p, [subs |-> new, step |-> "end", writes |-> ProfileWrite(new)])
    BY <2>4
  <2>7. SubsOf[u] \subseteq UserSubs(new, u)
    <3> HIDE DEF subs, new
    <3> QED
      BY <2>3, <2>5
  <2> HIDE DEF new, subs
  <2>8. ProfileKept(p, "end") /\ proc'[p].subs = new
    BY <1>1, <2>5, <2>6, SaveKept
  <2>9. proc'[p].step = "end" /\ proc'[p].cmd = proc[p].cmd
        /\ proc'[p].cache = proc[p].cache /\ proc'[p].loaded = proc[p].loaded
    BY <2>8 DEF ProfileKept
  <2>10. Achieved(proc'[p])
    BY <1>2, <2>4, <2>5, <2>7, <2>8, <2>9 DEF Achieved, LoggedIn
  <2>11. Stage(proc'[p])
    BY <1>2, <2>9, <2>10 DEF Stage
  <2> QED
    BY <1>1, <1>2, <2>8, <2>11, KeptAdvances
<1> QED
  BY <1>1, <1>4, <1>5, <1>6, <1>7

LEMMA LogOutAdvances ==
  ASSUME IInv, NEW p \in Procs, LogOut(p)
  PROVE  Advances(p)
<1> DEFINE u == proc[p].cmd.user
<1>1. /\ proc[p].step = "log out" /\ proc[p].writes = << >> /\ Own(proc[p])
      /\ \/ UserSubs(proc[p].subs, u) = {} /\ Ends(p, "ok")
         \/ \E subs \in LoggedOut(proc[p].subs, u) :
              Goes(p, [subs |-> subs, step |-> "end", writes |-> ProfileWrite(subs)])
  BY DEF LogOut, At, IInv
<1>2. proc[p].cmd \in Commands /\ proc[p].cmd.op = "logout" /\ Forgotten(proc[p])
  BY <1>1 DEF Own, Stage
<1>3. CASE UserSubs(proc[p].subs, u) = {} /\ Ends(p, "ok")
  <2>1. Achieved(proc[p])
    BY <1>2, <1>3 DEF Achieved
  <2> QED
    BY <1>1, <1>2, <1>3, <2>1, EndsOkAdvances
<1>4. ASSUME NEW subs \in LoggedOut(proc[p].subs, u),
             Goes(p, [subs |-> subs, step |-> "end", writes |-> ProfileWrite(subs)])
      PROVE  Advances(p)
  <2>1. Saved(proc[p].subs) /\ u \in Users
    BY <1>1, <1>2, UserOf DEF Own, Fields
  <2>2. Saved(subs) /\ UserSubs(subs, u) = {}
    BY <2>1, LoggedOutSaved
  <2>3. ProfileKept(p, "end") /\ proc'[p].subs = subs
    BY <1>1, <1>4, <2>2, SaveKept
  <2>4. proc'[p].step = "end" /\ proc'[p].cmd = proc[p].cmd
        /\ proc'[p].cache = proc[p].cache /\ proc'[p].loaded = proc[p].loaded
    BY <2>3 DEF ProfileKept
  <2>5. Achieved(proc'[p])
    BY <1>2, <2>2, <2>3, <2>4 DEF Achieved, Forgotten
  <2>6. Stage(proc'[p])
    BY <1>2, <2>4, <2>5 DEF Stage
  <2> QED
    BY <1>1, <1>2, <2>3, <2>6, KeptAdvances
<1> QED
  BY <1>1, <1>3, <1>4

(* What is saved by a command that is neither a login nor a logout.          *)
LEMMA EditAdvances ==
  ASSUME IInv, NEW p \in Procs, proc[p].writes = << >>, proc[p].step # "fail",
         proc[p].cmd \in Commands, proc[p].cmd.op \notin {"login", "logout", "clear"},
         NEW subs, Saved(subs),
         proc[p].cmd.op = "set" => Default(subs) = {proc[p].cmd.sub},
         Goes(p, [subs |-> subs, step |-> "end", writes |-> ProfileWrite(subs)])
  PROVE  Advances(p)
<1>1. ProfileKept(p, "end") /\ proc'[p].subs = subs
  BY SaveKept
<1>2. proc'[p].step = "end" /\ proc'[p].cmd = proc[p].cmd
  BY <1>1 DEF ProfileKept
<1>3. Achieved(proc'[p])
  BY <1>1, <1>2 DEF Achieved
<1>4. Stage(proc'[p])
  BY <1>2, <1>3 DEF Stage
<1> QED
  BY <1>1, <1>4, KeptAdvances

LEMMA SetAdvances ==
  ASSUME IInv, NEW p \in Procs, Set(p)
  PROVE  Advances(p)
<1> DEFINE subs == SetDefault(proc[p].subs, {proc[p].cmd.sub})
<1>1. /\ proc[p].step = "set" /\ proc[p].writes = << >> /\ Own(proc[p])
      /\ Goes(p, [subs |-> subs, step |-> "end", writes |-> ProfileWrite(subs)])
  BY DEF Set, At, IInv
<1>2. proc[p].cmd \in Commands /\ proc[p].cmd.op = "set" /\ proc[p].cmd.sub \in DOMAIN proc[p].subs
  BY <1>1 DEF Own, Stage
<1>3. Saved(subs) /\ Default(subs) = {proc[p].cmd.sub}
  BY <1>1, <1>2, SetDefaultSaved DEF Own, Fields, Saved
<1> HIDE DEF subs
<1> QED
  BY <1>1, <1>2, <1>3, EditAdvances

LEMMA DeleteAdvances ==
  ASSUME IInv, NEW p \in Procs, Delete(p)
  PROVE  Advances(p)
<1>1. PICK subs \in Deleted(proc[p].subs, {proc[p].cmd.sub}) :
        /\ proc[p].step = "delete" /\ proc[p].writes = << >> /\ Own(proc[p])
        /\ Goes(p, [subs |-> subs, step |-> "end", writes |-> ProfileWrite(subs)])
  BY DEF Delete, At, IInv
<1>2. proc[p].cmd \in Commands /\ proc[p].cmd.op = "delete"
  BY <1>1 DEF Own, Stage
<1>3. Saved(subs)
  BY <1>1, DeletedSaved DEF Own, Fields
<1> QED
  BY <1>1, <1>2, <1>3, EditAdvances

LEMMA ImportAdvances ==
  ASSUME IInv, NEW p \in Procs, Import(p)
  PROVE  Advances(p)
<1> DEFINE x    == [user |-> NoUser, cert |-> TRUE, default |-> FALSE]
           add  == [s \in Imported |-> x]
           subs == AddOrUpdate(proc[p].subs, add)
           saves(d) == Goes(p, [subs |-> SetDefault(subs, d), step |-> "end",
                                writes |-> ProfileWrite(SetDefault(subs, d))])
<1>1. /\ proc[p].step = "import" /\ proc[p].writes = << >> /\ Own(proc[p])
      /\ \E d \in IF Default(subs) = {} THEN {{s} : s \in Imported} ELSE {Default(subs)} : saves(d)
  BY DEF Import, At, IInv
<1>2. proc[p].cmd \in Commands /\ proc[p].cmd.op = "import"
  BY <1>1 DEF Own, Stage
<1>3. Saved(proc[p].subs)
  BY <1>1 DEF Own, Fields
<1>4. x \in Subscription /\ x.default = FALSE
  BY DEF Subscription
<1>5. /\ IsProfile(subs)
      /\ DOMAIN subs = DOMAIN proc[p].subs \cup Imported
      /\ Default(subs) = Default(proc[p].subs)
  <2>1. IsProfile(proc[p].subs) /\ AllAre(add, Imported, x)
    BY <1>3 DEF Saved, AllAre
  <2> HIDE DEF x, add
  <2> QED
    BY <1>4, <2>1, AddOrUpdateDefault
<1>6. PICK s \in DOMAIN subs : saves({s})
  <2>1. CASE Default(subs) = {}
    <3> HIDE DEF saves
    <3> QED
      BY <1>1, <1>5, <2>1
  <2>2. CASE Default(subs) # {}
    <3>1. PICK s \in DOMAIN subs : Default(subs) = {s}
      BY <1>3, <1>5, <2>2, DefaultOfSaved
    <3>2. saves(Default(subs))
      <4> HIDE DEF saves
      <4> QED
        BY <1>1, <2>2
    <3> HIDE DEF saves
    <3> QED
      BY <3>1, <3>2
  <2> QED
    BY <2>1, <2>2
<1> DEFINE new == SetDefault(subs, {s})
<1>7. Goes(p, [subs |-> new, step |-> "end", writes |-> ProfileWrite(new)])
  BY <1>6
<1> HIDE DEF subs
<1>8. Saved(new)
  BY <1>5, <1>6, SetDefaultSaved
<1> HIDE DEF new
<1> QED
  BY <1>1, <1>2, <1>7, <1>8, EditAdvances

LEMMA ClearAdvances ==
  ASSUME IInv, NEW p \in Procs, Clear(p)
  PROVE  Advances(p)
<1>1. /\ proc[p].step = "clear" /\ proc[p].writes = << >> /\ Own(proc[p])
      /\ Goes(p, [subs |-> Empty, step |-> "unlink", writes |-> ProfileWrite(Empty)])
  BY DEF Clear, At, IInv
<1>2. proc[p].cmd \in Commands /\ proc[p].cmd.op = "clear" /\ proc[p].cache = {}
  BY <1>1 DEF Own, Stage
<1>3. ProfileKept(p, "unlink") /\ proc'[p].subs = Empty
  BY <1>1, EmptySaved, SaveKept
<1>4. Stage(proc'[p])
  BY <1>2, <1>3 DEF Stage, ProfileKept
<1> QED
  BY <1>1, <1>3, <1>4, KeptAdvances

LEMMA UseAdvances ==
  ASSUME IInv, NEW p \in Procs, Use(p)
  PROVE  Advances(p)
<1>1. /\ proc[p].step = "use" /\ proc[p].writes = << >> /\ Own(proc[p])
  BY DEF Use, At, IInv
<1>2. proc[p].cmd \in Commands /\ proc[p].cmd.op = "use"
  BY <1>1 DEF Own, Stage
<1>3. PICK s \in Default(proc[p].subs) :
        LET u == proc[p].subs[s].user
        IN  \/ Goes(p, [step |-> "register"])
            \/ Caches(p, Cache(p), <<>>, "register")
            \/ u \in People /\ Add(p, Token(u), "register")
            \/ u \in People /\ Remove(p, TokensOf(Cache(p), u, TRUE), "fail")
            \/ Key(u) \in Cache(p) /\ Add(p, Token(u), "register")
            \/ Remove(p, {Key(u)}, "fail")
            \/ Ends(p, "error")
  BY DEF Use
<1> DEFINE u == proc[p].subs[s].user
<1>4. u \in Concerns(proc[p])
  BY <1>2, <1>3 DEF Concerns
<1> HIDE DEF u
<1>5. CASE Goes(p, [step |-> "register"])
  <2>1. /\ OnlyOf(p) /\ DOMAIN proc'[p] = DOMAIN Fresh /\ proc'[p].step = "register"
        /\ proc'[p].cmd = proc[p].cmd /\ proc'[p].subs = proc[p].subs
        /\ proc'[p].runs = proc[p].runs /\ proc'[p].loaded = proc[p].loaded
        /\ proc'[p].cache = proc[p].cache /\ proc'[p].seen = proc[p].seen
        /\ proc'[p].writes = proc[p].writes /\ proc'[p].truncated = proc[p].truncated
        /\ proc'[p].alone = proc[p].alone
    BY <1>5, StepFields, FreshFields
  <2>2. Fields(proc'[p])
    BY <1>1, <2>1 DEF Own, Fields
  <2>3. proc[p].truncated = FALSE /\ proc[p].seen = proc[p].cache
    BY <1>1, InStep
  <2>4. Writes(proc'[p]) /\ Stage(proc'[p])
    BY <1>1, <1>2, <2>1, <2>3 DEF Writes, Stage
  <2> QED
    BY <1>1, <1>2, <2>1, <2>2, <2>4 DEF Advances, Moves, Own
<1>6. CASE Caches(p, Cache(p), <<>>, "register")
  <2>1. /\ OnlyOf(p) /\ Fields(proc'[p]) /\ proc'[p].step = "register"
        /\ proc'[p].cmd = proc[p].cmd /\ proc'[p].subs = proc[p].subs
        /\ proc'[p].cache = Cache(p) /\ proc'[p].seen = Cache(p)
        /\ proc'[p].writes = << >> /\ proc'[p].truncated = FALSE
        /\ proc'[p].alone = proc[p].alone
    <3>1. Cache(p) \in SUBSET Entries
      BY CacheIsOfEntries
    <3> QED
      BY <1>1, <1>6, <3>1, CachesFields
  <2>2. Writes(proc'[p]) /\ Stage(proc'[p])
    BY <1>2, <2>1 DEF Writes, Stage
  <2> QED
    BY <1>1, <1>2, <2>1, <2>2 DEF Advances, Moves, Own
<1>7. CASE u \in Users /\ Add(p, Token(u), "register")
  <2>1. /\ Token(u) \in Entries /\ Token(u).owner \in Concerns(proc[p])
        /\ Token(u).kind # "key"
    BY <1>4, <1>7, EntriesOf
  <2>2. PICK entries : Cached(p, entries, "register")
    BY <1>1, <1>7, <2>1, AddCached
  <2>3. Stage(proc'[p])
    BY <1>2, <2>2 DEF Stage, Cached
  <2> QED
    BY <1>1, <2>2, <2>3, CachedAdvances
<1>8. ASSUME NEW gone, Remove(p, gone, "fail"), \A x \in gone : x.owner = u
      PROVE  Advances(p)
  <2>1. Cached(p, Cache(p) \ gone, "fail")
    BY <1>1, <1>4, <1>8, RemoveCached
  <2>2. Stage(proc'[p])
    BY <1>2, <2>1 DEF Stage, Cached
  <2> QED
    BY <1>1, <2>1, <2>2, CachedAdvances
<1>9. CASE Ends(p, "error")
  BY <1>9, EndsAdvances
<1>10. Key(u) \in Cache(p) => u \in Users
  <2>1. Key(u) \in Cache(p) => Key(u) \in Entries
    BY CacheIsOfEntries
  <2>2. Key(u) \in Entries => u \in Users
    BY DEF Entries, Key, Token, Users
  <2> QED
    BY <2>1, <2>2
<1>11. /\ \A x \in TokensOf(Cache(p), u, TRUE) : x.owner = u
       /\ \A x \in {Key(u)} : x.owner = u
  BY DEF TokensOf, Key
<1>12. \/ Goes(p, [step |-> "register"])
       \/ Caches(p, Cache(p), <<>>, "register")
       \/ u \in People /\ Add(p, Token(u), "register")
       \/ u \in People /\ Remove(p, TokensOf(Cache(p), u, TRUE), "fail")
       \/ Key(u) \in Cache(p) /\ Add(p, Token(u), "register")
       \/ Remove(p, {Key(u)}, "fail")
       \/ Ends(p, "error")
  BY <1>3 DEF u
<1>13. u \in People => u \in Users
  BY DEF Users
<1> QED
  BY <1>5, <1>6, <1>7, <1>8, <1>9, <1>10, <1>11, <1>12, <1>13

LEMMA RegisterAdvances ==
  ASSUME IInv, NEW p \in Procs, Register(p)
  PROVE  Advances(p)
<1>1. /\ proc[p].step = "register" /\ proc[p].writes = << >> /\ Own(proc[p])
      /\ \/ Ends(p, "ok")
         \/ Goes(p, [step |-> "end", writes |-> ProfileWrite(proc[p].subs)])
  BY DEF Register, At, IInv
<1>2. proc[p].cmd \in Commands /\ proc[p].cmd.op = "use"
  BY <1>1 DEF Own, Stage
<1>3. CASE Ends(p, "ok")
  <2>1. Achieved(proc[p])
    BY <1>2 DEF Achieved
  <2> QED
    BY <1>1, <1>2, <1>3, <2>1, EndsOkAdvances
<1>4. CASE Goes(p, [step |-> "end", writes |-> ProfileWrite(proc[p].subs)])
  <2>1. /\ OnlyOf(p) /\ DOMAIN proc'[p] = DOMAIN Fresh /\ proc'[p].step = "end"
        /\ proc'[p].writes = ProfileWrite(proc[p].subs)
        /\ proc'[p].cmd = proc[p].cmd /\ proc'[p].subs = proc[p].subs
        /\ proc'[p].runs = proc[p].runs /\ proc'[p].loaded = proc[p].loaded
        /\ proc'[p].cache = proc[p].cache /\ proc'[p].seen = proc[p].seen
        /\ proc'[p].truncated = proc[p].truncated /\ proc'[p].alone = proc[p].alone
    BY <1>4, StepWriteFields, FreshFields
  <2>2. Fields(proc'[p])
    BY <1>1, <2>1 DEF Own, Fields
  <2>3. proc[p].truncated = FALSE /\ proc[p].seen = proc[p].cache
    BY <1>1, InStep
  <2>4. Writes(proc'[p])
    BY <2>1, <2>3 DEF Writes
  <2>5. ProfileKept(p, "end")
    BY <2>1, <2>2, <2>3, <2>4 DEF ProfileKept
  <2>6. Stage(proc'[p])
    BY <1>2, <2>1 DEF Stage, Achieved
  <2> QED
    BY <1>1, <1>2, <2>5, <2>6, KeptAdvances
<1> QED
  BY <1>1, <1>3, <1>4

LEMMA EndAdvances ==
  ASSUME IInv, NEW p \in Procs, End(p)
  PROVE  Advances(p)
<1>1. Own(proc[p])
  BY DEF IInv
<1>2. CASE At(p, "end") /\ Ends(p, "ok")
  <2>1. proc[p].step = "end" /\ Achieved(proc[p])
    BY <1>1, <1>2 DEF At, Own, Stage
  <2> QED
    BY <1>2, <2>1, EndsOkAdvances
<1>3. CASE At(p, "fail") /\ Ends(p, "error")
  BY <1>3, EndsAdvances
<1> QED
  BY <1>2, <1>3 DEF End

(* The steps of a command that leave the files alone.                        *)
Thinks(p) ==
  \/ Unreadable(p) \/ Forget(p) \/ SaveKey(p) \/ Authenticate(p)
  \/ ListSubscriptions(p) \/ LogOut(p) \/ Set(p) \/ Delete(p) \/ Import(p)
  \/ Clear(p) \/ Use(p) \/ UseNothing(p) \/ Register(p) \/ End(p)

LEMMA ThinksAdvances ==
  ASSUME IInv, NEW p \in Procs, Thinks(p)
  PROVE  /\ Advances(p) /\ Keeps
         /\ proc[p].writes = << >> /\ proc[p].step # "idle"
<1>1. Advances(p)
  <2>1. ASSUME Unreadable(p) \/ UseNothing(p) PROVE Advances(p)
    <3>1. Ends(p, "error")
      BY <2>1 DEF Unreadable, UseNothing
    <3> QED
      BY <3>1, EndsAdvances
  <2> QED
    BY <2>1, ForgetAdvances, SaveKeyAdvances, AuthenticateAdvances, ListAdvances,
       LogOutAdvances, SetAdvances, DeleteAdvances, ImportAdvances, ClearAdvances,
       UseAdvances, RegisterAdvances, EndAdvances DEF Thinks
<1>2. Keeps
  BY DEF Thinks, Unreadable, Forget, SaveKey, Authenticate, ListSubscriptions, LogOut, Set,
         Delete, Import, Clear, Use, UseNothing, Register, End
<1>3. proc[p].writes = << >> /\ proc[p].step # "idle"
  BY DEF Thinks, Unreadable, Forget, SaveKey, Authenticate, ListSubscriptions, LogOut, Set,
         Delete, Import, Clear, Use, UseNothing, Register, End, At
<1> QED
  BY <1>1, <1>2, <1>3
-----------------------------------------------------------------------------
(* The steps that change the files.                                          *)
LEMMA StageStays ==
  ASSUME NEW r, Stage(r), NEW n, n.step = r.step, n.cmd = r.cmd, n.subs = r.subs,
         n.cache = r.cache, n.loaded = r.loaded, r.step = "idle" => n.writes = << >>
  PROVE  Stage(n)
<1>1. LoggedIn(r) => LoggedIn(n)
  BY DEF LoggedIn
<1>2. Forgotten(r) => Forgotten(n)
  BY DEF Forgotten
<1>3. Achieved(r) => Achieved(n)
  BY <1>1, <1>2 DEF Achieved
<1> QED
  BY <1>1, <1>2, <1>3 DEF Stage

LEMMA NewTokensText ==
  ASSUME Shape, NEW t, tokens' = [tokens EXCEPT !.text = t]
  PROVE  tokens' = [text |-> t, entries |-> tokens.entries]
BY DEF Shape

LEMMA TruncateFields ==
  ASSUME IInv, NEW p \in Procs, Truncate(p)
  PROVE  /\ OnlyOf(p) /\ DOMAIN proc'[p] = DOMAIN Fresh /\ proc'[p].truncated = TRUE
         /\ proc[p].writes # << >> /\ proc[p].truncated = FALSE /\ proc[p].step # "idle"
         /\ \A f \in DOMAIN Fresh \ {"truncated"} : proc'[p][f] = proc[p][f]
         /\ IF proc[p].writes = ProfileWrite(proc[p].subs)
              THEN profile' = [text |-> "torn", subs |-> profile.subs] /\ tokens' = tokens
              ELSE profile' = profile /\ tokens' = [text |-> "empty", entries |-> tokens.entries]
<1> DEFINE r == [truncated |-> TRUE]
<1>1. DOMAIN r = {"truncated"} /\ r["truncated"] = TRUE
  OBVIOUS
<1>2. Shape /\ Own(proc[p]) /\ Goes(p, r) /\ proc[p].writes # << >> /\ ~proc[p].truncated
  BY DEF IInv, Truncate
<1> HIDE DEF r
<1>3. /\ OnlyOf(p) /\ DOMAIN proc'[p] = DOMAIN Fresh
      /\ \A f \in DOMAIN Fresh : proc'[p][f] = IF f \in DOMAIN r THEN r[f] ELSE proc[p][f]
  BY <1>2, GoesFields
<1>4. /\ proc'[p].truncated = TRUE
      /\ \A f \in DOMAIN Fresh \ {"truncated"} : proc'[p][f] = proc[p][f]
  BY <1>1, <1>3, FreshFields
<1>5. proc[p].truncated = FALSE /\ proc[p].step # "idle"
  BY <1>2 DEF Own, Fields, Stage
<1>6. IF Head(proc[p].writes).file = "tokens"
        THEN tokens' = [tokens EXCEPT !.text = "empty"] /\ profile' = profile
        ELSE profile' = [profile EXCEPT !.text = "torn"] /\ tokens' = tokens
  BY DEF Truncate
<1>7. proc[p].writes = ProfileWrite(proc[p].subs) <=> Head(proc[p].writes).file # "tokens"
  BY <1>2, NextWrite DEF Own
<1>8. profile' = [profile EXCEPT !.text = "torn"] => profile' = [text |-> "torn", subs |-> profile.subs]
  BY <1>2 DEF Shape
<1> QED
  BY <1>2, <1>3, <1>4, <1>5, <1>6, <1>7, <1>8, NewTokensText

LEMMA TruncateKeeps ==
  ASSUME IInv, NEW p \in Procs, Truncate(p)
  PROVE  IInv'
<1>1. /\ OnlyOf(p) /\ DOMAIN proc'[p] = DOMAIN Fresh /\ proc'[p].truncated = TRUE
      /\ proc[p].writes # << >> /\ proc[p].step # "idle"
      /\ proc'[p].step = proc[p].step /\ proc'[p].runs = proc[p].runs
      /\ proc'[p].cmd = proc[p].cmd /\ proc'[p].subs = proc[p].subs
      /\ proc'[p].loaded = proc[p].loaded /\ proc'[p].cache = proc[p].cache
      /\ proc'[p].seen = proc[p].seen /\ proc'[p].writes = proc[p].writes
      /\ proc'[p].alone = proc[p].alone
  BY TruncateFields, FreshFields
<1>2. Own(proc[p])
  BY DEF IInv
<1>3. Fields(proc'[p])
  BY <1>1, <1>2 DEF Own, Fields
<1>4. \A a, b : Allowed(proc[p], a, b) => Allowed(proc'[p], a, b)
  BY <1>1 DEF Allowed, Concerns
<1>5. Writes(proc'[p])
  BY <1>1, <1>2, <1>4 DEF Own, Writes
<1>6. Stage(proc'[p])
  BY <1>1, <1>2, StageStays DEF Own
<1>7. Shape' /\ FilesInv'
  <2>1. \/ profile' = [text |-> "torn", subs |-> profile.subs] /\ tokens' = tokens
        \/ profile' = profile /\ tokens' = [text |-> "empty", entries |-> tokens.entries]
    BY TruncateFields
  <2>2. Shape /\ FilesInv
    BY DEF IInv
  <2>3. CASE profile' = [text |-> "torn", subs |-> profile.subs] /\ tokens' = tokens
    <3>1. profile'.text = "torn" /\ profile'.subs = profile.subs
      BY <2>3
    <3>2. Shape'
      BY <1>1, <2>2, <2>3, <3>1 DEF Shape, OnlyOf
    <3> QED
      BY <2>2, <2>3, <3>1, <3>2 DEF FilesInv, Saved, IsProfile, HasDefault
  <2>4. CASE profile' = profile /\ tokens' = [text |-> "empty", entries |-> tokens.entries]
    <3>1. tokens'.text = "empty" /\ tokens'.entries = tokens.entries
      BY <2>4
    <3>2. Shape'
      BY <1>1, <2>2, <2>4, <3>1 DEF Shape, OnlyOf
    <3> QED
      BY <2>2, <2>4, <3>1, <3>2 DEF FilesInv, Saved, IsProfile, HasDefault
  <2> QED
    BY <2>1, <2>3, <2>4
<1> QED
  BY <1>1, <1>3, <1>5, <1>6, <1>7, OwnIsEnough DEF Own

(* What is written, to which file, is all that Fill() changes.               *)
LEMMA FillFields ==
  ASSUME IInv, NEW p \in Procs, Fill(p)
  PROVE  /\ OnlyOf(p) /\ DOMAIN proc'[p] = DOMAIN Fresh /\ proc'[p].truncated = FALSE
         /\ proc[p].writes # << >> /\ proc[p].truncated = TRUE /\ proc[p].step # "idle"
         /\ proc'[p].writes = Tail(proc[p].writes)
         /\ \A f \in DOMAIN Fresh \ {"truncated", "writes", "seen"} : proc'[p][f] = proc[p][f]
         /\ \E text \in {"whole", "torn"} :
              IF proc[p].writes = ProfileWrite(proc[p].subs)
                THEN /\ proc'[p].seen = proc[p].seen
                     /\ text = "torn" => profile.text = "whole"
                     /\ profile' = [text |-> text, subs |-> proc[p].subs] /\ tokens' = tokens
                ELSE /\ proc'[p].seen = Head(proc[p].writes).data
                     /\ text = "torn" => tokens.text # "empty"
                     /\ tokens' = [text |-> text, entries |-> proc'[p].seen]
                     /\ profile' = profile
<1> DEFINE w == Head(proc[p].writes)
           seen == IF w.file = "tokens" THEN w.data ELSE proc[p].seen
           rest == Tail(proc[p].writes)
           r == [truncated |-> FALSE, writes |-> rest, seen |-> seen]
<1>1. DOMAIN r = {"truncated", "writes", "seen"}
      /\ r["truncated"] = FALSE /\ r["writes"] = rest /\ r["seen"] = seen
  OBVIOUS
<1>2. Shape /\ Own(proc[p]) /\ Goes(p, r) /\ proc[p].truncated
  BY DEF IInv, Fill
<1>3. proc[p].truncated = TRUE /\ proc[p].writes # << >> /\ proc[p].step # "idle"
  <2>1. proc[p].truncated = TRUE
    BY <1>2 DEF Own, Fields
  <2>2. proc[p].writes # << >>
    BY <1>2, <2>1, InStep
  <2>3. proc[p].step # "idle"
    BY <1>2, <2>2 DEF Own, Stage
  <2> QED
    BY <2>1, <2>2, <2>3
<1> HIDE DEF r
<1>4. /\ OnlyOf(p) /\ DOMAIN proc'[p] = DOMAIN Fresh
      /\ \A f \in DOMAIN Fresh : proc'[p][f] = IF f \in DOMAIN r THEN r[f] ELSE proc[p][f]
  BY <1>2, GoesFields
<1>5. /\ proc'[p].truncated = FALSE /\ proc'[p].writes = rest /\ proc'[p].seen = seen
      /\ \A f \in DOMAIN Fresh \ {"truncated", "writes", "seen"} : proc'[p][f] = proc[p][f]
  <2> HIDE DEF rest, seen
  <2> QED
    BY <1>1, <1>4, FreshFields
<1>6. PICK text \in {"whole", "torn"} :
        IF w.file = "tokens"
          THEN /\ text = "torn" => tokens.text # "empty"
               /\ tokens' = [text |-> text, entries |-> w.data] /\ profile' = profile
          ELSE /\ text = "torn" => profile.text = "whole"
               /\ profile' = [text |-> text, subs |-> w.data] /\ tokens' = tokens
  BY DEF Fill
<1>7. /\ proc[p].writes = ProfileWrite(proc[p].subs) <=> w.file # "tokens"
      /\ proc[p].writes = ProfileWrite(proc[p].subs) => w.data = proc[p].subs
  BY <1>2, <1>3, NextWrite, OneWrite DEF Own
<1> HIDE DEF w
<1> QED
  BY <1>3, <1>4, <1>5, <1>6, <1>7 DEF w

LEMMA FillKeeps ==
  ASSUME IInv, NEW p \in Procs, Fill(p)
  PROVE  IInv'
<1>1. /\ OnlyOf(p) /\ DOMAIN proc'[p] = DOMAIN Fresh /\ proc'[p].truncated = FALSE
      /\ proc[p].writes # << >> /\ proc[p].step # "idle"
      /\ proc'[p].writes = Tail(proc[p].writes)
      /\ proc'[p].step = proc[p].step /\ proc'[p].runs = proc[p].runs
      /\ proc'[p].cmd = proc[p].cmd /\ proc'[p].subs = proc[p].subs
      /\ proc'[p].loaded = proc[p].loaded /\ proc'[p].cache = proc[p].cache
      /\ proc'[p].alone = proc[p].alone
  BY FillFields, FreshFields
<1>2. Own(proc[p])
  BY DEF IInv
<1>3. Fields(proc'[p])
  BY <1>1, <1>2 DEF Own, Fields
<1>4. \A a, b : Allowed(proc[p], a, b) => Allowed(proc'[p], a, b)
  BY <1>1 DEF Allowed, Concerns
<1>5. Stage(proc'[p])
  BY <1>1, <1>2, StageStays DEF Own
<1>6. PICK text \in {"whole", "torn"} :
        IF proc[p].writes = ProfileWrite(proc[p].subs)
          THEN /\ proc'[p].seen = proc[p].seen
               /\ profile' = [text |-> text, subs |-> proc[p].subs] /\ tokens' = tokens
          ELSE /\ proc'[p].seen = Head(proc[p].writes).data
               /\ tokens' = [text |-> text, entries |-> proc'[p].seen] /\ profile' = profile
  BY FillFields
<1>7. Shape /\ FilesInv
  BY DEF IInv
<1>8. CASE proc[p].writes = ProfileWrite(proc[p].subs)
  <2>1. proc'[p].writes = << >> /\ proc'[p].seen = proc'[p].cache
    BY <1>1, <1>2, <1>6, <1>8, OneWrite, TwoWrites DEF Own, Writes
  <2>2. Writes(proc'[p])
    BY <1>1, <2>1 DEF Writes
  <2>3. profile'.text = text /\ profile'.subs = proc[p].subs /\ Saved(proc[p].subs)
        /\ profile' = [text |-> profile'.text, subs |-> profile'.subs] /\ tokens' = tokens
    BY <1>2, <1>6, <1>8 DEF Own, Fields
  <2>4. Shape'
    BY <1>1, <1>7, <2>3 DEF Shape, OnlyOf
  <2>5. FilesInv'
    BY <1>7, <2>3 DEF FilesInv, Saved, IsProfile, HasDefault
  <2> QED
    BY <1>1, <1>3, <1>5, <2>2, <2>4, <2>5, OwnIsEnough DEF Own
<1>9. CASE proc[p].writes # ProfileWrite(proc[p].subs)
  <2>1. /\ Writes(proc'[p])
        /\ proc'[p].seen \subseteq proc[p].cache
    <3>1. CASE proc[p].writes = TokenWrite(proc[p].cache)
      <4>1. proc'[p].seen = proc[p].cache /\ proc'[p].writes = << >>
        BY <1>1, <1>6, <1>9, <3>1, OneWrite
      <4> QED
        BY <1>1, <4>1 DEF Writes
    <3>2. CASE \E mid \in SUBSET proc[p].cache :
                 /\ proc[p].writes = TokenWrite(mid) \o TokenWrite(proc[p].cache)
                 /\ Allowed(proc[p], mid, proc[p].cache)
      <4>1. PICK mid \in SUBSET proc[p].cache :
              /\ proc[p].writes = TokenWrite(mid) \o TokenWrite(proc[p].cache)
              /\ Allowed(proc[p], mid, proc[p].cache)
        BY <3>2
      <4>2. /\ Head(TokenWrite(mid) \o TokenWrite(proc[p].cache)).data = mid
            /\ Tail(TokenWrite(mid) \o TokenWrite(proc[p].cache)) = TokenWrite(proc[p].cache)
        BY TwoWrites
      <4>3. proc'[p].seen = mid /\ proc'[p].writes = TokenWrite(proc[p].cache)
        BY <1>1, <1>6, <1>9, <4>1, <4>2
      <4> QED
        BY <1>1, <1>4, <4>1, <4>3 DEF Writes
    <3> QED
      BY <1>1, <1>2, <1>9, <3>1, <3>2 DEF Own, Writes
  <2>2. tokens'.text = text /\ tokens'.entries = proc'[p].seen
        /\ tokens' = [text |-> tokens'.text, entries |-> tokens'.entries] /\ profile' = profile
    BY <1>6, <1>9
  <2>3. Shape'
    BY <1>1, <1>7, <2>2 DEF Shape, OnlyOf
  <2>4. FilesInv'
    BY <1>2, <1>7, <2>1, <2>2 DEF FilesInv, Saved, IsProfile, HasDefault, Own, Fields
  <2> QED
    BY <1>1, <1>3, <1>5, <2>1, <2>3, <2>4, OwnIsEnough DEF Own
<1> QED
  BY <1>8, <1>9

LEMMA KillFields ==
  ASSUME IInv, NEW p \in Procs, Kill(p)
  PROVE  /\ Ends(p, "killed") /\ profile' = profile
         /\ \E text \in {tokens.text, "torn"} : tokens' = [text |-> text, entries |-> tokens.entries]
<1>1. Shape
  BY DEF IInv
<1>2. CASE \E text \in {tokens.text, "torn"} : tokens' = [tokens EXCEPT !.text = text]
  <2>1. PICK text \in {tokens.text, "torn"} : tokens' = [tokens EXCEPT !.text = text]
    BY <1>2
  <2>2. tokens' = [text |-> text, entries |-> tokens.entries]
    BY <1>1, <2>1, NewTokensText
  <2> QED
    BY <1>2, <2>2 DEF Kill, Keeps
<1>3. CASE tokens' = tokens
  <2>1. tokens' = [text |-> tokens.text, entries |-> tokens.entries]
    BY <1>1, <1>3 DEF Shape
  <2> QED
    BY <1>3, <2>1 DEF Kill, Keeps
<1> QED
  BY <1>2, <1>3 DEF Kill, Keeps

LEMMA KillKeeps ==
  ASSUME IInv, NEW p \in Procs, Kill(p)
  PROVE  IInv'
<1>1. OnlyOf(p) /\ Own(proc'[p])
  BY KillFields, EndsOwn
<1>2. PICK text \in {tokens.text, "torn"} : tokens' = [text |-> text, entries |-> tokens.entries]
  BY KillFields
<1>3. Shape /\ FilesInv /\ profile' = profile
  BY KillFields DEF IInv
<1>4. tokens'.text = text /\ tokens'.entries = tokens.entries
      /\ tokens' = [text |-> tokens'.text, entries |-> tokens'.entries]
  BY <1>2
<1>5. text \in {"whole", "empty", "torn"}
  BY <1>2, <1>3 DEF Shape
<1>6. Shape'
  BY <1>1, <1>3, <1>4, <1>5 DEF Shape, OnlyOf
<1>7. FilesInv'
  BY <1>3, <1>4 DEF FilesInv, Saved, IsProfile, HasDefault
<1> QED
  BY <1>1, <1>6, <1>7, OwnIsEnough

LEMMA UnlinkFields ==
  ASSUME IInv, NEW p \in Procs, Unlink(p)
  PROVE  /\ OnlyOf(p) /\ Own(proc'[p]) /\ Shape' /\ FilesInv'
         /\ proc[p].writes = << >> /\ proc[p].truncated = FALSE /\ proc[p].step = "unlink"
         /\ profile' = [text |-> "whole", subs |-> Empty]
         /\ tokens' = [text |-> "whole", entries |-> {}]
         /\ proc'[p].step = "end" /\ proc'[p].writes = TokenWrite({})
         /\ proc'[p].subs = Empty /\ proc'[p].truncated = FALSE
         /\ proc'[p].cmd.op = "clear" /\ proc'[p].alone = proc[p].alone
<1>1. /\ proc[p].step = "unlink" /\ proc[p].writes = << >> /\ Own(proc[p]) /\ Shape
      /\ Goes(p, [step |-> "end", writes |-> TokenWrite({})])
      /\ profile' = [text |-> "whole", subs |-> Empty]
      /\ tokens' = [text |-> "whole", entries |-> {}]
  BY DEF Unlink, At, IInv
<1>2. /\ proc[p].cmd \in Commands /\ proc[p].cmd.op = "clear"
      /\ proc[p].cache = {} /\ proc[p].subs = Empty
  BY <1>1 DEF Own, Stage
<1>3. proc[p].truncated = FALSE /\ proc[p].seen = proc[p].cache
  BY <1>1, InStep
<1>4. /\ OnlyOf(p) /\ DOMAIN proc'[p] = DOMAIN Fresh /\ proc'[p].step = "end"
      /\ proc'[p].writes = TokenWrite({})
      /\ proc'[p].cmd = proc[p].cmd /\ proc'[p].subs = proc[p].subs
      /\ proc'[p].runs = proc[p].runs /\ proc'[p].loaded = proc[p].loaded
      /\ proc'[p].cache = proc[p].cache /\ proc'[p].seen = proc[p].seen
      /\ proc'[p].truncated = proc[p].truncated /\ proc'[p].alone = proc[p].alone
  BY <1>1, StepWriteFields, FreshFields
<1>5. Fields(proc'[p])
  BY <1>1, <1>4 DEF Own, Fields
<1>6. Allowed(proc'[p], {}, {})
  BY DEF Allowed
<1>7. Writes(proc'[p])
  BY <1>2, <1>3, <1>4, <1>6 DEF Writes
<1>8. Achieved(proc'[p])
  BY <1>2, <1>4 DEF Achieved
<1>9. Stage(proc'[p])
  BY <1>2, <1>4, <1>8 DEF Stage
<1>10. profile'.text = "whole" /\ profile'.subs = Empty
       /\ tokens'.text = "whole" /\ tokens'.entries = {}
  BY <1>1
<1>11. Shape'
  BY <1>1, <1>4, <1>10 DEF Shape, OnlyOf
<1>12. FilesInv'
  <2>1. Saved(profile'.subs)
    BY <1>10, EmptySaved
  <2> QED
    BY <1>10, <2>1 DEF FilesInv, Saved, IsProfile, HasDefault
<1> QED
  BY <1>1, <1>2, <1>3, <1>4, <1>5, <1>7, <1>9, <1>11, <1>12 DEF Own

(* A process starts with what the profile holds, and is alone if it is.      *)
LEMMA StartFields ==
  ASSUME IInv, NEW p \in Procs, NEW c \in Commands, Start(p, c)
  PROVE  /\ proc' = [q \in Procs |-> proc'[q]] /\ Keeps
         /\ \A q \in Procs \ {p} :
              /\ DOMAIN proc'[q] = DOMAIN Fresh /\ proc'[q].alone = FALSE
              /\ \A f \in DOMAIN Fresh \ {"alone"} : proc'[q][f] = proc[q][f]
         /\ DOMAIN proc'[p] = DOMAIN Fresh
         /\ proc'[p].step = IF profile.text = "torn" THEN "fail" ELSE FirstStep(c)
         /\ proc'[p].runs = proc[p].runs + 1 /\ proc'[p].cmd = c
         /\ proc'[p].subs = profile.subs /\ proc'[p].loaded = FALSE
         /\ proc'[p].cache = {} /\ proc'[p].seen = {} /\ proc'[p].writes = << >>
         /\ proc'[p].truncated = FALSE
         /\ proc'[p].alone = \A r \in Procs \ {p} : Idle(r)
<1> DEFINE step == IF profile.text = "torn" THEN "fail" ELSE FirstStep(c)
           alone == \A r \in Procs \ {p} : Idle(r)
           new == [Fresh EXCEPT !.runs = proc[p].runs + 1, !.cmd = c, !.subs = profile.subs,
                                !.step = step, !.alone = alone]
           other(q) == [proc[q] EXCEPT !.alone = FALSE]
<1>1. proc' = [q \in Procs |-> IF q # p THEN other(q) ELSE new] /\ Keeps
  BY DEF Start
<1>2. proc'[p] = new /\ proc' = [q \in Procs |-> proc'[q]] /\ \A q \in Procs \ {p} : proc'[q] = other(q)
  <2> HIDE DEF new, other
  <2> QED
    BY <1>1
<1>3. ASSUME NEW q \in Procs \ {p}
      PROVE  /\ DOMAIN proc'[q] = DOMAIN Fresh /\ proc'[q].alone = FALSE
             /\ \A f \in DOMAIN Fresh \ {"alone"} : proc'[q][f] = proc[q][f]
  <2>1. DOMAIN proc[q] = DOMAIN Fresh
    BY DEF IInv, Own, Fields
  <2>2. proc'[q] = [proc[q] EXCEPT !.alone = FALSE]
    BY <1>2
  <2> QED
    BY <2>1, <2>2, FreshFields
<1>4. /\ DOMAIN new = DOMAIN Fresh /\ new.step = step /\ new.runs = proc[p].runs + 1
      /\ new.cmd = c /\ new.subs = profile.subs /\ new.loaded = FALSE
      /\ new.cache = {} /\ new.seen = {} /\ new.writes = << >>
      /\ new.truncated = FALSE /\ new.alone = alone
  <2> HIDE DEF step, alone
  <2> QED
    BY DEF Fresh
<1> HIDE DEF new, other, alone, step
<1> QED
  BY <1>1, <1>2, <1>3, <1>4 DEF alone, step

LEMMA StartKeeps ==
  ASSUME IInv, NEW p \in Procs, NEW c \in Commands, Start(p, c)
  PROVE  IInv'
<1>1. Shape /\ FilesInv /\ Keeps /\ proc' = [q \in Procs |-> proc'[q]]
  BY StartFields DEF IInv
<1>2. Shape' /\ FilesInv'
  BY <1>1 DEF Keeps, Shape, FilesInv, Saved, IsProfile, HasDefault
<1>3. Own(proc'[p])
  <2>1. /\ DOMAIN proc'[p] = DOMAIN Fresh
        /\ proc'[p].step = IF profile.text = "torn" THEN "fail" ELSE FirstStep(c)
        /\ proc'[p].runs = proc[p].runs + 1 /\ proc'[p].cmd = c
        /\ proc'[p].subs = profile.subs /\ proc'[p].loaded = FALSE
        /\ proc'[p].cache = {} /\ proc'[p].seen = {} /\ proc'[p].writes = << >>
        /\ proc'[p].truncated = FALSE
        /\ proc'[p].alone = \A r \in Procs \ {p} : Idle(r)
    BY StartFields
  <2>2. proc'[p].runs \in 0 .. MaxRuns
    <3>1. proc[p].runs < MaxRuns /\ proc[p].runs \in 0 .. MaxRuns
      BY DEF Start, IInv, Own, Fields
    <3> QED
      BY <2>1, <3>1, NoUserAssumption
  <2>3. proc'[p].alone \in BOOLEAN
    BY <2>1
  <2>4. Fields(proc'[p])
    <3> HIDE DEF Idle
    <3> QED
      BY <1>1, <2>1, <2>2, <2>3 DEF Fields, FilesInv
  <2>5. Writes(proc'[p])
    BY <2>1 DEF Writes
  <2>6. Stage(proc'[p])
    <3>1. CASE profile.text = "torn"
      BY <2>1, <3>1 DEF Stage
    <3>2. CASE profile.text # "torn"
      <4>1. proc'[p].step = FirstStep(c)
        BY <2>1, <3>2
      <4>2. c.op \in {"login", "logout", "set", "delete", "import", "clear", "use"}
            /\ (c.op = "login" => (c.interactive => c.user \notin Principals))
            /\ (c.op \in {"set", "delete"} => c.sub \in DOMAIN profile.subs)
        BY CommandsAssumption DEF Start
      <4>3. CASE c.op = "login" /\ c.interactive
        <5>1. FirstStep(c) = "auth"
          BY <4>3 DEF FirstStep
        <5> QED
          BY <2>1, <4>1, <4>2, <4>3, <5>1 DEF Stage
      <4>4. CASE (c.op = "login" /\ ~c.interactive) \/ c.op = "logout"
        <5>1. FirstStep(c) = "forget"
          BY <4>4 DEF FirstStep
        <5> QED
          BY <2>1, <4>1, <4>2, <4>4, <5>1 DEF Stage
      <4>5. CASE c.op \notin {"login", "logout"}
        <5>1. FirstStep(c) = c.op
          BY <4>5 DEF FirstStep
        <5> QED
          BY <2>1, <4>1, <4>2, <4>5, <5>1 DEF Stage
      <4> QED
        BY <4>2, <4>3, <4>4, <4>5
    <3> QED
      BY <3>1, <3>2
  <2> QED
    BY <2>4, <2>5, <2>6 DEF Own
<1>4. ASSUME NEW q \in Procs \ {p}
      PROVE  Own(proc'[q])
  <2>1. /\ DOMAIN proc'[q] = DOMAIN Fresh /\ proc'[q].alone = FALSE
        /\ proc'[q].step = proc[q].step /\ proc'[q].runs = proc[q].runs
        /\ proc'[q].cmd = proc[q].cmd /\ proc'[q].subs = proc[q].subs
        /\ proc'[q].loaded = proc[q].loaded /\ proc'[q].cache = proc[q].cache
        /\ proc'[q].seen = proc[q].seen /\ proc'[q].writes = proc[q].writes
        /\ proc'[q].truncated = proc[q].truncated
    <3>1. /\ DOMAIN proc'[q] = DOMAIN Fresh /\ proc'[q].alone = FALSE
          /\ \A f \in DOMAIN Fresh \ {"alone"} : proc'[q][f] = proc[q][f]
      BY StartFields
    <3> QED
      BY <3>1, FreshFields
  <2>2. Own(proc[q])
    BY DEF IInv
  <2>3. Fields(proc'[q])
    BY <2>1, <2>2 DEF Own, Fields
  <2>4. \A a, b : Allowed(proc[q], a, b) => Allowed(proc'[q], a, b)
    BY <2>1 DEF Allowed, Concerns
  <2>5. Writes(proc'[q])
    BY <2>1, <2>2, <2>4 DEF Own, Writes
  <2>6. Stage(proc'[q])
    BY <2>1, <2>2, StageStays DEF Own, Stage
  <2> QED
    BY <2>3, <2>5, <2>6 DEF Own
<1> QED
  BY <1>2, <1>3, <1>4 DEF IInv
-----------------------------------------------------------------------------
(* Every step is of one of these kinds.                                      *)
LEMMA Steps ==
  ASSUME Next
  PROVE  \E p \in Procs :
           \/ \E c \in Commands : Start(p, c)
           \/ Thinks(p) \/ Truncate(p) \/ Fill(p) \/ Kill(p) \/ Unlink(p)
BY DEF Next, Thinks

LEMMA InitIInv ==
  ASSUME Init
  PROVE  IInv
<1>1. PICK f \in InitialFiles :
        /\ profile = [text |-> "whole", subs |-> f.subs]
        /\ tokens = [text |-> "whole", entries |-> f.entries]
  BY DEF Init
<1>2. Saved(f.subs) /\ f.entries \subseteq Entries
  BY InitialFilesAssumption DEF Saved, IsProfile, HasDefault
<1>3. /\ profile.text = "whole" /\ profile.subs = f.subs
      /\ tokens.text = "whole" /\ tokens.entries = f.entries
  BY <1>1
<1>4. FilesInv
  BY <1>2, <1>3 DEF FilesInv
<1>5. proc = [p \in Procs |-> Fresh]
  BY DEF Init
<1>6. Shape
  BY <1>1, <1>3, <1>5 DEF Shape
<1>7. Own(Fresh)
  <2>1. Fields(Fresh)
    <3>1. Fresh.runs \in 0 .. MaxRuns
      BY FreshFields, NoUserAssumption
    <3> QED
      BY <3>1, FreshFields, EmptySaved DEF Fields
  <2>2. Writes(Fresh) /\ Stage(Fresh)
    BY FreshFields DEF Writes, Stage
  <2> QED
    BY <2>1, <2>2 DEF Own
<1> QED
  BY <1>4, <1>5, <1>6, <1>7 DEF IInv

LEMMA NextIInv ==
  ASSUME IInv, [Next]_vars
  PROVE  IInv'
<1>1. CASE Next
  <2>1. PICK p \in Procs :
          \/ \E c \in Commands : Start(p, c)
          \/ Thinks(p) \/ Truncate(p) \/ Fill(p) \/ Kill(p) \/ Unlink(p)
    BY <1>1, Steps
  <2>2. CASE Thinks(p)
    <3>1. OnlyOf(p) /\ Own(proc'[p]) /\ Keeps
      BY <2>2, ThinksAdvances DEF Advances
    <3>2. Shape' /\ FilesInv'
      BY <3>1, FilesUntouched
    <3> QED
      BY <3>1, <3>2, OwnIsEnough
  <2>3. CASE Unlink(p)
    <3>1. OnlyOf(p) /\ Own(proc'[p]) /\ Shape' /\ FilesInv'
      BY <2>3, UnlinkFields
    <3> QED
      BY <3>1, OwnIsEnough
  <2> QED
    BY <2>1, <2>2, <2>3, StartKeeps, TruncateKeeps, FillKeeps, KillKeeps
<1>2. CASE UNCHANGED vars
  BY <1>2 DEF vars, IInv, Shape, FilesInv, Saved, IsProfile, HasDefault
<1> QED
  BY <1>1, <1>2

(* Whatever the processes do, and however they overlap, each knows what it   *)
(* has done to its copies, and the files are made of such copies.            *)
THEOREM Inductive == Spec => []IInv
<1>1. Init => IInv
  BY InitIInv
<1>2. IInv /\ [Next]_vars => IInv'
  BY NextIInv
<1> QED
  BY <1>1, <1>2, PTL DEF Spec

(* The type invariant.                                                       *)
THEOREM TypeCorrect == Spec => []TypeOK
<1>1. IInv => TypeOK
  BY DEF IInv, Shape, FilesInv, Saved, IsProfile, Own, Fields, TypeOK
<1> QED
  BY <1>1, Inductive, PTL

(* Whatever was deleted, logged out of or merged into it, by however many    *)
(* processes, the profile saved has one default subscription as long as it   *)
(* has any.                                                                  *)
THEOREM DefaultIsOne == Spec => []OneDefault
<1>1. IInv => OneDefault
  <2> SUFFICES ASSUME IInv, profile.subs # Empty
               PROVE  Cardinality(Default(profile.subs)) = 1
    BY DEF OneDefault
  <2>1. PICK d \in DOMAIN profile.subs : Default(profile.subs) = {d}
    BY DefaultOfSaved DEF IInv, FilesInv
  <2> QED
    BY <2>1, FS_Singleton
<1> QED
  BY <1>1, Inductive, PTL
-----------------------------------------------------------------------------
(* What one write of p does to the entries of the token file.                *)
LEMMA FillOverlap ==
  ASSUME IInv, NEW p \in Procs, Fill(p)
  PROVE  /\ \A x \in tokens.entries \ tokens'.entries :
              \/ x.owner \in About(p) \/ x \notin proc[p].seen
              \/ x.kind = "key" /\ proc[p].cmd.op = "login" /\ proc[p].cmd.user \in Principals
         /\ \A x \in tokens'.entries \ tokens.entries :
              x.owner \in About(p) \/ x \in proc[p].seen
<1>1. About(p) = Concerns(proc[p])
  BY DEF About, Concerns
<1>2. Own(proc[p]) /\ proc[p].writes # << >>
  BY FillFields DEF IInv
<1>3. CASE proc[p].writes = ProfileWrite(proc[p].subs)
  <2>1. tokens' = tokens
    BY <1>3, FillFields
  <2> QED
    BY <2>1
<1>4. CASE proc[p].writes # ProfileWrite(proc[p].subs)
  <2>1. tokens'.entries = Head(proc[p].writes).data
    <3>1. PICK text \in {"whole", "torn"} :
            /\ proc'[p].seen = Head(proc[p].writes).data
            /\ tokens' = [text |-> text, entries |-> proc'[p].seen]
      BY <1>4, FillFields
    <3> QED
      BY <3>1
  <2>2. Allowed(proc[p], proc[p].seen, Head(proc[p].writes).data)
    <3>1. CASE proc[p].writes = TokenWrite(proc[p].cache) /\ Allowed(proc[p], proc[p].seen, proc[p].cache)
      BY <3>1, OneWrite
    <3>2. ASSUME NEW mid, proc[p].writes = TokenWrite(mid) \o TokenWrite(proc[p].cache),
                 Allowed(proc[p], proc[p].seen, mid)
          PROVE  Allowed(proc[p], proc[p].seen, Head(proc[p].writes).data)
      <4>1. Head(TokenWrite(mid) \o TokenWrite(proc[p].cache)).data = mid
        BY TwoWrites
      <4> QED
        BY <3>2, <4>1
    <3> QED
      BY <1>2, <1>4, <3>1, <3>2 DEF Own, Writes
  <2> QED
    BY <1>1, <2>1, <2>2 DEF Allowed
<1> QED
  BY <1>3, <1>4

(* No other step that ends a write changes an entry.                         *)
LEMMA OnlyFillWrites ==
  ASSUME IInv, Next, NEW p \in Procs, proc[p].truncated, ~proc'[p].truncated
  PROVE  Fill(p) \/ tokens'.entries = tokens.entries
<1>1. PICK q \in Procs :
        \/ \E c \in Commands : Start(q, c)
        \/ Thinks(q) \/ Truncate(q) \/ Fill(q) \/ Kill(q) \/ Unlink(q)
  BY Steps
<1>2. CASE Fill(q) \/ Unlink(q)
  <2>1. OnlyOf(q)
    BY <1>2, FillFields, UnlinkFields
  <2>2. q = p
    BY <2>1 DEF OnlyOf
  <2>3. ~Unlink(q)
    BY <2>2, UnlinkFields
  <2> QED
    BY <1>2, <2>2, <2>3
<1>3. CASE Thinks(q) \/ \E c \in Commands : Start(q, c)
  BY <1>3, ThinksAdvances, StartFields DEF Keeps
<1>4. CASE Truncate(q)
  <2>1. \/ tokens' = tokens
        \/ tokens' = [text |-> "empty", entries |-> tokens.entries]
    BY <1>4, TruncateFields
  <2> QED
    BY <2>1
<1>5. CASE Kill(q)
  <2>1. PICK text \in {tokens.text, "torn"} : tokens' = [text |-> text, entries |-> tokens.entries]
    BY <1>5, KillFields
  <2> QED
    BY <2>1
<1> QED
  BY <1>1, <1>2, <1>3, <1>4, <1>5

(* A process takes away, or brings back, what is another user's only when    *)
(* the token file has changed since it read it.                              *)
THEOREM OthersAreSafe == Spec => OthersChangeOnlyByOverlap
<1> DEFINE A(p) ==
      proc[p].truncated /\ ~proc'[p].truncated /\ proc[p].cmd.op # "clear" =>
       /\ \A x \in tokens.entries \ tokens'.entries :
            \/ x.owner \in About(p) \/ x \notin proc[p].seen
            \/ x.kind = "key" /\ proc[p].cmd.op = "login" /\ proc[p].cmd.user \in Principals
       /\ \A x \in tokens'.entries \ tokens.entries :
            x.owner \in About(p) \/ x \in proc[p].seen
<1>1. IInv /\ [Next]_vars => [\A p \in Procs : A(p)]_vars
  <2> SUFFICES ASSUME IInv, Next, NEW p \in Procs,
                      proc[p].truncated, ~proc'[p].truncated
               PROVE  A(p)
    BY DEF A
  <2>1. CASE Fill(p)
    BY <2>1, FillOverlap
  <2>2. CASE tokens'.entries = tokens.entries
    BY <2>2
  <2> QED
    BY <2>1, <2>2, OnlyFillWrites
<1> QED
  BY <1>1, Inductive, PTL DEF Spec, OthersChangeOnlyByOverlap
-----------------------------------------------------------------------------
(* A process that nothing has overlapped.                                    *)
LEMMA KnowsProfile ==
  ASSUME NEW r, InSync(r, profile, tokens), r.writes = << >>
  PROVE  profile = [text |-> "whole", subs |-> r.subs]
BY OneWrite DEF InSync

(* A command that ends well has done what it was to do.                      *)
LEMMA EndsDone ==
  ASSUME IInv, NEW p \in Procs, InSync(proc[p], profile, tokens), proc[p].writes = << >>,
         Achieved(proc[p]), proc[p].cmd.op = "clear" => proc[p].step = "end"
  PROVE  Done(proc[p].cmd, profile, tokens)
<1> DEFINE r == proc[p]
           c == proc[p].cmd
<1>1. profile.text = "whole" /\ profile.subs = r.subs
  BY KnowsProfile
<1>2. r.truncated = FALSE
  BY InStep DEF IInv
<1>3. c.op = "login" \/ c.op = "logout" => (r.loaded => tokens.entries = r.cache)
  BY DEF InSync
<1>4. c.op = "clear" => tokens = [text |-> "whole", entries |-> {}]
  BY <1>2 DEF InSync
<1>5. c.op = "login" =>
        /\ Token(c.user) \in tokens.entries
        /\ c.user \in Principals => Key(c.user) \in tokens.entries
        /\ SubsOf[c.user] \subseteq UserSubs(profile.subs, c.user)
        /\ SubsOf[c.user] # {} => Default(profile.subs) \subseteq SubsOf[c.user]
  BY <1>1, <1>3 DEF Achieved, LoggedIn
<1>6. c.op = "logout" =>
        /\ UserSubs(profile.subs, c.user) = {}
        /\ c.exact \/ c.user \in People => ~\E x \in tokens.entries : x.owner = c.user
  BY <1>1, <1>3 DEF Achieved, Forgotten
<1>7. c.op = "set" => Default(profile.subs) = {c.sub}
  BY <1>1 DEF Achieved
<1>8. c.op = "clear" => profile.subs = Empty
  BY <1>1 DEF Achieved
<1> HIDE DEF c
<1>9. Done(c, profile, tokens)
  BY <1>1, <1>4, <1>5, <1>6, <1>7, <1>8 DEF Done
<1> QED
  BY <1>9 DEF c

(* What p may do while it knows the files.                                   *)
LEMMA ThinksInSync ==
  ASSUME IInv, NEW p \in Procs, Thinks(p),
         proc[p].step # "fail" => InSync(proc[p], profile, tokens)
  PROVE  /\ proc'[p].alone = proc[p].alone
         /\ Idle(p)' /\ proc'[p].result = "ok" => Done(proc'[p].cmd, profile', tokens')
         /\ ~Idle(p)' /\ proc'[p].step # "fail" => InSync(proc'[p], profile', tokens')
<1>1. /\ Moves(p) /\ Own(proc'[p]) /\ Own(proc[p]) /\ Shape
      /\ profile' = profile /\ tokens' = tokens
      /\ proc[p].writes = << >>
  BY ThinksAdvances DEF Advances, Keeps, IInv
<1>2. ASSUME NEW result, Ends(p, result)
      PROVE  /\ Idle(p)' /\ proc'[p].result = result
             /\ proc'[p].cmd = proc[p].cmd /\ proc'[p].alone = proc[p].alone
  BY <1>1, <1>2, EndsFields DEF Idle
<1>3. CASE \E result : result # "ok" /\ Ends(p, result)
  BY <1>2, <1>3
<1>4. CASE /\ proc[p].step # "fail" /\ Ends(p, "ok") /\ Achieved(proc[p])
           /\ proc[p].cmd.op = "clear" => proc[p].step = "end"
  <2>1. Done(proc[p].cmd, profile, tokens)
    BY <1>1, <1>4, EndsDone
  <2>2. Idle(p)' /\ proc'[p].cmd = proc[p].cmd /\ proc'[p].alone = proc[p].alone
    BY <1>2, <1>4
  <2> QED
    BY <1>1, <2>1, <2>2
<1>5. CASE /\ proc[p].step # "fail" /\ Cached(p, proc'[p].cache, proc'[p].step)
           /\ proc'[p].step \notin {"idle", "end"}
  <2>1. /\ proc'[p].subs = proc[p].subs /\ proc'[p].alone = proc[p].alone
        /\ proc'[p].writes # << >> /\ proc'[p].writes # ProfileWrite(proc'[p].subs)
        /\ proc'[p].truncated = FALSE
    BY <1>5 DEF Cached
  <2>2. profile = [text |-> "whole", subs |-> proc[p].subs]
    BY <1>1, <1>5, KnowsProfile
  <2>3. InSync(proc'[p], profile, tokens)
    BY <1>5, <2>1, <2>2 DEF InSync
  <2> QED
    BY <1>1, <1>5, <2>1, <2>3 DEF Idle
<1>6. CASE /\ proc[p].step # "fail" /\ ProfileKept(p, proc'[p].step)
           /\ proc'[p].step = "end" => proc'[p].cmd.op # "clear"
  <2>1. /\ proc'[p].cmd = proc[p].cmd /\ proc'[p].alone = proc[p].alone
        /\ proc'[p].writes = ProfileWrite(proc'[p].subs)
        /\ proc'[p].cache = proc[p].cache /\ proc'[p].loaded = proc[p].loaded
        /\ proc'[p].truncated = FALSE
    BY <1>6 DEF ProfileKept
  <2>2. profile.text = "whole"
    BY <1>1, <1>6, KnowsProfile
  <2>3. proc'[p].cmd.op \in {"login", "logout"} /\ proc'[p].loaded => tokens.entries = proc'[p].cache
    BY <1>1, <1>6, <2>1 DEF InSync
  <2>4. proc'[p].writes # << >>
    BY <2>1, OneWrite
  <2>5. InSync(proc'[p], profile, tokens)
    BY <1>6, <2>1, <2>2, <2>3, <2>4 DEF InSync
  <2>6. ~Idle(p)'
    BY <1>1, <2>4 DEF Idle, Own, Stage
  <2> QED
    BY <1>1, <2>1, <2>5, <2>6
<1>7. CASE /\ proc[p].step # "fail"
           /\ proc'[p].step = "register" /\ proc'[p].writes = << >> /\ proc'[p].cmd = proc[p].cmd
           /\ proc'[p].subs = proc[p].subs /\ proc[p].cmd.op = "use"
           /\ proc'[p].alone = proc[p].alone
  <2>1. profile = [text |-> "whole", subs |-> proc[p].subs]
    BY <1>1, <1>7, KnowsProfile
  <2>2. proc'[p].writes # ProfileWrite(proc'[p].subs)
    BY <1>7, OneWrite
  <2>3. InSync(proc'[p], profile, tokens)
    BY <1>7, <2>1, <2>2 DEF InSync
  <2> QED
    BY <1>1, <1>7, <2>3 DEF Idle
<1> QED
  BY <1>1, <1>3, <1>4, <1>5, <1>6, <1>7 DEF Moves

LEMMA TruncateInSync ==
  ASSUME IInv, NEW p \in Procs, Truncate(p), InSync(proc[p], profile, tokens)
  PROVE  InSync(proc'[p], profile', tokens')
<1>1. /\ proc'[p].truncated = TRUE /\ proc[p].truncated = FALSE
      /\ proc[p].writes # << >> /\ proc'[p].writes = proc[p].writes
      /\ proc'[p].step = proc[p].step /\ proc'[p].cmd = proc[p].cmd
      /\ proc'[p].subs = proc[p].subs /\ proc'[p].loaded = proc[p].loaded
      /\ proc'[p].cache = proc[p].cache
  BY TruncateFields, FreshFields
<1>2. CASE proc[p].writes = ProfileWrite(proc[p].subs)
  <2>1. profile' = [text |-> "torn", subs |-> profile.subs] /\ tokens' = tokens
    BY <1>2, TruncateFields
  <2>2. profile'.text = "torn"
    BY <2>1
  <2> QED
    BY <1>1, <1>2, <2>1, <2>2 DEF InSync
<1>3. CASE proc[p].writes # ProfileWrite(proc[p].subs)
  <2>1. profile' = profile /\ tokens' = [text |-> "empty", entries |-> tokens.entries]
    BY <1>3, TruncateFields
  <2>2. tokens'.text = "empty" /\ tokens'.entries = tokens.entries
    BY <2>1
  <2>3. proc[p].cmd.op = "clear" /\ proc[p].step = "end" => tokens.entries = {}
    BY <1>1 DEF InSync
  <2>4. profile = [text |-> "whole", subs |-> proc[p].subs]
    BY <1>3 DEF InSync
  <2> QED
    BY <1>1, <1>3, <2>1, <2>2, <2>3, <2>4 DEF InSync
<1> QED
  BY <1>2, <1>3

LEMMA FillInSync ==
  ASSUME IInv, NEW p \in Procs, Fill(p), InSync(proc[p], profile, tokens)
  PROVE  InSync(proc'[p], profile', tokens')
<1>1. /\ proc'[p].truncated = FALSE /\ proc[p].truncated = TRUE
      /\ proc[p].writes # << >> /\ proc'[p].writes = Tail(proc[p].writes)
      /\ proc'[p].step = proc[p].step /\ proc'[p].cmd = proc[p].cmd
      /\ proc'[p].subs = proc[p].subs /\ proc'[p].loaded = proc[p].loaded
      /\ proc'[p].cache = proc[p].cache
  BY FillFields, FreshFields
<1>2. Own(proc[p]) /\ Own(proc'[p])
  BY FillKeeps DEF IInv
<1>3. PICK text \in {"whole", "torn"} :
        IF proc[p].writes = ProfileWrite(proc[p].subs)
          THEN /\ text = "torn" => profile.text = "whole"
               /\ profile' = [text |-> text, subs |-> proc[p].subs] /\ tokens' = tokens
          ELSE /\ text = "torn" => tokens.text # "empty"
               /\ tokens' = [text |-> text, entries |-> proc'[p].seen] /\ profile' = profile
  BY FillFields
<1>4. CASE proc[p].writes = ProfileWrite(proc[p].subs)
  <2>1. proc'[p].writes = << >> /\ proc'[p].writes # ProfileWrite(proc'[p].subs)
    BY <1>1, <1>4, OneWrite
  <2>2. profile' = [text |-> "whole", subs |-> proc'[p].subs] /\ tokens' = tokens
    BY <1>1, <1>3, <1>4 DEF InSync
  <2>3. proc[p].cmd.op \in {"login", "logout"} /\ proc[p].loaded => tokens.entries = proc[p].cache
    BY <1>4 DEF InSync
  <2>4. ~(proc[p].cmd.op = "clear" /\ proc[p].step = "end")
    BY <1>4 DEF InSync
  <2> QED
    BY <1>1, <2>1, <2>2, <2>3, <2>4 DEF InSync
<1>5. CASE proc[p].writes # ProfileWrite(proc[p].subs)
  <2>1. /\ tokens' = [text |-> "whole", entries |-> proc'[p].seen] /\ profile' = profile
    BY <1>1, <1>3, <1>5 DEF InSync
  <2>2. profile = [text |-> "whole", subs |-> proc[p].subs]
    BY <1>5 DEF InSync
  <2>3. /\ proc'[p].writes # ProfileWrite(proc'[p].subs)
        /\ proc'[p].seen \subseteq proc[p].cache
    <3>1. CASE proc[p].writes = TokenWrite(proc[p].cache)
      <4>1. proc'[p].writes = << >>
        BY <1>1, <3>1, OneWrite
      <4> QED
        BY <1>1, <1>2, <4>1, InStep, OneWrite
    <3>2. ASSUME NEW mid \in SUBSET proc[p].cache,
                 proc[p].writes = TokenWrite(mid) \o TokenWrite(proc[p].cache)
          PROVE  /\ proc'[p].writes # ProfileWrite(proc'[p].subs)
                 /\ proc'[p].seen \subseteq proc[p].cache
      <4>1. /\ Head(TokenWrite(mid) \o TokenWrite(proc[p].cache)).data = mid
            /\ Tail(TokenWrite(mid) \o TokenWrite(proc[p].cache)) = TokenWrite(proc[p].cache)
        BY TwoWrites
      <4>2. proc'[p].writes = TokenWrite(proc[p].cache)
        BY <1>1, <3>2, <4>1
      <4>3. proc'[p].seen = mid
        BY <1>5, <3>2, <4>1, FillFields
      <4> QED
        BY <4>2, <4>3, OneWrite
    <3> QED
      BY <1>1, <1>2, <1>5, <3>1, <3>2 DEF Own, Writes
  <2>4. proc'[p].writes = << >> => proc'[p].seen = proc'[p].cache
    BY <1>2, InStep
  <2>5. proc[p].cmd.op = "clear" /\ proc[p].step = "end" => proc'[p].seen = {}
    <3>1. proc[p].cmd.op = "clear" /\ proc[p].step = "end" => proc[p].cache = {}
      BY <1>2 DEF Own, Stage, Achieved
    <3> QED
      BY <2>3, <3>1
  <2>6. tokens'.entries = proc'[p].seen
    BY <2>1
  <2> QED
    BY <1>1, <2>1, <2>2, <2>3, <2>4, <2>5, <2>6 DEF InSync
<1> QED
  BY <1>4, <1>5

LEMMA UnlinkInSync ==
  ASSUME IInv, NEW p \in Procs, Unlink(p)
  PROVE  InSync(proc'[p], profile', tokens')
<1>1. /\ profile' = [text |-> "whole", subs |-> Empty]
      /\ tokens' = [text |-> "whole", entries |-> {}]
      /\ proc'[p].step = "end" /\ proc'[p].writes = TokenWrite({})
      /\ proc'[p].subs = Empty /\ proc'[p].truncated = FALSE
      /\ proc'[p].cmd.op = "clear"
  BY UnlinkFields
<1>2. proc'[p].writes # ProfileWrite(proc'[p].subs) /\ proc'[p].writes # << >>
  BY <1>1, OneWrite
<1> QED
  BY <1>1, <1>2 DEF InSync

LEMMA StartInSync ==
  ASSUME IInv, NEW p \in Procs, NEW c \in Commands, Start(p, c)
  PROVE  /\ ~Idle(p)'
         /\ proc'[p].step # "fail" => InSync(proc'[p], profile', tokens')
<1>1. /\ proc'[p].step = IF profile.text = "torn" THEN "fail" ELSE FirstStep(c)
      /\ proc'[p].subs = profile.subs /\ proc'[p].loaded = FALSE
      /\ proc'[p].writes = << >> /\ profile' = profile
  BY StartFields DEF Keeps
<1>2. FirstStep(c) \notin {"idle", "end"}
  <2>1. c.op \in {"login", "logout", "set", "delete", "import", "clear", "use"}
    BY CommandsAssumption
  <2>2. c.op \notin {"login", "logout"} => FirstStep(c) = c.op
    BY DEF FirstStep
  <2>3. c.op \in {"login", "logout"} => FirstStep(c) \in {"auth", "forget"}
    BY DEF FirstStep
  <2> QED
    BY <2>1, <2>2, <2>3
<1>3. proc'[p].writes # ProfileWrite(proc'[p].subs)
  BY <1>1, OneWrite
<1>4. ASSUME proc'[p].step # "fail"
      PROVE  InSync(proc'[p], profile', tokens')
  <2>1. profile = [text |-> "whole", subs |-> profile.subs]
    BY <1>1, <1>4 DEF IInv, Shape
  <2> QED
    BY <1>1, <1>2, <1>3, <1>4, <2>1 DEF InSync
<1> QED
  BY <1>1, <1>2, <1>4 DEF Idle

(* A step of p, which is not idle, is a step of the only process that may be *)
(* alone.                                                                    *)
LEMMA OneIsAlone ==
  ASSUME IInv, AloneInv, NEW p \in Procs, OnlyOf(p), ~Idle(p),
         proc'[p].alone = proc[p].alone,
         proc[p].alone =>
           /\ Idle(p)' /\ proc'[p].result = "ok" => Done(proc'[p].cmd, profile', tokens')
           /\ ~Idle(p)' /\ proc'[p].step # "fail" => InSync(proc'[p], profile', tokens')
  PROVE  AloneInv'
<1> SUFFICES ASSUME NEW q \in Procs, proc'[q].alone
             PROVE  /\ \A r \in Procs \ {q} : Idle(r)'
                    /\ Idle(q)' /\ proc'[q].result = "ok" => Done(proc'[q].cmd, profile', tokens')
                    /\ ~Idle(q)' /\ proc'[q].step # "fail" => InSync(proc'[q], profile', tokens')
  BY DEF AloneInv
<1>1. CASE q = p
  <2>1. \A r \in Procs \ {p} : Idle(r) /\ proc'[r] = proc[r]
    BY <1>1 DEF AloneInv, OnlyOf
  <2> QED
    BY <1>1, <2>1 DEF Idle
<1>2. CASE q # p
  <2>1. proc[q].alone
    BY <1>2 DEF OnlyOf
  <2>2. Idle(p)
    BY <1>2, <2>1 DEF AloneInv
  <2> QED
    BY <2>2
<1> QED
  BY <1>1, <1>2

LEMMA NextAlone ==
  ASSUME IInv, AloneInv, Next
  PROVE  AloneInv'
<1>1. PICK p \in Procs :
        \/ \E c \in Commands : Start(p, c)
        \/ Thinks(p) \/ Truncate(p) \/ Fill(p) \/ Kill(p) \/ Unlink(p)
  BY Steps
<1>2. proc[p].alone /\ ~Idle(p) /\ proc[p].step # "fail" => InSync(proc[p], profile, tokens)
  BY DEF AloneInv
<1>3. CASE Thinks(p)
  <2>1. OnlyOf(p) /\ ~Idle(p)
    BY <1>3, ThinksAdvances DEF Advances, Idle
  <2>2. proc'[p].alone = proc[p].alone
    <3>1. Shape /\ Moves(p)
      BY <1>3, ThinksAdvances DEF Advances, IInv
    <3>2. ASSUME NEW result, Ends(p, result) PROVE proc'[p].alone = proc[p].alone
      BY <3>1, <3>2, EndsFields
    <3> QED
      BY <3>1, <3>2 DEF Moves, Cached, ProfileKept
  <2> QED
    BY <1>2, <1>3, <2>1, <2>2, ThinksInSync, OneIsAlone
<1>4. CASE Truncate(p) \/ Fill(p)
  <2>1. /\ OnlyOf(p) /\ proc'[p].alone = proc[p].alone
        /\ proc'[p].step = proc[p].step /\ proc[p].step # "idle" /\ proc[p].writes # << >>
    <3>1. CASE Truncate(p)
      BY <3>1, TruncateFields, FreshFields
    <3>2. CASE Fill(p)
      BY <3>2, FillFields, FreshFields
    <3> QED
      BY <1>4, <3>1, <3>2
  <2>2. proc[p].alone /\ proc[p].step # "fail" => InSync(proc'[p], profile', tokens')
    BY <1>2, <1>4, <2>1, TruncateInSync, FillInSync DEF Idle
  <2> QED
    BY <2>1, <2>2, OneIsAlone DEF Idle
<1>5. CASE Kill(p)
  <2>1. /\ OnlyOf(p) /\ proc'[p].alone = proc[p].alone
        /\ proc'[p].step = "idle" /\ proc'[p].result = "killed"
    <3>1. Shape /\ Ends(p, "killed")
      BY <1>5, KillFields DEF IInv
    <3> QED
      BY <3>1, EndsFields
  <2>2. ~Idle(p)
    BY <1>5 DEF Kill
  <2> QED
    BY <2>1, <2>2, OneIsAlone DEF Idle
<1>6. CASE Unlink(p)
  <2>1. /\ OnlyOf(p) /\ proc'[p].alone = proc[p].alone
        /\ proc[p].step = "unlink" /\ proc'[p].step = "end"
    BY <1>6, UnlinkFields
  <2>2. InSync(proc'[p], profile', tokens')
    BY <1>6, UnlinkInSync
  <2> QED
    BY <2>1, <2>2, OneIsAlone DEF Idle
<1>7. ASSUME NEW c \in Commands, Start(p, c) PROVE AloneInv'
  <2>1. /\ ~Idle(p)'
        /\ proc'[p].step # "fail" => InSync(proc'[p], profile', tokens')
    BY <1>7, StartInSync
  <2>2. ASSUME NEW r \in Procs \ {p}
        PROVE  proc'[r].alone = FALSE /\ proc'[r].step = proc[r].step
    <3>1. /\ proc'[r].alone = FALSE
          /\ \A f \in DOMAIN Fresh \ {"alone"} : proc'[r][f] = proc[r][f]
      BY <1>7, StartFields
    <3> QED
      BY <3>1, FreshFields
  <2>3. proc'[p].alone => \A r \in Procs \ {p} : Idle(r)
    BY <1>7, StartFields
  <2>4. proc'[p].alone => \A r \in Procs \ {p} : Idle(r)'
    BY <2>2, <2>3 DEF Idle
  <2> QED
    BY <2>1, <2>2, <2>4 DEF AloneInv
<1> QED
  BY <1>1, <1>3, <1>4, <1>5, <1>6, <1>7

(* A command that says it has done its work, and that nothing has overlapped *)
(* since it started, has done it: in both files, and whatever the processes  *)
(* before it were killed at.                                                 *)
THEOREM AloneIsDone == Spec => []DoneAloneIsDone
<1>1. Init => AloneInv
  BY FreshFields DEF Init, AloneInv
<1>2. IInv /\ AloneInv /\ [Next]_vars => AloneInv'
  <2> SUFFICES ASSUME IInv, AloneInv, [Next]_vars PROVE AloneInv'
    OBVIOUS
  <2>1. CASE UNCHANGED vars
    BY <2>1 DEF vars, AloneInv, Idle
  <2> QED
    BY <2>1, NextAlone
<1>3. AloneInv => DoneAloneIsDone
  BY DEF AloneInv, DoneAloneIsDone, Done
<1> QED
  BY <1>1, <1>2, <1>3, Inductive, PTL DEF Spec
=============================================================================
