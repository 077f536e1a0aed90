------------------------- MODULE CallbackAggregator -------------------------
(* callbackAndAggregator (lib/util/callbackAggregator.js): one object waits  *)
(* for several named callbacks and calls a final callback when all of them   *)
(* have finished or when one of them reports an error.                       *)
(*                                                                           *)
(* The keys that are registered are those whose callback has been handed     *)
(* out; the aggregator cannot know that more will come.                      *)
EXTENDS Integers, Sequences, FiniteSets

CONSTANT Keys

VARIABLES registered,    \* keys of the map "callbacks"
          finished,      \* per key, how its callback was called last
          isErrorState,
          done,
          finals         \* the calls of the final callback, in order

aggVars == <<registered, finished, isErrorState, done, finals>>

Results == {"ok", "error"}

AggInit ==
  /\ registered = {}
  /\ finished = [k \in Keys |-> "no"]
  /\ isErrorState = FALSE
  /\ done = FALSE
  /\ finals = << >>

FinishedKeys == {k \in Keys : finished[k] # "no"}

(* getCallback(k) hands a callback out; it returns null once the aggregator  *)
(* is done or k has finished.                                                *)
MayGetCallback(k) == ~done /\ finished[k] = "no"

GetCallback(k) ==
  /\ MayGetCallback(k)
  /\ registered' = registered \cup {k}
  /\ UNCHANGED <<finished, isErrorState, done, finals>>

(* Mutant: one finished key is enough.                                       *)
IsFinishedAny(fin) == fin # {}

(* isFinished(): as many keys have finished as have been registered.         *)
IsFinished(fin) == Cardinality(registered) = Cardinality(fin)

(* Mutant: the guard on isErrorState is missing.                             *)
CallbackNoGuard(k, res) ==
  /\ k \in registered
  /\ finished' = [finished EXCEPT ![k] = res]
  /\ LET failing == res = "error"
         ending  == res = "ok" /\ IsFinished(FinishedKeys \cup {k})
     IN  /\ isErrorState' = (isErrorState \/ failing)
         /\ done' = (done \/ failing \/ ending)
         /\ finals' = IF failing \/ ending THEN Append(finals, res) ELSE finals
  /\ UNCHANGED registered

(* The callback of k is called with the result res.                          *)
Callback(k, res) ==
  /\ k \in registered
  /\ finished' = [finished EXCEPT ![k] = res]
  /\ LET failing == ~isErrorState /\ res = "error"
         ending  == ~isErrorState /\ res = "ok" /\ IsFinished(FinishedKeys \cup {k})
     IN  /\ isErrorState' = (isErrorState \/ failing)
         /\ done' = (done \/ failing \/ ending)
         /\ finals' = IF failing \/ ending THEN Append(finals, res) ELSE finals
  /\ UNCHANGED registered

(* isInProgressFor(k)                                                        *)
IsInProgressFor(k) == k \in registered /\ finished[k] = "no"
-----------------------------------------------------------------------------
(* For a user that hands out all its callbacks before it returns to the      *)
(* event loop, and passes each to one request, which answers once.           *)
Register(k) ==
  /\ registered # Keys
  /\ GetCallback(k)

Answer(k, res) ==
  /\ registered = Keys
  /\ finished[k] = "no"
  /\ Callback(k, res)
-----------------------------------------------------------------------------
answer == [k \in Keys |-> IF finished[k] = "no" THEN "pending" ELSE finished[k]]
verdict == IF finals = << >> THEN "none" ELSE finals[1]

Await == INSTANCE AwaitAll

(* The types of the aggregator's variables; one final call at most.          *)
AggTypeOK ==
  /\ registered \subseteq Keys
  /\ finished \in [Keys -> Results \cup {"no"}]
  /\ isErrorState \in BOOLEAN
  /\ done \in BOOLEAN
  /\ finals \in {<< >>} \cup {<<res>> : res \in Results}

(* The aggregator implements AwaitAll: an error is reported at once, success *)
(* only after every key, and the verdict does come.                          *)
ImplementsAwaitAll == Await!Spec
=============================================================================
