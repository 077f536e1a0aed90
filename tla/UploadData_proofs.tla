-------------------------- MODULE UploadData_proofs -------------------------
(* What an upload knows, has cleaned and reads before a block is sent.       *)
(*                                                                           *)
(*  1. "There is no such blob" (BlobInfo) is true, for any set of requests   *)
(*     and any number of changes by other clients, and is said once.         *)
(*  2. Induction and recursive definitions over 0..n, as facts about sets.   *)
(*  3. What the operations on lists of intervals (IntSet) compute, for every *)
(*     list: by the second part.                                             *)
(*  4. The workers that clean the copy of a parent (ParentCleanup) leave the *)
(*     upload the list of what is left of it, for any parent, any table of   *)
(*     blocks and any number of workers.                                     *)
(*  5. What is read of a chain of VHDs (VhdReading), of any length, is the   *)
(*     data of the youngest VHD that has the sector, in whatever buffers and *)
(*     order the files deliver it.                                           *)
EXTENDS BlobInfo, ParentCleanup, VhdReading, FiniteSetTheorems, SequenceTheorems,
        WellFoundedInduction, TLAPS

-----------------------------------------------------------------------------
(* 1. What is known of the blob (BlobInfo).                                  *)
(*                                                                           *)
(* wasAbsent records what it is to record, a request that did not find the   *)
(* blob was served at such a time, and nothing else makes the answer "none". *)
IInv ==
  /\ wasAbsent \in BOOLEAN /\ blob \in BOOLEAN
  /\ served \in [Keys -> Outcomes \cup {"no"}]
  /\ answers \in Seq({"none", "info", "error"})
  /\ ~blob => wasAbsent
  /\ (\E k \in Keys : NotFound(k)) => wasAbsent
  /\ NoneMeansNotThere

LEMMA AppendsOnly ==
  ASSUME NEW S, NEW s \in Seq(S), NEW e \in S
  PROVE  /\ Append(s, e) \in Seq(S)
         /\ \A i \in DOMAIN Append(s, e) :
              Append(s, e)[i] = e \/ (i \in DOMAIN s /\ Append(s, e)[i] = s[i])
OBVIOUS

LEMMA InitHolds == Init => IInv
<1> SUFFICES ASSUME Init PROVE IInv
  OBVIOUS
<1>1. answers = << >>
  BY DEF Init
<1>2. answers \in Seq({"none", "info", "error"}) /\ NoneMeansNotThere
  BY <1>1 DEF NoneMeansNotThere
<1> QED
  BY <1>2 DEF Init, IInv, NotFound

LEMMA AnswerKeeps ==
  ASSUME IInv, NEW a \in {"none", "info", "error"}, answers' = Append(answers, a),
         a = "none" => wasAbsent, UNCHANGED wasAbsent
  PROVE  answers' \in Seq({"none", "info", "error"}) /\ NoneMeansNotThere'
<1> DEFINE S == {"none", "info", "error"}
<1>1. answers \in Seq(S) /\ a \in S
  BY DEF IInv
<1> HIDE DEF S
<1>2. /\ answers' \in Seq(S)
      /\ \A i \in DOMAIN answers' :
           answers'[i] = a \/ (i \in DOMAIN answers /\ answers'[i] = answers[i])
  BY <1>1, AppendsOnly
<1>3. NoneMeansNotThere'
  BY <1>2 DEF IInv, NoneMeansNotThere
<1> QED
  BY <1>2, <1>3 DEF S

LEMMA NextKeeps == IInv /\ [Next]_vars => IInv'
<1> SUFFICES ASSUME IInv, [Next]_vars PROVE IInv'
  OBVIOUS
<1>1. CASE UNCHANGED vars
  BY <1>1 DEF vars, infoVars, IInv, NotFound, NoneMeansNotThere
<1>2. ASSUME NEW k \in Keys, Ask(k)
      PROVE  IInv'
  BY <1>2 DEF Ask, infoVars, IInv, NotFound, NoneMeansNotThere
<1>3. ASSUME NEW k \in Keys, Serve(k)
      PROVE  IInv'
  <2>1. PICK outcome \in Outcomes :
          /\ served' = [served EXCEPT ![k] = outcome]
          /\ outcome = "notFound" => ~blob
    BY <1>3 DEF Serve
  <2>2. UNCHANGED <<blob, wasAbsent, answers>>
    BY <1>3 DEF Serve
  <2>3. served' \in [Keys -> Outcomes \cup {"no"}]
    BY <2>1 DEF IInv
  <2>4. (\E j \in Keys : NotFound(j)') => wasAbsent
    BY <2>1 DEF IInv, NotFound
  <2> QED
    BY <2>2, <2>3, <2>4 DEF IInv, NotFound, NoneMeansNotThere
<1>4. ASSUME NEW k \in Keys, OnAnswer(k)
      PROVE  IInv'
  <2>1. UNCHANGED <<blob, wasAbsent, served>> /\ OnFinal(k)
    BY <1>4 DEF OnAnswer
  <2>2. \/ answers' = answers
        \/ answers' = Append(answers, IF NotFound(k) THEN "none" ELSE "error")
        \/ answers' = Append(answers, "info")
    BY <2>1 DEF OnFinal, OnSuccess
  <2>3. answers' \in Seq({"none", "info", "error"}) /\ NoneMeansNotThere'
    <3>1. CASE answers' = answers
      BY <2>1, <3>1 DEF IInv, NoneMeansNotThere
    <3>2. CASE answers' = Append(answers, IF NotFound(k) THEN "none" ELSE "error")
      <4>1. CASE NotFound(k)
        BY <2>1, <3>2, <4>1, AnswerKeeps DEF IInv
      <4>2. CASE ~NotFound(k)
        BY <2>1, <3>2, <4>2, AnswerKeeps
      <4> QED
        BY <4>1, <4>2
    <3>3. CASE answers' = Append(answers, "info")
      BY <2>1, <3>3, AnswerKeeps
    <3> QED
      BY <2>2, <3>1, <3>2, <3>3
  <2> QED
    BY <2>1, <2>3 DEF IInv, NotFound
<1>5. CASE OtherClient
  BY <1>5 DEF OtherClient, IInv, NotFound, NoneMeansNotThere
<1>6. CASE OnDownloaded
  <2>1. UNCHANGED <<blob, wasAbsent, served>>
    BY <1>6 DEF OnDownloaded
  <2>2. PICK result \in {"info", "error"} : answers' = Append(answers, result)
    BY <1>6 DEF OnDownloaded
  <2>3. answers' \in Seq({"none", "info", "error"}) /\ NoneMeansNotThere'
    BY <2>1, <2>2, AnswerKeeps
  <2> QED
    BY <2>1, <2>3 DEF IInv, NotFound
<1> QED
  BY <1>1, <1>2, <1>3, <1>4, <1>5, <1>6 DEF Next

(* No blob that was there all along is taken for missing (blobInfo.js:51).   *)
THEOREM NoneIsTrue == Spec => []NoneMeansNotThere
<1>1. IInv => NoneMeansNotThere
  BY DEF IInv
<1> QED
  BY <1>1, InitHolds, NextKeeps, PTL DEF Spec
-----------------------------------------------------------------------------
(* The aggregator joins the requests: nobody answers before all have been    *)
(* handed their callbacks, and what the final callback is called with is     *)
(* decided by what has been answered.                                        *)
AllOk == \A k \in Keys : finished[k] = "ok"

AggInv ==
  /\ AggTypeOK
  /\ \A k \in Keys : finished[k] # "no" => registered = Keys
  /\ isErrorState <=> \E k \in Keys : finished[k] = "error"
  /\ finals = IF isErrorState THEN <<"error">> ELSE IF AllOk THEN <<"ok">> ELSE << >>

(* The caller is called in the step of the final callback, or when the       *)
(* footer has come for which that step asked.                                *)
AnswerInv ==
  /\ answers \in {<< >>} \cup {<<a>> : a \in {"none", "info", "error"}}
  /\ finals = << >> => answers = << >> /\ download = "no"
  /\ download = "asked" => answers = << >>

LEMMA KeysFacts == IsFiniteSet(Keys) /\ Keys # {}
<1>1. /\ IsFiniteSet({"listBlobRegion", "getBlobProperties"})
      /\ IsFiniteSet({"listBlobRegion", "getBlobProperties"} \cup {"createContainerIfNotExists"})
  <2>1. IsFiniteSet({"listBlobRegion"} \cup {"getBlobProperties"})
    BY FS_Singleton, FS_AddElement
  <2>2. {"listBlobRegion"} \cup {"getBlobProperties"} = {"listBlobRegion", "getBlobProperties"}
    OBVIOUS
  <2> QED
    BY <2>1, <2>2, FS_AddElement
<1>2. {"listBlobRegion", "getBlobProperties"} \cup {"createContainerIfNotExists"}
        = {"listBlobRegion", "getBlobProperties", "createContainerIfNotExists"}
  OBVIOUS
<1> QED
  BY <1>1, <1>2, KeysAssumption

(* isFinished() compares two sizes: with every callback handed out it says   *)
(* that every key has finished.                                              *)
LEMMA FinishedWhenAll ==
  ASSUME AggInv, NEW k \in Keys, registered = Keys
  PROVE  IsFinished(FinishedKeys \cup {k}) <=> \A j \in Keys \ {k} : finished[j] # "no"
<1> DEFINE F == FinishedKeys \cup {k}
<1>1. F \in SUBSET Keys
  BY DEF FinishedKeys
<1>2. Cardinality(Keys) = Cardinality(F) <=> F = Keys
  BY <1>1, KeysFacts, FS_Subset
<1>3. F = Keys <=> \A j \in Keys \ {k} : finished[j] # "no"
  BY DEF FinishedKeys
<1> QED
  BY <1>2, <1>3 DEF IsFinished

LEMMA AggHolds == Init => AggInv /\ AnswerInv
<1> SUFFICES ASSUME Init PROVE AggInv /\ AnswerInv
  OBVIOUS
<1>1. AggInv
  BY KeysFacts DEF Init, AggInit, AggInv, AggTypeOK, AllOk, Results
<1>2. AnswerInv
  BY DEF Init, AggInit, AnswerInv
<1> QED
  BY <1>1, <1>2

(* An answer to one request is a step of AwaitAll, and keeps the aggregator  *)
(* consistent.                                                               *)
LEMMA AnswerAwaited ==
  ASSUME AggInv, NEW k \in Keys, NEW res \in Results, Answer(k, res)
  PROVE  AggInv' /\ Await!Answer(k, res) /\ (finals' # finals => finals = << >>)
<1>1. /\ registered = Keys /\ registered' = Keys /\ finished[k] = "no"
      /\ finished' = [finished EXCEPT ![k] = res]
  BY DEF Answer, Callback
<1>2. /\ finished'[k] = res /\ \A j \in Keys \ {k} : finished'[j] = finished[j]
      /\ finished' \in [Keys -> Results \cup {"no"}]
  BY <1>1 DEF AggInv, AggTypeOK
<1> DEFINE failing == ~isErrorState /\ res = "error"
           ending == ~isErrorState /\ res = "ok" /\ IsFinished(FinishedKeys \cup {k})
<1>3. /\ isErrorState' = (isErrorState \/ failing)
      /\ done' = (done \/ failing \/ ending)
      /\ finals' = IF failing \/ ending THEN Append(finals, res) ELSE finals
  BY DEF Answer, Callback
<1>4. ~AllOk /\ (AllOk' <=> res = "ok" /\ \A j \in Keys \ {k} : finished[j] = "ok")
  BY <1>1, <1>2 DEF AllOk
<1>5. ending <=> ~isErrorState /\ AllOk'
  BY <1>1, <1>4, FinishedWhenAll DEF AggInv, AggTypeOK, Results
<1>6. isErrorState' <=> \E j \in Keys : finished'[j] = "error"
  BY <1>1, <1>2, <1>3 DEF AggInv, Results
<1>7. /\ finals' = IF isErrorState' THEN <<"error">> ELSE IF AllOk' THEN <<"ok">> ELSE << >>
      /\ finals' # finals => finals = << >>
  <2>1. finals = IF isErrorState THEN <<"error">> ELSE << >>
    BY <1>4 DEF AggInv
  <2>2. Append(<< >>, "error") = <<"error">> /\ Append(<< >>, "ok") = <<"ok">>
    OBVIOUS
  <2>3. CASE isErrorState
    BY <1>3, <2>1, <2>3
  <2>4. CASE failing
    <3>1. isErrorState' /\ finals = << >> /\ finals' = Append(<< >>, "error")
      BY <1>3, <2>1, <2>4
    <3> QED
      BY <2>2, <3>1
  <2>5. CASE ~isErrorState /\ ~failing
    <3>1. ~isErrorState' /\ finals = << >>
      BY <1>3, <2>1, <2>5
    <3>2. finals' = IF AllOk' THEN <<"ok">> ELSE << >>
      <4>1. CASE ending
        <5>1. finals' = Append(<< >>, "ok") /\ AllOk'
          BY <1>3, <1>5, <3>1, <4>1
        <5> QED
          BY <2>2, <5>1
      <4>2. CASE ~ending
        BY <1>3, <1>5, <2>5, <3>1, <4>2
      <4> QED
        BY <4>1, <4>2
    <3> QED
      BY <3>1, <3>2
  <2> QED
    BY <2>3, <2>4, <2>5
<1>8. AggInv'
  <2>1. finals' \in {<< >>} \cup {<<r>> : r \in Results} /\ done' \in BOOLEAN /\ isErrorState' \in BOOLEAN
    BY <1>3, <1>7 DEF AggInv, AggTypeOK, Results
  <2> QED
    BY <1>1, <1>2, <1>6, <1>7, <2>1 DEF AggInv, AggTypeOK
<1>9. Await!Answer(k, res)
  <2>1. answer[k] = "pending" /\ answer' = [answer EXCEPT ![k] = res]
    BY <1>1, <1>2 DEF answer, Results
  <2>2. (\A j \in Keys : answer'[j] = "ok") <=> AllOk'
    BY <1>2 DEF answer, AllOk
  <2>3. verdict = IF isErrorState THEN "error" ELSE "none"
    BY <1>4 DEF AggInv, verdict
  <2>4. verdict' = IF isErrorState' THEN "error" ELSE IF AllOk' THEN "ok" ELSE "none"
    BY <1>7 DEF verdict
  <2>5. isErrorState' => ~AllOk'
    BY <1>6 DEF AllOk
  <2> QED
    BY <1>3, <2>1, <2>2, <2>3, <2>4, <2>5 DEF Await!Answer, Results, AggInv, AggTypeOK
<1> QED
  BY <1>7, <1>8, <1>9

LEMMA AggKeeps ==
  AggInv /\ AnswerInv /\ [Next]_vars
    => AggInv' /\ AnswerInv' /\ [Await!Next]_<<answer, verdict>>
<1> SUFFICES ASSUME AggInv, AnswerInv, [Next]_vars
             PROVE  /\ AggInv' /\ AnswerInv'
                    /\ Await!Next \/ UNCHANGED <<answer, verdict>>
  OBVIOUS
<1>1. ASSUME UNCHANGED aggVars
      PROVE  AggInv' /\ UNCHANGED <<answer, verdict>>
  BY <1>1 DEF aggVars, AggInv, AggTypeOK, AllOk, answer, verdict
<1>2. CASE UNCHANGED vars
  BY <1>1, <1>2 DEF vars, aggVars, infoVars, AnswerInv
<1>3. ASSUME NEW k \in Keys, Ask(k)
      PROVE  AggInv' /\ AnswerInv' /\ UNCHANGED <<answer, verdict>>
  <2>1. /\ registered # Keys /\ registered' = registered \cup {k}
        /\ UNCHANGED <<finished, isErrorState, done, finals, answers, download>>
    BY <1>3 DEF Ask, Register, GetCallback, infoVars
  <2> QED
    BY <2>1 DEF AggInv, AggTypeOK, AllOk, AnswerInv, answer, verdict
<1>4. ASSUME NEW k \in Keys, Serve(k)
      PROVE  AggInv' /\ AnswerInv' /\ UNCHANGED <<answer, verdict>>
  BY <1>1, <1>4 DEF Serve, aggVars, AnswerInv
<1>5. ASSUME NEW k \in Keys, OnAnswer(k)
      PROVE  AggInv' /\ AnswerInv' /\ Await!Next
  <2>1. PICK res \in Results : Answer(k, res) /\ OnFinal(k)
    BY <1>5 DEF OnAnswer, Results
  <2>2. AggInv' /\ Await!Answer(k, res) /\ (finals' # finals => finals = << >>)
    BY <2>1, AnswerAwaited
  <2>3. AnswerInv'
    <3>1. CASE finals' = finals /\ UNCHANGED <<download, answers>>
      BY <3>1 DEF AnswerInv
    <3>2. CASE \E r \in Results : finals' = Append(finals, r)
      <4>1. PICK r \in Results : finals' = Append(finals, r)
        BY <3>2
      <4>2. finals = << >> /\ finals' # << >>
        BY <2>2, <4>1 DEF AggInv, AggTypeOK
      <4>3. answers = << >> /\ download = "no"
        BY <4>2 DEF AnswerInv
      <4>4. \/ UNCHANGED answers
            \/ /\ UNCHANGED download
               /\ \E a \in {"none", "info", "error"} : answers' = Append(answers, a)
        BY <2>1 DEF OnFinal, OnSuccess
      <4> QED
        BY <4>2, <4>3, <4>4 DEF AnswerInv
    <3> QED
      BY <2>1, <3>1, <3>2 DEF OnFinal, Results
  <2> QED
    BY <2>1, <2>2, <2>3 DEF Await!Next, Results
<1>6. CASE OtherClient
  BY <1>1, <1>6 DEF OtherClient, aggVars, AnswerInv
<1>7. CASE OnDownloaded
  <2>1. UNCHANGED aggVars /\ download = "asked" /\ download' = "over"
    BY <1>7 DEF OnDownloaded
  <2>2. PICK result \in {"info", "error"} : answers' = Append(answers, result)
    BY <1>7 DEF OnDownloaded
  <2>3. AnswerInv'
    BY <2>1, <2>2 DEF AnswerInv, aggVars
  <2> QED
    BY <1>1, <2>1, <2>3
<1> QED
  BY <1>2, <1>3, <1>4, <1>5, <1>6, <1>7 DEF Next

(* The aggregator as getBlobInfo() uses it implements AwaitAll, but for its  *)
(* fairness: an error is passed on at once, success only after every key,    *)
(* and only one of the two.                                                  *)
THEOREM AggregatorIsSafe == Spec => Await!Init /\ [][Await!Next]_<<answer, verdict>>
<1>1. Init => Await!Init
  BY DEF Init, AggInit, Await!Init, answer, verdict
<1> QED
  BY <1>1, AggHolds, AggKeeps, PTL DEF Spec

(* The caller of getBlobInfo() is called once at most (blobInfo.js:51-118).  *)
THEOREM AnswersAtMostOnce == Spec => [](Len(answers) <= 1)
<1>1. AnswerInv => Len(answers) <= 1
  <2> SUFFICES ASSUME AnswerInv PROVE Len(answers) <= 1
    OBVIOUS
  <2>1. CASE answers = << >>
    BY <2>1
  <2>2. ASSUME NEW a, answers = <<a>>
        PROVE  Len(answers) <= 1
    <3>1. Len(<<a>>) = 1
      OBVIOUS
    <3> QED
      BY <2>2, <3>1
  <2> QED
    BY <2>1, <2>2 DEF AnswerInv
<1> QED
  BY <1>1, AggHolds, AggKeeps, PTL DEF Spec

-----------------------------------------------------------------------------
(* 2. Induction up to n, and functions that are defined by recursion.        *)
(*                                                                           *)
(* Induction, over a set of numbers: what holds of 0 and passes from each    *)
(* number to the next holds of all.                                          *)
LEMMA SetInduction ==
  ASSUME NEW S, 0 \in S, \A n \in Nat : n \in S => n + 1 \in S
  PROVE  Nat \subseteq S
<1> SUFFICES ASSUME Nat \ S # {} PROVE FALSE
  OBVIOUS
<1> DEFINE R == OpToRel(<, Nat)
<1>1. IsWellFoundedOn(R, Nat)
  BY NatLessThanWellFounded
<1>2. \A x, y \in Nat : x < y => <<x, y>> \in R
  BY DEF OpToRel
<1> HIDE DEF R
<1>3. PICK m \in Nat \ S : \A y \in Nat \ S : ~ (<<y, m>> \in R)
  BY <1>1, WFMin
<1>4. m # 0 /\ m - 1 \in Nat /\ m - 1 < m
  BY <1>3
<1>5. m - 1 \in S
  BY <1>2, <1>3, <1>4
<1> QED
  BY <1>3, <1>4, <1>5

(* The same up to n, which is what the rest needs.                         *)
LEMMA InductionUpTo ==
  ASSUME NEW n \in Nat, NEW S, 0 \in S, \A k \in 1 .. n : k - 1 \in S => k \in S
  PROVE  0 .. n \subseteq S
<1> DEFINE T == {k \in Nat : k <= n => k \in S}
<1>1. ASSUME NEW k \in Nat, k \in T
      PROVE  k + 1 \in T
  <2>1. k + 1 <= n => k + 1 \in 1 .. n /\ (k + 1) - 1 = k
    OBVIOUS
  <2> QED
    BY <1>1, <2>1
<1>2. 0 \in T
  OBVIOUS
<1> HIDE DEF T
<1>3. Nat \subseteq T
  BY <1>1, <1>2, SetInduction
<1> QED
  BY <1>3 DEF T

(* A recursive definition on 0..n describes a function.                      *)
Recursive(g, A, n, b, F) ==
  /\ g \in [0 .. n -> A]
  /\ g[0] = b
  /\ \A i \in 1 .. n : g[i] = F[<<i, g[i - 1]>>]

(* There is a function that satisfies a recursive definition.              *)
LEMMA Recursion ==
  ASSUME NEW A, NEW n \in Nat, NEW b \in A, NEW F \in [(1 .. n) \X A -> A]
  PROVE  \E g : Recursive(g, A, n, b, F)
<1> DEFINE Good(k, g) == g[0] = b /\ \A i \in 1 .. k : g[i] = F[<<i, g[i - 1]>>]
           S == {k \in 0 .. n : \E g \in [0 .. k -> A] : Good(k, g)}
<1>1. 0 \in S
  <2> DEFINE g == [i \in 0 .. 0 |-> b]
  <2>1. g \in [0 .. 0 -> A] /\ g[0] = b /\ 1 .. 0 = {} /\ 0 \in 0 .. n
    OBVIOUS
  <2> HIDE DEF g
  <2>2. Good(0, g)
    BY <2>1
  <2> HIDE DEF Good
  <2> QED
    BY <2>1, <2>2
<1>2. ASSUME NEW k \in 1 .. n, k - 1 \in S
      PROVE  k \in S
  <2>1. PICK g \in [0 .. k - 1 -> A] : Good(k - 1, g)
    BY <1>2
  <2> DEFINE h == [i \in 0 .. k |-> IF i < k THEN g[i] ELSE F[<<k, g[k - 1]>>]]
  <2>2. F[<<k, g[k - 1]>>] \in A
    OBVIOUS
  <2>3. h \in [0 .. k -> A]
    BY <2>2
  <2>4. Good(k, h)
    <3>1. /\ h[0] = g[0] /\ h[k] = F[<<k, g[k - 1]>>] /\ h[k - 1] = g[k - 1]
          /\ \A i \in 1 .. k - 1 : h[i] = g[i] /\ h[i - 1] = g[i - 1]
      OBVIOUS
    <3>2. \A i \in 1 .. k : i = k \/ i \in 1 .. k - 1
      OBVIOUS
    <3> HIDE DEF h
    <3> QED
      BY <2>1, <3>1, <3>2
  <2> HIDE DEF h, Good
  <2> QED
    BY <2>3, <2>4
<1>3. n \in S
  <2> HIDE DEF S
  <2> QED
    BY <1>1, <1>2, InductionUpTo
<1> QED
  BY <1>3 DEF Recursive

(* The same downwards.                                                       *)
LEMMA InductionDown ==
  ASSUME NEW n \in Nat, NEW S, n \in S, \A k \in 1 .. n : k \in S => k - 1 \in S
  PROVE  0 .. n \subseteq S
<1> DEFINE T == {k \in 0 .. n : n - k \in S}
<1>1. 0 \in T
  <2>1. n - 0 = n
    OBVIOUS
  <2> QED
    BY <2>1
<1>2. ASSUME NEW k \in 1 .. n, k - 1 \in T
      PROVE  k \in T
  <2>1. n - (k - 1) \in 1 .. n /\ (n - (k - 1)) - 1 = n - k
    OBVIOUS
  <2> QED
    BY <1>2, <2>1
<1> HIDE DEF T
<1>3. 0 .. n \subseteq T
  BY <1>1, <1>2, InductionUpTo
<1>4. ASSUME NEW k \in 0 .. n
      PROVE  k \in S
  <2>1. n - k \in T
    BY <1>3
  <2>2. n - (n - k) = k
    OBVIOUS
  <2> QED
    BY <2>1, <2>2 DEF T
<1> QED
  BY <1>4

(* A recursive definition that starts at n.                                  *)
RecursiveDown(g, A, n, b, F) ==
  /\ g \in [0 .. n -> A]
  /\ g[n] = b
  /\ \A i \in 1 .. n : g[i - 1] = F[<<i, g[i]>>]

(* By the recursive definition on n - k.                                   *)
LEMMA RecursionDown ==
  ASSUME NEW A, NEW n \in Nat, NEW b \in A, NEW F \in [(1 .. n) \X A -> A]
  PROVE  \E g : RecursiveDown(g, A, n, b, F)
<1> DEFINE H == [y \in (1 .. n) \X A |-> F[<<n + 1 - y[1], y[2]>>]]
<1>1. H \in [(1 .. n) \X A -> A]
  <2>1. \A y \in (1 .. n) \X A : <<n + 1 - y[1], y[2]>> \in (1 .. n) \X A
    OBVIOUS
  <2> QED
    BY <2>1
<1>2. \A i \in 1 .. n : \A x \in A : H[<<i, x>>] = F[<<n + 1 - i, x>>]
  OBVIOUS
<1> HIDE DEF H
<1>3. PICK h : Recursive(h, A, n, b, H)
  BY <1>1, Recursion
<1> DEFINE g == [k \in 0 .. n |-> h[n - k]]
<1>4. /\ h \in [0 .. n -> A] /\ h[0] = b
      /\ \A i \in 1 .. n : h[i] = H[<<i, h[i - 1]>>]
  BY <1>3 DEF Recursive
<1>5. g \in [0 .. n -> A] /\ g[n] = b
  <2>1. n - n = 0 /\ \A k \in 0 .. n : n - k \in 0 .. n
    OBVIOUS
  <2> QED
    BY <1>4, <2>1
<1>6. ASSUME NEW i \in 1 .. n
      PROVE  g[i - 1] = F[<<i, g[i]>>]
  <2>1. PICK j \in 1 .. n : j = n + 1 - i /\ j = n - (i - 1) /\ j - 1 = n - i /\ n + 1 - j = i
    <3>1. n + 1 - i \in 1 .. n
      OBVIOUS
    <3> QED
      BY <3>1
  <2>2. g[i - 1] = h[j] /\ g[i] = h[j - 1]
    BY <2>1
  <2>3. h[j] = H[<<j, h[j - 1]>>] /\ h[j - 1] \in A
    BY <1>4
  <2> HIDE DEF g
  <2>4. H[<<j, h[j - 1]>>] = F[<<n + 1 - j, h[j - 1]>>]
    BY <1>2, <2>3, Zenon
  <2> QED
    BY <2>1, <2>2, <2>3, <2>4
<1> HIDE DEF g
<1>7. RecursiveDown(g, A, n, b, F)
  BY <1>5, <1>6, Zenon DEF RecursiveDown
<1> QED
  BY <1>7

-----------------------------------------------------------------------------
(* 3. Lists of intervals (intSet.js).  The lemmas say of each operation what it *)
(* makes of the integers the list stands for, and that it keeps the list in  *)
(* order.                                                                    *)
LEMMA EmptyList == << >> \in Lists /\ WellFormed(<< >>) /\ Members(<< >>) = {}
BY DEF Lists, WellFormed, Members

(* A list of one interval.                                                 *)
LEMMA OneInterval ==
  ASSUME NEW iv \in Intervals, iv.start <= iv.end
  PROVE  /\ <<iv>> \in Lists /\ WellFormed(<<iv>>)
         /\ Members(<<iv>>) = iv.start .. iv.end
         /\ Len(<<iv>>) = 1 /\ <<iv>>[1] = iv /\ DOMAIN <<iv>> = {1}
<1>1. <<iv>> \in Lists /\ Len(<<iv>>) = 1 /\ <<iv>>[1] = iv /\ DOMAIN <<iv>> = {1}
  BY DEF Lists
<1> DEFINE v == <<iv>>
<1> HIDE DEF v
<1>2. DOMAIN v = {1} /\ v[1] = iv
  BY <1>1 DEF v
<1>3. WellFormed(v)
  BY <1>2 DEF WellFormed
<1>4. Members(v) = UNION {iv.start .. iv.end}
  <2>1. {v[i].start .. v[i].end : i \in DOMAIN v} = {iv.start .. iv.end}
    BY <1>2
  <2> QED
    BY <2>1 DEF Members
<1> QED
  BY <1>1, <1>3, <1>4 DEF v

(* The elements of a list.                                                 *)
LEMMA ListFacts ==
  ASSUME NEW v \in Lists
  PROVE  /\ Len(v) \in Nat /\ DOMAIN v = 1 .. Len(v)
         /\ \A i \in 1 .. Len(v) : v[i] \in Intervals /\ v[i].start \in Int /\ v[i].end \in Int
         /\ Len(v) = 0 => v = << >>
<1>1. Len(v) = 0 => v = << >>
  BY EmptySeq DEF Lists
<1>2. Len(v) \in Nat /\ DOMAIN v = 1 .. Len(v) /\ \A i \in 1 .. Len(v) : v[i] \in Intervals
  BY DEF Lists
<1>3. \A iv \in Intervals : iv.start \in Int /\ iv.end \in Int
  BY DEF Intervals
<1> QED
  BY <1>1, <1>2, <1>3

(* Two lists, one behind the other.                                        *)
LEMMA JoinFacts ==
  ASSUME NEW u \in Lists, NEW v \in Lists
  PROVE  /\ u \o v \in Lists
         /\ Len(u \o v) = Len(u) + Len(v)
         /\ \A i \in 1 .. Len(u) : (u \o v)[i] = u[i]
         /\ \A i \in 1 .. Len(v) : (u \o v)[Len(u) + i] = v[i]
         /\ \A i \in 1 .. Len(u) + Len(v) :
              i \in 1 .. Len(u) \/ (i - Len(u) \in 1 .. Len(v) /\ (u \o v)[i] = v[i - Len(u)])
BY DEF Lists

LEMMA JoinMembers ==
  ASSUME NEW u \in Lists, NEW v \in Lists
  PROVE  Members(u \o v) = Members(u) \cup Members(v)
<1>1. DOMAIN (u \o v) = 1 .. Len(u) + Len(v) /\ DOMAIN u = 1 .. Len(u) /\ DOMAIN v = 1 .. Len(v)
  BY JoinFacts, ListFacts
<1>2. Len(u) \in Nat /\ Len(v) \in Nat
  BY ListFacts
<1> DEFINE w == u \o v
<1>3. /\ \A i \in 1 .. Len(u) : w[i] = u[i] /\ i \in 1 .. Len(u) + Len(v)
      /\ \A i \in 1 .. Len(v) : w[Len(u) + i] = v[i] /\ Len(u) + i \in 1 .. Len(u) + Len(v)
      /\ \A i \in 1 .. Len(u) + Len(v) :
           i \in 1 .. Len(u) \/ (i - Len(u) \in 1 .. Len(v) /\ w[i] = v[i - Len(u)])
  BY <1>2, JoinFacts
<1> HIDE DEF w
<1>4. Members(w) = UNION {w[i].start .. w[i].end : i \in 1 .. Len(u) + Len(v)}
  BY <1>1 DEF Members, w
<1>5. Members(w) = Members(u) \cup Members(v)
  BY <1>1, <1>3, <1>4 DEF Members
<1> QED
  BY <1>5 DEF w

(* The order of a list that follows another.                                 *)
LEMMA JoinOrder ==
  ASSUME NEW u \in Lists, NEW v \in Lists, WellFormed(u), WellFormed(v),
         \A i \in 1 .. Len(u), j \in 1 .. Len(v) : u[i].end < v[j].start
  PROVE  WellFormed(u \o v)
<1>1. DOMAIN (u \o v) = 1 .. Len(u) + Len(v) /\ DOMAIN u = 1 .. Len(u) /\ DOMAIN v = 1 .. Len(v)
  BY JoinFacts, ListFacts
<1>2. Len(u) \in Nat /\ Len(v) \in Nat
  BY ListFacts
<1> DEFINE w == u \o v
<1>3. /\ \A i \in 1 .. Len(u) : w[i] = u[i]
      /\ \A i \in 1 .. Len(u) + Len(v) :
           i \in 1 .. Len(u) \/ (i - Len(u) \in 1 .. Len(v) /\ w[i] = v[i - Len(u)])
  BY JoinFacts
<1> HIDE DEF w
<1>4. ASSUME NEW i \in 1 .. Len(u) + Len(v)
      PROVE  w[i].start <= w[i].end /\ (i > 1 => w[i].start > w[i - 1].end)
  <2>1. CASE i \in 1 .. Len(u)
    <3>1. i > 1 => i - 1 \in 1 .. Len(u)
      BY <1>2, <2>1
    <3> QED
      BY <1>1, <1>3, <2>1, <3>1 DEF WellFormed
  <2>2. CASE i \notin 1 .. Len(u)
    <3>1. i - Len(u) \in 1 .. Len(v) /\ w[i] = v[i - Len(u)]
      BY <1>3, <2>2
    <3>2. CASE i - Len(u) = 1
      <4>1. i > 1 => i - 1 \in 1 .. Len(u) /\ w[i - 1] = u[i - 1]
        BY <1>2, <1>3, <3>2
      <4>2. i > 1 => u[i - 1].end < v[i - Len(u)].start
        BY <3>1, <4>1
      <4>3. v[i - Len(u)].start \in Int /\ (i > 1 => u[i - 1].end \in Int)
        BY <3>1, <4>1, ListFacts
      <4> QED
        BY <1>1, <3>1, <4>1, <4>2, <4>3 DEF WellFormed
    <3>3. CASE i - Len(u) # 1
      <4>1. i - 1 \in 1 .. Len(u) + Len(v) /\ i - 1 \notin 1 .. Len(u)
            /\ (i - 1) - Len(u) = (i - Len(u)) - 1 /\ i - Len(u) > 1
        BY <1>2, <3>1, <3>3
      <4>2. w[i - 1] = v[(i - Len(u)) - 1]
        BY <1>3, <4>1
      <4> QED
        BY <1>1, <3>1, <4>1, <4>2 DEF WellFormed
    <3> QED
      BY <3>2, <3>3
  <2> QED
    BY <2>1, <2>2
<1> QED
  BY <1>1, <1>4 DEF WellFormed, w

(* What is left of an interval is in it, in order.                           *)
LEMMA CreateFacts ==
  ASSUME NEW s \in Int, NEW e \in Int
  PROVE  /\ CreateIntSet(s, e) \in Lists /\ WellFormed(CreateIntSet(s, e))
         /\ Members(CreateIntSet(s, e)) = s .. e
         /\ \A j \in 1 .. Len(CreateIntSet(s, e)) :
              CreateIntSet(s, e)[j].start = s /\ CreateIntSet(s, e)[j].end = e
<1>1. CASE s > e
  <2>1. CreateIntSet(s, e) = << >> /\ s .. e = {} /\ 1 .. Len(<< >>) = {}
    BY <1>1 DEF CreateIntSet
  <2> QED
    BY <2>1, EmptyList
<1>2. CASE ~(s > e)
  <2> DEFINE iv == Interval(s, e)
  <2>1. iv \in Intervals /\ iv.start = s /\ iv.end = e /\ s <= e
    BY <1>2 DEF Interval, Intervals
  <2>2. CreateIntSet(s, e) = <<iv>>
    BY <1>2 DEF CreateIntSet
  <2> HIDE DEF iv
  <2>3. 1 .. Len(<<iv>>) = {1} /\ <<iv>>[1] = iv
    BY <2>1, OneInterval
  <2> QED
    BY <2>1, <2>2, <2>3, OneInterval
<1> QED
  BY <1>1, <1>2

(* What is left of one interval: it is cut on either side, or split.       *)
LEMMA WithoutFacts ==
  ASSUME NEW v \in Intervals, v.start <= v.end, NEW s \in Int, NEW e \in Int, s <= e
  PROVE  /\ Without(v, s, e) \in Lists /\ WellFormed(Without(v, s, e))
         /\ Members(Without(v, s, e)) = (v.start .. v.end) \ (s .. e)
         /\ \A j \in 1 .. Len(Without(v, s, e)) :
              v.start <= Without(v, s, e)[j].start /\ Without(v, s, e)[j].end <= v.end
<1>1. v.start \in Int /\ v.end \in Int
  BY DEF Intervals
<1>2. CASE Disjoint(v, s, e)
  <2>1. Without(v, s, e) = <<v>>
    BY <1>2 DEF Without
  <2>2. (v.start .. v.end) \ (s .. e) = v.start .. v.end
    BY <1>1, <1>2 DEF Disjoint
  <2>3. 1 .. Len(<<v>>) = {1} /\ <<v>>[1] = v
    BY OneInterval
  <2> QED
    BY <1>1, <2>1, <2>2, <2>3, OneInterval
<1>3. CASE ~Disjoint(v, s, e)
  <2> DEFINE a == CreateIntSet(v.start, s - 1)
             b == CreateIntSet(e + 1, v.end)
  <2>1. Without(v, s, e) = a \o b
    BY <1>3 DEF Without
  <2>2. v.start <= e /\ s <= v.end
    BY <1>1, <1>3 DEF Disjoint
  <2>3. s - 1 \in Int /\ e + 1 \in Int
    OBVIOUS
  <2>4. /\ a \in Lists /\ WellFormed(a) /\ Members(a) = v.start .. s - 1
        /\ \A j \in 1 .. Len(a) : a[j].start = v.start /\ a[j].end = s - 1
    BY <1>1, <2>3, CreateFacts
  <2>5. /\ b \in Lists /\ WellFormed(b) /\ Members(b) = e + 1 .. v.end
        /\ \A j \in 1 .. Len(b) : b[j].start = e + 1 /\ b[j].end = v.end
    BY <1>1, <2>3, CreateFacts
  <2> HIDE DEF a, b
  <2>6. \A i \in 1 .. Len(a), j \in 1 .. Len(b) : a[i].end < b[j].start
    BY <2>4, <2>5
  <2>7. a \o b \in Lists /\ WellFormed(a \o b)
    BY <2>4, <2>5, <2>6, JoinOrder, JoinFacts
  <2>8. Members(a \o b) = (v.start .. v.end) \ (s .. e)
    <3>1. (v.start .. s - 1) \cup (e + 1 .. v.end) = (v.start .. v.end) \ (s .. e)
      BY <1>1, <2>2
    <3> QED
      BY <2>4, <2>5, <3>1, JoinMembers
  <2>9. ASSUME NEW j \in 1 .. Len(a \o b)
        PROVE  v.start <= (a \o b)[j].start /\ (a \o b)[j].end <= v.end
    <3> DEFINE w == a \o b
    <3>1. \/ \E i \in 1 .. Len(a) : w[j] = a[i]
          \/ \E i \in 1 .. Len(b) : w[j] = b[i]
      BY <2>4, <2>5, JoinFacts
    <3> HIDE DEF w
    <3>2. \A i \in 1 .. Len(a) : v.start <= a[i].start /\ a[i].end <= v.end
      <4>1. ASSUME NEW i \in 1 .. Len(a)
            PROVE  a[i].start <= a[i].end
        BY <2>4, ListFacts DEF WellFormed
      <4> QED
        BY <1>1, <2>2, <2>4, <4>1
    <3>3. \A i \in 1 .. Len(b) : v.start <= b[i].start /\ b[i].end <= v.end
      BY <1>1, <2>2, <2>5
    <3>4. v.start <= w[j].start /\ w[j].end <= v.end
      BY <3>1, <3>2, <3>3
    <3> QED
      BY <3>4 DEF w
  <2> QED
    BY <2>1, <2>7, <2>8, <2>9
<1> QED
  BY <1>2, <1>3

(* subtractInterval(): any list, any interval, however the intervals of the  *)
(* list are cut.                                                             *)
LEMMA SubtractIntervalFacts ==
  ASSUME NEW v \in Lists, WellFormed(v), NEW s \in Int, NEW e \in Int
  PROVE  /\ SubtractInterval(v, s, e) \in Lists
         /\ WellFormed(SubtractInterval(v, s, e))
         /\ Members(SubtractInterval(v, s, e)) = Members(v) \ (s .. e)
<1>1. CASE s > e
  <2>1. SubtractInterval(v, s, e) = v /\ s .. e = {}
    BY <1>1 DEF SubtractInterval
  <2> QED
    BY <2>1
<1>2. CASE ~(s > e)
  <2>1. PICK n \in Nat : n = Len(v) /\ DOMAIN v = 1 .. n
    BY ListFacts
  <2> DEFINE W(i) == Without(v[i], s, e)
  <2>2. ASSUME NEW i \in 1 .. n
        PROVE  /\ W(i) \in Lists /\ WellFormed(W(i))
               /\ Members(W(i)) = (v[i].start .. v[i].end) \ (s .. e)
               /\ \A j \in 1 .. Len(W(i)) : v[i].start <= W(i)[j].start /\ W(i)[j].end <= v[i].end
               /\ v[i].start \in Int /\ v[i].end \in Int
               /\ i > 1 => v[i].start > v[i - 1].end
    <3>1. v[i] \in Intervals /\ v[i].start <= v[i].end /\ s <= e
      BY <1>2, <2>1, ListFacts DEF WellFormed
    <3>2. v[i].start \in Int /\ v[i].end \in Int /\ (i > 1 => v[i].start > v[i - 1].end)
      BY <2>1, ListFacts DEF WellFormed
    <3> QED
      BY <3>1, <3>2, WithoutFacts
  <2> HIDE DEF W
  <2> DEFINE left[i \in 0 .. n] == IF i = 0 THEN << >> ELSE left[i - 1] \o W(i)
  <2>3. SubtractInterval(v, s, e) = left[n]
    BY <1>2, <2>1, Zenon DEF SubtractInterval, W
  <2>4. left = [i \in 0 .. n |-> IF i = 0 THEN << >> ELSE left[i - 1] \o W(i)]
    <3> DEFINE F == [x \in (1 .. n) \X Lists |-> x[2] \o W(x[1])]
    <3>1. F \in [(1 .. n) \X Lists -> Lists]
      BY <2>2, JoinFacts
    <3>2. ASSUME NEW i \in 1 .. n, NEW x \in Lists
          PROVE  F[<<i, x>>] = x \o W(i)
      OBVIOUS
    <3> HIDE DEF F
    <3> HIDE DEF left
    <3>3. PICK h \in [0 .. n -> Lists] : h[0] = << >> /\ \A i \in 1 .. n : h[i] = F[<<i, h[i - 1]>>]
      <4>1. PICK b \in Lists : b = << >>
        BY EmptyList
      <4>2. PICK h : Recursive(h, Lists, n, b, F)
        BY <3>1, Recursion
      <4>3. h \in [0 .. n -> Lists] /\ h[0] = b /\ \A i \in 1 .. n : h[i] = F[<<i, h[i - 1]>>]
        BY <4>2 DEF Recursive
      <4> QED
        BY <4>1, <4>3, Zenon
    <3>4. ASSUME NEW i \in 0 .. n
          PROVE  h[i] = IF i = 0 THEN << >> ELSE h[i - 1] \o W(i)
      <4>1. CASE i = 0
        BY <3>3, <4>1
      <4>2. CASE i # 0
        <5>1. i \in 1 .. n /\ h[i - 1] \in Lists
          BY <4>2
        <5> QED
          BY <3>2, <3>3, <4>2, <5>1, Zenon
      <4> QED
        BY <4>1, <4>2
    <3>5. h = [i \in 0 .. n |-> IF i = 0 THEN << >> ELSE h[i - 1] \o W(i)]
      <4>1. h = [i \in 0 .. n |-> h[i]]
        OBVIOUS
      <4> QED
        BY <3>4, <4>1, Zenon
    <3> QED
      BY <3>5, Zenon DEF left
  <2>5. left[0] = << >>
    <3> HIDE DEF left
    <3> QED
      BY <2>4
  <2>6. ASSUME NEW i \in 1 .. n
        PROVE  left[i] = left[i - 1] \o W(i)
    <3> HIDE DEF left
    <3>1. i \in 0 .. n /\ i # 0
      OBVIOUS
    <3> QED
      BY <2>4, <3>1, Zenon
  <2> HIDE DEF left
  <2> DEFINE Good(i) ==
        /\ left[i] \in Lists /\ WellFormed(left[i])
        /\ \A x \in Int : x \in Members(left[i]) <=>
             x \notin s .. e /\ \E k \in 1 .. i : x \in v[k].start .. v[k].end
        /\ Members(left[i]) \subseteq Int
        /\ i > 0 => \A j \in 1 .. Len(left[i]) : left[i][j].end <= v[i].end
             S == {i \in 0 .. n : Good(i)}
  <2>7. 0 \in S
    <3>1. left[0] \in Lists /\ WellFormed(left[0]) /\ Members(left[0]) = {} /\ 1 .. 0 = {}
      BY <2>5, EmptyList
    <3> QED
      BY <3>1
  <2>8. ASSUME NEW i \in 1 .. n, i - 1 \in S
        PROVE  i \in S
    <3> DEFINE u == left[i - 1]
               w == W(i)
    <3>1. /\ u \in Lists /\ WellFormed(u) /\ Members(u) \subseteq Int
          /\ i > 1 => \A j \in 1 .. Len(u) : u[j].end <= v[i - 1].end
          /\ i = 1 => u = << >>
      BY <2>5, <2>8
    <3>2. /\ w \in Lists /\ WellFormed(w)
          /\ Members(w) = (v[i].start .. v[i].end) \ (s .. e)
          /\ \A j \in 1 .. Len(w) : v[i].start <= w[j].start /\ w[j].end <= v[i].end
      BY <2>2
    <3>3. left[i] = u \o w
      BY <2>6
    <3>4. \A j \in 1 .. Len(u) : u[j].end < v[i].start /\ u[j].end \in Int
      <4>1. CASE i = 1
        <5>1. 1 .. Len(u) = {}
          BY <3>1, <4>1
        <5> QED
          BY <5>1
      <4>2. CASE i > 1
        <5>1. v[i - 1].end \in Int /\ v[i - 1].end < v[i].start /\ v[i].start \in Int
          <6>1. i - 1 \in 1 .. n
            BY <4>2
          <6> QED
            BY <2>2, <4>2, <6>1
        <5>2. \A j \in 1 .. Len(u) : u[j].end \in Int
          BY <3>1, ListFacts
        <5> HIDE DEF u
        <5> QED
          BY <3>1, <4>2, <5>1, <5>2
      <4> QED
        BY <4>1, <4>2
    <3>5. \A j \in 1 .. Len(w) : w[j].start \in Int /\ w[j].end \in Int
      BY <3>2, ListFacts
    <3>6. v[i].start \in Int /\ v[i].end \in Int /\ v[i].start <= v[i].end
      <4>1. v[i].start <= v[i].end
        BY <2>1 DEF WellFormed
      <4> QED
        BY <2>2, <4>1
    <3>7. \A x \in Int : x \in Members(u) <=>
             x \notin s .. e /\ \E k \in 1 .. i - 1 : x \in v[k].start .. v[k].end
      BY <2>8
    <3> HIDE DEF u, w
    <3>8. \A j \in 1 .. Len(u), k \in 1 .. Len(w) : u[j].end < w[k].start
      BY <3>2, <3>4, <3>5, <3>6
    <3>9. u \o w \in Lists /\ WellFormed(u \o w) /\ Members(u \o w) = Members(u) \cup Members(w)
      BY <3>1, <3>2, <3>8, JoinOrder, JoinFacts, JoinMembers
    <3>10. ASSUME NEW j \in 1 .. Len(u \o w)
           PROVE  (u \o w)[j].end <= v[i].end
      <4> DEFINE uw == u \o w
      <4>1. \/ \E k \in 1 .. Len(u) : uw[j] = u[k]
            \/ \E k \in 1 .. Len(w) : uw[j] = w[k]
        <5>1. /\ Len(uw) = Len(u) + Len(w)
              /\ \A k \in 1 .. Len(u) : uw[k] = u[k]
              /\ \A k \in 1 .. Len(u) + Len(w) :
                   k \in 1 .. Len(u) \/ (k - Len(u) \in 1 .. Len(w) /\ uw[k] = w[k - Len(u)])
          BY <3>1, <3>2, JoinFacts, Zenon
        <5> HIDE DEF uw, S
        <5>2. j \in 1 .. Len(u) + Len(w)
          BY <5>1 DEF uw
        <5> QED
          BY <5>1, <5>2, Zenon
      <4> HIDE DEF uw
      <4>2. \A k \in 1 .. Len(u) : u[k].end <= v[i].end
        BY <3>4, <3>6
      <4> QED
        BY <3>2, <4>1, <4>2, Zenon DEF uw
    <3>11. ASSUME NEW x \in Int
           PROVE  x \in Members(u) \cup Members(w) <=>
                    x \notin s .. e /\ \E k \in 1 .. i : x \in v[k].start .. v[k].end
      <4>1. \A k \in 1 .. i : k = i \/ k \in 1 .. i - 1
        OBVIOUS
      <4>2. \A k \in 1 .. i - 1 : k \in 1 .. i
        OBVIOUS
      <4> QED
        BY <3>2, <3>7, <4>1, <4>2
    <3>12. Members(u) \cup Members(w) \subseteq Int
      BY <3>1, <3>2
    <3>13. Good(i)
      BY <3>3, <3>9, <3>10, <3>11, <3>12, Zenon
    <3> QED
      BY <3>13
  <2>9. n \in S
    <3> HIDE DEF S
    <3> QED
      BY <2>7, <2>8, InductionUpTo
  <2>10. Members(left[n]) = Members(v) \ (s .. e)
    <3>1. \A x : x \in Members(v) <=> \E k \in 1 .. n : x \in v[k].start .. v[k].end
      BY <2>1 DEF Members
    <3>2. Members(v) \subseteq Int
      BY <3>1
    <3> QED
      BY <2>9, <3>1, <3>2
  <2> QED
    BY <2>3, <2>9, <2>10
<1> QED
  BY <1>1, <1>2

(* subtractRanges(), one interval after the other.                           *)
THEOREM SubtractRangesFacts ==
  ASSUME NEW v \in Lists, WellFormed(v), NEW r \in Lists
  PROVE  /\ SubtractRanges(v, r) \in Lists
         /\ WellFormed(SubtractRanges(v, r))
         /\ Members(SubtractRanges(v, r)) = Members(v) \ Members(r)
<1>1. PICK n \in Nat : n = Len(r) /\ DOMAIN r = 1 .. n
  BY ListFacts
<1>2. \A i \in 1 .. n : r[i].start \in Int /\ r[i].end \in Int
  BY <1>1, ListFacts
<1> DEFINE Cut(i, x) == SubtractInterval(x, r[i].start, r[i].end)
           WF == {x \in Lists : WellFormed(x)}
<1>3. ASSUME NEW i \in 1 .. n, NEW x \in WF
      PROVE  Cut(i, x) \in WF /\ Members(Cut(i, x)) = Members(x) \ (r[i].start .. r[i].end)
  BY <1>2, SubtractIntervalFacts
<1> HIDE DEF Cut
<1> DEFINE rest[i \in 0 .. n] == IF i = 0 THEN v ELSE Cut(i, rest[i - 1])
<1>4. SubtractRanges(v, r) = rest[n]
  BY <1>1, Zenon DEF SubtractRanges, Cut
<1>5. rest = [i \in 0 .. n |-> IF i = 0 THEN v ELSE Cut(i, rest[i - 1])]
  <2> DEFINE F == [x \in (1 .. n) \X WF |-> Cut(x[1], x[2])]
  <2>1. F \in [(1 .. n) \X WF -> WF]
    BY <1>3
  <2>2. ASSUME NEW i \in 1 .. n, NEW x \in WF
        PROVE  F[<<i, x>>] = Cut(i, x)
    OBVIOUS
  <2>3. v \in WF
    OBVIOUS
  <2> HIDE DEF F, WF, rest
  <2>4. PICK h : Recursive(h, WF, n, v, F)
    BY <2>1, <2>3, Recursion
  <2>5. h \in [0 .. n -> WF] /\ h[0] = v /\ \A i \in 1 .. n : h[i] = F[<<i, h[i - 1]>>]
    BY <2>4 DEF Recursive
  <2>6. ASSUME NEW i \in 0 .. n
        PROVE  h[i] = IF i = 0 THEN v ELSE Cut(i, h[i - 1])
    <3>1. CASE i = 0
      BY <2>5, <3>1
    <3>2. CASE i # 0
      <4>1. i \in 1 .. n /\ h[i - 1] \in WF
        BY <2>5, <3>2
      <4> QED
        BY <2>2, <2>5, <3>2, <4>1, Zenon
    <3> QED
      BY <3>1, <3>2
  <2>7. h = [i \in 0 .. n |-> IF i = 0 THEN v ELSE Cut(i, h[i - 1])]
    <3>1. h = [i \in 0 .. n |-> h[i]]
      BY <2>5
    <3> QED
      BY <2>6, <3>1, Zenon
  <2> QED
    BY <2>7, Zenon DEF rest
<1> HIDE DEF rest
<1>6. rest[0] = v
  BY <1>5
<1>7. ASSUME NEW i \in 1 .. n
      PROVE  rest[i] = Cut(i, rest[i - 1])
  <2>1. i \in 0 .. n /\ i # 0
    OBVIOUS
  <2> QED
    BY <1>5, <2>1, Zenon
<1> DEFINE Cuts(i) == UNION {r[k].start .. r[k].end : k \in 1 .. i}
           S == {i \in 0 .. n : rest[i] \in WF /\ Members(rest[i]) = Members(v) \ Cuts(i)}
<1>8. 0 \in S
  <2>1. Cuts(0) = {}
    OBVIOUS
  <2> QED
    BY <1>6, <2>1
<1>9. ASSUME NEW i \in 1 .. n, i - 1 \in S
      PROVE  i \in S
  <2>1. rest[i] \in WF /\ Members(rest[i]) = (Members(v) \ Cuts(i - 1)) \ (r[i].start .. r[i].end)
    <3>1. rest[i - 1] \in WF /\ Members(rest[i - 1]) = Members(v) \ Cuts(i - 1)
      BY <1>9
    <3> HIDE DEF WF, Cuts
    <3> QED
      BY <1>3, <1>7, <3>1
  <2>2. Cuts(i) = Cuts(i - 1) \cup (r[i].start .. r[i].end)
    <3>1. 1 .. i = 1 .. i - 1 \cup {i}
      OBVIOUS
    <3> QED
      BY <3>1
  <2> HIDE DEF Cuts, WF
  <2> QED
    BY <2>1, <2>2
<1>10. n \in S
  <2> HIDE DEF S
  <2> QED
    BY <1>8, <1>9, InductionUpTo
<1>11. Members(r) = Cuts(n)
  BY <1>1 DEF Members
<1> QED
  BY <1>4, <1>10, <1>11

(* A list in order is empty when it stands for nothing.                      *)
LEMMA EmptyWhenNoMembers ==
  ASSUME NEW v \in Lists, WellFormed(v)
  PROVE  v = << >> <=> Members(v) = {}
<1>1. ASSUME v # << >>
      PROVE  Members(v) # {}
  <2>1. 1 \in DOMAIN v /\ v[1].start \in Int /\ v[1].end \in Int
    BY <1>1, ListFacts
  <2>2. v[1].start <= v[1].end
    BY <2>1 DEF WellFormed
  <2>3. v[1].start \in Members(v)
    BY <2>1, <2>2 DEF Members
  <2> QED
    BY <2>3
<1> QED
  BY <1>1, EmptyList

(* One more interval.                                                      *)
LEMMA AppendFacts ==
  ASSUME NEW v \in Lists, NEW iv \in Intervals
  PROVE  /\ Append(v, iv) \in Lists /\ Len(Append(v, iv)) = Len(v) + 1
         /\ Append(v, iv)[Len(v) + 1] = iv
         /\ \A i \in 1 .. Len(v) : Append(v, iv)[i] = v[i]
         /\ Append(v, iv) = v \o <<iv>>
BY DEF Lists

(* A longer last interval.                                                   *)
LEMMA ExtendFacts ==
  ASSUME NEW v \in Lists, WellFormed(v), Len(v) > 0, NEW e \in Int, v[Len(v)].end = e - 1
  PROVE  LET w == [v EXCEPT ![Len(v)].end = e]
         IN  /\ w \in Lists /\ WellFormed(w) /\ Len(w) = Len(v) /\ w[Len(v)].end = e
             /\ Members(w) = Members(v) \cup {e}
             /\ \A i \in 1 .. Len(v) : i # Len(v) => w[i] = v[i]
<1>1. PICK n \in Nat : n = Len(v) /\ DOMAIN v = 1 .. n /\ n \in 1 .. n
  BY ListFacts
<1> DEFINE longer == [v[n] EXCEPT !.end = e]
           w == [v EXCEPT ![n] = longer]
<1>2. v[n] \in Intervals /\ v[n].start \in Int
  BY <1>1, ListFacts
<1>3. longer \in Intervals /\ longer.start = v[n].start /\ longer.end = e
  BY <1>2 DEF Intervals
<1> HIDE DEF longer
<1>4. v = [i \in 1 .. n |-> v[i]] /\ \A i \in 1 .. n : v[i] \in Intervals
  BY <1>1, ListFacts DEF Lists
<1>5. w = [i \in 1 .. n |-> IF i = n THEN longer ELSE v[i]]
  BY <1>1, <1>4
<1> HIDE DEF w
<1>6. w \in Lists /\ Len(w) = n
  <2>1. w \in [1 .. n -> Intervals]
    BY <1>3, <1>4, <1>5
  <2> QED
    BY <2>1 DEF Lists
<1>7. w[n] = longer /\ DOMAIN w = 1 .. n /\ \A i \in 1 .. n : i # n => w[i] = v[i]
  BY <1>1, <1>5
<1>8. WellFormed(w)
  <2> SUFFICES ASSUME NEW i \in 1 .. n
               PROVE  w[i].start <= w[i].end /\ (i > 1 => w[i].start > w[i - 1].end)
    BY <1>7 DEF WellFormed
  <2>1. v[i].start <= v[i].end /\ (i > 1 => v[i].start > v[i - 1].end)
    BY <1>1 DEF WellFormed
  <2>2. v[n].start <= e - 1
    <3>1. v[n].start <= v[n].end
      BY <1>1 DEF WellFormed
    <3> QED
      BY <1>1, <3>1
  <2>3. CASE i = n
    <3>1. i > 1 => i - 1 \in 1 .. n /\ i - 1 # n
      BY <1>1
    <3> QED
      BY <1>2, <1>3, <1>7, <2>1, <2>2, <2>3, <3>1
  <2>4. CASE i # n
    <3>1. i > 1 => i - 1 \in 1 .. n /\ i - 1 # n
      BY <1>1
    <3> QED
      BY <1>7, <2>1, <2>4, <3>1
  <2> QED
    BY <2>3, <2>4
<1>9. Members(w) = Members(v) \cup {e}
  <2>1. \A x : x \in Members(w) <=> \E i \in 1 .. n : x \in w[i].start .. w[i].end
    BY <1>7 DEF Members
  <2>2. \A x : x \in Members(v) <=> \E i \in 1 .. n : x \in v[i].start .. v[i].end
    BY <1>1 DEF Members
  <2>3. longer.start .. longer.end = (v[n].start .. v[n].end) \cup {e}
    <3>1. v[n].start <= v[n].end /\ v[n].end = e - 1
      BY <1>1 DEF WellFormed
    <3> QED
      BY <1>2, <1>3, <3>1
  <2> QED
    BY <1>1, <1>7, <2>1, <2>2, <2>3
<1>10. w = [v EXCEPT ![Len(v)].end = e]
  BY <1>1 DEF w, longer
<1> QED
  BY <1>1, <1>3, <1>6, <1>7, <1>8, <1>9, <1>10, Zenon

LEMMA ExtendIsList ==
  ASSUME NEW v \in Lists, NEW e \in Int
  PROVE  [v EXCEPT ![Len(v)].end = e] \in Lists
<1>1. PICK n \in Nat : n = Len(v)
  BY ListFacts
<1> DEFINE longer == [v[n] EXCEPT !.end = e]
           w == [v EXCEPT ![n] = longer]
<1>2. v = [i \in 1 .. n |-> v[i]] /\ \A i \in 1 .. n : v[i] \in Intervals
  BY <1>1, ListFacts DEF Lists
<1>3. n \in 1 .. n => longer \in Intervals
  BY <1>2 DEF Intervals
<1> HIDE DEF longer
<1>4. w = [i \in 1 .. n |-> IF i = n THEN longer ELSE v[i]]
  BY <1>2
<1> HIDE DEF w
<1>5. w \in [1 .. n -> Intervals]
  BY <1>2, <1>3, <1>4
<1>6. w \in Lists
  BY <1>5 DEF Lists
<1> QED
  BY <1>1, <1>6 DEF w, longer

(* The list of the service stands for the pages it was asked about, in order. *)
LEMMA IntervalsOfFacts ==
  ASSUME NEW n \in Nat, NEW S, S \subseteq 0 .. n - 1
  PROVE  /\ IntervalsOf(S, n) \in Lists
         /\ WellFormed(IntervalsOf(S, n))
         /\ Members(IntervalsOf(S, n)) = S
<1> DEFINE Longer(k, x) == [x EXCEPT ![Len(x)].end = k - 1]
           More(k, x) == Append(x, Interval(k - 1, k - 1))
           Run(k, x) == IF k - 1 \notin S THEN x
                        ELSE IF k - 2 \in S THEN Longer(k, x) ELSE More(k, x)
<1>1. ASSUME NEW k \in 1 .. n
      PROVE  Interval(k - 1, k - 1) \in Intervals
  BY DEF Interval, Intervals
<1>2. ASSUME NEW k \in 1 .. n, NEW x \in Lists
      PROVE  Longer(k, x) \in Lists /\ More(k, x) \in Lists
  <2>1. PICK e \in Int : e = k - 1
    OBVIOUS
  <2>2. [x EXCEPT ![Len(x)].end = e] \in Lists
    BY ExtendIsList
  <2>3. More(k, x) \in Lists
    BY <1>1, AppendFacts
  <2> QED
    BY <2>1, <2>2, <2>3, Zenon
<1>3. ASSUME NEW k \in 1 .. n, NEW x \in Lists
      PROVE  Run(k, x) \in Lists
  <2> HIDE DEF Longer, More
  <2> QED
    BY <1>2
<1> DEFINE runs[k \in 0 .. n] == IF k = 0 THEN << >> ELSE Run(k, runs[k - 1])
<1>4. IntervalsOf(S, n) = runs[n]
  BY Zenon DEF IntervalsOf, Run, Longer, More
<1>5. runs = [k \in 0 .. n |-> IF k = 0 THEN << >> ELSE Run(k, runs[k - 1])]
  <2> DEFINE F == [x \in (1 .. n) \X Lists |-> Run(x[1], x[2])]
  <2> HIDE DEF Run
  <2>1. F \in [(1 .. n) \X Lists -> Lists]
    BY <1>3
  <2>2. ASSUME NEW k \in 1 .. n, NEW x \in Lists
        PROVE  F[<<k, x>>] = Run(k, x)
    OBVIOUS
  <2> HIDE DEF F, runs
  <2>3. PICK b \in Lists : b = << >>
    BY EmptyList
  <2>4. PICK h : Recursive(h, Lists, n, b, F)
    BY <2>1, Recursion
  <2>5. h \in [0 .. n -> Lists] /\ h[0] = b /\ \A k \in 1 .. n : h[k] = F[<<k, h[k - 1]>>]
    BY <2>4 DEF Recursive
  <2>6. ASSUME NEW k \in 0 .. n
        PROVE  h[k] = IF k = 0 THEN << >> ELSE Run(k, h[k - 1])
    <3>1. CASE k = 0
      BY <2>3, <2>5, <3>1
    <3>2. CASE k # 0
      <4>1. k \in 1 .. n /\ h[k - 1] \in Lists
        BY <2>5, <3>2
      <4> QED
        BY <2>2, <2>5, <3>2, <4>1, Zenon
    <3> QED
      BY <3>1, <3>2
  <2>7. h = [k \in 0 .. n |-> IF k = 0 THEN << >> ELSE Run(k, h[k - 1])]
    <3>1. h = [k \in 0 .. n |-> h[k]]
      BY <2>5
    <3> QED
      BY <2>6, <3>1, Zenon
  <2> QED
    BY <2>7, Zenon DEF runs
<1> HIDE DEF runs, Run
<1>6. runs[0] = << >>
  BY <1>5
<1>7. ASSUME NEW k \in 1 .. n
      PROVE  runs[k] = Run(k, runs[k - 1])
  <2>1. k \in 0 .. n /\ k # 0
    OBVIOUS
  <2> QED
    BY <1>5, <2>1, Zenon
<1> DEFINE Good(k, x) ==
             /\ x \in Lists /\ WellFormed(x)
             /\ \A p : p \in Members(x) <=> p \in S /\ p < k
             /\ \A i \in 1 .. Len(x) : x[i].end < k
             /\ k > 0 /\ k - 1 \in S => Len(x) > 0 /\ x[Len(x)].end = k - 1
           G == {k \in 0 .. n : Good(k, runs[k])}
<1>8. 0 \in G
  <2>1. Good(0, << >>)
    <3>1. Len(<< >>) = 0 /\ 1 .. 0 = {}
      OBVIOUS
    <3>2. \A p : p \in S => ~(p < 0)
      OBVIOUS
    <3> QED
      BY <3>1, <3>2, EmptyList
  <2> HIDE DEF Good
  <2> QED
    BY <1>6, <2>1
<1>9. ASSUME NEW k \in 1 .. n, NEW x, Good(k - 1, x)
      PROVE  Good(k, Run(k, x))
  <2>1. /\ x \in Lists /\ WellFormed(x) /\ Len(x) \in Nat
        /\ \A i \in 1 .. Len(x) : x[i].end < k - 1 /\ x[i].end \in Int
        /\ \A p : p \in Members(x) <=> p \in S /\ p < k - 1
    BY <1>9, ListFacts
  <2>2. CASE k - 1 \notin S
    <3>1. Run(k, x) = x
      BY <2>2 DEF Run
    <3>2. \A p \in S : p < k - 1 <=> p < k
      BY <2>2
    <3>3. \A p : p \in Members(x) <=> p \in S /\ p < k
      BY <2>1, <3>2
    <3>4. \A i \in 1 .. Len(x) : x[i].end < k
      BY <2>1
    <3>5. Good(k, x)
      BY <2>1, <2>2, <3>3, <3>4
    <3> HIDE DEF Good
    <3> QED
      BY <3>1, <3>5
  <2>3. CASE k - 1 \in S /\ k - 2 \in S
    <3>1. Run(k, x) = Longer(k, x)
      BY <2>3 DEF Run
    <3>2. Len(x) > 0 /\ x[Len(x)].end = (k - 1) - 1
      <4>1. k - 1 > 0 /\ (k - 1) - 1 = k - 2
        BY <2>3
      <4> QED
        BY <1>9, <2>3, <4>1
    <3> DEFINE w == [x EXCEPT ![Len(x)].end = k - 1]
    <3>3. /\ w \in Lists /\ WellFormed(w) /\ Len(w) = Len(x) /\ w[Len(x)].end = k - 1
          /\ Members(w) = Members(x) \cup {k - 1}
          /\ \A i \in 1 .. Len(x) : i # Len(x) => w[i] = x[i]
      <4>1. PICK e \in Int : e = k - 1
        OBVIOUS
      <4> DEFINE u == [x EXCEPT ![Len(x)].end = e]
      <4>2. /\ u \in Lists /\ WellFormed(u) /\ Len(u) = Len(x) /\ u[Len(x)].end = e
            /\ Members(u) = Members(x) \cup {e}
            /\ \A i \in 1 .. Len(x) : i # Len(x) => u[i] = x[i]
        BY <2>1, <3>2, <4>1, ExtendFacts
      <4>3. u = w
        BY <4>1
      <4> HIDE DEF u, w
      <4> QED
        BY <4>1, <4>2, <4>3
    <3>4. w = Run(k, x)
      BY <3>1
    <3> HIDE DEF w
    <3>5. \A i \in 1 .. Len(w) : w[i].end < k
      BY <2>1, <3>3
    <3>6. \A p : p \in Members(w) <=> p \in S /\ p < k
      <4>1. \A p \in S : p < k <=> p < k - 1 \/ p = k - 1
        OBVIOUS
      <4> QED
        BY <2>1, <2>3, <3>3, <4>1
    <3>7. Good(k, w)
      BY <3>2, <3>3, <3>5, <3>6
    <3> HIDE DEF Good
    <3> QED
      BY <3>4, <3>7
  <2>4. CASE k - 1 \in S /\ k - 2 \notin S
    <3> DEFINE iv == Interval(k - 1, k - 1)
               w == Append(x, iv)
    <3>1. Run(k, x) = w
      BY <2>4 DEF Run
    <3>2. iv \in Intervals /\ iv.start = k - 1 /\ iv.end = k - 1
      BY DEF Interval, Intervals
    <3> HIDE DEF iv
    <3>3. /\ w \in Lists /\ Len(w) = Len(x) + 1 /\ w[Len(x) + 1] = iv
          /\ \A i \in 1 .. Len(x) : w[i] = x[i]
          /\ w = x \o <<iv>>
      BY <2>1, <3>2, AppendFacts
    <3>4. /\ <<iv>> \in Lists /\ WellFormed(<<iv>>) /\ Members(<<iv>>) = iv.start .. iv.end
          /\ Len(<<iv>>) = 1 /\ <<iv>>[1] = iv
      BY <3>2, OneInterval
    <3>5. WellFormed(x \o <<iv>>)
      <4>1. \A i \in 1 .. Len(x), j \in 1 .. Len(<<iv>>) : x[i].end < <<iv>>[j].start
        BY <2>1, <3>2, <3>4
      <4> QED
        BY <2>1, <3>4, <4>1, JoinOrder
    <3>6. Members(x \o <<iv>>) = Members(x) \cup {k - 1}
      <4>1. iv.start .. iv.end = {k - 1}
        BY <3>2
      <4> QED
        BY <2>1, <3>4, <4>1, JoinMembers
    <3> HIDE DEF w
    <3>7. \A i \in 1 .. Len(w) : w[i].end < k
      <4>1. \A i \in 1 .. Len(w) : i \in 1 .. Len(x) \/ i = Len(x) + 1
        BY <2>1, <3>3
      <4> QED
        BY <2>1, <3>2, <3>3, <4>1
    <3>8. \A p : p \in Members(w) <=> p \in S /\ p < k
      <4>1. \A p \in S : p < k <=> p < k - 1 \/ p = k - 1
        OBVIOUS
      <4> QED
        BY <2>1, <2>4, <3>3, <3>6, <4>1
    <3>9. Good(k, w)
      BY <2>1, <3>2, <3>3, <3>5, <3>7, <3>8
    <3> HIDE DEF Good
    <3> QED
      BY <3>1, <3>9
  <2> QED
    BY <2>2, <2>3, <2>4
<1>10. n \in G
  <2>1. ASSUME NEW k \in 1 .. n, k - 1 \in G
        PROVE  k \in G
    <3> HIDE DEF Good
    <3> QED
      BY <1>7, <1>9, <2>1
  <2> HIDE DEF G
  <2> QED
    BY <1>8, <2>1, InductionUpTo
<1>11. Good(n, runs[n])
  BY <1>10
<1>12. Members(runs[n]) = S
  <2>1. \A p \in S : p < n
    OBVIOUS
  <2> QED
    BY <1>11, <2>1
<1> QED
  BY <1>4, <1>11, <1>12

-----------------------------------------------------------------------------
(* 4. The clean-up of a copied parent (ParentCleanup).                       *)
LEMMA RangeFacts ==
  /\ \A b \in Blocks : BlockAt(b) \in Intervals /\ BlockAt(b).start <= BlockAt(b).end
  /\ FooterPage \in Nat /\ Interval(FooterPage, FooterPage) \in Intervals
  /\ Interval(FooterPage, FooterPage).start = FooterPage
  /\ Interval(FooterPage, FooterPage).end = FooterPage
<1>1. NumBlocks \in Nat /\ BlockSize \in Nat /\ BlockSize > 0
  BY BlockAssumption
<1>2. FooterPage \in Nat
  BY <1>1 DEF FooterPage
<1>3. ASSUME NEW b \in Blocks
      PROVE  BlockAt(b) \in Intervals /\ BlockAt(b).start <= BlockAt(b).end
  <2>1. PICK m \in Nat : m = BlockSize * b
    BY <1>1 DEF Blocks
  <2>2. BlockAt(b) = [start |-> m, end |-> m + BlockSize - 1]
    BY <2>1, Zenon DEF BlockAt, Interval
  <2> QED
    BY <1>1, <2>2 DEF Intervals
<1> QED
  BY <1>2, <1>3 DEF Interval, Intervals

(* The regions to delete: the footer, and one for a block at most.         *)
LEMMA RegionsFacts ==
  ASSUME NEW v, NEW bat
  PROVE  Regions(v, bat) \in Lists /\ Len(Regions(v, bat)) <= NumBlocks + 1
<1> DEFINE n == NumBlocks
           b == <<Interval(FooterPage, FooterPage)>>
           More(k, x) == Append(x, BlockAt(k - 1))
           Step(k, x) == IF k - 1 \in bat /\ Intersects(v, BlockAt(k - 1).start, BlockAt(k - 1).end)
                         THEN More(k, x) ELSE x
<1>1. n \in Nat
  BY BlockAssumption
<1>2. b \in Lists /\ Len(b) = 1
  BY RangeFacts DEF Lists
<1>3. ASSUME NEW k \in 1 .. n, NEW x \in Lists
      PROVE  More(k, x) \in Lists /\ Len(More(k, x)) = Len(x) + 1
  <2>1. BlockAt(k - 1) \in Intervals
    BY RangeFacts, BlockAssumption DEF Blocks
  <2> QED
    BY <2>1, AppendFacts
<1>4. ASSUME NEW k \in 1 .. n, NEW x \in Lists
      PROVE  Step(k, x) \in Lists /\ Len(Step(k, x)) <= Len(x) + 1
  <2>1. Len(x) \in Nat
    BY ListFacts
  <2> HIDE DEF More
  <2> QED
    BY <1>3, <2>1
<1> DEFINE regions[k \in 0 .. n] == IF k = 0 THEN b ELSE Step(k, regions[k - 1])
<1>5. Regions(v, bat) = regions[n]
  BY Zenon DEF Regions, Step, More
<1> HIDE DEF b, n, More
<1>6. regions = [k \in 0 .. n |-> IF k = 0 THEN b ELSE Step(k, regions[k - 1])]
  <2> DEFINE F == [x \in (1 .. n) \X Lists |-> Step(x[1], x[2])]
  <2> HIDE DEF Step
  <2>1. F \in [(1 .. n) \X Lists -> Lists]
    BY <1>4
  <2>2. ASSUME NEW k \in 1 .. n, NEW x \in Lists
        PROVE  F[<<k, x>>] = Step(k, x)
    OBVIOUS
  <2> HIDE DEF F, regions
  <2>4. PICK h : Recursive(h, Lists, n, b, F)
    BY <1>1, <1>2, <2>1, Recursion
  <2>5. h \in [0 .. n -> Lists] /\ h[0] = b /\ \A k \in 1 .. n : h[k] = F[<<k, h[k - 1]>>]
    BY <2>4 DEF Recursive
  <2>6. ASSUME NEW k \in 0 .. n
        PROVE  h[k] = IF k = 0 THEN b ELSE Step(k, h[k - 1])
    <3>1. CASE k = 0
      BY <2>5, <3>1
    <3>2. CASE k # 0
      <4>1. k \in 1 .. n /\ h[k - 1] \in Lists
        BY <1>1, <2>5, <3>2
      <4> QED
        BY <2>2, <2>5, <3>2, <4>1, Zenon
    <3> QED
      BY <3>1, <3>2
  <2>7. h = [k \in 0 .. n |-> IF k = 0 THEN b ELSE Step(k, h[k - 1])]
    <3>1. h = [k \in 0 .. n |-> h[k]]
      BY <2>5
    <3> QED
      BY <2>6, <3>1, Zenon
  <2> QED
    BY <2>7, Zenon DEF regions
<1> HIDE DEF regions, Step
<1>7. regions[0] = b
  BY <1>1, <1>6
<1>8. ASSUME NEW k \in 1 .. n
      PROVE  regions[k] = Step(k, regions[k - 1])
  <2>1. k \in 0 .. n /\ k # 0
    BY <1>1
  <2> QED
    BY <1>6, <2>1, Zenon
<1> DEFINE G == {k \in 0 .. n : regions[k] \in Lists /\ Len(regions[k]) <= k + 1}
<1>9. n \in G
  <2>1. 0 \in G
    <3>1. 0 \in 0 .. n
      BY <1>1
    <3>2. b \in Lists /\ Len(b) <= 0 + 1
      BY <1>2
    <3> QED
      BY <1>7, <3>1, <3>2, Zenon
  <2>2. ASSUME NEW k \in 1 .. n, k - 1 \in G
        PROVE  k \in G
    <3>1. /\ regions[k - 1] \in Lists /\ Len(regions[k - 1]) \in Nat
          /\ Len(regions[k - 1]) <= (k - 1) + 1 /\ Len(regions[k]) \in Nat
      BY <1>1, <1>4, <1>8, <2>2, ListFacts
    <3> QED
      BY <1>1, <1>4, <1>8, <3>1
  <2> HIDE DEF G
  <2> QED
    BY <1>1, <2>1, <2>2, InductionUpTo
<1> QED
  BY <1>5, <1>9 DEF n

(* The state of the pool and of the list it shares with the upload.          *)
CleanupTypes ==
  /\ phase \in {"copy", "list", "clear", "md5", "over"}
  /\ pages \in SUBSET AllPages
  /\ deleteRegions \in Lists
  /\ Len(deleteRegions) <= NumBlocks + 1
  /\ clearing \in SUBSET (0 .. Len(deleteRegions) - 1)
  /\ next \in Nat /\ running \in Nat
  /\ running <= threads
  /\ exiting \in BOOLEAN
  /\ hasMd5 \in BOOLEAN
  /\ calls \in Seq({"ok", "error"})

BeforeWorkers ==
  phase \in {"copy", "list"} =>
    /\ uploadedRegions = Null
    /\ deleteRegions = << >>
    /\ running = 0
    /\ ~exiting
    /\ calls = << >>

(* Until a request fails the shared list stands for the pages that are left. *)
ListIsThePages ==
  /\ uploadedRegions # Null =>
       /\ uploadedRegions \in Lists
       /\ WellFormed(uploadedRegions)
       /\ Members(uploadedRegions) \subseteq AllPages
       /\ ~exiting => Members(uploadedRegions) = pages
  /\ phase \in {"clear", "md5"} => uploadedRegions # Null
  /\ uploadedRegions = Null /\ Called("ok") => pages = {} /\ deleteRegions = << >>

(* Every running worker but a failed one has a request in flight at most.    *)
PoolCounts ==
  /\ clearing # {} => phase = "clear"
  /\ Cardinality(clearing) <= running
  /\ exiting => Cardinality(clearing) < running
  /\ next + running <= Len(deleteRegions) + threads

IsCleared(i) == PagesOf(DeleteRegion(i)) \cap pages = {}

ClearedSoFar ==
  phase = "clear" /\ ~exiting =>
    \A i \in 0 .. Len(deleteRegions) - 1 :
      i <= next /\ i # threads => i \in clearing \/ IsCleared(i)

AfterWorkers ==
  /\ Called("ok") => phase = "over"
  /\ phase = "md5" \/ Called("ok") =>
       /\ ~exiting
       /\ \A i \in 0 .. Len(deleteRegions) - 1 : i # threads => IsCleared(i)

CleanupInv ==
  /\ CleanupTypes
  /\ BeforeWorkers
  /\ ListIsThePages
  /\ PoolCounts
  /\ ClearedSoFar
  /\ AfterWorkers

(* There are no more workers than regions.                                 *)
LEMMA ThreadsFacts ==
  ASSUME deleteRegions \in Lists
  PROVE  threads \in Nat /\ threads <= Len(deleteRegions)
<1>1. Len(deleteRegions) \in Nat
  BY ListFacts
<1> QED
  BY <1>1, ThreadAssumption DEF threads

LEMMA FlightFacts ==
  ASSUME CleanupTypes
  PROVE  /\ IsFiniteSet(clearing) /\ Cardinality(clearing) \in Nat
         /\ \A i \in clearing : Cardinality(clearing \ {i}) = Cardinality(clearing) - 1
         /\ clearing # {} => Cardinality(clearing) > 0
         /\ \A j : Cardinality(clearing \cup {j}) <= Cardinality(clearing) + 1
<1>1. IsFiniteSet(clearing)
  <2>1. Len(deleteRegions) \in Nat
    BY ListFacts DEF CleanupTypes
  <2>2. IsFiniteSet(0 .. Len(deleteRegions) - 1)
    BY <2>1, FS_Interval
  <2> QED
    BY <2>2, FS_Subset DEF CleanupTypes
<1>2. Cardinality(clearing) \in Nat
  BY <1>1, FS_CardinalityType
<1>3. \A i \in clearing : Cardinality(clearing \ {i}) = Cardinality(clearing) - 1
  BY <1>1, FS_RemoveElement
<1>4. clearing # {} => Cardinality(clearing) > 0
  BY <1>1, <1>2, FS_EmptySet
<1>5. ASSUME NEW j
      PROVE  Cardinality(clearing \cup {j}) <= Cardinality(clearing) + 1
  <2>1. CASE j \in clearing
    <3>1. clearing \cup {j} = clearing
      BY <2>1
    <3> QED
      BY <1>2, <3>1
  <2>2. CASE j \notin clearing
    BY <1>1, <1>2, <2>2, FS_AddElement
  <2> QED
    BY <2>1, <2>2
<1> QED
  BY <1>1, <1>2, <1>3, <1>4, <1>5

(* What a further call of the callback changes.                              *)
LEMMA CallsFacts ==
  ASSUME NEW s \in Seq({"ok", "error"}), NEW c \in {"ok", "error"}
  PROVE  /\ Append(s, c) \in Seq({"ok", "error"})
         /\ \A d : d \in {Append(s, c)[k] : k \in DOMAIN Append(s, c)}
                     <=> d \in {s[k] : k \in DOMAIN s} \/ d = c
<1>1. /\ Append(s, c) \in Seq({"ok", "error"})
      /\ DOMAIN Append(s, c) = 1 .. Len(s) + 1 /\ DOMAIN s = 1 .. Len(s) /\ Len(s) \in Nat
      /\ Append(s, c)[Len(s) + 1] = c
      /\ \A k \in 1 .. Len(s) : Append(s, c)[k] = s[k]
  OBVIOUS
<1>2. 1 .. Len(s) + 1 = 1 .. Len(s) \cup {Len(s) + 1}
  BY <1>1
<1> QED
  BY <1>1, <1>2, Zenon

LEMMA CleanupInitInv == CleanupInit => CleanupInv
<1> SUFFICES ASSUME CleanupInit PROVE CleanupInv
  OBVIOUS
<1> USE DEF CleanupInit
<1>1. deleteRegions \in Lists /\ Len(deleteRegions) = 0
  BY EmptyList
<1>2. threads = 0 
  BY <1>1, ThreadAssumption DEF threads
<1>3. CleanupTypes
  <2>1. NumBlocks \in Nat
    BY BlockAssumption
  <2>2. /\ phase = "copy" /\ pages = {} /\ clearing = {} /\ next = 0 /\ running = 0
        /\ exiting = FALSE /\ hasMd5 \in BOOLEAN
    OBVIOUS
  <2>3. calls \in Seq({"ok", "error"})
    OBVIOUS
  <2>4. clearing \in SUBSET (0 .. Len(deleteRegions) - 1) /\ pages \in SUBSET AllPages
    OBVIOUS
  <2>5. Len(deleteRegions) <= NumBlocks + 1 /\ running <= threads
    BY <1>1, <1>2, <2>1
  <2> HIDE DEF CleanupInit
  <2> QED
    BY ONLY <1>1, <2>2, <2>3, <2>4, <2>5 DEF CleanupTypes
<1>4. Cardinality(clearing) = 0
  BY FS_EmptySet
<1>5. ~Called("ok")
  BY DEF Called
<1> QED
  BY <1>1, <1>2, <1>3, <1>4, <1>5
  DEF CleanupInv, BeforeWorkers, ListIsThePages, PoolCounts, ClearedSoFar, AfterWorkers

(* The requests that are answered without an error: the region leaves the    *)
(* pages and the list alike.                                                 *)
LEMMA ClearedFacts ==
  ASSUME CleanupInv, NEW i \in clearing, Cleared(i)
  PROVE  /\ pages' \in SUBSET AllPages /\ pages' \subseteq pages
         /\ PagesOf(DeleteRegion(i)) \cap pages' = {}
         /\ uploadedRegions' # Null /\ uploadedRegions' \in Lists
         /\ WellFormed(uploadedRegions')
         /\ Members(uploadedRegions') \subseteq AllPages
         /\ ~exiting => Members(uploadedRegions') = pages'
<1> DEFINE s == DeleteRegion(i).start
           e == DeleteRegion(i).end
<1>1. /\ uploadedRegions \in Lists /\ WellFormed(uploadedRegions)
      /\ Members(uploadedRegions) \subseteq AllPages
      /\ ~exiting => Members(uploadedRegions) = pages
  BY DEF CleanupInv, ListIsThePages, Cleared
<1>2. s \in Int /\ e \in Int
  <2>1. deleteRegions \in Lists /\ i + 1 \in 1 .. Len(deleteRegions)
    <3>1. deleteRegions \in Lists /\ i \in 0 .. Len(deleteRegions) - 1
      BY DEF CleanupInv, CleanupTypes
    <3> QED
      BY <3>1, ListFacts
  <2> QED
    BY <2>1, ListFacts DEF DeleteRegion
<1>3. pages' = pages \ (s .. e) /\ uploadedRegions' = SubtractInterval(uploadedRegions, s, e)
  BY DEF Cleared, PagesOf
<1> HIDE DEF s, e
<1>4. /\ uploadedRegions' \in Lists /\ WellFormed(uploadedRegions')
      /\ Members(uploadedRegions') = Members(uploadedRegions) \ (s .. e)
  BY <1>1, <1>2, <1>3, SubtractIntervalFacts
<1>5. PagesOf(DeleteRegion(i)) = s .. e
  BY DEF PagesOf, s, e
<1>6. pages \in SUBSET AllPages
  BY DEF CleanupInv, CleanupTypes
<1> QED
  BY <1>1, <1>3, <1>4, <1>5, <1>6, NullAssumption

(* The workers start with the list the service gives.                      *)
LEMMA StartWorkersInv == ASSUME CleanupInv, StartWorkers PROVE CleanupInv'
<1> USE DEF CleanupInv
<1>1. PICK m \in Nat : /\ deleteRegions' \in Lists /\ Len(deleteRegions') = m
                       /\ m <= NumBlocks + 1
  <2>1. deleteRegions' \in Lists /\ Len(deleteRegions') <= NumBlocks + 1
    BY RegionsFacts DEF StartWorkers
  <2> QED
    BY <2>1, ListFacts
<1>2. PICK t \in Nat : threads' = t /\ t <= m
  BY <1>1, ThreadAssumption DEF threads
<1>3. next' = t /\ running' = t /\ clearing' = 0 .. t - 1
  BY <1>2, Zenon DEF StartWorkers
<1>4. Cardinality(clearing') = t
  <2>1. 0 \in Int /\ t - 1 \in Int
    OBVIOUS
  <2>2. Cardinality(0 .. t - 1) = IF 0 > t - 1 THEN 0 ELSE (t - 1) - 0 + 1
    BY <2>1, FS_Interval
  <2> QED
    BY <1>3, <2>2
<1>5. /\ calls' = calls /\ ~Called("ok") /\ ~exiting /\ exiting' = exiting
      /\ hasMd5' = hasMd5 /\ pages' = pages /\ phase' = "clear"
  BY DEF StartWorkers, BeforeWorkers, Called
<1>6. CleanupTypes'
  <2>1. clearing' \in SUBSET (0 .. Len(deleteRegions') - 1)
    BY <1>1, <1>2, <1>3
  <2> QED
    BY <1>1, <1>2, <1>3, <1>5, <2>1 DEF CleanupTypes
<1>7. /\ uploadedRegions' \in Lists /\ WellFormed(uploadedRegions')
      /\ Members(uploadedRegions') = pages
  <2>1. PICK f \in Nat : f = FooterPage + 1 /\ pages \subseteq 0 .. f - 1
    BY RangeFacts DEF CleanupTypes, AllPages
  <2> QED
    BY <2>1, IntervalsOfFacts DEF StartWorkers
<1>8. ~Called("ok")'
  BY <1>5 DEF Called
<1>9. ListIsThePages'
  BY <1>5, <1>7, <1>8, NullAssumption DEF ListIsThePages, CleanupTypes
<1>10. PoolCounts'
  BY <1>1, <1>2, <1>3, <1>4, <1>5 DEF PoolCounts
<1>11. ClearedSoFar'
  <2>1. \A i \in 0 .. Len(deleteRegions') - 1 : i <= t /\ i # t => i \in clearing'
    BY <1>1, <1>3
  <2> QED
    BY <1>2, <1>3, <2>1 DEF ClearedSoFar
<1> QED
  BY <1>5, <1>6, <1>8, <1>9, <1>10, <1>11 DEF BeforeWorkers, AfterWorkers

(* The steps that end before the workers start, or after they have stopped.  *)
LEMMA SameListInv ==
  ASSUME CleanupInv, CopyOk \/ CopyFails
  PROVE  CleanupInv'
<1> USE DEF CleanupInv
<1>1. /\ UNCHANGED <<uploadedRegions, deleteRegions, clearing, next, running, exiting, hasMd5, calls>>
      /\ phase' \in {"list", "over"} /\ pages' \in SUBSET AllPages
  BY DEF CopyOk, CopyFails, CleanupTypes
<1>2. /\ uploadedRegions = Null /\ deleteRegions = << >> /\ running = 0 /\ ~exiting /\ calls = << >>
  BY DEF CopyOk, CopyFails, BeforeWorkers
<1>3. threads' = threads
  BY <1>1 DEF threads
<1>4. ~Called("ok")'
  BY <1>1, <1>2 DEF Called
<1>5. clearing = {}
  BY FlightFacts, <1>2 DEF PoolCounts, CleanupTypes
<1>6. CleanupTypes'
  BY <1>1, <1>3 DEF CleanupTypes
<1>7. PoolCounts'
  BY <1>1, <1>3, <1>5 DEF PoolCounts
<1> QED
  BY <1>1, <1>2, <1>4, <1>6, <1>7
  DEF BeforeWorkers, ListIsThePages, ClearedSoFar, AfterWorkers

LEMMA ListFailsInv == ASSUME CleanupInv, ListFails PROVE CleanupInv'
<1> USE DEF CleanupInv
<1>1. /\ UNCHANGED <<uploadedRegions, deleteRegions, clearing, next, running, exiting, hasMd5>>
      /\ phase' = "over" /\ pages' \in SUBSET AllPages
      /\ \/ calls' = Append(calls, "error")
         \/ calls' = Append(calls, "ok") /\ pages' = {}
  BY DEF ListFails, CleanupTypes
<1>2. /\ uploadedRegions = Null /\ deleteRegions = << >> /\ running = 0 /\ ~exiting /\ calls = << >>
  BY DEF ListFails, BeforeWorkers
<1>3. threads' = threads
  BY <1>1 DEF threads
<1>4. calls' \in Seq({"ok", "error"}) /\ (Called("ok")' => pages' = {})
  <2>1. calls \in Seq({"ok", "error"}) /\ ~Called("ok")
    BY <1>2 DEF CleanupTypes, Called
  <2> QED
    BY <1>1, <2>1, CallsFacts DEF Called
<1>5. clearing = {}
  BY FlightFacts, <1>2 DEF PoolCounts, CleanupTypes
<1>6. CleanupTypes'
  BY <1>1, <1>3, <1>4 DEF CleanupTypes
<1>7. PoolCounts'
  BY <1>1, <1>3, <1>5 DEF PoolCounts
<1>8. AfterWorkers'
  <2>1. 0 .. Len(deleteRegions') - 1 = {}
    BY <1>1, <1>2
  <2> QED
    BY <1>1, <1>2, <2>1 DEF AfterWorkers
<1> QED
  BY <1>1, <1>2, <1>4, <1>6, <1>7, <1>8
  DEF BeforeWorkers, ListIsThePages, ClearedSoFar

LEMMA Md5Inv ==
  ASSUME CleanupInv, Md5Ok \/ Md5Fails
  PROVE  CleanupInv'
<1> USE DEF CleanupInv
<1>1. /\ UNCHANGED <<pages, uploadedRegions, deleteRegions, clearing, next, running, exiting>>
      /\ phase = "md5" /\ phase' = "over" /\ hasMd5' \in BOOLEAN
      /\ calls' \in Seq({"ok", "error"})
  <2>1. calls \in Seq({"ok", "error"}) /\ hasMd5 \in BOOLEAN
    BY DEF CleanupTypes
  <2>2. CASE Md5Ok
    <3>1. Append(calls, "ok") \in Seq({"ok", "error"})
      BY <2>1, CallsFacts
    <3>2. FALSE \in BOOLEAN
      OBVIOUS
    <3> QED
      BY <2>2, <3>1, <3>2 DEF Md5Ok
  <2>3. CASE Md5Fails
    <3>1. calls \o <<"error", "ok">> \in Seq({"ok", "error"})
      BY <2>1
    <3> QED
      BY <2>1, <2>3, <3>1 DEF Md5Fails
  <2> QED
    BY <2>2, <2>3
<1>2. threads' = threads
  BY <1>1 DEF threads
<1>3. CleanupTypes'
  BY <1>1, <1>2 DEF CleanupTypes
<1>4. uploadedRegions # Null
  BY <1>1 DEF ListIsThePages
<1>5. ListIsThePages'
  BY <1>1, <1>4 DEF ListIsThePages
<1>6. PoolCounts'
  BY <1>1, <1>2 DEF PoolCounts
<1>7. AfterWorkers'
  BY <1>1, <1>2 DEF AfterWorkers, IsCleared, DeleteRegion
<1> QED
  BY <1>1, <1>3, <1>5, <1>6, <1>7 DEF BeforeWorkers, ClearedSoFar

(* A request fails: its worker ends, the others at their next step.        *)
LEMMA ClearFailsInv == ASSUME CleanupInv, NEW i \in clearing, ClearFails(i) PROVE CleanupInv'
<1> USE DEF CleanupInv
<1>1. /\ UNCHANGED <<phase, uploadedRegions, deleteRegions, next, running, hasMd5>>
      /\ phase = "clear" /\ pages' \in SUBSET AllPages
      /\ clearing' = clearing \ {i} /\ exiting' = TRUE /\ calls' = Append(calls, "error")
  BY DEF ClearFails, CleanupTypes
<1>2. threads' = threads
  BY <1>1 DEF threads
<1>3. calls' \in Seq({"ok", "error"}) /\ ~Called("ok")'
  <2>1. calls \in Seq({"ok", "error"}) /\ ~Called("ok")
    BY <1>1 DEF CleanupTypes, AfterWorkers
  <2> QED
    BY <1>1, <2>1, CallsFacts DEF Called
<1>4. CleanupTypes'
  BY <1>1, <1>2, <1>3 DEF CleanupTypes
<1>5. ListIsThePages'
  <2>1. exiting' /\ phase' = "clear" /\ uploadedRegions' = uploadedRegions
    BY <1>1
  <2> QED
    BY <1>1, <1>3, <2>1 DEF ListIsThePages
<1>6. PoolCounts'
  <2>1. /\ Cardinality(clearing') = Cardinality(clearing) - 1 /\ Cardinality(clearing) \in Nat
        /\ running \in Nat
    BY <1>1, FlightFacts DEF CleanupTypes
  <2> QED
    BY <1>1, <1>2, <2>1 DEF PoolCounts
<1> QED
  BY <1>1, <1>3, <1>4, <1>5, <1>6 DEF BeforeWorkers, ClearedSoFar, AfterWorkers

(* A worker goes on with the next region.                                  *)
LEMMA ClearOkInv == ASSUME CleanupInv, NEW i \in clearing, ClearOk(i) PROVE CleanupInv'
<1> USE DEF CleanupInv
<1>1. /\ UNCHANGED <<phase, deleteRegions, running, exiting, hasMd5, calls>>
      /\ phase = "clear" /\ next' = next + 1 /\ next' < Len(deleteRegions)
      /\ clearing' = (clearing \ {i}) \cup (IF exiting THEN {} ELSE {next'})
  BY DEF ClearOk, Cleared
<1>2. threads' = threads
  BY <1>1 DEF threads
<1>3. /\ pages' \in SUBSET AllPages /\ pages' \subseteq pages
      /\ PagesOf(DeleteRegion(i)) \cap pages' = {}
      /\ uploadedRegions' # Null /\ uploadedRegions' \in Lists /\ WellFormed(uploadedRegions')
      /\ Members(uploadedRegions') \subseteq AllPages
      /\ ~exiting => Members(uploadedRegions') = pages'
  BY ClearedFacts DEF ClearOk
<1>4. next \in Nat /\ running \in Nat /\ Len(deleteRegions) \in Nat /\ threads \in Nat
  BY ListFacts, ThreadsFacts DEF CleanupTypes
<1>5. CleanupTypes'
  <2>1. clearing' \in SUBSET (0 .. Len(deleteRegions) - 1)
    BY <1>1, <1>4 DEF CleanupTypes
  <2> QED
    BY <1>1, <1>2, <1>3, <1>4, <2>1 DEF CleanupTypes
<1>6. Called("ok")' = Called("ok")
  BY <1>1 DEF Called
<1>7. ListIsThePages'
  BY <1>1, <1>3 DEF ListIsThePages
<1>8. PoolCounts'
  <2>1. Cardinality(clearing') <= Cardinality(clearing) /\ (exiting => Cardinality(clearing') < Cardinality(clearing))
        /\ Cardinality(clearing) \in Nat /\ Cardinality(clearing') \in Nat
    <3>1. Cardinality(clearing \ {i}) = Cardinality(clearing) - 1 /\ Cardinality(clearing) \in Nat
          /\ IsFiniteSet(clearing) /\ Cardinality(clearing) > 0
      BY FlightFacts
    <3>2. IsFiniteSet(clearing \ {i})
      BY <3>1, FS_Subset
    <3>3. CASE exiting
      <4>1. clearing' = clearing \ {i}
        BY <1>1, <3>3
      <4> QED
        BY <3>1, <4>1
    <3>4. CASE ~exiting
      <4>1. clearing' = (clearing \ {i}) \cup {next'}
        BY <1>1, <3>4
      <4>2. CASE next' \in clearing \ {i}
        <5>1. clearing' = clearing \ {i}
          BY <4>1, <4>2
        <5> QED
          BY <3>1, <3>4, <5>1
      <4>3. CASE next' \notin clearing \ {i}
        <5>1. Cardinality(clearing') = Cardinality(clearing \ {i}) + 1
          BY <3>2, <4>1, <4>3, FS_AddElement
        <5> QED
          BY <3>1, <3>4, <5>1
      <4> QED
        BY <4>2, <4>3
    <3> QED
      BY <3>3, <3>4 DEF CleanupTypes
  <2>2. running <= threads
    BY DEF CleanupTypes
  <2> QED
    BY <1>1, <1>2, <1>4, <2>1, <2>2 DEF PoolCounts
<1>9. ClearedSoFar'
  <2> SUFFICES ASSUME ~exiting, NEW j \in 0 .. Len(deleteRegions) - 1, j <= next + 1, j # threads
               PROVE  j \in clearing' \/ PagesOf(DeleteRegion(j)) \cap pages' = {}
    BY <1>1, <1>2 DEF ClearedSoFar, IsCleared, DeleteRegion
  <2>1. CASE j = next + 1
    BY <1>1, <2>1
  <2>2. CASE j # next + 1
    <3>1. j \in clearing \/ PagesOf(DeleteRegion(j)) \cap pages = {}
      <4>1. j <= next
        BY <1>4, <2>2
      <4> QED
        BY <1>1, <4>1 DEF ClearedSoFar, IsCleared
    <3> QED
      BY <1>1, <1>3, <3>1
  <2> QED
    BY <2>1, <2>2
<1>10. AfterWorkers'
  BY <1>1, <1>6 DEF AfterWorkers
<1> QED
  BY <1>1, <1>5, <1>7, <1>8, <1>9, <1>10 DEF BeforeWorkers

(* A worker ends, and the last one hands the list to the upload.           *)
LEMMA ClearLastInv == ASSUME CleanupInv, NEW i \in clearing, ClearLast(i) PROVE CleanupInv'
<1> USE DEF CleanupInv
<1>1. /\ UNCHANGED <<deleteRegions, exiting, hasMd5>>
      /\ phase = "clear" /\ next' = next + 1 /\ next' >= Len(deleteRegions)
      /\ clearing' = clearing \ {i} /\ running' = running - 1
      /\ IF running - 1 <= 0
           THEN IF hasMd5 THEN phase' = "md5" /\ calls' = calls
                          ELSE phase' = "over" /\ calls' = Append(calls, "ok")
           ELSE phase' = phase /\ calls' = calls
  BY DEF ClearLast, Cleared, LastWorker
<1>2. threads' = threads
  BY <1>1 DEF threads
<1>3. /\ pages' \in SUBSET AllPages /\ pages' \subseteq pages
      /\ PagesOf(DeleteRegion(i)) \cap pages' = {}
      /\ uploadedRegions' # Null /\ uploadedRegions' \in Lists /\ WellFormed(uploadedRegions')
      /\ Members(uploadedRegions') \subseteq AllPages
      /\ ~exiting => Members(uploadedRegions') = pages'
  BY ClearedFacts DEF ClearLast
<1>4. /\ next \in Nat /\ running \in Nat /\ Len(deleteRegions) \in Nat /\ threads \in Nat
      /\ calls \in Seq({"ok", "error"})
  BY ListFacts, ThreadsFacts DEF CleanupTypes
<1>5. /\ Cardinality(clearing') = Cardinality(clearing) - 1
      /\ Cardinality(clearing) \in Nat /\ Cardinality(clearing) > 0
  BY <1>1, FlightFacts
<1>6. phase' # "clear" => ~exiting /\ clearing' = {} /\ clearing = {i}
  <2> SUFFICES ASSUME phase' # "clear" PROVE ~exiting /\ clearing' = {} /\ clearing = {i}
    OBVIOUS
  <2>1. running <= 1
    BY <1>1, <1>4
  <2>2. Cardinality(clearing) = 1 /\ ~exiting
    BY <1>4, <1>5, <2>1 DEF PoolCounts
  <2>3. IsFiniteSet(clearing') /\ Cardinality(clearing') = 0
    BY <1>1, <1>5, <2>2, FlightFacts, FS_Subset
  <2>4. clearing' = {}
    BY <2>3, FS_EmptySet
  <2> QED
    BY <1>1, <2>2, <2>4
<1>7. phase' \in {"clear", "md5", "over"} /\ calls' \in Seq({"ok", "error"})
      /\ (Called("ok")' => phase' = "over")
  <2>1. ~Called("ok")
    BY <1>1 DEF AfterWorkers
  <2>2. Append(calls, "ok") \in Seq({"ok", "error"})
    BY <1>4, CallsFacts
  <2>3. CASE calls' = calls
    BY <1>1, <1>4, <2>1, <2>3 DEF Called
  <2>4. CASE calls' # calls
    BY <1>1, <2>2, <2>4
  <2> QED
    BY <2>3, <2>4
<1>8. running' \in Nat /\ running' <= threads
  BY <1>1, <1>4, <1>5 DEF PoolCounts, CleanupTypes
<1>9. CleanupTypes'
  <2>1. clearing' \in SUBSET (0 .. Len(deleteRegions) - 1) /\ next' \in Nat
    BY <1>1, <1>4 DEF CleanupTypes
  <2> QED
    BY <1>1, <1>2, <1>3, <1>7, <1>8, <2>1 DEF CleanupTypes
<1>10. ListIsThePages'
  BY <1>1, <1>3 DEF ListIsThePages
<1>11. PoolCounts'
  BY <1>1, <1>2, <1>4, <1>5, <1>6 DEF PoolCounts
<1>12. ASSUME ~exiting, NEW j \in 0 .. Len(deleteRegions) - 1, j # threads
       PROVE  j \in clearing' \/ PagesOf(DeleteRegion(j)) \cap pages' = {}
  <2>1. j <= next
    BY <1>1, <1>4
  <2>2. j \in clearing \/ PagesOf(DeleteRegion(j)) \cap pages = {}
    BY <1>1, <1>12, <2>1 DEF ClearedSoFar, IsCleared
  <2> QED
    BY <1>1, <1>3, <2>2
<1>13. ClearedSoFar'
  BY <1>1, <1>2, <1>12 DEF ClearedSoFar, IsCleared, DeleteRegion
<1>14. AfterWorkers'
  <2>1. phase' = "md5" \/ Called("ok")' => phase' # "clear"
    BY <1>7
  <2> QED
    BY <1>1, <1>2, <1>6, <1>7, <1>12, <2>1 DEF AfterWorkers, IsCleared, DeleteRegion
<1> QED
  BY <1>7, <1>9, <1>10, <1>11, <1>13, <1>14 DEF BeforeWorkers

(* Every step keeps the invariant.                                         *)
LEMMA CleanupStepInv == CleanupInv /\ [CleanupNext]_cleanupVars => CleanupInv'
<1> SUFFICES ASSUME CleanupInv, [CleanupNext]_cleanupVars PROVE CleanupInv'
  OBVIOUS
<1>1. CASE UNCHANGED cleanupVars
  BY <1>1 DEF cleanupVars, CleanupInv, CleanupTypes, BeforeWorkers, ListIsThePages,
              PoolCounts, ClearedSoFar, AfterWorkers, IsCleared, DeleteRegion, threads, Called
<1>2. CASE CopyOk \/ CopyFails
  BY <1>2, SameListInv
<1>3. CASE StartWorkers
  BY <1>3, StartWorkersInv
<1>4. CASE ListFails
  BY <1>4, ListFailsInv
<1>5. ASSUME NEW i \in clearing, ClearOk(i) \/ ClearLast(i) \/ ClearFails(i)
      PROVE  CleanupInv'
  BY <1>5, ClearOkInv, ClearLastInv, ClearFailsInv
<1>6. CASE Md5Ok \/ Md5Fails
  BY <1>6, Md5Inv
<1> QED
  BY <1>1, <1>2, <1>3, <1>4, <1>5, <1>6 DEF CleanupNext

(* CleanupInv holds in every state.                                          *)
LEMMA CleanupInvariant == CleanupSpec => []CleanupInv
BY CleanupInitInv, CleanupStepInv, PTL DEF CleanupSpec

(* The types of the clean-up; next stays within the threads of its list, and *)
(* the shared list stays in order whatever is cut out of it.                 *)
THEOREM CleanupTypeCorrect == CleanupSpec => []CleanupTypeOK
<1>1. CleanupInv => CleanupTypeOK
  <2> SUFFICES ASSUME CleanupInv PROVE CleanupTypeOK
    OBVIOUS
  <2>1. threads \in Nat /\ NumBlocks \in Nat /\ Len(deleteRegions) \in Nat
    BY ThreadsFacts, ListFacts, BlockAssumption DEF CleanupInv, CleanupTypes
  <2>2. next \in 0 .. NumBlocks + 1 + threads /\ running \in 0 .. threads
    BY <2>1 DEF CleanupInv, CleanupTypes, PoolCounts
  <2> QED
    BY <2>2 DEF CleanupInv, CleanupTypes, ListIsThePages, CleanupTypeOK
<1> QED
  BY <1>1, CleanupInvariant, PTL

(* onBlobCreated() is called only when no request that clears pages is in    *)
(* flight, and never after one has failed.                                   *)
THEOREM UploadStartsQuiet == CleanupSpec => []QuietBeforeUpload
<1>1. CleanupInv => QuietBeforeUpload
  BY DEF CleanupInv, AfterWorkers, PoolCounts, QuietBeforeUpload
<1> QED
  BY <1>1, CleanupInvariant, PTL

(* What isAlreadyUploaded() answers is what the blob holds.                  *)
THEOREM SkipsWhatIsThere == CleanupSpec => []SkippedIsThere
<1>1. ASSUME CleanupInv, Called("ok"),
             NEW iv \in Intervals, iv.start <= iv.end
      PROVE  IsAlreadyUploaded(iv.start, iv.end) <=> PagesOf(iv) \subseteq pages
  <2>1. iv.start \in Int /\ iv.end \in Int /\ iv.start \in PagesOf(iv)
    BY <1>1 DEF Intervals, PagesOf
  <2>2. CASE uploadedRegions = Null
    <3>1. pages = {}
      BY <1>1, <2>2 DEF CleanupInv, ListIsThePages
    <3> QED
      BY <2>1, <2>2, <3>1 DEF IsAlreadyUploaded
  <2>3. CASE uploadedRegions # Null
    <3> DEFINE asked == CreateIntSet(iv.start, iv.end)
               rest == SubtractRanges(asked, uploadedRegions)
    <3>1. /\ uploadedRegions \in Lists /\ Members(uploadedRegions) = pages
      BY <1>1, <2>3 DEF CleanupInv, ListIsThePages, AfterWorkers
    <3>2. asked \in Lists /\ WellFormed(asked) /\ Members(asked) = PagesOf(iv)
      BY <2>1, CreateFacts DEF PagesOf
    <3> HIDE DEF asked
    <3>3. rest \in Lists /\ WellFormed(rest) /\ Members(rest) = PagesOf(iv) \ pages
      BY <3>1, <3>2, SubtractRangesFacts
    <3>4. rest = << >> <=> PagesOf(iv) \ pages = {}
      BY <3>3, EmptyWhenNoMembers
    <3>5. IsAlreadyUploaded(iv.start, iv.end) <=> rest = << >>
      BY <2>3, Zenon DEF IsAlreadyUploaded, asked
    <3> QED
      BY <3>4, <3>5
  <2> QED
    BY <2>2, <2>3
<1>2. CleanupInv => SkippedIsThere
  <2>1. ASSUME NEW iv \in {BlockAt(b) : b \in Blocks} \cup {Interval(FooterPage, FooterPage)}
        PROVE  iv \in Intervals /\ iv.start <= iv.end
    BY RangeFacts
  <2> QED
    BY <1>1, <2>1, Zenon DEF SkippedIsThere
<1> QED
  BY <1>2, CleanupInvariant, PTL

(* Of the regions to clear at most one still holds data of the parent when   *)
(* the upload starts: the one at position threads.                           *)
THEOREM AtMostOneSkipped == CleanupSpec => []OnlyOneSkipped
<1>1. CleanupInv => OnlyOneSkipped
  BY DEF CleanupInv, AfterWorkers, IsCleared, OnlyOneSkipped
<1> QED
  BY <1>1, CleanupInvariant, PTL

-----------------------------------------------------------------------------
(* 5. Reading a block of a chain of VHDs (VhdReading).                       *)
(*                                                                           *)
(* A slice of a sequence: what lies behind position a, up to position b.     *)
Slice(x, a, b) == [i \in 1 .. b - a |-> x[a + i]]

(* What a slice is.                                                        *)
LEMMA SliceFacts ==
  ASSUME NEW T, NEW x \in Seq(T), NEW a \in Nat, NEW b \in Nat, a <= b, b <= Len(x)
  PROVE  /\ Slice(x, a, b) \in Seq(T) /\ Len(Slice(x, a, b)) = b - a
         /\ \A i \in 1 .. b - a : Slice(x, a, b)[i] = x[a + i]
<1>1. Slice(x, a, b) \in [1 .. b - a -> T]
  <2>1. \A i \in 1 .. b - a : a + i \in 1 .. Len(x)
    OBVIOUS
  <2> QED
    BY <2>1 DEF Slice
<1>2. b - a \in Nat
  OBVIOUS
<1>3. Slice(x, a, b) \in Seq(T)
  BY <1>1, <1>2
<1>4. Len(Slice(x, a, b)) = b - a
  <2>1. DOMAIN Slice(x, a, b) = 1 .. b - a /\ DOMAIN Slice(x, a, b) = 1 .. Len(Slice(x, a, b))
    BY <1>1, <1>3
  <2>2. Len(Slice(x, a, b)) \in Nat
    BY <1>3
  <2> QED
    BY <1>2, <2>1, <2>2
<1> QED
  BY <1>3, <1>4 DEF Slice

(* SubSeq() of the library is a slice.                                     *)
LEMMA SubSeqIsSlice ==
  ASSUME NEW T, NEW x \in Seq(T), NEW a \in Nat, NEW b \in Nat, a <= b, b <= Len(x)
  PROVE  SubSeq(x, a + 1, b) = Slice(x, a, b)
<1> DEFINE y == SubSeq(x, a + 1, b)
<1>1. y \in Seq(T) /\ Len(y) = b - a /\ DOMAIN y = 1 .. b - a
  BY SubSeqProperties
<1>2. \A i \in 1 .. b - a : y[i] = x[a + i]
  <2>1. \A i \in 1 .. b - a : y[i] = x[a + 1 + i - 1]
    BY SubSeqProperties
  <2>2. \A i \in 1 .. b - a : a + 1 + i - 1 = a + i
    OBVIOUS
  <2> HIDE DEF y
  <2> QED
    BY <2>1, <2>2
<1>3. y = [i \in 1 .. b - a |-> y[i]]
  BY <1>1
<1> HIDE DEF y
<1>4. y = Slice(x, a, b)
  BY <1>2, <1>3 DEF Slice
<1> QED
  BY <1>4 DEF y

(* A slice and the slice that follows it.                                    *)
LEMMA JoinSlices ==
  ASSUME NEW T, NEW x \in Seq(T), NEW a \in Nat, NEW b \in Nat, NEW c \in Nat,
         a <= b, b <= c, c <= Len(x)
  PROVE  Slice(x, a, b) \o Slice(x, b, c) = Slice(x, a, c)
<1> DEFINE u == Slice(x, a, b)
           v == Slice(x, b, c)
           w == Slice(x, a, c)
<1>1. Len(x) \in Nat /\ a <= c /\ b <= Len(x)
  OBVIOUS
<1>2. u \in Seq(T) /\ Len(u) = b - a /\ \A i \in 1 .. b - a : u[i] = x[a + i]
  BY <1>1, SliceFacts
<1>3. v \in Seq(T) /\ Len(v) = c - b /\ \A i \in 1 .. c - b : v[i] = x[b + i]
  BY <1>1, SliceFacts
<1>4. w \in Seq(T) /\ Len(w) = c - a /\ \A i \in 1 .. c - a : w[i] = x[a + i]
  BY <1>1, SliceFacts
<1> HIDE DEF u, v, w
<1> DEFINE y == u \o v
<1>5. /\ y \in Seq(T) /\ Len(y) = Len(u) + Len(v)
      /\ \A i \in 1 .. Len(u) + Len(v) : y[i] = IF i <= Len(u) THEN u[i] ELSE v[i - Len(u)]
  BY <1>2, <1>3, ConcatProperties
<1> HIDE DEF y
<1>6. Len(y) = c - a
  BY <1>2, <1>3, <1>5
<1>7. ASSUME NEW i \in 1 .. c - a
      PROVE  y[i] = w[i]
  <2>0. i \in 1 .. Len(u) + Len(v)
    BY <1>2, <1>3
  <2>1. CASE i <= b - a
    <3>1. y[i] = u[i] /\ i \in 1 .. b - a
      BY <1>2, <1>5, <2>0, <2>1
    <3> QED
      BY <1>2, <1>4, <3>1
  <2>2. CASE i > b - a
    <3>1. i - (b - a) \in 1 .. c - b /\ b + (i - (b - a)) = a + i
      BY <2>2
    <3>2. y[i] = v[i - (b - a)]
      BY <1>2, <1>5, <2>0, <2>2
    <3> QED
      BY <1>3, <1>4, <3>1, <3>2
  <2> QED
    BY <2>1, <2>2
<1>8. y = w
  BY <1>4, <1>5, <1>6, <1>7, SeqEqual
<1> QED
  BY <1>8 DEF y, u, v, w

(* What is left of a slice, and its beginning.                               *)
LEMMA CutSlice ==
  ASSUME NEW T, NEW x \in Seq(T), NEW a \in Nat, NEW b \in Nat, NEW n \in Nat,
         a + n <= b, b <= Len(x)
  PROVE  /\ From(Slice(x, a, b), n) = Slice(x, a + n, b)
         /\ SubSeq(Slice(x, a, b), 1, n) = Slice(x, a, a + n)
<1> DEFINE u == Slice(x, a, b)
<1>1. PICK m \in Nat : m = b - a /\ n <= m /\ a <= b
  OBVIOUS
<1>2. u \in Seq(T) /\ Len(u) = m /\ \A i \in 1 .. m : u[i] = x[a + i]
  BY <1>1, SliceFacts
<1> HIDE DEF u
<1>3. From(u, n) = Slice(u, n, m)
  <2>1. SubSeq(u, n + 1, m) = Slice(u, n, m)
    <3>1. m <= Len(u)
      BY <1>2
    <3> QED
      BY <1>1, <1>2, <3>1, SubSeqIsSlice
  <2> QED
    BY <1>2, <2>1 DEF From
<1>4. SubSeq(u, 1, n) = Slice(u, 0, n)
  <2>1. PICK z \in Nat : z = 0 /\ z + 1 = 1 /\ z <= n /\ n <= Len(u)
    BY <1>1, <1>2
  <2>2. SubSeq(u, z + 1, n) = Slice(u, z, n)
    BY <1>2, <2>1, SubSeqIsSlice
  <2> QED
    BY <2>1, <2>2
<1>5. Slice(u, n, m) = Slice(x, a + n, b)
  <2>1. m - n = b - (a + n)
    BY <1>1
  <2>2. \A i \in 1 .. b - (a + n) : u[n + i] = x[(a + n) + i]
    <3>1. \A i \in 1 .. b - (a + n) : n + i \in 1 .. m /\ a + (n + i) = (a + n) + i
      BY <1>1
    <3> QED
      BY <1>2, <3>1
  <2> QED
    BY <2>1, <2>2 DEF Slice
<1>6. Slice(u, 0, n) = Slice(x, a, a + n)
  <2>1. n - 0 = n /\ (a + n) - a = n
    OBVIOUS
  <2>2. \A i \in 1 .. n : u[0 + i] = x[a + i]
    <3>1. \A i \in 1 .. n : 0 + i = i /\ i \in 1 .. m
      BY <1>1
    <3> QED
      BY <1>2, <3>1
  <2> QED
    BY <2>1, <2>2 DEF Slice
<1> QED
  BY <1>3, <1>4, <1>5, <1>6 DEF u

(* What does not change while a range is read.                               *)
RangeOK ==
  /\ fixedRoot \in BOOLEAN
  /\ bats \in [Levels -> SUBSET Entries]
  /\ block \in Entries
  /\ mask \in [Levels -> SUBSET Sectors]
  /\ \A l \in Levels : block \notin bats[l] => mask[l] = {}
  /\ first \in Sectors /\ last \in first .. NumSectors - 1

(* Pieces of the range, and the sector of each.                              *)
Size == (last - first + 1) * Halves
SectorAt(i) == first + (i - 1) \div Halves
PieceType == [tag : Int, at : Int]

(* The data of the range in the chain that starts with level l: what the     *)
(* stream of level l is to deliver.                                          *)
DataFrom(l) == Pieces([s \in Sectors |-> YoungestFrom(l, s)])

(* The number of pieces in the range, and the sectors they are of.         *)
LEMMA SizeFacts ==
  ASSUME RangeOK
  PROVE  /\ Size \in Nat /\ Size = 2 * (last - first + 1)
         /\ first \in Nat /\ last \in Nat /\ last <= NumSectors - 1
         /\ \A i \in 1 .. Size : SectorAt(i) \in Sectors /\ (i - 1) % Halves \in Int
BY ChainAssumption DEF RangeOK, Size, Halves, Sectors, SectorAt

(* The data of the range, piece by piece.                                  *)
LEMMA PiecesFacts ==
  ASSUME RangeOK, NEW data \in [Sectors -> Int]
  PROVE  /\ Pieces(data) \in Seq(PieceType) /\ Len(Pieces(data)) = Size
         /\ \A i \in 1 .. Size :
              Pieces(data)[i] = Piece(data[SectorAt(i)], SectorAt(i), (i - 1) % Halves)
<1>1. Pieces(data) = [i \in 1 .. Size |-> Piece(data[SectorAt(i)], SectorAt(i), (i - 1) % Halves)]
  BY Zenon DEF Pieces, Size, SectorAt
<1>2. ASSUME NEW i \in 1 .. Size
      PROVE  Piece(data[SectorAt(i)], SectorAt(i), (i - 1) % Halves) \in PieceType
  <2>1. SectorAt(i) \in Sectors /\ (i - 1) % Halves \in Int
    BY SizeFacts
  <2>2. data[SectorAt(i)] \in Int /\ SectorAt(i) \in Int
    BY <2>1 DEF Sectors
  <2> QED
    BY <2>1, <2>2 DEF Piece, PieceType, Halves
<1>3. Pieces(data) \in [1 .. Size -> PieceType]
  BY <1>1, <1>2
<1>4. Size \in Nat
  BY SizeFacts
<1>5. Pieces(data) \in Seq(PieceType)
  BY <1>3, <1>4
<1>6. Len(Pieces(data)) = Size
  <2>1. DOMAIN Pieces(data) = 1 .. Size /\ DOMAIN Pieces(data) = 1 .. Len(Pieces(data))
        /\ Len(Pieces(data)) \in Nat
    BY <1>3, <1>5, LenProperties
  <2> QED
    BY <1>4, <2>1
<1> QED
  BY <1>1, <1>5, <1>6

(* Whose data a sector has, one level after the other.                       *)
LEMMA YoungestFacts ==
  ASSUME RangeOK, NEW s \in Sectors
  PROVE  /\ \A l \in 1 .. Depth + 1 : (\A k \in l .. Depth : s \notin mask[k]) => YoungestFrom(l, s) = 0
         /\ \A l \in Levels : s \in mask[l] => YoungestFrom(l, s) = l
         /\ \A l \in Levels : s \notin mask[l] => YoungestFrom(l, s) = YoungestFrom(l + 1, s)
         /\ \A l \in 1 .. Depth + 1 : YoungestFrom(l, s) \in Int
<1> DEFINE W(l) == {k \in l .. Depth : s \in mask[k]}
           Least(l) == CHOOSE k \in W(l) : \A j \in W(l) : k <= j
<1>1. \A l : YoungestFrom(l, s) = IF W(l) = {} THEN 0 ELSE Least(l)
  BY DEF YoungestFrom
<1>2. Depth \in Nat /\ Levels = 1 .. Depth
  BY ChainAssumption DEF Levels
<1>3. ASSUME NEW l \in 1 .. Depth + 1, \A k \in l .. Depth : s \notin mask[k]
      PROVE  YoungestFrom(l, s) = 0
  <2>1. W(l) = {}
    BY <1>3
  <2> QED
    BY <1>1, <2>1
<1>4. ASSUME NEW l \in Levels, s \in mask[l]
      PROVE  YoungestFrom(l, s) = l
  <2>1. l \in W(l) /\ \A j \in W(l) : l <= j /\ j \in Int
    BY <1>2, <1>4
  <2>2. Least(l) \in W(l) /\ \A j \in W(l) : Least(l) <= j
    BY <2>1
  <2>3. Least(l) = l
    <3> HIDE DEF W, Least
    <3> QED
      BY <1>2, <2>1, <2>2
  <2> QED
    BY <1>1, <2>1, <2>3
<1>5. ASSUME NEW l \in Levels, s \notin mask[l]
      PROVE  YoungestFrom(l, s) = YoungestFrom(l + 1, s)
  <2>1. W(l) = W(l + 1)
    <3>1. \A k \in l .. Depth : k = l \/ k \in l + 1 .. Depth
      BY <1>2
    <3>2. \A k \in l + 1 .. Depth : k \in l .. Depth
      BY <1>2
    <3> QED
      BY <1>5, <3>1, <3>2
  <2> QED
    BY <1>1, <2>1
<1> HIDE DEF W, Least
<1>6. ASSUME NEW l \in 1 .. Depth + 1
      PROVE  YoungestFrom(l, s) \in Int
  <2> DEFINE n == Depth + 1
             S == {k \in 0 .. n : k = 0 \/ YoungestFrom(k, s) \in Int}
  <2>1. n \in Nat /\ n \in S
    <3>1. n \in 1 .. Depth + 1 /\ n \in 0 .. n /\ \A k \in n .. Depth : s \notin mask[k]
      BY <1>2
    <3>2. YoungestFrom(n, s) = 0
      BY <1>3, <3>1
    <3> QED
      BY <1>2, <3>1, <3>2
  <2>2. ASSUME NEW k \in 1 .. n, k \in S
        PROVE  k - 1 \in S
    <3>1. CASE k - 1 = 0
      BY <2>1, <3>1
    <3>2. CASE k - 1 # 0
      <4>1. k - 1 \in Levels /\ k - 1 \in 0 .. n /\ (k - 1) + 1 = k /\ k - 1 \in Int /\ k # 0
        BY <1>2, <3>2
      <4>2. YoungestFrom(k - 1, s) = k - 1 \/ YoungestFrom(k - 1, s) = YoungestFrom(k, s)
        BY <1>4, <1>5, <4>1
      <4> QED
        BY <2>2, <4>1, <4>2
    <3> QED
      BY <3>1, <3>2
  <2> HIDE DEF S
  <2>3. 0 .. n \subseteq S
    BY <2>1, <2>2, InductionDown
  <2>4. l \in S /\ l # 0
    BY <1>2, <2>3
  <2> QED
    BY <2>4 DEF S
<1> QED
  BY <1>3, <1>4, <1>5, <1>6

(* What the file of a level delivers.                                      *)
LEMMA ContentFacts ==
  ASSUME RangeOK, NEW l \in Levels
  PROVE  /\ FileContent(l) \in Seq(PieceType) /\ Len(FileContent(l)) = Size
         /\ \A i \in 1 .. Size :
              FileContent(l)[i] = Piece(IF Mode(l) # "zeros" /\ SectorAt(i) \in mask[l] THEN l ELSE 0,
                                        SectorAt(i), (i - 1) % Halves)
<1> DEFINE data == [s \in Sectors |-> IF Mode(l) # "zeros" /\ s \in mask[l] THEN l ELSE 0]
<1>1. data \in [Sectors -> Int]
  BY ChainAssumption DEF Levels
<1>2. FileContent(l) = Pieces(data)
  BY DEF FileContent
<1>3. \A i \in 1 .. Size : data[SectorAt(i)]
                             = IF Mode(l) # "zeros" /\ SectorAt(i) \in mask[l] THEN l ELSE 0
  BY SizeFacts
<1> HIDE DEF data
<1> QED
  BY <1>1, <1>2, <1>3, PiecesFacts

(* What the stream of a level is to deliver.                               *)
LEMMA DataFacts ==
  ASSUME RangeOK, NEW l \in 1 .. Depth + 1
  PROVE  /\ DataFrom(l) \in Seq(PieceType) /\ Len(DataFrom(l)) = Size
         /\ \A i \in 1 .. Size :
              DataFrom(l)[i] = Piece(YoungestFrom(l, SectorAt(i)), SectorAt(i), (i - 1) % Halves)
<1> DEFINE data == [s \in Sectors |-> YoungestFrom(l, s)]
<1>1. data \in [Sectors -> Int]
  BY YoungestFacts
<1>2. DataFrom(l) = Pieces(data)
  BY DEF DataFrom
<1>3. \A i \in 1 .. Size : data[SectorAt(i)] = YoungestFrom(l, SectorAt(i))
  BY SizeFacts
<1> HIDE DEF data
<1> QED
  BY <1>1, <1>2, <1>3, PiecesFacts

(* How a block is read gives the data of the chain.                          *)
LEMMA ModeFacts ==
  ASSUME RangeOK, NEW l \in Levels
  PROVE  /\ Mode(l) \in {"own", "zeros", "parent", "merge"}
         /\ Mode(l) \in {"own", "zeros"} => DataFrom(l) = FileContent(l)
         /\ Mode(l) \in {"parent", "merge"} => l < Depth
         /\ Mode(l) = "parent" => DataFrom(l) = DataFrom(l + 1)
         /\ Mode(l) = "merge" =>
              \A i \in 1 .. Size :
                DataFrom(l)[i] = IF SectorAt(i) \in mask[l] THEN FileContent(l)[i] ELSE DataFrom(l + 1)[i]
<1>1. Depth \in Nat /\ Levels = 1 .. Depth /\ l \in 1 .. Depth + 1
  BY ChainAssumption DEF Levels
<1>2. Mode(l) \in {"own", "zeros", "parent", "merge"}
  BY DEF Mode
<1>3. Mode(l) \in {"parent", "merge"} => l < Depth
  BY DEF Mode, IsInParent, IsDiff
<1>4. \A i \in 1 .. Size : SectorAt(i) \in Sectors
  BY SizeFacts
(* What is not in a parent has not been written there.                       *)
<1>5. ASSUME ~IsInParent(l), l < Depth, NEW k \in l + 1 .. Depth
      PROVE  mask[k] = {}
  <2>1. block \notin bats[k] /\ k \in Levels
    BY <1>1, <1>5 DEF IsInParent, IsDiff, FullIndices
  <2> QED
    BY <2>1 DEF RangeOK
<1>6. ASSUME ~IsInParent(l), NEW s \in Sectors
      PROVE  YoungestFrom(l + 1, s) = 0
  <2>1. \A k \in l + 1 .. Depth : s \notin mask[k]
    BY <1>1, <1>5, <1>6
  <2> QED
    BY <1>1, <2>1, YoungestFacts
<1>7. ASSUME Mode(l) \in {"own", "zeros"}, NEW s \in Sectors
      PROVE  YoungestFrom(l, s) = IF Mode(l) # "zeros" /\ s \in mask[l] THEN l ELSE 0
  <2>1. CASE mask[l] = Sectors /\ Mode(l) = "own"
    BY <1>7, <2>1, YoungestFacts
  <2>2. CASE ~(mask[l] = Sectors /\ Mode(l) = "own")
    <3>1. ~IsInParent(l)
      BY <1>7, <2>2 DEF Mode, IsInParent
    <3>2. Mode(l) = "zeros" => mask[l] = {}
      BY DEF Mode, RangeOK
    <3> QED
      BY <1>6, <1>7, <3>1, <3>2, YoungestFacts
  <2> QED
    BY <2>1, <2>2
<1>8. ASSUME Mode(l) \in {"own", "zeros"}
      PROVE  DataFrom(l) = FileContent(l)
  <2>1. \A i \in 1 .. Size : DataFrom(l)[i] = FileContent(l)[i]
    BY <1>1, <1>4, <1>7, <1>8, DataFacts, ContentFacts
  <2>2. /\ DataFrom(l) \in Seq(PieceType) /\ Len(DataFrom(l)) = Size
        /\ FileContent(l) \in Seq(PieceType) /\ Len(FileContent(l)) = Size
    BY <1>1, DataFacts, ContentFacts
  <2> QED
    BY <2>1, <2>2, SeqEqual
<1>9. ASSUME Mode(l) = "parent"
      PROVE  DataFrom(l) = DataFrom(l + 1)
  <2>1. mask[l] = {}
    BY <1>9 DEF Mode, RangeOK
  <2>2. l + 1 \in 1 .. Depth + 1
    BY <1>1
  <2>3. \A i \in 1 .. Size : DataFrom(l)[i] = DataFrom(l + 1)[i]
    BY <1>1, <1>4, <2>1, <2>2, DataFacts, YoungestFacts
  <2>4. /\ DataFrom(l) \in Seq(PieceType) /\ Len(DataFrom(l)) = Size
        /\ DataFrom(l + 1) \in Seq(PieceType) /\ Len(DataFrom(l + 1)) = Size
    BY <1>1, <2>2, DataFacts
  <2> QED
    BY <2>3, <2>4, SeqEqual
<1>10. ASSUME Mode(l) = "merge", NEW i \in 1 .. Size
       PROVE  DataFrom(l)[i] = IF SectorAt(i) \in mask[l] THEN FileContent(l)[i] ELSE DataFrom(l + 1)[i]
  <2>1. l + 1 \in 1 .. Depth + 1
    BY <1>1
  <2>2. /\ DataFrom(l)[i] = Piece(YoungestFrom(l, SectorAt(i)), SectorAt(i), (i - 1) % Halves)
        /\ DataFrom(l + 1)[i] = Piece(YoungestFrom(l + 1, SectorAt(i)), SectorAt(i), (i - 1) % Halves)
    BY <1>1, <2>1, DataFacts
  <2>3. SectorAt(i) \in mask[l] => FileContent(l)[i] = Piece(l, SectorAt(i), (i - 1) % Halves)
    BY <1>10, ContentFacts
  <2> QED
    BY <1>4, <2>2, <2>3, YoungestFacts
<1> QED
  BY <1>2, <1>3, <1>8, <1>9, <1>10

Pair(u, v) == [i \in {Parent, Own} |-> IF i = Parent THEN u ELSE v]

(* The two buffers of level k when it has passed on e pieces, p have come    *)
(* from the parent and o from the file.                                      *)
Two(k, e, p, o) ==
  Pair(Slice(DataFrom(k + 1), e, p), Slice(FileContent(k), e, o))

(* As many pieces as both have in whole sectors.                             *)
Joint(p, o) == 2 * Smaller(p \div 2, o \div 2)

(* It is at most both, in whole sectors, and grows with both.              *)
LEMMA JointFacts ==
  ASSUME NEW p \in Nat, NEW o \in Nat
  PROVE  /\ Joint(p, o) \in Nat /\ Joint(p, o) <= p /\ Joint(p, o) <= o
         /\ \E f \in Nat : Joint(p, o) = 2 * f
         /\ \A q \in Nat : q >= p => Joint(p, o) <= Joint(q, o)
         /\ \A q \in Nat : q >= o => Joint(p, o) <= Joint(p, q)
<1>1. PICK f \in Nat : f = p \div 2 /\ 2 * f <= p /\ p <= 2 * f + 1
  OBVIOUS
<1>2. PICK g \in Nat : g = o \div 2 /\ 2 * g <= o /\ o <= 2 * g + 1
  OBVIOUS
<1>3. Smaller(f, g) \in Nat /\ Smaller(f, g) <= f /\ Smaller(f, g) <= g
  BY DEF Smaller
<1>4. Joint(p, o) = 2 * Smaller(f, g)
  BY <1>1, <1>2 DEF Joint
<1>5. ASSUME NEW q \in Nat, q >= p
      PROVE  Joint(p, o) <= Joint(q, o)
  <2>1. PICK h \in Nat : h = q \div 2 /\ f <= h
    BY <1>1, <1>5
  <2>2. Smaller(f, g) <= Smaller(h, g) /\ Smaller(h, g) \in Nat
    BY <2>1 DEF Smaller
  <2>3. Joint(q, o) = 2 * Smaller(h, g)
    BY <1>2, <2>1 DEF Joint
  <2> QED
    BY <1>3, <1>4, <2>2, <2>3
<1>6. ASSUME NEW q \in Nat, q >= o
      PROVE  Joint(p, o) <= Joint(p, q)
  <2>1. PICK h \in Nat : h = q \div 2 /\ g <= h
    BY <1>2, <1>6
  <2>2. Smaller(f, g) <= Smaller(f, h) /\ Smaller(f, h) \in Nat
    BY <2>1 DEF Smaller
  <2>3. Joint(p, q) = 2 * Smaller(f, h)
    BY <1>1, <2>1 DEF Joint
  <2> QED
    BY <1>3, <1>4, <2>2, <2>3
<1> QED
  BY <1>1, <1>2, <1>3, <1>4, <1>5, <1>6

(* What the two buffers hold.                                              *)
LEMMA TwoFacts ==
  ASSUME RangeOK, NEW k \in Levels, k < Depth,
         NEW e \in Nat, NEW p \in Nat, NEW o \in Nat,
         e <= p, e <= o, p <= Size, o <= Size
  PROVE  /\ Two(k, e, p, o)[Parent] = Slice(DataFrom(k + 1), e, p)
         /\ Two(k, e, p, o)[Own] = Slice(FileContent(k), e, o)
         /\ Len(Two(k, e, p, o)[Parent]) = p - e /\ Len(Two(k, e, p, o)[Own]) = o - e
         /\ \A i \in 1 .. p - e : Two(k, e, p, o)[Parent][i] = DataFrom(k + 1)[e + i]
         /\ \A i \in 1 .. o - e : Two(k, e, p, o)[Own][i] = FileContent(k)[e + i]
<1>1. k + 1 \in 1 .. Depth + 1
  BY ChainAssumption DEF Levels
<1>2. /\ DataFrom(k + 1) \in Seq(PieceType) /\ Len(DataFrom(k + 1)) = Size
      /\ FileContent(k) \in Seq(PieceType) /\ Len(FileContent(k)) = Size
  BY <1>1, DataFacts, ContentFacts
<1> DEFINE u == Slice(DataFrom(k + 1), e, p)
           v == Slice(FileContent(k), e, o)
<1>3. Len(u) = p - e /\ \A i \in 1 .. p - e : u[i] = DataFrom(k + 1)[e + i]
  BY <1>2, SliceFacts
<1>4. Len(v) = o - e /\ \A i \in 1 .. o - e : v[i] = FileContent(k)[e + i]
  BY <1>2, SliceFacts
<1>5. Two(k, e, p, o)[Parent] = u /\ Two(k, e, p, o)[Own] = v
  BY DEF Two, Pair, Parent, Own
<1> QED
  BY <1>3, <1>4, <1>5, Zenon

(* processBuffers(): what a level passes on is the data of the chain, and    *)
(* what it keeps follows it.                                                 *)
LEMMA MergeStep ==
  ASSUME RangeOK, NEW k \in Levels, Mode(k) = "merge",
         NEW e \in Nat, NEW p \in Nat, NEW o \in Nat, NEW f \in Nat, e = 2 * f,
         e <= Joint(p, o), p <= Size, o <= Size, bit[k] = first + e \div 2
  PROVE  LET held == Two(k, e, p, o)
             n == Whole(held)
         IN  /\ n = Joint(p, o) - e
             /\ Merged(k, held) = Slice(DataFrom(k), e, Joint(p, o))
             /\ [i \in {Parent, Own} |-> From(held[i], n)] = Two(k, Joint(p, o), p, o)
             /\ bit[k] + n \div Halves = first + Joint(p, o) \div 2
<1> DEFINE held == Two(k, e, p, o)
           n == Whole(held)
<1>1. PICK j \in Nat : j = Joint(p, o) /\ e <= j /\ j <= p /\ j <= o /\ \E g \in Nat : j = 2 * g
  BY JointFacts
<1>2. PICK g \in Nat : j = 2 * g /\ f <= g
  BY <1>1
<1>3. k < Depth /\ k + 1 \in 1 .. Depth + 1 /\ k \in 1 .. Depth + 1
  BY ModeFacts, ChainAssumption DEF Levels
<1>4. /\ held[Parent] = Slice(DataFrom(k + 1), e, p) /\ Len(held[Parent]) = p - e
      /\ held[Own] = Slice(FileContent(k), e, o) /\ Len(held[Own]) = o - e
      /\ \A i \in 1 .. p - e : held[Parent][i] = DataFrom(k + 1)[e + i]
      /\ \A i \in 1 .. o - e : held[Own][i] = FileContent(k)[e + i]
  <2>1. e <= p /\ e <= o
    BY <1>1
  <2> QED
    BY ONLY RangeOK, k \in Levels, e \in Nat, p \in Nat, o \in Nat, p <= Size, o <= Size,
       <1>3, <2>1, TwoFacts
<1> HIDE DEF held
<1>5. n = j - e /\ n \in Nat
  <2>1. (p - e) \div 2 = p \div 2 - f /\ (o - e) \div 2 = o \div 2 - f
    BY <1>1
  <2>2. Smaller(p \div 2 - f, o \div 2 - f) = Smaller(p \div 2, o \div 2) - f
    BY DEF Smaller
  <2>3. Smaller(p \div 2, o \div 2) = g
    <3>1. Smaller(p \div 2, o \div 2) \in Int
      BY DEF Smaller
    <3> QED
      BY <1>1, <1>2, <3>1 DEF Joint
  <2>4. n = Smaller(p \div 2 - f, o \div 2 - f) * 2
    BY <1>4, <2>1 DEF Whole, Halves
  <2> QED
    BY <1>1, <1>2, <2>2, <2>3, <2>4
<1> HIDE DEF n
<1>6. Merged(k, held) = Slice(DataFrom(k), e, j)
  <2>1. ASSUME NEW i \in 1 .. n
        PROVE  held[IF bit[k] + (i - 1) \div Halves \in mask[k] THEN Own ELSE Parent][i] = DataFrom(k)[e + i]
    <3>1. e + i \in 1 .. Size /\ i \in 1 .. p - e /\ i \in 1 .. o - e
      BY <1>1, <1>5, SizeFacts
    <3>2. bit[k] + (i - 1) \div Halves = SectorAt(e + i)
      <4>1. bit[k] = first + f /\ first \in Nat
        BY SizeFacts
      <4>2. (2 * f + i - 1) \div 2 = f + (i - 1) \div 2
        BY <1>5
      <4> QED
        BY <1>5, <4>1, <4>2 DEF SectorAt, Halves
    <3>3. DataFrom(k)[e + i] = IF SectorAt(e + i) \in mask[k] THEN FileContent(k)[e + i] ELSE DataFrom(k + 1)[e + i]
      BY <3>1, ModeFacts
    <3> QED
      BY <1>4, <3>1, <3>2, <3>3, Zenon
  <2>2. Merged(k, held) = [i \in 1 .. n |-> held[IF bit[k] + (i - 1) \div Halves \in mask[k] THEN Own ELSE Parent][i]]
    BY Zenon DEF Merged, n
  <2>3. Merged(k, held) = [i \in 1 .. n |-> DataFrom(k)[e + i]]
    BY <2>1, <2>2, Zenon
  <2> QED
    BY <1>5, <2>3 DEF Slice
<1>7. [i \in {Parent, Own} |-> From(held[i], n)] = Two(k, j, p, o)
  <2>1. /\ DataFrom(k + 1) \in Seq(PieceType) /\ Len(DataFrom(k + 1)) = Size
        /\ FileContent(k) \in Seq(PieceType) /\ Len(FileContent(k)) = Size
    BY <1>3, DataFacts, ContentFacts
  <2>2. e + n = j /\ e + n <= p /\ e + n <= o
    BY <1>1, <1>5
  <2>3. From(held[Parent], n) = Slice(DataFrom(k + 1), j, p)
    <3>1. From(Slice(DataFrom(k + 1), e, p), n) = Slice(DataFrom(k + 1), e + n, p)
      BY <1>5, <2>1, <2>2, CutSlice
    <3> QED
      BY <1>4, <2>2, <3>1
  <2>4. From(held[Own], n) = Slice(FileContent(k), j, o)
    <3>1. From(Slice(FileContent(k), e, o), n) = Slice(FileContent(k), e + n, o)
      BY <1>5, <2>1, <2>2, CutSlice
    <3> QED
      BY <1>4, <2>2, <3>1
  <2>5. \A i \in {Parent, Own} : From(held[i], n)
          = IF i = Parent THEN Slice(DataFrom(k + 1), j, p) ELSE Slice(FileContent(k), j, o)
    BY <2>3, <2>4
  <2> QED
    BY <2>5, Zenon DEF Two, Pair
<1>8. bit[k] + n \div Halves = first + j \div 2
  <2>1. bit[k] = first + f /\ first \in Nat
    BY SizeFacts
  <2>2. n \div 2 = g - f /\ j \div 2 = g
    BY <1>1, <1>2, <1>5
  <2> QED
    BY <1>1, <1>2, <2>1, <2>2 DEF Halves
<1> QED
  BY <1>1, <1>5, <1>6, <1>7, <1>8 DEF n, held

(* The range stays what it is, and with it all that is derived from it.      *)
LEMMA RangeStays ==
  ASSUME UNCHANGED range
  PROVE  /\ RangeOK' = RangeOK /\ Size' = Size
         /\ \A l : Mode(l)' = Mode(l)
         /\ \A l : FileContent(l)' = FileContent(l)
         /\ \A l : DataFrom(l)' = DataFrom(l)
<1>1. /\ fixedRoot' = fixedRoot /\ bats' = bats /\ block' = block
      /\ mask' = mask /\ first' = first /\ last' = last
  BY DEF range
<1>2. RangeOK' = RangeOK /\ Size' = Size
  BY <1>1 DEF RangeOK, Size
<1>3. \A l : Mode(l)' = Mode(l)
  BY <1>1 DEF Mode, IsInParent, FullIndices
<1> DEFINE P(f, g, data) ==
             [i \in 1 .. (g - f + 1) * Halves |->
                LET s == f + (i - 1) \div Halves
                IN  Piece(data[s], s, (i - 1) % Halves)]
<1>4. ASSUME NEW l
      PROVE  FileContent(l)' = FileContent(l)
  <2> DEFINE data == [s \in Sectors |-> IF Mode(l) # "zeros" /\ s \in mask[l] THEN l ELSE 0]
  <2>1. FileContent(l) = P(first, last, data)
    BY Zenon DEF FileContent, Pieces
  <2>2. FileContent(l)' = P(first', last', data')
    BY Zenon DEF FileContent, Pieces
  <2>3. data' = data
    BY <1>1, <1>3
  <2> HIDE DEF P, data
  <2> QED
    BY <1>1, <2>1, <2>2, <2>3
<1>5. \A l, s : YoungestFrom(l, s)' = YoungestFrom(l, s)
  BY <1>1 DEF YoungestFrom
<1>6. ASSUME NEW l
      PROVE  DataFrom(l)' = DataFrom(l)
  <2> DEFINE data == [s \in Sectors |-> YoungestFrom(l, s)]
  <2>1. DataFrom(l) = P(first, last, data)
    BY Zenon DEF DataFrom, Pieces
  <2>2. DataFrom(l)' = P(first', last', data')
    BY Zenon DEF DataFrom, Pieces
  <2>3. data' = data
    BY <1>5
  <2> HIDE DEF P, data
  <2> QED
    BY <1>1, <2>1, <2>2, <2>3
<1> QED
  BY <1>2, <1>3, <1>4, <1>6

(* What the file of level l has delivered, and what is still in it.          *)
Delivered(l) == Size - Len(unread[l])

UnreadOK ==
  \A l \in Levels :
    /\ Delivered(l) \in 0 .. Size
    /\ unread[l] = Slice(FileContent(l), Delivered(l), Size)

(* Level l has passed on e[l] pieces: as many as its file has delivered, as  *)
(* its parent has passed on, or as it can merge of both.                     *)
LevelOK(e, l) ==
  /\ Mode(l) \in {"own", "zeros"} => e[l] = Delivered(l)
  /\ Mode(l) = "parent" => e[l] = e[l + 1]
  /\ Mode(l) = "merge" =>
       /\ e[l] = Joint(e[l + 1], Delivered(l))
       /\ buffs[l] = Two(l, e[l], e[l + 1], Delivered(l))
       /\ bit[l] = first + e[l] \div 2

Emissions == [1 .. Depth + 1 -> 0 .. Size]

(* The pieces a level passes on when p have come from the parent and o from  *)
(* the file.                                                                 *)
PassedOn(l, p, o) ==
  IF Mode(l) \in {"own", "zeros"} THEN o
  ELSE IF Mode(l) = "parent" THEN p ELSE Joint(p, o)

(* The buffers with what is put behind one of them.                        *)
LEMMA HeldFacts ==
  ASSUME NEW k, NEW u, NEW v, NEW x,
         buffs[k] = Pair(u, v)
  PROVE  /\ Held(k, Parent, x) = Pair(u \o x, v)
         /\ Held(k, Own, x) = Pair(u, v \o x)
<1> DEFINE ux == u \o x
           vx == v \o x
<1>1. buffs[k][Parent] = u /\ buffs[k][Own] = v
  BY DEF Pair, Parent, Own
<1>2. /\ Held(k, Parent, x) = [buffs[k] EXCEPT ![Parent] = ux]
      /\ Held(k, Own, x) = [buffs[k] EXCEPT ![Own] = vx]
  BY <1>1, Zenon DEF Held
<1> HIDE DEF ux, vx
<1>3. Held(k, Parent, x) = Pair(ux, v) /\ Held(k, Own, x) = Pair(u, vx)
  BY <1>2 DEF Pair, Parent, Own
<1> QED
  BY <1>3 DEF ux, vx

(* One level: what it passes on continues what it has passed on.           *)
LEMMA LevelStep ==
  ASSUME RangeOK, UnreadOK, NEW e \in Emissions, NEW i \in Levels, LevelOK(e, i),
         NEW l \in Levels, NEW p \in 0 .. Size, NEW o \in 0 .. Size, NEW x,
         e[i + 1] <= p, Delivered(i) <= o,
         \/ /\ i = l /\ p = e[i + 1] /\ Mode(i) # "parent"
            /\ x = Slice(FileContent(i), Delivered(i), o)
         \/ /\ i # l /\ o = Delivered(i) /\ Mode(i) \in {"parent", "merge"}
            /\ x = Slice(DataFrom(i + 1), e[i + 1], p)
  PROVE  /\ e[i] <= PassedOn(i, p, o) /\ PassedOn(i, p, o) \in 0 .. Size
         /\ Passed(i, Source(l, i), x) = Slice(DataFrom(i), e[i], PassedOn(i, p, o))
         /\ Mode(i) = "merge" =>
              LET held == Held(i, Source(l, i), x)
              IN  /\ [j \in {Parent, Own} |-> From(held[j], Whole(held))]
                       = Two(i, PassedOn(i, p, o), p, o)
                  /\ bit[i] + Whole(held) \div Halves = first + PassedOn(i, p, o) \div 2
<1>1. /\ Size \in Nat /\ Depth \in Nat /\ i \in 1 .. Depth /\ i \in 1 .. Depth + 1 /\ i + 1 \in 1 .. Depth + 1
  BY SizeFacts, ChainAssumption DEF Levels
<1>2. e[i] \in 0 .. Size /\ e[i + 1] \in 0 .. Size /\ Delivered(i) \in 0 .. Size
  BY <1>1 DEF Emissions, UnreadOK
<1>3. CASE Mode(i) \in {"own", "zeros"}
  <2>1. e[i] = Delivered(i) /\ PassedOn(i, p, o) = o /\ DataFrom(i) = FileContent(i)
    BY <1>3, ModeFacts DEF LevelOK, PassedOn
  <2>2. Passed(i, Source(l, i), x) = x /\ i = l
    BY <1>3 DEF Passed
  <2> QED
    BY <1>2, <1>3, <2>1, <2>2
<1>4. CASE Mode(i) = "parent"
  <2>1. e[i] = e[i + 1] /\ PassedOn(i, p, o) = p /\ DataFrom(i) = DataFrom(i + 1)
    BY <1>4, ModeFacts DEF LevelOK, PassedOn
  <2>2. Passed(i, Source(l, i), x) = x /\ i # l
    BY <1>4 DEF Passed
  <2> QED
    BY <1>2, <1>4, <2>1, <2>2
<1>5. CASE Mode(i) = "merge"
  <2> DEFINE c == Joint(p, o)
             d == Delivered(i)
  <2>1. PassedOn(i, p, o) = c
    BY <1>5 DEF PassedOn
  <2>2. e[i] = Joint(e[i + 1], d) /\ buffs[i] = Two(i, e[i], e[i + 1], d) /\ bit[i] = first + e[i] \div 2
    BY <1>5 DEF LevelOK
  <2>3. /\ e[i] \in Nat /\ e[i] <= e[i + 1] /\ e[i] <= d
        /\ \E f \in Nat : e[i] = 2 * f
    <3>1. e[i + 1] \in Nat /\ d \in Nat
      BY <1>2
    <3>2. /\ Joint(e[i + 1], d) \in Nat /\ Joint(e[i + 1], d) <= e[i + 1] /\ Joint(e[i + 1], d) <= d
          /\ \E f \in Nat : Joint(e[i + 1], d) = 2 * f
      BY <3>1, JointFacts
    <3> QED
      BY <2>2, <3>2
  <2>4. e[i] <= c /\ c \in Nat /\ c <= p
    <3>1. e[i + 1] \in Nat /\ d \in Nat /\ p \in Nat /\ o \in Nat
      BY <1>2
    <3>2. Joint(e[i + 1], d) <= Joint(p, d) /\ Joint(p, d) <= Joint(p, o)
      BY <3>1, JointFacts
    <3>3. Joint(e[i + 1], d) \in Nat /\ Joint(p, d) \in Nat /\ c \in Nat /\ c <= p
      BY <3>1, JointFacts
    <3> QED
      BY <2>2, <3>2, <3>3
  <2> HIDE DEF c, d
  <2>5. Held(i, Source(l, i), x) = Two(i, e[i], p, o)
    <3>1. /\ DataFrom(i + 1) \in Seq(PieceType) /\ Len(DataFrom(i + 1)) = Size
          /\ FileContent(i) \in Seq(PieceType) /\ Len(FileContent(i)) = Size
      BY <1>1, DataFacts, ContentFacts
    <3>2. /\ d \in Nat /\ d <= Size /\ p \in Nat /\ o \in Nat /\ p <= Size /\ o <= Size
          /\ e[i + 1] \in Nat /\ e[i + 1] <= Size /\ d <= o
      BY <1>2 DEF d
    <3> DEFINE u == Slice(DataFrom(i + 1), e[i], e[i + 1])
               v == Slice(FileContent(i), e[i], d)
    <3>0. buffs[i] = Pair(u, v)
      BY <2>2, Zenon DEF Two
    <3> HIDE DEF u, v
    <3>3. Held(i, Parent, x) = Pair(u \o x, v) /\ Held(i, Own, x) = Pair(u, v \o x)
      BY <3>0, HeldFacts
    <3>4. CASE i = l
      <4>1. x = Slice(FileContent(i), d, o) /\ p = e[i + 1]
        BY <3>4 DEF d
      <4>2. v \o x = Slice(FileContent(i), e[i], o)
        <5>1. o <= Len(FileContent(i))
          BY <3>1, <3>2
        <5> QED
          BY <2>3, <3>1, <3>2, <4>1, <5>1, JoinSlices DEF v
      <4>3. Held(i, Own, x) = Two(i, e[i], p, o)
        BY <3>3, <4>1, <4>2, Zenon DEF u, v, Two
      <4> QED
        BY <3>4, <4>3, Zenon DEF Source
    <3>5. CASE i # l
      <4>1. x = Slice(DataFrom(i + 1), e[i + 1], p) /\ o = d
        BY <3>5 DEF d
      <4>2. u \o x = Slice(DataFrom(i + 1), e[i], p)
        <5>1. p <= Len(DataFrom(i + 1))
          BY <3>1, <3>2
        <5> QED
          BY <2>3, <3>1, <3>2, <4>1, <5>1, JoinSlices DEF u
      <4>3. Held(i, Parent, x) = Two(i, e[i], p, o)
        BY <3>3, <4>1, <4>2, Zenon DEF u, v, Two
      <4> QED
        BY <3>5, <4>3, Zenon DEF Source
    <3> QED
      BY <3>4, <3>5
  <2>6. PICK f \in Nat : e[i] = 2 * f
    BY <2>3
  <2> DEFINE held == Two(i, e[i], p, o)
  <2>7. /\ Merged(i, held) = Slice(DataFrom(i), e[i], c)
        /\ [j \in {Parent, Own} |-> From(held[j], Whole(held))] = Two(i, c, p, o)
        /\ bit[i] + Whole(held) \div Halves = first + c \div 2
    <3>1. p \in Nat /\ o \in Nat /\ p <= Size /\ o <= Size
      BY <1>1
    <3> QED
      BY ONLY RangeOK, i \in Levels, <1>5, <2>2, <2>3, <2>4, <2>6, <3>1, MergeStep DEF c
  <2>8. Passed(i, Source(l, i), x) = Merged(i, held)
    BY <1>5, <2>5 DEF Passed
  <2> HIDE DEF held
  <2>9. c \in 0 .. Size
    BY <1>1, <2>4
  <2> QED
    BY <1>5, <2>1, <2>4, <2>5, <2>7, <2>8, <2>9 DEF held
<1> QED
  BY <1>3, <1>4, <1>5, ModeFacts

(* The buffers hold pieces.                                                  *)
BuffsOK ==
  \A k \in Levels : Mode(k) = "merge" =>
    \E u, v \in Seq(PieceType) : buffs[k] = Pair(u, v)

(* What a level passes on are pieces.                                      *)
LEMMA PassedType ==
  ASSUME BuffsOK, NEW k \in Levels, NEW l, NEW x \in Seq(PieceType)
  PROVE  Passed(k, Source(l, k), x) \in Seq(PieceType)
<1>1. CASE Mode(k) # "merge"
  BY <1>1 DEF Passed
<1>2. CASE Mode(k) = "merge"
  <2>1. PICK u \in Seq(PieceType), v \in Seq(PieceType) : buffs[k] = Pair(u, v)
    BY <1>2 DEF BuffsOK
  <2>2. \E y, z \in Seq(PieceType) : Held(k, Source(l, k), x) = Pair(y, z)
    <3>1. u \o x \in Seq(PieceType) /\ v \o x \in Seq(PieceType)
      BY ConcatProperties
    <3>2. Held(k, Parent, x) = Pair(u \o x, v) /\ Held(k, Own, x) = Pair(u, v \o x)
      BY <2>1, HeldFacts
    <3> DEFINE ux == u \o x
               vx == v \o x
    <3> HIDE DEF ux, vx
    <3>3. ux \in Seq(PieceType) /\ vx \in Seq(PieceType)
          /\ Held(k, Parent, x) = Pair(ux, v) /\ Held(k, Own, x) = Pair(u, vx)
      BY <3>1, <3>2, Zenon DEF ux, vx
    <3> QED
      BY <3>3 DEF Source
  <2>3. PICK y \in Seq(PieceType), z \in Seq(PieceType) : Held(k, Source(l, k), x) = Pair(y, z)
    BY <2>2
  <2> DEFINE held == Held(k, Source(l, k), x)
             n == Whole(held)
             at(i) == IF bit[k] + (i - 1) \div Halves \in mask[k] THEN Own ELSE Parent
  <2>4. held[Parent] = y /\ held[Own] = z
    BY <2>3 DEF Pair, Parent, Own
  <2> HIDE DEF held
  <2>5. n \in Nat /\ n <= Len(y) /\ n <= Len(z)
    <3>1. n = Smaller(Len(y) \div 2, Len(z) \div 2) * 2
      BY <2>4 DEF Whole, Halves
    <3>0. PICK ly \in Nat, lz \in Nat : ly = Len(y) /\ lz = Len(z)
      BY <2>3
    <3>2. PICK a \in Nat : a = ly \div 2 /\ 2 * a <= ly
      OBVIOUS
    <3>3. PICK b \in Nat : b = lz \div 2 /\ 2 * b <= lz
      OBVIOUS
    <3> QED
      BY <3>0, <3>1, <3>2, <3>3 DEF Smaller
  <2> HIDE DEF n
  <2>6. ASSUME NEW i \in 1 .. n
        PROVE  held[at(i)][i] \in PieceType
    <3>1. i \in 1 .. Len(y) /\ i \in 1 .. Len(z)
      BY <2>5
    <3>2. y[i] \in PieceType /\ z[i] \in PieceType
      BY <3>1, ElementOfSeq
    <3> QED
      BY <2>4, <3>2
  <2> HIDE DEF at
  <2>7. Merged(k, held) = [i \in 1 .. n |-> held[at(i)][i]]
    BY Zenon DEF Merged, n, at
  <2>8. Merged(k, held) \in [1 .. n -> PieceType]
    BY <2>6, <2>7
  <2>9. Merged(k, held) \in Seq(PieceType)
    BY <2>5, <2>8
  <2> QED
    BY <1>2, <2>9 DEF Passed, held
<1> QED
  BY <1>1, <1>2

(* What the levels get, from the level of the file up to the upload.         *)
LEMMA ReachingFacts ==
  ASSUME BuffsOK, NEW l \in Levels, NEW data \in Seq(PieceType)
  PROVE  /\ \A k \in 0 .. l : Reaching(l, data)[k] \in Seq(PieceType)
         /\ Reaching(l, data)[l] = data
         /\ \A i \in 1 .. l :
              Reaching(l, data)[i - 1] = Passed(i, Source(l, i), Reaching(l, data)[i])
<1> DEFINE A == Seq(PieceType)
           Up(i, x) == Passed(i, Source(l, i), x)
<1>1. l \in Nat /\ 1 .. l \subseteq Levels
  BY ChainAssumption DEF Levels
<1>2. ASSUME NEW i \in 1 .. l, NEW x \in A
      PROVE  Up(i, x) \in A
  BY <1>1, PassedType
<1> DEFINE got[k \in 0 .. l] == IF k = l THEN data ELSE Up(k + 1, got[k + 1])
<1>3. Reaching(l, data) = got
  BY Zenon DEF Reaching, Up
<1> HIDE DEF Up, A
<1>4. got = [k \in 0 .. l |-> IF k = l THEN data ELSE Up(k + 1, got[k + 1])]
  <2> DEFINE F == [y \in (1 .. l) \X A |-> Up(y[1], y[2])]
  <2>1. F \in [(1 .. l) \X A -> A]
    BY <1>2
  <2>2. ASSUME NEW i \in 1 .. l, NEW x \in A
        PROVE  F[<<i, x>>] = Up(i, x)
    OBVIOUS
  <2>3. data \in A
    BY DEF A
  <2> HIDE DEF F, got
  <2>4. PICK h : RecursiveDown(h, A, l, data, F)
    BY <1>1, <2>1, <2>3, RecursionDown
  <2>5. h \in [0 .. l -> A] /\ h[l] = data /\ \A i \in 1 .. l : h[i - 1] = F[<<i, h[i]>>]
    BY <2>4 DEF RecursiveDown
  <2>6. ASSUME NEW k \in 0 .. l
        PROVE  h[k] = IF k = l THEN data ELSE Up(k + 1, h[k + 1])
    <3>1. CASE k = l
      BY <2>5, <3>1
    <3>2. CASE k # l
      <4>1. PICK i \in 1 .. l : i = k + 1 /\ i - 1 = k
        <5>1. k + 1 \in 1 .. l /\ (k + 1) - 1 = k
          BY <1>1, <3>2
        <5> QED
          BY <5>1
      <4>2. h[i] \in A /\ h[i - 1] = F[<<i, h[i]>>]
        BY <1>1, <2>5
      <4>3. F[<<i, h[i]>>] = Up(i, h[i])
        BY <2>2, <4>2, Zenon
      <4> QED
        BY <3>2, <4>1, <4>2, <4>3, Zenon
    <3> QED
      BY <3>1, <3>2
  <2>7. h = [k \in 0 .. l |-> IF k = l THEN data ELSE Up(k + 1, h[k + 1])]
    <3>1. h = [k \in 0 .. l |-> h[k]]
      BY <2>5
    <3> QED
      BY <2>6, <3>1, Zenon
  <2> QED
    BY <2>7, Zenon DEF got
<1> HIDE DEF got
<1>5. got[l] = data
  BY <1>1, <1>4
<1>6. ASSUME NEW i \in 1 .. l
      PROVE  got[i - 1] = Up(i, got[i])
  <2>1. PICK k \in 0 .. l : k = i - 1 /\ k + 1 = i /\ k # l
    <3>1. i - 1 \in 0 .. l /\ (i - 1) + 1 = i /\ i - 1 # l
      BY <1>1
    <3> QED
      BY <3>1
  <2>2. got[k] = Up(k + 1, got[k + 1])
    BY <1>4, <2>1, Zenon
  <2> QED
    BY <2>1, <2>2
<1> DEFINE S == {k \in 0 .. l : got[k] \in A}
<1>7. 0 .. l \subseteq S
  <2>1. l \in S
    BY <1>1, <1>5 DEF A
  <2>2. ASSUME NEW i \in 1 .. l, i \in S
        PROVE  i - 1 \in S
    <3>1. i - 1 \in 0 .. l
      BY <1>1
    <3> QED
      BY <1>2, <1>6, <2>2, <3>1
  <2> HIDE DEF S
  <2> QED
    BY <1>1, <2>1, <2>2, InductionDown
<1> QED
  BY <1>3, <1>5, <1>6, <1>7 DEF A, Up

(* The buffers hold pieces while every level follows.                      *)
LEMMA BuffsTyped ==
  ASSUME RangeOK, UnreadOK, NEW e \in Emissions, \A i \in Levels : LevelOK(e, i)
  PROVE  BuffsOK
<1> SUFFICES ASSUME NEW k \in Levels, Mode(k) = "merge"
             PROVE  \E u, v \in Seq(PieceType) : buffs[k] = Pair(u, v)
  BY DEF BuffsOK
<1>1. k \in 1 .. Depth /\ k \in 1 .. Depth + 1 /\ k + 1 \in 1 .. Depth + 1
  BY ChainAssumption DEF Levels
<1>2. PICK p \in Nat, o \in Nat : p = e[k + 1] /\ o = Delivered(k) /\ p <= Size /\ o <= Size
  <2>1. e[k + 1] \in 0 .. Size /\ Delivered(k) \in 0 .. Size
    BY <1>1 DEF Emissions, UnreadOK
  <2> QED
    BY <2>1, SizeFacts
<1>3. PICK a \in Nat : a = e[k] /\ a <= p /\ a <= o
  <2>1. e[k] = Joint(p, o)
    BY <1>2 DEF LevelOK
  <2> QED
    BY <2>1, JointFacts
<1>4. Slice(DataFrom(k + 1), a, p) \in Seq(PieceType) /\ Slice(FileContent(k), a, o) \in Seq(PieceType)
  <2>1. /\ DataFrom(k + 1) \in Seq(PieceType) /\ p <= Len(DataFrom(k + 1))
        /\ FileContent(k) \in Seq(PieceType) /\ o <= Len(FileContent(k))
    BY <1>1, <1>2, DataFacts, ContentFacts
  <2> QED
    BY <1>3, <2>1, SliceFacts
<1>5. buffs[k] = Pair(Slice(DataFrom(k + 1), a, p), Slice(FileContent(k), a, o))
  <2>1. buffs[k] = Two(k, a, p, o)
    BY <1>2, <1>3 DEF LevelOK
  <2> QED
    BY <2>1, Zenon DEF Two
<1> QED
  BY <1>4, <1>5

(* Level i passes on what follows, when the file of level l has delivered o  *)
(* pieces, the last of them data: c of its pieces instead of e.              *)
PassesOn(i, l, o, data, e, c) ==
  LET m == IF i = l THEN o ELSE Delivered(i)
      held == Held(i, Source(l, i), Reaching(l, data)[i])
  IN  /\ e[i] <= c[i] /\ c[i] <= Size
      /\ c[i] = PassedOn(i, c[i + 1], m)
      /\ Reaching(l, data)[i - 1] = Slice(DataFrom(i), e[i], c[i])
      /\ Mode(i) = "merge" =>
           /\ [j \in {Parent, Own} |-> From(held[j], Whole(held))] = Two(i, c[i], c[i + 1], m)
           /\ bit[i] + Whole(held) \div Halves = first + c[i] \div 2

(* onData(): from the level of the file up, each level passes on what        *)
(* follows.                                                                  *)
LEMMA FlowStep ==
  ASSUME RangeOK, UnreadOK, NEW e \in Emissions, \A i \in Levels : LevelOK(e, i),
         NEW l \in Levels, Active(l), Mode(l) # "parent",
         NEW o \in 0 .. Size, Delivered(l) <= o,
         NEW data, data = Slice(FileContent(l), Delivered(l), o)
  PROVE  \E c \in Emissions : /\ \A i \in l + 1 .. Depth + 1 : c[i] = e[i]
                              /\ \A i \in 1 .. l : PassesOn(i, l, o, data, e, c)
<1>1. /\ Size \in Nat /\ Depth \in Nat /\ l \in 1 .. Depth /\ l \in Nat
      /\ \A i \in 1 .. l : i \in Levels /\ i \in 1 .. Depth /\ i \in 1 .. Depth + 1 /\ i + 1 \in 1 .. Depth + 1
  BY SizeFacts, ChainAssumption DEF Levels
<1>2. /\ \A i \in 1 .. Depth + 1 : e[i] \in 0 .. Size
      /\ \A i \in Levels : Delivered(i) \in 0 .. Size
  BY DEF Emissions, UnreadOK
<1>3. data \in Seq(PieceType)
  <2>1. FileContent(l) \in Seq(PieceType) /\ o <= Len(FileContent(l))
    BY ContentFacts
  <2> QED
    BY <1>2, <2>1, SliceFacts
<1>4. BuffsOK
  BY BuffsTyped
<1> DEFINE got == Reaching(l, data)
           m(i) == IF i = l THEN o ELSE Delivered(i)
           c == [j \in 1 .. Depth + 1 |-> IF j <= l THEN e[j] + Len(got[j - 1]) ELSE e[j]]
           Good(i) == PassesOn(i, l, o, data, e, c)
<1>5. /\ \A k \in 0 .. l : got[k] \in Seq(PieceType)
      /\ got[l] = data
      /\ \A i \in 1 .. l : got[i - 1] = Passed(i, Source(l, i), got[i])
  BY <1>3, <1>4, ReachingFacts
<1>6. /\ \A i \in 1 .. l : c[i] = e[i] + Len(got[i - 1])
      /\ \A i \in l + 1 .. Depth + 1 : c[i] = e[i]
      /\ DOMAIN c = 1 .. Depth + 1 /\ c = [j \in 1 .. Depth + 1 |-> c[j]]
  BY <1>1
<1> HIDE DEF c
<1>7. ASSUME NEW i \in 1 .. l, i = l \/ Good(i + 1)
      PROVE  Good(i)
  <2>1. PICK p : p = c[i + 1] /\ p \in 0 .. Size /\ e[i + 1] <= p
    <3>1. CASE i = l
      <4>1. i + 1 \in l + 1 .. Depth + 1
        BY <1>1, <3>1
      <4>2. c[i + 1] = e[i + 1] /\ e[i + 1] \in 0 .. Size
        BY <1>1, <1>2, <1>6, <4>1
      <4> QED
        BY <4>2
    <3>2. CASE i # l
      <4>1. i + 1 \in 1 .. l
        BY <1>1, <3>2
      <4>2. c[i + 1] <= Size /\ e[i + 1] <= c[i + 1]
        BY <1>7, <3>2 DEF PassesOn
      <4>3. c[i + 1] = e[i + 1] + Len(got[(i + 1) - 1]) /\ got[i] \in Seq(PieceType) /\ (i + 1) - 1 = i
        <5>1. c[i + 1] = e[i + 1] + Len(got[(i + 1) - 1])
          BY <1>6, <4>1
        <5>2. got[i] \in Seq(PieceType)
          <6>1. i \in 0 .. l
            BY <1>1
          <6> QED
            BY <1>5, <6>1
        <5>3. (i + 1) - 1 = i
          BY <1>1
        <5> QED
          BY <5>1, <5>2, <5>3
      <4>4. c[i + 1] = e[i + 1] + Len(got[i]) /\ Len(got[i]) \in Nat /\ e[i + 1] \in 0 .. Size
        BY <1>1, <1>2, <4>3
      <4>5. c[i + 1] \in 0 .. Size
        <5> HIDE DEF got
        <5> QED
          BY <1>1, <4>2, <4>4
      <4> QED
        BY <4>2, <4>5
    <3> QED
      BY <3>1, <3>2
  <2>2. m(i) \in 0 .. Size /\ Delivered(i) <= m(i)
    BY <1>1, <1>2
  <2>3. \/ /\ i = l /\ p = e[i + 1] /\ Mode(i) # "parent"
           /\ got[i] = Slice(FileContent(i), Delivered(i), m(i))
        \/ /\ i # l /\ m(i) = Delivered(i) /\ Mode(i) \in {"parent", "merge"}
           /\ got[i] = Slice(DataFrom(i + 1), e[i + 1], p)
    <3>1. CASE i = l
      <4>1. i + 1 \in l + 1 .. Depth + 1
        BY <1>1, <3>1
      <4> QED
        BY <1>5, <1>6, <2>1, <3>1, <4>1
    <3>2. CASE i # l
      <4>1. Mode(i) \in {"parent", "merge"}
        <5>1. i \in 1 .. l - 1
          BY <1>1, <3>2
        <5> QED
          BY <5>1 DEF Active
      <4>2. got[(i + 1) - 1] = Slice(DataFrom(i + 1), e[i + 1], c[i + 1])
        BY <1>7, <3>2 DEF PassesOn
      <4>3. (i + 1) - 1 = i
        BY <1>1
      <4> QED
        BY <2>1, <3>2, <4>1, <4>2, <4>3
    <3> QED
      BY <3>1, <3>2
  <2> DEFINE q == m(i)
             x == got[i]
  <2>4. LevelOK(e, i) /\ i \in Levels
    BY <1>1
  <2> HIDE DEF m, q, got, Good
  <2>5. /\ e[i] <= PassedOn(i, p, q) /\ PassedOn(i, p, q) \in 0 .. Size
        /\ Passed(i, Source(l, i), x) = Slice(DataFrom(i), e[i], PassedOn(i, p, q))
        /\ Mode(i) = "merge" =>
             LET held == Held(i, Source(l, i), x)
             IN  /\ [j \in {Parent, Own} |-> From(held[j], Whole(held))]
                      = Two(i, PassedOn(i, p, q), p, q)
                 /\ bit[i] + Whole(held) \div Halves = first + PassedOn(i, p, q) \div 2
    <3>1. q \in 0 .. Size /\ Delivered(i) <= q
      BY <2>2 DEF q
    <3>2. \/ /\ i = l /\ p = e[i + 1] /\ Mode(i) # "parent"
             /\ x = Slice(FileContent(i), Delivered(i), q)
          \/ /\ i # l /\ q = Delivered(i) /\ Mode(i) \in {"parent", "merge"}
             /\ x = Slice(DataFrom(i + 1), e[i + 1], p)
      BY <2>3 DEF q
    <3>3. p \in 0 .. Size /\ e[i + 1] <= p
      BY <2>1
    <3> HIDE DEF q, x
    <3> QED
      BY ONLY RangeOK, UnreadOK, e \in Emissions, l \in Levels, <2>4, <3>1, <3>2, <3>3, LevelStep
  <2> DEFINE w == PassedOn(i, p, q)
  <2>6. got[i - 1] = Slice(DataFrom(i), e[i], w)
    BY <1>5, <2>5 DEF x
  <2>7. c[i] = w
    <3>1. DataFrom(i) \in Seq(PieceType) /\ Len(DataFrom(i)) = Size
      BY <1>1, DataFacts
    <3>2. PICK a \in Nat : a = e[i] /\ a <= Size
      BY <1>1, <1>2
    <3>3. w \in Nat /\ a <= w /\ w <= Size
      BY <2>5, <3>2
    <3> HIDE DEF w
    <3> DEFINE d == DataFrom(i)
               g == got[i - 1]
    <3>6. d \in Seq(PieceType) /\ w <= Len(d) /\ g = Slice(d, a, w)
      BY <2>6, <3>1, <3>2, <3>3
    <3> HIDE DEF d, g
    <3>7. Len(g) = w - a
      BY <3>2, <3>3, <3>6, SliceFacts
    <3>4. Len(got[i - 1]) = w - a
      BY <3>7 DEF g
    <3>5. c[i] = a + Len(got[i - 1])
      BY <1>6, <3>2
    <3> QED
      BY <3>3, <3>4, <3>5
  <2>8. e[i] <= c[i] /\ c[i] <= Size
    BY <1>1, <2>5, <2>7
  <2>9. c[i] = PassedOn(i, c[i + 1], q)
    BY <2>1, <2>7
  <2>10. Mode(i) = "merge" =>
           LET held == Held(i, Source(l, i), x)
           IN  /\ [j \in {Parent, Own} |-> From(held[j], Whole(held))] = Two(i, c[i], c[i + 1], q)
               /\ bit[i] + Whole(held) \div Halves = first + c[i] \div 2
    BY <2>1, <2>5, <2>7
  <2>11. got[i - 1] = Slice(DataFrom(i), e[i], c[i])
    BY <2>6, <2>7
  <2> QED
    BY <2>8, <2>9, <2>10, <2>11, Zenon DEF PassesOn, Good, q, m, x, got
<1> HIDE DEF Good, got
<1> DEFINE S == {k \in 0 .. l : k = l \/ Good(k + 1)}
<1>8. 0 .. l \subseteq S
  <2>1. l \in S
    BY <1>1
  <2>2. ASSUME NEW i \in 1 .. l, i \in S
        PROVE  i - 1 \in S
    <3>1. Good(i) /\ i - 1 \in 0 .. l /\ (i - 1) + 1 = i
      BY <1>1, <1>7, <2>2
    <3> QED
      BY <3>1
  <2> HIDE DEF S
  <2> QED
    BY <1>1, <2>1, <2>2, InductionDown
<1>9. \A i \in 1 .. l : Good(i)
  <2>1. ASSUME NEW i \in 1 .. l
        PROVE  Good(i)
    <3>1. i - 1 \in 0 .. l /\ i - 1 # l /\ (i - 1) + 1 = i
      BY <1>1
    <3>2. Good((i - 1) + 1)
      BY <1>8, <3>1
    <3> QED
      BY <3>1, <3>2
  <2> QED
    BY <2>1
<1>10. c \in Emissions
  <2>1. ASSUME NEW j \in 1 .. Depth + 1
        PROVE  c[j] \in 0 .. Size
    <3>1. CASE j \in 1 .. l
      <4>1. c[j] = e[j] + Len(got[j - 1]) /\ got[j - 1] \in Seq(PieceType)
        <5>1. j - 1 \in 0 .. l
          BY <1>1, <3>1
        <5> QED
          BY <1>5, <1>6, <3>1, <5>1
      <4>2. c[j] <= Size
        BY <1>9, <3>1 DEF Good, PassesOn
      <4>3. Len(got[j - 1]) \in Nat /\ e[j] \in 0 .. Size
        BY <1>2, <4>1
      <4> QED
        BY <1>1, <4>1, <4>2, <4>3
    <3>2. CASE j \notin 1 .. l
      <4>1. j \in l + 1 .. Depth + 1
        BY <1>1, <3>2
      <4> QED
        BY <1>2, <1>6, <4>1
    <3> QED
      BY <3>1, <3>2
  <2> QED
    BY <1>6, <2>1, Zenon DEF Emissions
<1> QED
  BY <1>6, <1>9, <1>10 DEF Good

(* What the levels have passed on, and with it the upload, is the data of    *)
(* the chain.                                                                *)
Follows(e) ==
  /\ \A i \in Levels : LevelOK(e, i)
  /\ out = Slice(DataFrom(1), 0, e[1])

(* The levels after a step that keeps the range.                           *)
LEMMA LevelsPrimed ==
  ASSUME UNCHANGED range, NEW e
  PROVE  /\ Emissions' = Emissions
         /\ \A i : Delivered(i)' = Size - Len(unread'[i])
         /\ UnreadOK' <=> \A i \in Levels :
              /\ Delivered(i)' \in 0 .. Size
              /\ unread'[i] = Slice(FileContent(i), Delivered(i)', Size)
         /\ \A i : LevelOK(e, i)' <=>
              /\ Mode(i) \in {"own", "zeros"} => e[i] = Delivered(i)'
              /\ Mode(i) = "parent" => e[i] = e[i + 1]
              /\ Mode(i) = "merge" =>
                   /\ e[i] = Joint(e[i + 1], Delivered(i)')
                   /\ buffs'[i] = Two(i, e[i], e[i + 1], Delivered(i)')
                   /\ bit'[i] = first + e[i] \div 2
<1>1. /\ Size' = Size
      /\ \A i : Mode(i)' = Mode(i)
      /\ \A i : FileContent(i)' = FileContent(i)
      /\ \A i : DataFrom(i)' = DataFrom(i)
      /\ first' = first
  BY RangeStays DEF range
<1>2. Emissions' = Emissions
  BY <1>1 DEF Emissions
<1>3. \A i : Delivered(i)' = Size - Len(unread'[i])
  BY <1>1 DEF Delivered
<1>4. UnreadOK' <=> \A i \in Levels :
        /\ Delivered(i)' \in 0 .. Size
        /\ unread'[i] = Slice(FileContent(i), Delivered(i)', Size)
  <2>1. UnreadOK' <=> \A i \in Levels :
          /\ Delivered(i)' \in 0 .. Size'
          /\ unread'[i] = Slice(FileContent(i)', Delivered(i)', Size')
    BY Zenon DEF UnreadOK
  <2>2. ASSUME NEW i
        PROVE  Slice(FileContent(i)', Delivered(i)', Size') = Slice(FileContent(i), Delivered(i)', Size)
    BY <1>1, Zenon
  <2> QED
    BY <1>1, <2>1, <2>2, Zenon
<1>5. ASSUME NEW i, NEW a, NEW p, NEW o
      PROVE  Two(i, a, p, o)' = Two(i, a, p, o)
  <2>1. Two(i, a, p, o)' = Pair(Slice(DataFrom(i + 1)', a, p), Slice(FileContent(i)', a, o))
    BY Zenon DEF Two
  <2> QED
    BY <1>1, <2>1, Zenon DEF Two
<1>6. ASSUME NEW i
      PROVE  LevelOK(e, i)' <=>
              /\ Mode(i) \in {"own", "zeros"} => e[i] = Delivered(i)'
              /\ Mode(i) = "parent" => e[i] = e[i + 1]
              /\ Mode(i) = "merge" =>
                   /\ e[i] = Joint(e[i + 1], Delivered(i)')
                   /\ buffs'[i] = Two(i, e[i], e[i + 1], Delivered(i)')
                   /\ bit'[i] = first + e[i] \div 2
  <2> DEFINE d == Delivered(i)
  <2>1. Two(i, e[i], e[i + 1], d)' = Pair(Slice(DataFrom(i + 1)', e[i], e[i + 1]), Slice(FileContent(i)', e[i], d'))
    BY Zenon DEF Two
  <2>2. Two(i, e[i], e[i + 1], d)' = Two(i, e[i], e[i + 1], d')
    BY <1>1, <2>1, Zenon DEF Two
  <2>3. LevelOK(e, i)' <=>
              /\ Mode(i)' \in {"own", "zeros"} => e[i] = d'
              /\ Mode(i)' = "parent" => e[i] = e[i + 1]
              /\ Mode(i)' = "merge" =>
                   /\ e[i] = Joint(e[i + 1], d')
                   /\ buffs'[i] = Two(i, e[i], e[i + 1], d)'
                   /\ bit'[i] = first' + e[i] \div 2
    BY Zenon DEF LevelOK
  <2> QED
    BY <1>1, <2>2, <2>3, Zenon
<1> QED
  BY <1>2, <1>3, <1>4, <1>6

(* onData() keeps the levels, and the upload, in step.                     *)
LEMMA DataStep ==
  ASSUME RangeOK, UnreadOK, NEW e \in Emissions, Follows(e),
         NEW l \in Levels, Active(l), Mode(l) # "parent",
         NEW o \in 0 .. Size, Delivered(l) <= o,
         OnData(l, Slice(FileContent(l), Delivered(l), o)),
         unread \in [Levels -> Seq(PieceType)],
         unread' = [unread EXCEPT ![l] = Slice(FileContent(l), o, Size)],
         UNCHANGED range
  PROVE  UnreadOK' /\ \E c \in Emissions : Follows(c)'
<1>1. /\ Size \in Nat /\ Depth \in Nat /\ l \in 1 .. Depth /\ l \in Nat /\ Levels = 1 .. Depth
      /\ 1 \in 1 .. Depth /\ 1 \in 1 .. l /\ 1 \in 1 .. Depth + 1
  BY SizeFacts, ChainAssumption DEF Levels
<1> DEFINE data == Slice(FileContent(l), Delivered(l), o)
<1>2. PICK c \in Emissions : /\ \A i \in l + 1 .. Depth + 1 : c[i] = e[i]
                             /\ \A i \in 1 .. l : PassesOn(i, l, o, data, e, c)
  BY FlowStep DEF Follows
<1>3. FileContent(l) \in Seq(PieceType) /\ Len(FileContent(l)) = Size
  BY ContentFacts
<1>4. Delivered(l)' = o /\ \A i \in Levels : i # l => Delivered(i)' = Delivered(i) /\ unread'[i] = unread[i]
  <2>1. \A i : Delivered(i)' = Size - Len(unread'[i])
    BY LevelsPrimed
  <2>2. Len(Slice(FileContent(l), o, Size)) = Size - o
    BY <1>1, <1>3, SliceFacts
  <2>3. unread'[l] = Slice(FileContent(l), o, Size) /\ \A i \in Levels : i # l => unread'[i] = unread[i]
    OBVIOUS
  <2>4. Size - (Size - o) = o
    BY <1>1
  <2> QED
    BY <2>1, <2>2, <2>3, <2>4 DEF Delivered
<1>5. UnreadOK'
  <2>1. unread'[l] = Slice(FileContent(l), o, Size)
    OBVIOUS
  <2>2. ASSUME NEW i \in Levels
        PROVE  Delivered(i)' \in 0 .. Size /\ unread'[i] = Slice(FileContent(i), Delivered(i)', Size)
    BY <1>4, <2>1 DEF UnreadOK
  <2> QED
    BY <2>2, LevelsPrimed
<1> DEFINE got == Reaching(l, data)
           held(k) == Held(k, Source(l, k), got[k])
           Merges(k) == k <= l /\ Mode(k) = "merge"
<1> HIDE DEF data
<1>6. /\ buffs' = [k \in Levels |->
                     IF Merges(k) THEN [i \in {Parent, Own} |-> From(held(k)[i], Whole(held(k)))]
                     ELSE buffs[k]]
      /\ bit' = [k \in Levels |->
                   IF Merges(k) THEN bit[k] + Whole(held(k)) \div Halves ELSE bit[k]]
      /\ out' = out \o got[0]
  BY Zenon DEF OnData, data
<1> HIDE DEF got, held
<1>7. ASSUME NEW i \in Levels
      PROVE  LevelOK(c, i)'
  <2> DEFINE m == IF i = l THEN o ELSE Delivered(i)
  <2>1. Delivered(i)' = m
    BY <1>4
  <2>2. CASE i <= l
    <3>1. i \in 1 .. l
      BY <1>1, <2>2
    <3>2. PassesOn(i, l, o, data, e, c)
      BY <1>2, <3>1
    <3>3. /\ c[i] = PassedOn(i, c[i + 1], m)
          /\ Mode(i) = "merge" =>
               /\ [j \in {Parent, Own} |-> From(held(i)[j], Whole(held(i)))] = Two(i, c[i], c[i + 1], m)
               /\ bit[i] + Whole(held(i)) \div Halves = first + c[i] \div 2
      BY <3>2, Zenon DEF PassesOn, held, got
    <3>4. Mode(i) = "merge" =>
            /\ buffs'[i] = [j \in {Parent, Own} |-> From(held(i)[j], Whole(held(i)))]
            /\ bit'[i] = bit[i] + Whole(held(i)) \div Halves
      BY <1>6, <2>2
    <3> HIDE DEF m
    <3>5. /\ Mode(i) \in {"own", "zeros"} => c[i] = m
          /\ Mode(i) = "parent" => c[i] = c[i + 1]
          /\ Mode(i) = "merge" =>
               /\ c[i] = Joint(c[i + 1], m)
               /\ buffs'[i] = Two(i, c[i], c[i + 1], m)
               /\ bit'[i] = first + c[i] \div 2
      BY <3>3, <3>4, Zenon DEF PassedOn
    <3> QED
      BY <2>1, <3>5, LevelsPrimed
  <2>3. CASE ~(i <= l)
    <3>1. i \in l + 1 .. Depth + 1 /\ i + 1 \in l + 1 .. Depth + 1 /\ i # l
      BY <1>1, <2>3
    <3>2. c[i] = e[i] /\ c[i + 1] = e[i + 1] /\ Delivered(i)' = Delivered(i)
      BY <1>2, <1>4, <3>1
    <3>3. buffs'[i] = buffs[i] /\ bit'[i] = bit[i]
      BY <1>6, <2>3
    <3>4. LevelOK(e, i)
      BY DEF Follows
    <3>5. /\ Mode(i) \in {"own", "zeros"} => c[i] = Delivered(i)'
          /\ Mode(i) = "parent" => c[i] = c[i + 1]
          /\ Mode(i) = "merge" =>
               /\ c[i] = Joint(c[i + 1], Delivered(i)')
               /\ buffs'[i] = Two(i, c[i], c[i + 1], Delivered(i)')
               /\ bit'[i] = first + c[i] \div 2
      BY <3>2, <3>3, <3>4, Zenon DEF LevelOK
    <3> QED
      BY <3>5, LevelsPrimed
  <2> QED
    BY <2>2, <2>3
<1>8. out' = Slice(DataFrom(1), 0, c[1])
  <2>1. PassesOn(1, l, o, data, e, c)
    BY <1>1, <1>2
  <2>2. e[1] <= c[1] /\ c[1] <= Size /\ got[1 - 1] = Slice(DataFrom(1), e[1], c[1])
    BY <2>1 DEF PassesOn, got
  <2>3. got[0] = Slice(DataFrom(1), e[1], c[1])
    <3>1. 1 - 1 = 0
      OBVIOUS
    <3> QED
      BY <2>2, <3>1
  <2>4. PICK a \in Nat, b \in Nat : a = e[1] /\ b = c[1]
    <3>1. e[1] \in 0 .. Size /\ c[1] \in 0 .. Size
      BY <1>1 DEF Emissions
    <3> QED
      BY <1>1, <3>1
  <2>5. DataFrom(1) \in Seq(PieceType) /\ b <= Len(DataFrom(1)) /\ a <= b
    BY <1>1, <2>2, <2>4, DataFacts
  <2>6. Slice(DataFrom(1), 0, a) \o Slice(DataFrom(1), a, b) = Slice(DataFrom(1), 0, b)
    BY <2>5, JoinSlices
  <2>7. out = Slice(DataFrom(1), 0, a)
    BY <2>4 DEF Follows
  <2> QED
    BY <1>6, <2>3, <2>4, <2>6, <2>7, Zenon
<1>9. Follows(c)'
  <2>1. DataFrom(1)' = DataFrom(1)
    BY RangeStays
  <2>2. out' = Slice(DataFrom(1)', 0, c[1])
    BY <1>8, <2>1, Zenon
  <2> QED
    BY <1>7, <2>2, Zenon DEF Follows
<1> QED
  BY <1>5, <1>9

(* The upload hears of the end only when everything has been passed on.      *)
LEMMA EndStep ==
  ASSUME RangeOK, UNCHANGED range, UnreadOK',
         NEW c \in Emissions, \A i \in Levels : LevelOK(c, i)',
         NEW l \in Levels, Active(l), Mode(l) # "parent", unread'[l] = << >>, 0 \in Hears(l)
  PROVE  c[1] = Size
<1>1. /\ Size \in Nat /\ Depth \in Nat /\ l \in 1 .. Depth /\ l \in Nat /\ 1 \in 1 .. l
      /\ \A i \in 1 .. l : i \in Levels /\ i \in 1 .. Depth /\ i \in 1 .. Depth + 1 /\ i + 1 \in 1 .. Depth + 1
  BY SizeFacts, ChainAssumption DEF Levels
<1>2. \A i \in 1 .. l : Mode(i) = "merge" => buffs'[i][Parent] = << >> /\ buffs'[i][Own] = << >>
  <2>1. \A i \in 0 + 1 .. l : ~HasLeftOver(i)
    BY DEF Hears
  <2> QED
    BY <2>1 DEF HasLeftOver
<1>3. /\ \A i \in 1 .. Depth + 1 : c[i] \in 0 .. Size
      /\ \A i \in Levels : Delivered(i)' \in 0 .. Size
      /\ Delivered(l)' = Size
  <2>1. \A i \in 1 .. Depth + 1 : c[i] \in 0 .. Size
    BY DEF Emissions
  <2>2. \A i \in Levels : Delivered(i)' \in 0 .. Size
    BY LevelsPrimed
  <2>3. Delivered(l)' = Size - Len(unread'[l])
    BY LevelsPrimed
  <2>4. Len(unread'[l]) = 0
    OBVIOUS
  <2> QED
    BY <1>1, <2>1, <2>2, <2>3, <2>4
<1>4. ASSUME NEW i \in 1 .. l, i = l \/ c[i + 1] = Size
      PROVE  c[i] = Size
  <2>1. /\ Mode(i) \in {"own", "zeros"} => c[i] = Delivered(i)'
        /\ Mode(i) = "parent" => c[i] = c[i + 1]
        /\ Mode(i) = "merge" =>
             /\ c[i] = Joint(c[i + 1], Delivered(i)')
             /\ buffs'[i] = Two(i, c[i], c[i + 1], Delivered(i)')
    <3>1. LevelOK(c, i)'
      BY <1>1
    <3> QED
      BY <3>1, LevelsPrimed
  <2>2. i # l => Mode(i) \in {"parent", "merge"}
    <3>1. i # l => i \in 1 .. l - 1
      BY <1>1
    <3> QED
      BY <3>1 DEF Active
  <2>3. Mode(i) \in {"own", "zeros", "parent", "merge"}
    BY <1>1, ModeFacts
  <2>4. CASE Mode(i) # "merge"
    BY <1>3, <1>4, <2>1, <2>2, <2>3, <2>4
  <2>5. CASE Mode(i) = "merge"
    <3>1. PICK p \in Nat, o \in Nat : p = c[i + 1] /\ o = Delivered(i)' /\ p <= Size /\ o <= Size
      <4>1. c[i + 1] \in 0 .. Size /\ Delivered(i)' \in 0 .. Size
        BY <1>1, <1>3
      <4> QED
        BY <1>1, <4>1
    <3>2. PICK a \in Nat : a = c[i] /\ a <= p /\ a <= o
      <4>1. c[i] = Joint(p, o)
        BY <2>1, <2>5, <3>1
      <4> QED
        BY <4>1, JointFacts
    <3>3. i < Depth /\ i \in Levels
      BY <1>1, <2>5, ModeFacts
    <3>4. Len(Two(i, a, p, o)[Parent]) = p - a /\ Len(Two(i, a, p, o)[Own]) = o - a
      <4>1. a <= p /\ a <= o /\ p <= Size /\ o <= Size
        BY <3>1, <3>2
      <4> QED
        BY ONLY RangeOK, a \in Nat, p \in Nat, o \in Nat, <3>3, <4>1, TwoFacts
    <3>5. Two(i, a, p, o)[Parent] = << >> /\ Two(i, a, p, o)[Own] = << >>
      BY <1>2, <2>1, <2>5, <3>1, <3>2
    <3>6. p = a /\ o = a
      <4>1. p - a = 0 /\ o - a = 0
        BY <3>4, <3>5
      <4> QED
        BY <4>1
    <3> QED
      BY <1>3, <1>4, <3>1, <3>2, <3>6
  <2> QED
    BY <2>4, <2>5
<1> DEFINE S == {k \in 0 .. l : k = l \/ c[k + 1] = Size}
<1>5. 0 .. l \subseteq S
  <2>1. l \in S
    BY <1>1
  <2>2. ASSUME NEW i \in 1 .. l, i \in S
        PROVE  i - 1 \in S
    <3>1. c[i] = Size /\ i - 1 \in 0 .. l /\ (i - 1) + 1 = i
      BY <1>1, <1>4, <2>2
    <3> QED
      BY <3>1
  <2> HIDE DEF S
  <2> QED
    BY <1>1, <2>1, <2>2, InductionDown
<1>6. 0 \in S /\ 0 # l
  BY <1>1, <1>5
<1> QED
  BY <1>6

(* The inductive invariant: what has been passed on anywhere in the chain is *)
(* the beginning of what is to be delivered there; all of it at the end.     *)
ReadingInv ==
  /\ RangeOK
  /\ UnreadOK
  /\ unread \in [Levels -> Seq(PieceType)]
  /\ \E e \in Emissions : Follows(e) /\ (over = "end" => e[1] = Size)

(* A slice of nothing.                                                     *)
LEMMA EmptySlice ==
  ASSUME NEW x, NEW a \in Int
  PROVE  Slice(x, a, a) = << >>
<1> DEFINE F == [i \in {} |-> x[a + i]]
<1>1. Slice(x, a, a) = F
  <2>1. 1 .. a - a = {}
    OBVIOUS
  <2> QED
    BY <2>1, Zenon DEF Slice
<1>2. F \in Seq({}) /\ Len(F) = 0
  <2>1. F \in [1 .. 0 -> {}]
    OBVIOUS
  <2>2. F \in Seq({}) 
    BY <2>1
  <2> HIDE DEF F
  <2>3. DOMAIN F = 1 .. Len(F) /\ DOMAIN F = 1 .. 0 /\ Len(F) \in Nat
    BY <2>1, <2>2, LenProperties
  <2> QED
    BY <2>2, <2>3
<1> HIDE DEF F
<1>3. F = << >>
  BY <1>2
<1> QED
  BY <1>1, <1>3

(* The first pieces of a sequence.                                         *)
LEMMA FirstPieces ==
  ASSUME NEW x \in Seq(PieceType), NEW n \in Nat, n <= Len(x)
  PROVE  /\ Slice(x, 0, n) = SubSeq(x, 1, n) /\ Len(Slice(x, 0, n)) = n
         /\ Len(x) = n => Slice(x, 0, n) = x
<1>1. PICK a \in Nat : a = 0 /\ a <= n /\ n - a = n /\ a + 1 = 1
  OBVIOUS
<1>2. Slice(x, a, n) = SubSeq(x, a + 1, n) /\ Len(Slice(x, a, n)) = n - a
  BY <1>1, SliceFacts, SubSeqIsSlice
<1>3. Len(x) = n => SubSeq(x, 1, n) = x
  OBVIOUS
<1> QED
  BY <1>1, <1>2, <1>3

(* Nothing has been passed on at first.                                    *)
LEMMA ReadingInitInv ==
  ASSUME ReadingInit
  PROVE  ReadingInv
<1>1. RangeOK
  BY DEF ReadingInit, RangeOK
<1>2. /\ Size \in Nat /\ Depth \in Nat /\ Levels = 1 .. Depth
      /\ \A l \in Levels : l + 1 \in 1 .. Depth + 1 /\ l \in 1 .. Depth + 1
      /\ 1 \in 1 .. Depth + 1
  BY <1>1, SizeFacts, ChainAssumption DEF Levels
<1>3. \A l \in Levels : /\ unread[l] = FileContent(l) /\ FileContent(l) \in Seq(PieceType)
                        /\ Len(FileContent(l)) = Size
  BY <1>1, ContentFacts DEF ReadingInit
<1>4. unread \in [Levels -> Seq(PieceType)]
  <2>1. unread = [l \in Levels |-> FileContent(l)]
    BY DEF ReadingInit
  <2> QED
    BY <1>3, <2>1
<1>5. \A l \in Levels : Delivered(l) = 0
  BY <1>2, <1>3 DEF Delivered
<1>6. UnreadOK
  <2>1. ASSUME NEW l \in Levels
        PROVE  unread[l] = Slice(FileContent(l), 0, Size)
    <3> DEFINE x == FileContent(l)
    <3>1. x \in Seq(PieceType) /\ Len(x) = Size /\ unread[l] = x
      BY <1>3
    <3> HIDE DEF x
    <3>2. PICK n \in Nat : n = Size
      BY <1>2
    <3>3. Slice(x, 0, n) = x
      BY <3>1, <3>2, FirstPieces
    <3> QED
      BY <3>1, <3>2, <3>3 DEF x
  <2> QED
    BY <1>2, <1>5, <2>1 DEF UnreadOK
<1> DEFINE e == [l \in 1 .. Depth + 1 |-> 0]
<1>7. e \in Emissions /\ e[1] = 0 /\ \A l \in Levels : e[l] = 0 /\ e[l + 1] = 0
  BY <1>2 DEF Emissions
<1> HIDE DEF e
<1>8. ASSUME NEW l \in Levels
      PROVE  LevelOK(e, l)
  <2>1. Joint(0, 0) = 0
    <3>1. Joint(0, 0) \in Nat /\ Joint(0, 0) <= 0
      BY JointFacts
    <3> QED
      BY <3>1
  <2>2. Two(l, 0, 0, 0) = Pair(<< >>, << >>)
    BY EmptySlice DEF Two
  <2>3. buffs[l] = Pair(<< >>, << >>)
    <3>1. buffs[l] = [source \in {Parent, Own} |-> << >>]
      BY DEF ReadingInit
    <3> QED
      BY <3>1 DEF Pair
  <2>4. bit[l] = first + 0 \div 2
    <3>1. bit[l] = first /\ first \in Nat
      BY <1>1, SizeFacts DEF ReadingInit, StartBit
    <3> QED
      BY <3>1
  <2> QED
    BY <1>5, <1>7, <2>1, <2>2, <2>3, <2>4, Zenon DEF LevelOK
<1>9. out = Slice(DataFrom(1), 0, e[1])
  BY <1>7, EmptySlice DEF ReadingInit
<1>10. over # "end"
  BY DEF ReadingInit
<1> QED
  BY <1>1, <1>4, <1>6, <1>7, <1>8, <1>9, <1>10 DEF ReadingInv, Follows

(* A step that delivers nothing.                                             *)
LEMMA NothingDelivered ==
  ASSUME RangeOK, UnreadOK, NEW e \in Emissions, Follows(e),
         UNCHANGED <<range, unread, buffs, bit, out>>
  PROVE  RangeOK' /\ UnreadOK' /\ Follows(e)'
<1>1. RangeOK'
  BY RangeStays
<1>2. \A l \in Levels : Delivered(l)' = Delivered(l)
  BY LevelsPrimed DEF Delivered
<1>3. UnreadOK'
  <2>1. \A l \in Levels : /\ Delivered(l)' \in 0 .. Size
                          /\ unread'[l] = Slice(FileContent(l), Delivered(l)', Size)
    BY <1>2 DEF UnreadOK
  <2> QED
    BY <2>1, LevelsPrimed
<1>4. ASSUME NEW l \in Levels
      PROVE  LevelOK(e, l)'
  <2>1. LevelOK(e, l)
    BY DEF Follows
  <2>2. /\ Mode(l) \in {"own", "zeros"} => e[l] = Delivered(l)'
        /\ Mode(l) = "parent" => e[l] = e[l + 1]
        /\ Mode(l) = "merge" =>
             /\ e[l] = Joint(e[l + 1], Delivered(l)')
             /\ buffs'[l] = Two(l, e[l], e[l + 1], Delivered(l)')
             /\ bit'[l] = first + e[l] \div 2
    BY <1>2, <2>1 DEF LevelOK
  <2> QED
    BY <2>2, LevelsPrimed
<1>5. out' = Slice(DataFrom(1)', 0, e[1])
  <2>1. DataFrom(1)' = DataFrom(1)
    BY RangeStays
  <2> QED
    BY <2>1 DEF Follows
<1> QED
  BY <1>1, <1>3, <1>4, <1>5, Zenon DEF Follows

(* Every step keeps the invariant.                                         *)
LEMMA ReadingStepInv ==
  ASSUME ReadingInv, [ReadingNext]_readingVars
  PROVE  ReadingInv'
<1> USE DEF ReadingInv
<1>1. Size \in Nat /\ \A l \in Levels : /\ Delivered(l) \in 0 .. Size /\ Len(unread[l]) = Size - Delivered(l)
                                        /\ unread[l] = Slice(FileContent(l), Delivered(l), Size)
                                        /\ FileContent(l) \in Seq(PieceType) /\ Len(FileContent(l)) = Size
  <2>1. Size \in Nat
    BY SizeFacts
  <2>2. ASSUME NEW l \in Levels
        PROVE  /\ Delivered(l) \in 0 .. Size /\ Len(unread[l]) = Size - Delivered(l)
               /\ unread[l] = Slice(FileContent(l), Delivered(l), Size)
               /\ FileContent(l) \in Seq(PieceType) /\ Len(FileContent(l)) = Size
    <3>1. Delivered(l) \in 0 .. Size /\ unread[l] = Slice(FileContent(l), Delivered(l), Size)
      BY DEF UnreadOK
    <3>2. FileContent(l) \in Seq(PieceType) /\ Len(FileContent(l)) = Size
      BY ContentFacts
    <3>3. Len(unread[l]) = Size - Delivered(l)
      <4>1. PICK a \in Nat, b \in Nat : a = Delivered(l) /\ b = Size /\ a <= b
        BY <2>1, <3>1
      <4> DEFINE x == FileContent(l)
      <4>2. x \in Seq(PieceType) /\ b <= Len(x) /\ unread[l] = Slice(x, a, b)
        BY <3>1, <3>2, <4>1
      <4> HIDE DEF x
      <4>3. Len(Slice(x, a, b)) = b - a
        BY <4>1, <4>2, SliceFacts
      <4> QED
        BY <4>1, <4>2, <4>3
    <3> QED
      BY <3>1, <3>2, <3>3
  <2> QED
    BY <2>1, <2>2
<1>2. PICK e \in Emissions : Follows(e) /\ (over = "end" => e[1] = Size)
  OBVIOUS
<1>3. ASSUME NEW l \in Levels, FileData(l)
      PROVE  ReadingInv'
  <2>1. /\ Active(l) /\ Mode(l) # "parent" /\ over = "no"
        /\ UNCHANGED <<range, ended, over>>
    BY <1>3 DEF FileData, Reads
  <2>2. PICK n \in 1 .. Len(unread[l]) :
          /\ OnData(l, SubSeq(unread[l], 1, n))
          /\ unread' = [unread EXCEPT ![l] = From(@, n)]
    BY <1>3 DEF FileData
  <2> DEFINE x == FileContent(l)
             d == Delivered(l)
  <2>3. PICK o \in 0 .. Size : o = d + n
    BY <1>1
  <2>4. SubSeq(unread[l], 1, n) = Slice(x, d, o) /\ From(unread[l], n) = Slice(x, o, Size)
    <3>1. PICK a \in Nat, b \in Nat, k \in Nat : a = d /\ b = Size /\ k = n /\ a + k <= b /\ o = a + k
      BY <1>1, <2>3
    <3>2. b <= Len(x) /\ x \in Seq(PieceType) /\ unread[l] = Slice(x, a, b)
      BY <1>1, <3>1
    <3> HIDE DEF x, d
    <3>3. From(Slice(x, a, b), k) = Slice(x, a + k, b) /\ SubSeq(Slice(x, a, b), 1, k) = Slice(x, a, a + k)
      BY <3>1, <3>2, CutSlice
    <3> QED
      BY <3>1, <3>2, <3>3, Zenon
  <2>5. /\ OnData(l, Slice(FileContent(l), Delivered(l), o))
        /\ unread' = [unread EXCEPT ![l] = Slice(FileContent(l), o, Size)]
        /\ Delivered(l) <= o
    <3>1. OnData(l, Slice(FileContent(l), Delivered(l), o))
      BY <2>2, <2>4, Zenon
    <3>2. unread' = [unread EXCEPT ![l] = Slice(FileContent(l), o, Size)]
      BY <2>2, <2>4, Zenon
    <3>3. Delivered(l) <= o
      BY <1>1, <2>3
    <3> QED
      BY <3>1, <3>2, <3>3, Zenon
  <2>6. UnreadOK' /\ \E c \in Emissions : Follows(c)'
    BY <1>2, <2>1, <2>5, DataStep
  <2>7. RangeOK' /\ Emissions' = Emissions
    BY <2>1, RangeStays, LevelsPrimed
  <2>8. unread' \in [Levels -> Seq(PieceType)]
    <3>1. Slice(FileContent(l), o, Size) \in Seq(PieceType)
      BY <1>1, SliceFacts
    <3> QED
      BY <2>5, <3>1
  <2>9. over' # "end"
    BY <2>1
  <2> QED
    BY <2>6, <2>7, <2>8, <2>9
<1>4. ASSUME NEW l \in Levels, FileEnd(l)
      PROVE  ReadingInv'
  <2>1. /\ Active(l) /\ Mode(l) # "parent" /\ over = "no" /\ unread[l] = << >>
        /\ UNCHANGED <<range, unread, buffs, bit, out>>
        /\ OnEnd(l)
    BY <1>4 DEF FileEnd, Reads
  <2>2. RangeOK' /\ UnreadOK' /\ Follows(e)' /\ Emissions' = Emissions /\ UNCHANGED range
    BY <1>2, <2>1, NothingDelivered, LevelsPrimed
  <2>3. over' = "end" => e[1] = Size
    <3>1. over' = "end" => 0 \in Hears(l)
      BY <2>1 DEF OnEnd
    <3>2. unread'[l] = << >> /\ \A i \in Levels : LevelOK(e, i)'
      BY <2>1, <2>2 DEF Follows
    <3> QED
      BY <2>1, <2>2, <3>1, <3>2, EndStep
  <2>4. Size' = Size
    BY <2>2, RangeStays
  <2> QED
    BY <2>1, <2>2, <2>3, <2>4
<1>5. ASSUME NEW l \in Levels, FileError(l)
      PROVE  ReadingInv'
  <2>1. over' = "error" /\ UNCHANGED <<range, unread, buffs, bit, out>>
    BY <1>5 DEF FileError
  <2>2. RangeOK' /\ UnreadOK' /\ Follows(e)' /\ Emissions' = Emissions
    BY <1>2, <2>1, NothingDelivered, LevelsPrimed
  <2> QED
    BY <2>1, <2>2
<1>6. ASSUME NEW l \in Levels, FillToPos(l)
      PROVE  ReadingInv'
  <2>1. /\ Active(l) /\ Mode(l) # "parent" /\ over = "no"
        /\ UNCHANGED range /\ OnEnd(l) /\ OnData(l, unread[l])
        /\ unread' = [unread EXCEPT ![l] = << >>]
    BY <1>6 DEF FillToPos
  <2>2. /\ OnData(l, Slice(FileContent(l), Delivered(l), Size))
        /\ unread' = [unread EXCEPT ![l] = Slice(FileContent(l), Size, Size)]
        /\ Delivered(l) <= Size
    <3>1. unread[l] = Slice(FileContent(l), Delivered(l), Size)
      BY <1>1
    <3>2. Slice(FileContent(l), Size, Size) = << >>
      BY <1>1, EmptySlice
    <3>3. Delivered(l) <= Size
      BY <1>1
    <3> QED
      BY <2>1, <3>1, <3>2, <3>3, Zenon
  <2>3. UnreadOK' /\ \E c \in Emissions : Follows(c)'
    <3>1. PICK o \in 0 .. Size : o = Size
      BY <1>1
    <3>2. /\ OnData(l, Slice(FileContent(l), Delivered(l), o))
          /\ unread' = [unread EXCEPT ![l] = Slice(FileContent(l), o, Size)]
          /\ Delivered(l) <= o
      BY <2>2, <3>1, Zenon
    <3> QED
      BY <1>2, <2>1, <3>2, DataStep
  <2>4. PICK c \in Emissions : Follows(c)'
    BY <2>3
  <2>5. RangeOK' /\ Emissions' = Emissions /\ Size' = Size
    BY <2>1, RangeStays, LevelsPrimed
  <2>6. unread' \in [Levels -> Seq(PieceType)]
    BY <2>1
  <2>7. over' = "end" => c[1] = Size
    <3>1. over' = "end" => 0 \in Hears(l)
      BY <2>1 DEF OnEnd
    <3>2. unread'[l] = << >> /\ \A i \in Levels : LevelOK(c, i)'
      BY <2>1, <2>4 DEF Follows
    <3> QED
      BY <2>1, <2>3, <3>1, <3>2, EndStep
  <2> QED
    BY <2>3, <2>4, <2>5, <2>6, <2>7
<1>7. CASE UNCHANGED readingVars
  <2>1. UNCHANGED <<range, unread, buffs, bit, out>> /\ UNCHANGED range /\ over' = over
    BY <1>7 DEF readingVars
  <2>2. RangeOK' /\ UnreadOK' /\ Follows(e)' /\ Emissions' = Emissions /\ Size' = Size
    BY <1>2, <2>1, NothingDelivered, LevelsPrimed, RangeStays
  <2> QED
    BY <1>2, <2>1, <2>2
<1> QED
  BY <1>3, <1>4, <1>5, <1>6, <1>7 DEF ReadingNext, Delivers

LEMMA ReadingInvariant == ReadingSpec => []ReadingInv
<1>1. ReadingInit => ReadingInv
  BY ReadingInitInv
<1>2. ReadingInv /\ [ReadingNext]_readingVars => ReadingInv'
  BY ReadingStepInv
<1> QED
  BY <1>1, <1>2, PTL DEF ReadingSpec

(* What the upload reads of a range of any chain of VHDs, in buffers of any  *)
(* size and in any order of the files, is the data of the youngest VHD that  *)
(* has the sector, in order, and all of it when the stream ends without an   *)
(* error (getReadStream() in vhdTools.js, processBuffers() and onEnd() in    *)
(* streamMerger.js).                                                         *)
THEOREM ReadsTheYoungest == ReadingSpec => []SectorsAreTheYoungest
<1>1. ReadingInv => SectorsAreTheYoungest
  <2> SUFFICES ASSUME ReadingInv
               PROVE  SectorsAreTheYoungest
    OBVIOUS
  <2>1. PICK e \in Emissions : Follows(e) /\ (over = "end" => e[1] = Size)
    BY DEF ReadingInv
  <2> DEFINE disk == Pieces([s \in Sectors |-> Youngest(s)])
             x == DataFrom(1)
  <2>2. disk = x
    BY Zenon DEF DataFrom, Youngest
  <2>3. /\ 1 \in 1 .. Depth + 1 /\ Size \in Nat
        /\ x \in Seq(PieceType) /\ Len(x) = Size
    <3>1. RangeOK /\ 1 \in 1 .. Depth + 1
      BY ChainAssumption DEF ReadingInv
    <3> QED
      BY <3>1, DataFacts, SizeFacts
  <2>4. PICK n \in Nat : n = e[1] /\ n <= Size
    <3>1. e[1] \in 0 .. Size
      BY <2>3 DEF Emissions
    <3> QED
      BY <2>3, <3>1
  <2>5. out = Slice(x, 0, n) /\ (over = "end" => n = Size)
    BY <2>1, <2>4 DEF Follows
  <2> HIDE DEF x
  <2>6. Len(out) = n /\ out = SubSeq(x, 1, n)
    <3>1. n <= Len(x)
      BY <2>3, <2>4
    <3> QED
      BY <2>3, <2>5, <3>1, FirstPieces
  <2>7. over = "end" => out = x
    <3>1. SubSeq(x, 1, Len(x)) = x
      BY <2>3
    <3> QED
      BY <2>3, <2>5, <2>6, <3>1
  <2>8. Len(out) <= Len(x) /\ out = SubSeq(x, 1, Len(out))
    BY <2>3, <2>4, <2>6
  <2> HIDE DEF disk
  <2> QED
    BY <2>2, <2>7, <2>8, Zenon DEF SectorsAreTheYoungest, disk
<1> QED
  BY <1>1, ReadingInvariant, PTL
=============================================================================
