------------------------- MODULE IdempotencyProofs -------------------------
(***************************************************************************)
(* WorkedOnce and StoredIffDone for every number of attempts, keys and     *)
(* requests.  Neither is inductive: a second execution is impossible       *)
(* because the attempt that executes found no fresh row (RunsWithoutRow),  *)
(* no other attempt has the lock (Serialized), and work that committed     *)
(* under an earlier date stays there (DoneIsOver).                         *)
(***************************************************************************)
EXTENDS IdempotencyProperties, TLAPS

HasLock(a) == attempt[a].at \in {"locked", "running"}

Serialized == \A a, b \in Attempt :
    HasLock(a) /\ HasLock(b) /\ KeyOf(a) = KeyOf(b) => a = b
Keyed == \A a \in Attempt : ~At(a, "unsent") => KeyOf(a) \in Key
RunsWithoutRow == \A a \in Attempt : At(a, "running") => ~store[KeyOf(a)].fresh
DoneIsOver == \A d \in done : /\ attempt[d.by].at \in {"answered", "cut off"}
                              /\ d.date <= expiries[KeyOf(d.by)]
RowOfItsKey == \A k \in Key : store[k].fresh =>
    store[k].answer \in Attempt /\ KeyOf(store[k].answer) = k

Inv == /\ TypeOK /\ Serialized /\ Keyed /\ RunsWithoutRow /\ DoneIsOver
       /\ RowOfItsKey /\ StoredIffDone /\ WorkedOnce

USE DEF At, KeyOf

(* Initially nothing is stored and nothing has been done.                  *)
LEMMA InitInv == Init => Inv
<1> SUFFICES ASSUME Init
             PROVE  Inv
  OBVIOUS
<1>1. 0 \in 0..MaxExpiries
  BY IdempotencyAssumption
<1>2. Unsent \in AttemptRow /\ NoRow \in StoreRow
  BY <1>1 DEF Unsent, NoRow, AttemptRow, StoreRow, Step
<1>3. TypeOK
  BY <1>1, <1>2 DEF Init, TypeOK
<1>4. Serialized /\ Keyed /\ RunsWithoutRow
  BY DEF Init, Serialized, Keyed, RunsWithoutRow, Unsent, HasLock
<1>5. DoneIsOver /\ RowOfItsKey /\ StoredIffDone /\ WorkedOnce
  BY DEF Init, DoneIsOver, RowOfItsKey, StoredIffDone, WorkedOnce, NoRow
<1> QED
  BY <1>3, <1>4, <1>5 DEF Inv

(* What is in done, and what its components are.                           *)
LEMMA DoneType ==
    ASSUME Inv, NEW d \in done
    PROVE  /\ d.by \in Attempt /\ d.date \in Nat /\ KeyOf(d.by) \in Key
           /\ d = [by |-> d.by, date |-> d.date]
           /\ attempt[d.by].at \in {"answered", "cut off"}
           /\ expiries[KeyOf(d.by)] \in Nat /\ d.date <= expiries[KeyOf(d.by)]
<1>1. d \in [by : Attempt, date : 0..MaxExpiries]
  BY DEF Inv, TypeOK
<1>2. d.by \in Attempt /\ d.date \in Nat /\ d = [by |-> d.by, date |-> d.date]
  BY <1>1, IdempotencyAssumption
<1>3. attempt[d.by].at \in {"answered", "cut off"} /\ d.date <= expiries[KeyOf(d.by)]
  BY DEF Inv, DoneIsOver
<1>4. KeyOf(d.by) \in Key
  BY <1>2, <1>3 DEF Inv, Keyed
<1>5. expiries[KeyOf(d.by)] \in 0..MaxExpiries
  BY <1>4 DEF Inv, TypeOK
<1>6. expiries[KeyOf(d.by)] \in Nat
  BY <1>5, IdempotencyAssumption
<1> QED
  BY <1>2, <1>3, <1>4, <1>6

(* Changing one attempt to another of the right type keeps the types.      *)
LEMMA AttemptType ==
    ASSUME TypeOK, NEW a \in Attempt, NEW r \in AttemptRow,
           attempt' = [attempt EXCEPT ![a] = r]
    PROVE  attempt' \in [Attempt -> AttemptRow]
  BY DEF TypeOK

(* A step that leaves the stored rows and the work done alone, and moves   *)
(* one attempt without changing its key, keeps the invariant when it keeps *)
(* the types and the lock.                                                 *)
LEMMA MoveKeepsInv ==
    ASSUME Inv, TypeOK', UNCHANGED <<store, expiries, done>>,
           NEW a \in Attempt,
           attempt[a].at \in {"unsent", "waiting", "locked", "running"},
           \A b \in Attempt : b # a => attempt'[b] = attempt[b],
           attempt[a].at # "unsent" => attempt'[a].key = attempt[a].key,
           attempt[a].at # "unsent" => attempt'[a].request = attempt[a].request,
           attempt'[a].key \in Key, attempt'[a].at # "unsent",
           HasLock(a)' => HasLock(a) \/ \A b \in Attempt : ~(HasLock(b) /\ KeyOf(b) = KeyOf(a)),
           HasLock(a)' => attempt[a].at # "unsent",
           At(a, "running")' => ~store[attempt[a].key].fresh
    PROVE  Inv'
<1>1. \A d \in done : d.by \in Attempt /\ d.by # a
  BY DEF Inv, TypeOK, DoneIsOver
<1>2. \A d \in done : attempt'[d.by] = attempt[d.by]
  BY <1>1
<1>3. Serialized'
  BY DEF Inv, Serialized, HasLock
<1>4. Keyed'
  BY DEF Inv, Keyed
<1>5. RunsWithoutRow'
  BY DEF Inv, RunsWithoutRow, HasLock
<1>6. DoneIsOver'
  BY <1>2 DEF Inv, DoneIsOver
<1>10. WorkedOnce'
  BY <1>2 DEF Inv, WorkedOnce
<1>7. \A k \in Key : store[k].fresh => store[k].answer \in Attempt /\ store[k].answer # a
  BY <1>1 DEF Inv, RowOfItsKey, StoredIffDone
<1>8. RowOfItsKey'
  BY <1>7 DEF Inv, RowOfItsKey
<1>9. StoredIffDone'
  BY <1>2 DEF Inv, StoredIffDone, StoredAs
<1> QED
  BY <1>3, <1>4, <1>5, <1>6, <1>8, <1>9, <1>10 DEF Inv

(* An attempt after its answer has the type of an attempt.                 *)
LEMMA AnswerType ==
    ASSUME Inv, NEW a \in Attempt, NEW b \in Attempt \cup {None}, Answer(a, b),
           attempt[a].at # "unsent"
    PROVE  /\ attempt' \in [Attempt -> AttemptRow]
           /\ attempt'[a] = [attempt[a] EXCEPT !.at = "answered", !.answer = b,
                                               !.date = expiries[KeyOf(a)]]
           /\ \A c \in Attempt : c # a => attempt'[c] = attempt[c]
<1>1. attempt[a] \in AttemptRow /\ expiries[KeyOf(a)] \in 0..MaxExpiries
  BY DEF Inv, TypeOK, Keyed
<1> DEFINE r == [attempt[a] EXCEPT !.at = "answered", !.answer = b,
                                   !.date = expiries[KeyOf(a)]]
<1>2. r \in AttemptRow
  BY <1>1 DEF AttemptRow, Step
<1>3. attempt' = [attempt EXCEPT ![a] = r]
  BY DEF Answer
<1> QED
  BY <1>2, <1>3, AttemptType DEF Inv, TypeOK

LEMMA SendInv == ASSUME Inv, NEW a \in Attempt, NEW k \in Key, NEW req \in Request,
                        Send(a, k, req)
                 PROVE  Inv'
<1> DEFINE r == [attempt[a] EXCEPT !.at = "waiting", !.key = k, !.request = req]
<1>1. r \in AttemptRow /\ attempt' = [attempt EXCEPT ![a] = r]
  BY DEF Inv, TypeOK, AttemptRow, Step, Send
<1>2. TypeOK'
  BY <1>1, AttemptType DEF Inv, TypeOK, Send
<1> QED
  BY <1>1, <1>2, MoveKeepsInv DEF Inv, TypeOK, AttemptRow, Send, HasLock

LEMMA LockInv == ASSUME Inv, NEW a \in Attempt, Lock(a)
                 PROVE  Inv'
<1> DEFINE r == [attempt[a] EXCEPT !.at = "locked"]
<1>1. r \in AttemptRow /\ attempt' = [attempt EXCEPT ![a] = r]
  BY DEF Inv, TypeOK, AttemptRow, Step, Lock
<1>2. TypeOK'
  BY <1>1, AttemptType DEF Inv, TypeOK, Lock
<1> QED
  BY <1>1, <1>2, MoveKeepsInv DEF Inv, TypeOK, AttemptRow, Lock, Locked, Keyed, HasLock

LEMMA ReplayInv == ASSUME Inv, NEW a \in Attempt, Replay(a)
                   PROVE  Inv'
<1>1. Answer(a, store[KeyOf(a)].answer) /\ store[KeyOf(a)].answer \in Attempt \cup {None}
  BY DEF Inv, TypeOK, StoreRow, Keyed, Replay
<1>2. TypeOK'
  BY <1>1, AnswerType DEF Inv, TypeOK, Replay
<1>3. /\ attempt'[a].at = "answered" /\ attempt'[a].key = attempt[a].key
      /\ attempt'[a].request = attempt[a].request
      /\ \A b \in Attempt : b # a => attempt'[b] = attempt[b]
  <2>1. attempt[a] \in AttemptRow /\ attempt[a].at = "locked"
    BY DEF Inv, TypeOK, Replay
  <2>2. /\ attempt'[a] = [attempt[a] EXCEPT !.at = "answered",
                            !.answer = store[KeyOf(a)].answer, !.date = expiries[KeyOf(a)]]
        /\ \A b \in Attempt : b # a => attempt'[b] = attempt[b]
    BY <1>1, <2>1, AnswerType
  <2> QED
    BY <2>1, <2>2 DEF AttemptRow
<1> QED
  BY <1>2, <1>3, MoveKeepsInv DEF Inv, Keyed, Replay, HasLock

LEMMA RefuseInv == ASSUME Inv, NEW a \in Attempt, Refuse(a)
                   PROVE  Inv'
<1> DEFINE r == [attempt[a] EXCEPT !.at = "refused"]
<1>1. r \in AttemptRow /\ attempt' = [attempt EXCEPT ![a] = r]
  BY DEF Inv, TypeOK, AttemptRow, Step, Refuse
<1>2. TypeOK'
  BY <1>1, AttemptType DEF Inv, TypeOK, Refuse
<1> QED
  BY <1>1, <1>2, MoveKeepsInv DEF Inv, TypeOK, AttemptRow, Refuse, Keyed, HasLock

LEMMA RunInv == ASSUME Inv, NEW a \in Attempt, Run(a)
                PROVE  Inv'
<1> DEFINE r == [attempt[a] EXCEPT !.at = "running"]
<1>1. r \in AttemptRow /\ attempt' = [attempt EXCEPT ![a] = r]
  BY DEF Inv, TypeOK, AttemptRow, Step, Run
<1>2. TypeOK'
  BY <1>1, AttemptType DEF Inv, TypeOK, Run
<1> QED
  BY <1>1, <1>2, MoveKeepsInv DEF Inv, TypeOK, AttemptRow, Run, Keyed, HasLock

LEMMA RollBackInv == ASSUME Inv, NEW a \in Attempt, RollBack(a)
                     PROVE  Inv'
<1> DEFINE r == [attempt[a] EXCEPT !.at = "cut off"]
<1>1. r \in AttemptRow /\ attempt' = [attempt EXCEPT ![a] = r]
  BY DEF Inv, TypeOK, AttemptRow, Step, RollBack
<1>2. TypeOK'
  BY <1>1, AttemptType DEF Inv, TypeOK, RollBack
<1> QED
  <2>1. attempt[a].key \in Key /\ attempt[a] \in AttemptRow
    BY DEF Inv, TypeOK, Keyed, RollBack
  <2>2. /\ attempt'[a].at = "cut off" /\ attempt'[a].key = attempt[a].key
        /\ attempt'[a].request = attempt[a].request
        /\ \A b \in Attempt : b # a => attempt'[b] = attempt[b]
    BY <1>1, <2>1 DEF Inv, TypeOK, AttemptRow
  <2> QED
    BY <1>2, <2>1, <2>2, MoveKeepsInv DEF RollBack, HasLock

(* The execution that commits is the first of its key and date.            *)
LEMMA CommitInv == ASSUME Inv, NEW a \in Attempt, Commit(a)
                   PROVE  Inv'
<1> DEFINE k == attempt[a].key
           mine == [by |-> a, date |-> expiries[k]]
<1>1. /\ k \in Key /\ ~store[k].fresh
      /\ attempt[a].request \in Request \cup {None}
      /\ expiries[k] \in 0..MaxExpiries
  BY DEF Inv, TypeOK, AttemptRow, Keyed, RunsWithoutRow, Commit
<1>2. /\ attempt' \in [Attempt -> AttemptRow]
      /\ attempt'[a].at \in {"answered", "cut off"}
      /\ attempt'[a].key = k /\ attempt'[a].request = attempt[a].request
      /\ \A b \in Attempt : b # a => attempt'[b] = attempt[b]
  <2>1. CASE Answer(a, a)
    <3>1. /\ attempt' \in [Attempt -> AttemptRow]
          /\ attempt'[a] = [attempt[a] EXCEPT !.at = "answered", !.answer = a, !.date = expiries[k]]
          /\ \A b \in Attempt : b # a => attempt'[b] = attempt[b]
      BY <2>1, AnswerType DEF Commit
    <3>2. attempt[a] \in AttemptRow
      BY DEF Inv, TypeOK
    <3> QED
      BY <3>1, <3>2 DEF AttemptRow
  <2>2. CASE attempt' = [attempt EXCEPT ![a].at = "cut off"]
    <3> DEFINE r == [attempt[a] EXCEPT !.at = "cut off"]
    <3>1. r \in AttemptRow /\ attempt' = [attempt EXCEPT ![a] = r]
      BY <2>2 DEF Inv, TypeOK, AttemptRow, Step
    <3> QED
      BY <3>1, AttemptType DEF Inv, TypeOK, AttemptRow
  <2> QED
    BY <2>1, <2>2 DEF Commit
<1>3. /\ done' = done \cup {mine} /\ expiries' = expiries
      /\ store' = [store EXCEPT ![k] = StoredAs(a)]
  BY DEF Commit
<1>4. TypeOK'
  <2>1. StoredAs(a) \in StoreRow
    BY <1>1 DEF StoredAs, StoreRow
  <2>2. mine \in [by : Attempt, date : 0..MaxExpiries]
    BY <1>1
  <2> QED
    BY <1>2, <1>3, <2>1, <2>2 DEF Inv, TypeOK
<1>5. \A d \in done : d.by \in Attempt /\ d.by # a /\ attempt'[d.by] = attempt[d.by]
  BY <1>2 DEF Inv, TypeOK, DoneIsOver, Commit
<1>6. ASSUME NEW d \in done, KeyOf(d.by) = k, d.date = expiries[k]
      PROVE  FALSE
  <2>1. store[k] = StoredAs(d.by)
    BY <1>1, <1>6 DEF Inv, StoredIffDone
  <2> QED
    BY <1>1, <2>1 DEF StoredAs
<1>7. mine.by = a /\ mine.date = expiries[k] /\ expiries[k] \in 0..MaxExpiries
  BY <1>1
<1>8. Serialized' /\ Keyed'
  BY <1>1, <1>2 DEF Inv, Serialized, Keyed, HasLock
<1>9. RunsWithoutRow'
  <2> SUFFICES ASSUME NEW b \in Attempt, attempt'[b].at = "running"
               PROVE  ~store'[attempt'[b].key].fresh
    BY DEF RunsWithoutRow
  <2>1. b # a /\ attempt'[b] = attempt[b]
    BY <1>2
  <2>2. attempt[b].key # k
    BY <2>1 DEF Inv, Serialized, HasLock, Commit
  <2>3. attempt[b].key \in Key
    BY <2>1 DEF Inv, Keyed
  <2> QED
    BY <1>3, <2>1, <2>2, <2>3 DEF Inv, TypeOK, RunsWithoutRow
<1>10. DoneIsOver'
  <2> SUFFICES ASSUME NEW d \in done'
               PROVE  /\ attempt'[d.by].at \in {"answered", "cut off"}
                      /\ d.date <= expiries'[attempt'[d.by].key]
    BY DEF DoneIsOver
  <2>1. CASE d = mine
    <3>1. d.by = a /\ d.date = expiries[k]
      BY <1>7, <2>1
    <3>2. expiries'[attempt'[d.by].key] = expiries[k]
      BY <1>2, <1>3, <3>1
    <3>3. expiries[k] \in Int
      BY <1>7, IdempotencyAssumption
    <3>4. attempt'[d.by].at \in {"answered", "cut off"}
      BY <1>2, <3>1
    <3>5. d.date <= expiries'[attempt'[d.by].key]
      BY <3>1, <3>2, <3>3
    <3> QED
      BY <3>4, <3>5
  <2>2. CASE d \in done
    BY <1>3, <1>5, <2>2 DEF Inv, DoneIsOver
  <2> QED
    BY <1>3, <2>1, <2>2
<1>11. WorkedOnce'
  <2> SUFFICES ASSUME NEW d \in done', NEW e \in done',
                      attempt'[d.by].key = attempt'[e.by].key, d.date = e.date
               PROVE  d = e
    BY DEF WorkedOnce
  <2>1. CASE d = mine /\ e \in done
    BY <1>2, <1>5, <1>6, <1>7, <2>1
  <2>2. CASE e = mine /\ d \in done
    BY <1>2, <1>5, <1>6, <1>7, <2>2
  <2>3. CASE d \in done /\ e \in done
    BY <1>5, <2>3 DEF Inv, WorkedOnce
  <2> QED
    BY <1>3, <2>1, <2>2, <2>3
<1>12. store'[k] = StoredAs(a) /\ \A l \in Key : l # k => store'[l] = store[l]
  BY <1>1, <1>3 DEF Inv, TypeOK
<1>13. \A l \in Key : l # k /\ store[l].fresh
                       => attempt'[store[l].answer].key = attempt[store[l].answer].key
  BY <1>2 DEF Inv, RowOfItsKey
<1>14. RowOfItsKey'
  <2> SUFFICES ASSUME NEW l \in Key, store'[l].fresh
               PROVE  /\ store'[l].answer \in Attempt
                      /\ attempt'[store'[l].answer].key = l
    BY DEF RowOfItsKey
  <2>1. CASE l = k
    <3>1. store'[l].answer = a
      BY <1>12, <2>1 DEF StoredAs
    <3> QED
      BY <1>2, <2>1, <3>1
  <2>2. CASE l # k
    BY <1>12, <1>13, <2>2 DEF Inv, RowOfItsKey
  <2> QED
    BY <2>1, <2>2
<1>15. StoredIffDone'
  <2>1. ASSUME NEW l \in Key, store'[l].fresh
        PROVE  [by |-> store'[l].answer, date |-> expiries'[l]] \in done'
    BY <1>3, <1>12, <2>1 DEF Inv, StoredIffDone, StoredAs
  <2>2. ASSUME NEW l \in Key, NEW d \in done', attempt'[d.by].key = l, d.date = expiries'[l]
        PROVE  store'[l] = StoredAs(d.by)'
    <3>1. CASE d = mine
      BY <1>2, <1>7, <1>12, <2>2, <3>1 DEF StoredAs
    <3>2. CASE d \in done
      <4>1. attempt[d.by].key = l /\ d.date = expiries[l]
        BY <1>3, <1>5, <2>2, <3>2
      <4>2. l # k
        BY <1>6, <3>2, <4>1
      <4>3. store[l] = StoredAs(d.by)
        BY <3>2, <4>1 DEF Inv, StoredIffDone
      <4>4. store'[l] = store[l] /\ attempt'[d.by].request = attempt[d.by].request
        BY <1>5, <1>12, <3>2, <4>2
      <4> QED
        BY <4>3, <4>4 DEF StoredAs
    <3> QED
      BY <1>3, <2>2, <3>1, <3>2
  <2> QED
    BY <2>1, <2>2 DEF StoredIffDone
<1> QED
  BY <1>4, <1>8, <1>9, <1>10, <1>11, <1>14, <1>15 DEF Inv

(* A new date for the key: all its work is older.                          *)
LEMMA ExpireInv == ASSUME Inv, NEW k \in Key, Expire(k)
                   PROVE  Inv'
<1>1. expiries[k] \in 0..MaxExpiries /\ expiries[k] + 1 \in 0..MaxExpiries
  BY IdempotencyAssumption DEF Inv, TypeOK, Expire
<1> DEFINE r == [store[k] EXCEPT !.fresh = FALSE]
<1>2. r \in StoreRow /\ ~r.fresh /\ store' = [store EXCEPT ![k] = r]
  BY DEF Inv, TypeOK, StoreRow, Expire
<1>3. expiries' = [expiries EXCEPT ![k] = expiries[k] + 1]
  BY DEF Expire
<1>4. TypeOK'
  BY <1>1, <1>2, <1>3 DEF Inv, TypeOK, Expire
<1>5. /\ attempt' = attempt /\ done' = done
      /\ ~store'[k].fresh /\ expiries'[k] = expiries[k] + 1
      /\ \A l \in Key : l # k => store'[l] = store[l] /\ expiries'[l] = expiries[l]
  BY <1>2, <1>3 DEF Inv, TypeOK, Expire
<1>6. Serialized' /\ Keyed' /\ WorkedOnce'
  BY <1>5 DEF Inv, Serialized, Keyed, WorkedOnce, HasLock
<1>7. RunsWithoutRow'
  BY <1>5 DEF Inv, RunsWithoutRow, Keyed
<1>8. DoneIsOver'
  <2> SUFFICES ASSUME NEW d \in done
               PROVE  /\ attempt[d.by].at \in {"answered", "cut off"}
                      /\ d.date <= expiries'[attempt[d.by].key]
    BY <1>5 DEF DoneIsOver
  <2>1. d.date \in Nat /\ attempt[d.by].key \in Key /\ expiries[attempt[d.by].key] \in Nat
    BY DoneType
  <2>2. d.date <= expiries[attempt[d.by].key] /\ attempt[d.by].at \in {"answered", "cut off"}
    BY DoneType
  <2>3. expiries[attempt[d.by].key] <= expiries'[attempt[d.by].key]
    BY <1>5, <2>1
  <2>4. expiries'[attempt[d.by].key] \in Nat
    BY <1>5, <2>1
  <2>5. \A x, y, z \in Nat : x <= y /\ y <= z => x <= z
    OBVIOUS
  <2>6. d.date <= expiries'[attempt[d.by].key]
    BY <2>1, <2>2, <2>3, <2>4, <2>5, Zenon
  <2> QED
    BY <2>2, <2>6
<1>9. RowOfItsKey'
  BY <1>5 DEF Inv, RowOfItsKey
<1>10. ASSUME NEW d \in done, KeyOf(d.by) = k
       PROVE  d.date # expiries'[k]
  <2>1. d.date \in Nat /\ expiries[k] \in Nat /\ d.date <= expiries[k]
    BY <1>10, DoneType
  <2> QED
    BY <1>5, <2>1
<1>11. StoredIffDone'
  BY <1>5, <1>10 DEF Inv, StoredIffDone, StoredAs
<1> QED
  BY <1>4, <1>6, <1>7, <1>8, <1>9, <1>11 DEF Inv

(* Only a row that is not fresh goes, and no work of the current date has  *)
(* such a row.                                                             *)
LEMMA PurgeInv == ASSUME Inv, NEW k \in Key, Purge(k)
                  PROVE  Inv'
<1>1. NoRow \in StoreRow /\ ~NoRow.fresh
  BY DEF NoRow, StoreRow
<1>2. TypeOK'
  BY <1>1 DEF Inv, TypeOK, Purge
<1>3. /\ attempt' = attempt /\ done' = done /\ expiries' = expiries
      /\ ~store[k].fresh /\ ~store'[k].fresh
      /\ \A l \in Key : l # k => store'[l] = store[l]
  BY <1>1 DEF Inv, TypeOK, Purge
<1>4. Serialized' /\ Keyed' /\ WorkedOnce' /\ DoneIsOver'
  BY <1>3 DEF Inv, Serialized, Keyed, WorkedOnce, DoneIsOver, HasLock
<1>5. RunsWithoutRow' /\ RowOfItsKey'
  BY <1>3 DEF Inv, RunsWithoutRow, RowOfItsKey, Keyed
<1>6. ASSUME NEW d \in done, KeyOf(d.by) = k, d.date = expiries[k]
      PROVE  FALSE
  <2>1. store[k] = StoredAs(d.by)
    BY <1>6 DEF Inv, StoredIffDone
  <2> QED
    BY <1>3, <2>1 DEF StoredAs
<1>7. StoredIffDone'
  BY <1>3, <1>6 DEF Inv, StoredIffDone, StoredAs
<1> QED
  BY <1>2, <1>4, <1>5, <1>7 DEF Inv

(* Stuttering changes nothing the invariant reads.                         *)
LEMMA StutterInv == ASSUME Inv, UNCHANGED vars
                    PROVE  Inv'
  BY DEF vars, Inv, TypeOK, Serialized, Keyed, RunsWithoutRow, DoneIsOver, RowOfItsKey,
         StoredIffDone, WorkedOnce, StoredAs, HasLock

(* The strengthened invariant holds in every reachable state.              *)
THEOREM Invariance == Spec => []Inv
<1>1. Inv /\ [Next]_vars => Inv'
  BY SendInv, LockInv, ReplayInv, RefuseInv, RunInv, RollBackInv, CommitInv, ExpireInv,
     PurgeInv, StutterInv
  DEF Next, Progress
<1> QED
  BY InitInv, <1>1, PTL DEF Spec

(* However often a request is repeated and cut off, its work commits at    *)
(* most once while its key lasts.                                          *)
THEOREM OncePerKey == Spec => []WorkedOnce
  BY Invariance, PTL DEF Inv

(* The stored response exists exactly when the work committed.             *)
THEOREM StoredExactly == Spec => []StoredIffDone
  BY Invariance, PTL DEF Inv

-----------------------------------------------------------------------------
(* What a client was told is the answer of committed work of its own       *)
(* request under its own key.                                              *)
ToldTheTruth(a) ==
    /\ [by |-> attempt[a].answer, date |-> attempt[a].date] \in done
    /\ attempt[a].answer \in Attempt
    /\ KeyOf(attempt[a].answer) = KeyOf(a)
    /\ attempt[attempt[a].answer].request = attempt[a].request
Truthful == \A a \in Attempt : At(a, "answered") => ToldTheTruth(a)

(* Two answers of one key and date are answers of the same work.           *)
LEMMA TruthAgrees == ASSUME Inv, Truthful
                     PROVE  AnswersAgree
<1> SUFFICES ASSUME NEW a \in Attempt, At(a, "answered")
             PROVE  /\ [by |-> attempt[a].answer, date |-> attempt[a].date] \in done
                    /\ attempt[attempt[a].answer].request = attempt[a].request
                    /\ \A b \in Attempt :
                         At(b, "answered") /\ KeyOf(b) = KeyOf(a)
                             /\ attempt[b].date = attempt[a].date
                           => attempt[b].answer = attempt[a].answer
  BY DEF AnswersAgree
<1>1. ToldTheTruth(a)
  BY DEF Truthful
<1>2. ASSUME NEW b \in Attempt, At(b, "answered"), KeyOf(b) = KeyOf(a),
             attempt[b].date = attempt[a].date
      PROVE  attempt[b].answer = attempt[a].answer
  <2> DEFINE d == [by |-> attempt[a].answer, date |-> attempt[a].date]
             e == [by |-> attempt[b].answer, date |-> attempt[b].date]
  <2>1. ToldTheTruth(b)
    BY <1>2 DEF Truthful
  <2>2. d \in done /\ e \in done
    BY <1>1, <2>1 DEF ToldTheTruth
  <2>3. KeyOf(d.by) = KeyOf(e.by) /\ d.date = e.date
    BY <1>1, <1>2, <2>1 DEF ToldTheTruth
  <2>4. d = e
    BY <2>2, <2>3 DEF Inv, WorkedOnce
  <2> QED
    BY <2>4
<1> QED
  BY <1>1, <1>2 DEF ToldTheTruth

(* An attempt that is over stays as it is, and work stays done.            *)
LEMMA OverStays ==
    ASSUME Inv, [Next]_vars
    PROVE  /\ done \subseteq done'
           /\ \A b \in Attempt : attempt[b].at \in {"answered", "cut off"}
                                   => attempt'[b] = attempt[b]
<1> USE DEF Inv, TypeOK
<1>1. CASE UNCHANGED vars
  BY <1>1 DEF vars
<1>2. ASSUME NEW a \in Attempt, NEW k \in Key, NEW req \in Request, Send(a, k, req)
      PROVE  /\ done \subseteq done'
             /\ \A b \in Attempt : attempt[b].at \in {"answered", "cut off"}
                                     => attempt'[b] = attempt[b]
  BY <1>2 DEF Send
<1>3. ASSUME NEW a \in Attempt, Lock(a) \/ Refuse(a) \/ Run(a) \/ RollBack(a)
      PROVE  /\ done \subseteq done'
             /\ \A b \in Attempt : attempt[b].at \in {"answered", "cut off"}
                                     => attempt'[b] = attempt[b]
  BY <1>3 DEF Lock, Refuse, Run, RollBack
<1>4. ASSUME NEW a \in Attempt, Replay(a) \/ Commit(a)
      PROVE  /\ done \subseteq done'
             /\ \A b \in Attempt : attempt[b].at \in {"answered", "cut off"}
                                     => attempt'[b] = attempt[b]
  BY <1>4 DEF Replay, Commit, Answer
<1>5. ASSUME NEW k \in Key, Expire(k) \/ Purge(k)
      PROVE  attempt' = attempt /\ done' = done
  BY <1>5 DEF Expire, Purge
<1> HIDE DEF Inv, TypeOK
<1> QED
  BY <1>1, <1>2, <1>3, <1>4, <1>5 DEF Next, Progress

(* Whoever is told something was told already, or replays or commits now.  *)
LEMMA NewlyAnswered ==
    ASSUME Inv, [Next]_vars, NEW a \in Attempt, At(a, "answered")'
    PROVE  \/ At(a, "answered")
           \/ Replay(a)
           \/ Commit(a) /\ Answer(a, a)
<1>0. attempt \in [Attempt -> AttemptRow] /\ attempt'[a].at = "answered"
  BY DEF Inv, TypeOK
<1> HIDE DEF At
<1>1. CASE UNCHANGED vars
  BY <1>0, <1>1 DEF vars, At
<1>2. ASSUME NEW b \in Attempt, NEW k \in Key, NEW req \in Request, Send(b, k, req)
      PROVE  At(a, "answered")
  BY <1>0, <1>2 DEF Send, At, AttemptRow
<1>3. ASSUME NEW b \in Attempt, Lock(b) \/ Refuse(b) \/ Run(b) \/ RollBack(b)
      PROVE  At(a, "answered")
  BY <1>0, <1>3 DEF Lock, Refuse, Run, RollBack, At, AttemptRow
<1>4. ASSUME NEW b \in Attempt, Replay(b)
      PROVE  At(a, "answered") \/ Replay(a)
  BY <1>0, <1>4 DEF Replay, Answer, At, AttemptRow
<1>5. ASSUME NEW b \in Attempt, Commit(b)
      PROVE  At(a, "answered") \/ (Commit(a) /\ Answer(a, a))
  <2>1. Answer(b, b) \/ attempt' = [attempt EXCEPT ![b].at = "cut off"]
    BY <1>5 DEF Commit
  <2>2. CASE a # b
    <3>1. attempt'[a] = attempt[a]
      BY <1>0, <2>1, <2>2 DEF Answer
    <3> QED
      BY <1>0, <3>1 DEF At
  <2>3. CASE a = b /\ Answer(b, b)
    BY <1>5, <2>3
  <2>4. CASE a = b /\ attempt' = [attempt EXCEPT ![b].at = "cut off"]
    <3>1. attempt'[a].at = "cut off"
      BY <1>0, <2>4 DEF AttemptRow
    <3> QED
      BY <1>0, <3>1
  <2> QED
    BY <2>1, <2>2, <2>3, <2>4
<1>6. ASSUME NEW k \in Key, Expire(k) \/ Purge(k)
      PROVE  At(a, "answered")
  BY <1>0, <1>6 DEF Expire, Purge, At, AttemptRow
<1> QED
  BY <1>1, <1>2, <1>3, <1>4, <1>5, <1>6 DEF Next, Progress

(* A fresh row holds the request and the answer of work of the current     *)
(* date.                                                                   *)
LEMMA FreshRow ==
    ASSUME Inv, NEW k \in Key, store[k].fresh
    PROVE  /\ store[k].answer \in Attempt /\ KeyOf(store[k].answer) = k
           /\ [by |-> store[k].answer, date |-> expiries[k]] \in done
           /\ store[k].request = attempt[store[k].answer].request
<1> DEFINE d == [by |-> store[k].answer, date |-> expiries[k]]
<1>1. d \in done /\ store[k].answer \in Attempt /\ KeyOf(store[k].answer) = k
  BY DEF Inv, StoredIffDone, RowOfItsKey
<1>2. d.by = store[k].answer /\ d.date = expiries[k]
  OBVIOUS
<1>3. store[k] = StoredAs(d.by)
  BY <1>1, <1>2 DEF Inv, StoredIffDone
<1> QED
  BY <1>1, <1>2, <1>3 DEF StoredAs

LEMMA TruthStays == ASSUME Inv, Truthful, [Next]_vars
                    PROVE  Truthful'
<1> SUFFICES ASSUME NEW a \in Attempt, At(a, "answered")'
             PROVE  ToldTheTruth(a)'
  BY DEF Truthful
<1>1. /\ done \subseteq done'
      /\ \A b \in Attempt : attempt[b].at \in {"answered", "cut off"}
                              => attempt'[b] = attempt[b]
  BY OverStays
<1>2. \A d \in done : d.by \in Attempt /\ attempt'[d.by] = attempt[d.by]
  BY <1>1, DoneType
<1>3. CASE At(a, "answered")
  <2> DEFINE d == [by |-> attempt[a].answer, date |-> attempt[a].date]
  <2>1. ToldTheTruth(a) /\ attempt'[a] = attempt[a]
    BY <1>1, <1>3 DEF Truthful
  <2>2. d \in done /\ d.by = attempt[a].answer
    BY <2>1 DEF ToldTheTruth
  <2>3. attempt'[attempt[a].answer] = attempt[attempt[a].answer]
    BY <1>2, <2>2
  <2> QED
    BY <1>1, <2>1, <2>3 DEF ToldTheTruth
<1>4. CASE Replay(a)
  <2> DEFINE k == KeyOf(a)
             d == [by |-> store[k].answer, date |-> expiries[k]]
  <2>1. k \in Key /\ store[k].fresh /\ store[k].request = attempt[a].request
    BY <1>4 DEF Inv, Keyed, Replay
  <2>2. /\ store[k].answer \in Attempt /\ KeyOf(store[k].answer) = k
        /\ d \in done
        /\ store[k].request = attempt[store[k].answer].request
    BY <2>1, FreshRow
  <2>3. /\ attempt'[a].answer = store[k].answer /\ attempt'[a].date = expiries[k]
        /\ attempt'[a].key = k /\ attempt'[a].request = attempt[a].request
    BY <1>4 DEF Inv, TypeOK, AttemptRow, Replay, Answer
  <2>4. attempt'[store[k].answer] = attempt[store[k].answer]
    <3>1. d.by = store[k].answer
      OBVIOUS
    <3> QED
      BY <1>2, <2>2, <3>1
  <2> QED
    BY <1>1, <2>1, <2>2, <2>3, <2>4 DEF ToldTheTruth
<1>5. CASE Commit(a) /\ Answer(a, a)
  <2>1. attempt'[a].answer = a /\ attempt'[a].date = expiries[KeyOf(a)]
    BY <1>5 DEF Inv, TypeOK, AttemptRow, Answer
  <2>2. [by |-> a, date |-> expiries[KeyOf(a)]] \in done'
    BY <1>5 DEF Commit
  <2> QED
    BY <2>1, <2>2 DEF ToldTheTruth
<1> QED
  BY <1>3, <1>4, <1>5, NewlyAnswered

(* Every retry of a key's lifetime is told what the one execution of its   *)
(* own request answered.                                                   *)
THEOREM RetriesAgree == Spec => []AnswersAgree
<1>1. Init => Truthful
  BY DEF Init, Truthful, Unsent
<1> QED
  BY <1>1, TruthStays, TruthAgrees, Invariance, PTL DEF Spec
=============================================================================
