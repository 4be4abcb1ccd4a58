--------------------------- MODULE MCLedger_proofs ---------------------------
(***************************************************************************)
(* Proofs about the work on the ledger.  Of the rebuild queue              *)
(* (RebuildQueue), for any number of sources, captures and threads: no     *)
(* source is worked on twice, every active one is completed, and retries   *)
(* are scoped to captures until a second thread drops a failure.  Of the   *)
(* upgrade of a ledger (LedgerUpgrade), for any number of processes and    *)
(* threads: one upgrades at a time, behind a verified backup, and the      *)
(* locks make no circle.  Of a storage analysis (StorageAnalysis), for any *)
(* tree of files: complete findings are exact, and kept whole or not.  Of  *)
(* the import of older caches (LegacyMigration), for any tasks, caches and *)
(* histories: nothing in the ledger is lost, nothing audited is missing.   *)
(* Of the search for captures to upgrade (UpgradeDiscovery), for any       *)
(* sources and budget: nobody is passed over for ever, and no file is      *)
(* counted in the place of a capture whose header is not known.  Of the    *)
(* copies of a session (SourceOwnership), for any paths: a session that is *)
(* counted stays counted.                                                  *)
(***************************************************************************)
EXTENDS MCLedger, FiniteSetTheorems, SequenceTheorems, NaturalsInduction, WellFoundedInduction,
        TLAPS

(***************************************************************************)
(* Sequences that list a set.                                              *)
(***************************************************************************)

LEMMA Enumerations ==
  ASSUME NEW S, IsFiniteSet(S), NEW r \in [1..Cardinality(S) -> S],
         \A m, n \in DOMAIN r : m # n => r[m] # r[n]
  PROVE  /\ r \in Seq(S) /\ IsInjective(r) /\ ToSet(r) = S
<1>1. /\ Cardinality(S) \in Nat
      /\ IsFiniteSet(1..Cardinality(S))
      /\ Cardinality(1..Cardinality(S)) = Cardinality(S)
  <2>1. Cardinality(S) \in Nat
    BY FS_CardinalityType
  <2>2. 1 \in Int /\ Cardinality(S) \in Int
    BY <2>1
  <2>3. /\ IsFiniteSet(1..Cardinality(S))
        /\ Cardinality(1..Cardinality(S)) =
             IF 1 > Cardinality(S) THEN 0 ELSE Cardinality(S) - 1 + 1
    BY ONLY <2>2, FS_Interval
  <2> QED
    BY <2>1, <2>3
<1>2. r \in Injection(1..Cardinality(S), S)
  BY DEF Injection, IsInjective
<1>3. r \in Surjection(1..Cardinality(S), S)
  BY <1>1, <1>2, FS_Injection
<1>4. ToSet(r) = S
  BY <1>3 DEF Surjection, ToSet
<1>5. IsInjective(r)
  BY DEF IsInjective
<1>6. r \in Seq(S)
  BY <1>1
<1> QED
  BY <1>4, <1>5, <1>6

LEMMA SetToSeqsProperties ==
  ASSUME NEW S, IsFiniteSet(S), NEW r \in SetToSeqs(S)
  PROVE  r \in Seq(S) /\ IsInjective(r) /\ ToSet(r) = S
<1>1. /\ r \in [1..Cardinality(S) -> S]
      /\ \A m, n \in 1..Cardinality(S) : m # n => r[m] # r[n]
  BY DEF SetToSeqs
<1> QED
  BY <1>1, Enumerations

(* A selection of a sequence without duplicates has none either, and holds *)
(* what it was to hold.                                                    *)
LEMMA SelectedProperties ==
  ASSUME NEW T, NEW s \in Seq(T), IsInjective(s), NEW S, NEW r \in Selected(s, S)
  PROVE  r \in Seq(T) /\ IsInjective(r) /\ ToSet(r) = ToSet(s) \cap S
<1> DEFINE I == {i \in DOMAIN s : s[i] \in S}
<1>1. PICK at \in [1..Cardinality(I) -> I] :
        /\ \A m, n \in DOMAIN at : m < n => at[m] < at[n]
        /\ r = [n \in DOMAIN at |-> s[at[n]]]
  BY DEF Selected
<1>2. I \subseteq 1..Len(s) /\ IsFiniteSet(I) /\ Cardinality(I) \in Nat
  <2>1. IsFiniteSet(1..Len(s))
    BY FS_Interval
  <2>2. I \subseteq 1..Len(s)
    OBVIOUS
  <2> QED
    BY <2>1, <2>2, FS_Subset, FS_CardinalityType
<1>3. \A m, n \in DOMAIN at : m # n => at[m] # at[n]
  <2> SUFFICES ASSUME NEW m \in DOMAIN at, NEW n \in DOMAIN at, m # n
               PROVE  at[m] # at[n]
    OBVIOUS
  <2>1. at[m] \in Nat /\ at[n] \in Nat /\ (m < n \/ n < m)
    BY <1>1, <1>2
  <2> QED
    BY <1>1, <2>1
<1> HIDE DEF I
<1>4. IsInjective(at) /\ ToSet(at) = I
  <2>1. IsFiniteSet(I) /\ at \in [1..Cardinality(I) -> I]
    BY <1>1, <1>2
  <2> QED
    BY ONLY <1>3, <2>1, Enumerations
<1> USE DEF I
<1>5. r \in Seq(T)
  <2>1. DOMAIN at = 1..Cardinality(I) /\ \A n \in DOMAIN at : at[n] \in DOMAIN s
    BY <1>1
  <2>2. \A n \in 1..Cardinality(I) : s[at[n]] \in T
    BY <2>1
  <2>3. r \in [1..Cardinality(I) -> T]
    BY <1>1, <2>1, <2>2
  <2> HIDE DEF I
  <2> QED
    BY <1>2, <2>3
<1>6. IsInjective(r)
  BY <1>1, <1>2, <1>4 DEF IsInjective
<1>7. ToSet(r) = ToSet(s) \cap S
  <2>1. ToSet(r) = {s[i] : i \in I}
    BY <1>1, <1>4 DEF ToSet
  <2> QED
    BY <2>1 DEF ToSet
<1> QED
  BY <1>5, <1>6, <1>7

(* Two such sequences that share nothing can be joined.                    *)
LEMMA JoinProperties ==
  ASSUME NEW T, NEW r \in Seq(T), NEW s \in Seq(T), IsInjective(r),
         IsInjective(s), ToSet(r) \cap ToSet(s) = {}
  PROVE  /\ r \o s \in Seq(T) /\ IsInjective(r \o s)
         /\ ToSet(r \o s) = ToSet(r) \cup ToSet(s)
<1>1. /\ r \o s \in Seq(T) /\ Len(r \o s) = Len(r) + Len(s)
      /\ \A i \in 1..Len(r) : (r \o s)[i] = r[i]
      /\ \A i \in 1..Len(s) : (r \o s)[Len(r) + i] = s[i]
  BY ConcatProperties
<1>2. \A i \in DOMAIN (r \o s) :
        \/ i \in DOMAIN r /\ (r \o s)[i] = r[i]
        \/ i - Len(r) \in DOMAIN s /\ (r \o s)[i] = s[i - Len(r)]
  BY <1>1
<1>3. ToSet(r \o s) = ToSet(r) \cup ToSet(s)
  <2>1. ToSet(r \o s) \subseteq ToSet(r) \cup ToSet(s)
    BY <1>2 DEF ToSet
  <2>2. ToSet(r) \subseteq ToSet(r \o s)
    BY <1>1 DEF ToSet
  <2>3. ToSet(s) \subseteq ToSet(r \o s)
    <3>1. \A i \in DOMAIN s : /\ Len(r) + i \in DOMAIN (r \o s)
                            /\ (r \o s)[Len(r) + i] = s[i]
      BY <1>1
    <3> QED
      BY <3>1 DEF ToSet
  <2> QED
    BY <2>1, <2>2, <2>3
<1>4. IsInjective(r \o s)
  <2> SUFFICES ASSUME NEW i \in DOMAIN (r \o s), NEW j \in DOMAIN (r \o s),
                      (r \o s)[i] = (r \o s)[j]
               PROVE  i = j
    BY DEF IsInjective
  <2>1. \A m \in DOMAIN r, n \in DOMAIN s : r[m] # s[n]
    BY DEF ToSet
  <2>2. i \in Nat /\ j \in Nat /\ Len(r) \in Nat
    BY <1>1
  <2>3. CASE i \in DOMAIN r /\ (r \o s)[i] = r[i]
    BY <1>2, <2>1, <2>3 DEF IsInjective
  <2>4. CASE i - Len(r) \in DOMAIN s /\ (r \o s)[i] = s[i - Len(r)]
    <3>1. j - Len(r) \in DOMAIN s /\ s[i - Len(r)] = s[j - Len(r)]
      BY <1>2, <2>1, <2>4
    <3>2. i - Len(r) = j - Len(r)
      BY <2>4, <3>1 DEF IsInjective
    <3> QED
      BY <2>2, <3>2
  <2> QED
    BY <1>2, <2>3, <2>4
<1> QED
  BY <1>1, <1>3, <1>4

LEMMA TailInjective ==
  ASSUME NEW T, NEW s \in Seq(T), s # <<>>, IsInjective(s)
  PROVE  /\ Head(s) \in T /\ Tail(s) \in Seq(T) /\ IsInjective(Tail(s))
         /\ ToSet(Tail(s)) = ToSet(s) \ {Head(s)} /\ Head(s) \in ToSet(s)
<1>1. /\ Head(s) = s[1] /\ Tail(s) \in Seq(T) /\ Len(Tail(s)) = Len(s) - 1
      /\ Len(s) \in Nat \ {0}
      /\ \A i \in 1..Len(Tail(s)) : Tail(s)[i] = s[i + 1]
  OBVIOUS
<1>2. DOMAIN s = 1..Len(s) /\ DOMAIN Tail(s) = 1..(Len(s) - 1)
  BY <1>1
<1>3. IsInjective(Tail(s))
  BY <1>1, <1>2 DEF IsInjective
<1>4. ToSet(Tail(s)) \subseteq ToSet(s) \ {Head(s)}
  BY <1>1, <1>2 DEF ToSet, IsInjective
<1>5. ToSet(s) \ {Head(s)} \subseteq ToSet(Tail(s))
  <2> SUFFICES ASSUME NEW i \in DOMAIN s, s[i] # Head(s)
               PROVE  s[i] \in ToSet(Tail(s))
    BY DEF ToSet
  <2>1. i \in 2..Len(s) /\ i - 1 \in DOMAIN Tail(s) /\ Tail(s)[i - 1] = s[i]
    BY <1>1, <1>2
  <2> QED
    BY <2>1 DEF ToSet
<1>6. Head(s) \in ToSet(s) /\ Head(s) \in T
  BY <1>1, <1>2 DEF ToSet
<1> QED
  BY <1>1, <1>3, <1>4, <1>5, <1>6

LEMMA AppendInjects ==
  ASSUME NEW T, NEW s \in Seq(T), IsInjective(s), NEW e \in T, e \notin ToSet(s)
  PROVE  /\ Append(s, e) \in Seq(T) /\ IsInjective(Append(s, e))
         /\ ToSet(Append(s, e)) = ToSet(s) \cup {e}
<1>1. /\ Append(s, e) \in Seq(T) /\ Len(Append(s, e)) = Len(s) + 1
      /\ \A i \in 1..Len(s) : Append(s, e)[i] = s[i]
      /\ Append(s, e)[Len(s) + 1] = e
  OBVIOUS
<1>2. /\ DOMAIN s = 1..Len(s) /\ DOMAIN Append(s, e) = 1..(Len(s) + 1)
      /\ Len(s) \in Nat
  BY <1>1
<1>3. IsInjective(Append(s, e))
  BY <1>1, <1>2 DEF IsInjective, ToSet
<1>4. ToSet(Append(s, e)) \subseteq ToSet(s) \cup {e}
  BY <1>1, <1>2 DEF ToSet
<1>5. ToSet(s) \subseteq ToSet(Append(s, e)) /\ e \in ToSet(Append(s, e))
  BY <1>1, <1>2 DEF ToSet
<1> QED
  BY <1>1, <1>3, <1>4, <1>5

LEMMA EmptyInjective == <<>> \in Seq({}) /\ IsInjective(<<>>)
BY DEF IsInjective

-----------------------------------------------------------------------------
(* What applying a list of candidates does to the suppression of one key:  *)
(* it is dropped, for one of four reasons, or kept, or held for longer.    *)
Lifted(k, t) ==
  /\ suppressed'[k] = None
  /\ \/ k \notin ToSet(candidates[t])
     \/ suppressed[k] = None
     \/ suppressed[k].capture # capture
     \/ /\ ~(suppressed[k].probeFailed /\ suppressed[k].capture = capture)
        /\ suppressed[k].evidence # Fingerprint(k)

Prolonged(k) ==
  /\ suppressed[k] # None
  /\ suppressed'[k] \in Suppressions
  /\ \/ suppressed'[k] = suppressed[k]
     \/ /\ suppressed'[k].capture = capture
        /\ suppressed'[k].evidence = suppressed[k].evidence
        /\ suppressed'[k].probeFailed

(* And to the last failure: it is marked when a second thread drops it.    *)
Carried(k, t) ==
  /\ lastFailure'[k] \in Failures \cup {None}
  /\ lastFailure'[k] = None <=> lastFailure[k] = None
  /\ lastFailure[k] # None =>
       /\ lastFailure'[k].capture = lastFailure[k].capture
       /\ lastFailure'[k].evidence = lastFailure[k].evidence
       /\ lastFailure'[k].known = lastFailure[k].known
       /\ ~lastFailure'[k].dropped =>
            /\ ~lastFailure[k].dropped
            /\ t = Worker \/ k \in ToSet(candidates[t]) \/ suppressed[k] = None

LEMMA ApplyEffect ==
  ASSUME TypeOK, NoDuplicateWork, CandidatesAreDistinct, NEW t \in Threads,
         Apply(t)
  PROVE  /\ queue' \in Seq(Keys) /\ IsInjective(queue')
         /\ suppressed' \in [Keys -> Suppressions \cup {None}]
         /\ lastFailure' \in [Keys -> Failures \cup {None}]
         /\ \A k \in Keys : Lifted(k, t) \/ Prolonged(k)
         /\ \A k \in Keys : Carried(k, t)
         /\ \A k \in ToSet(queue') : k # active /\ suppressed'[k] = None
<1>1. PICK failing \in SUBSET Keys :
        LET listed == ToSet(candidates[t])
            eligible == {k \in listed : Released(k, failing) /\ MayQueue(k)}
        IN /\ suppressed' = [k \in Keys |->
                               IF k \notin listed \/ Released(k, failing)
                               THEN None ELSE Held(k, failing)]
           /\ \E retained \in Selected(queue, eligible) :
              \E added \in Selected(candidates[t],
                                    eligible \ ToSet(retained)) :
                queue' = retained \o added
           /\ lastFailure' = [k \in Keys |->
                                IF k \in DroppedBy(t, listed)
                                THEN [lastFailure[k] EXCEPT !.dropped = TRUE]
                                ELSE lastFailure[k]]
  BY DEF Apply
<1> DEFINE eligible == {k \in ToSet(candidates[t]) :
                          Released(k, failing) /\ MayQueue(k)}
<1>2. PICK retained \in Selected(queue, eligible) :
        \E added \in Selected(candidates[t], eligible \ ToSet(retained)) :
          queue' = retained \o added
  BY <1>1
<1>3. PICK added \in Selected(candidates[t], eligible \ ToSet(retained)) :
        queue' = retained \o added
  BY <1>2
<1>4. /\ candidates[t] \in Seq(Keys) /\ IsInjective(candidates[t])
      /\ queue \in Seq(Keys) /\ IsInjective(queue)
  BY DEF TypeOK, CandidatesAreDistinct, NoDuplicateWork
<1>5. eligible \subseteq Keys
  BY <1>4 DEF ToSet
<1>6. \A k \in eligible : k # active /\ suppressed'[k] = None
  BY <1>1, <1>5 DEF MayQueue
<1> HIDE DEF eligible
<1>7. /\ retained \in Seq(Keys) /\ IsInjective(retained)
      /\ ToSet(retained) = ToSet(queue) \cap eligible
  BY <1>4, SelectedProperties
<1>8. /\ added \in Seq(Keys) /\ IsInjective(added)
      /\ ToSet(added) = ToSet(candidates[t]) \cap (eligible \ ToSet(retained))
  BY <1>4, SelectedProperties
<1>9. /\ queue' \in Seq(Keys) /\ IsInjective(queue')
      /\ ToSet(queue') = ToSet(retained) \cup ToSet(added)
  <2>1. ToSet(retained) \cap ToSet(added) = {}
    BY <1>8
  <2> QED
    BY <1>3, <1>7, <1>8, <2>1, JoinProperties
<1>10. ASSUME NEW k \in Keys
      PROVE  /\ Lifted(k, t) \/ Prolonged(k)
             /\ suppressed'[k] \in Suppressions \cup {None}
  <2>1. CASE k \notin ToSet(candidates[t]) \/ Released(k, failing)
    BY <1>1, <2>1 DEF Lifted, Released, NewCapture, ProbeFailedNow
  <2>2. CASE k \in ToSet(candidates[t]) /\ ~Released(k, failing)
    <3>1. suppressed[k] \in Suppressions /\ suppressed[k] # None
      BY <2>2 DEF Released, TypeOK
    <3>2. suppressed'[k] = Held(k, failing)
      BY <1>1, <2>2
    <3>3. capture \in 0..MaxCapture
      BY DEF TypeOK
    <3> QED
      BY <3>1, <3>2, <3>3 DEF Held, Prolonged, Suppressions
  <2> QED
    BY <2>1, <2>2
<1>11. suppressed' \in [Keys -> Suppressions \cup {None}]
  BY <1>1, <1>10
<1>12. ASSUME NEW k \in Keys
      PROVE  Carried(k, t)
  <2>1. lastFailure[k] \in Failures \cup {None}
    BY DEF TypeOK
  <2>2. lastFailure'[k] = IF k \in DroppedBy(t, ToSet(candidates[t]))
                          THEN [lastFailure[k] EXCEPT !.dropped = TRUE]
                          ELSE lastFailure[k]
    BY <1>1
  <2>3. CASE k \in DroppedBy(t, ToSet(candidates[t]))
    <3>1. lastFailure[k] \in Failures
      BY <2>1, <2>3 DEF DroppedBy
    <3>2. lastFailure'[k] = [lastFailure[k] EXCEPT !.dropped = TRUE]
      BY <2>2, <2>3
    <3>3. lastFailure'[k] \in Failures /\ lastFailure'[k].dropped
      BY <3>1, <3>2 DEF Failures
    <3>4. /\ lastFailure'[k].capture = lastFailure[k].capture
          /\ lastFailure'[k].evidence = lastFailure[k].evidence
          /\ lastFailure'[k].known = lastFailure[k].known
      BY <3>1, <3>2 DEF Failures
    <3> QED
      BY <3>1, <3>3, <3>4, NoneAssumption DEF Carried
  <2>4. CASE k \notin DroppedBy(t, ToSet(candidates[t]))
    BY <2>1, <2>2, <2>4 DEF Carried, DroppedBy
  <2> QED
    BY <2>3, <2>4
<1>13. lastFailure' \in [Keys -> Failures \cup {None}]
  BY <1>1, <1>12 DEF Carried
<1> QED
  BY <1>6, <1>7, <1>8, <1>9, <1>10, <1>11, <1>12, <1>13

-----------------------------------------------------------------------------
(* The invariant of the queue                                              *)

LEMMA QueueInvInit == Init => QueueInv
<1> SUFFICES ASSUME Init PROVE QueueInv
  OBVIOUS
<1>1. TypeOK
  <2>1. 0 \in Versions /\ capture \in 0..MaxCapture
    BY BoundsAssumption DEF Init, Versions
  <2>2. queue \in Seq(Keys) /\ candidates \in [Threads -> Seq(Keys)]
    BY DEF Init
  <2>3. attached \in BOOLEAN /\ stopped \in BOOLEAN
    BY DEF Init
  <2> QED
    BY <2>1, <2>2, <2>3 DEF Init, TypeOK
<1>2. NoDuplicateWork /\ CandidatesAreDistinct
  BY EmptyInjective
     DEF Init, NoDuplicateWork, CandidatesAreDistinct, ToSet
<1>3. ActiveIsSubmitted /\ OneCompletion /\ CompletionIsAhead /\ WorkerRuns
  BY WorkerAssumption
     DEF Init, ActiveIsSubmitted, OneCompletion, CompletionIsAhead, WorkerRuns
<1> QED
  BY <1>1, <1>2, <1>3 DEF QueueInv

(* One step per action.  An action whose sequences or records are hard on  *)
(* the provers is first brought to its effect (<2>1).                      *)
LEMMA QueueInvStep == QueueInv /\ [Next]_vars => QueueInv'
<1> SUFFICES ASSUME TypeOK, NoDuplicateWork, CandidatesAreDistinct,
   ActiveIsSubmitted, OneCompletion, CompletionIsAhead, WorkerRuns,
   [Next]_vars
             PROVE  QueueInv'
  BY DEF QueueInv
<1>1. ASSUME NEW t \in Threads, Capture(t)
      PROVE  QueueInv'
  <2>1. TypeOK'
    <3>1. /\ stale' \in SUBSET Keys
          /\ evidence' \in [Keys -> Versions]
          /\ pc' \in [Threads -> {"idle", "captured", "read", "apply", "submit",
                                  "attach", "probe", "rebuild", "completed"}]
          /\ lastFailure' \in [Keys -> Failures \cup {None}]
      BY <1>1, TypeOK DEF Capture, Goto, Remember, job, TypeOK
    <3> QED
      BY <1>1, TypeOK, <3>1 DEF Capture, TypeOK, ledger, job
  <2>2. OneCompletion'
    BY <1>1, TypeOK, OneCompletion, WorkerRuns, WorkerAssumption,
       BoundsAssumption, NoneAssumption
       DEF Capture, Goto, Remember, job, OneCompletion, TypeOK, WorkerRuns
  <2>3. CompletionIsAhead'
    BY <1>1, TypeOK, CompletionIsAhead
       DEF Capture, Goto, Remember, job, CompletionIsAhead, TypeOK
  <2>4. WorkerRuns'
    BY <1>1, WorkerRuns, TypeOK, WorkerAssumption
       DEF Capture, Goto, Remember, job, WorkerRuns, TypeOK
  <2>5. NoDuplicateWork' /\ CandidatesAreDistinct' /\ ActiveIsSubmitted'
    BY <1>1, NoDuplicateWork, CandidatesAreDistinct, ActiveIsSubmitted
       DEF Capture, Goto, Remember, job, NoDuplicateWork,
           CandidatesAreDistinct, ActiveIsSubmitted, ledger
  <2> QED
    BY <2>1, <2>2, <2>3, <2>4, <2>5 DEF QueueInv
<1>2. ASSUME NEW t \in Threads, CaptureCompleted(t)
      PROVE  QueueInv'
  <2>1. TypeOK'
    <3>1. /\ capture' \in 0..MaxCapture
          /\ pc' \in [Threads -> {"idle", "captured", "read", "apply", "submit",
                                  "attach", "probe", "rebuild", "completed"}]
      BY <1>2, TypeOK, BoundsAssumption
         DEF CaptureCompleted, Goto, ledger, job, TypeOK
    <3> QED
      BY <1>2, TypeOK, <3>1 DEF CaptureCompleted, TypeOK, ledger, job
  <2>2. OneCompletion'
    BY <1>2, OneCompletion, TypeOK
       DEF CaptureCompleted, Goto, ledger, job, OneCompletion, TypeOK
  <2>3. CompletionIsAhead'
    BY <1>2, TypeOK, CompletionIsAhead
       DEF CaptureCompleted, Goto, ledger, job, CompletionIsAhead, TypeOK
  <2>4. WorkerRuns'
    BY <1>2, TypeOK, WorkerRuns, WorkerAssumption
       DEF CaptureCompleted, Goto, ledger, job, WorkerRuns, TypeOK
  <2>5. NoDuplicateWork' /\ CandidatesAreDistinct' /\ ActiveIsSubmitted'
    BY <1>2, NoDuplicateWork, CandidatesAreDistinct, ActiveIsSubmitted
       DEF CaptureCompleted, Goto, ledger, job, NoDuplicateWork,
           CandidatesAreDistinct, ActiveIsSubmitted
  <2> QED
    BY <2>1, <2>2, <2>3, <2>4, <2>5 DEF QueueInv
<1>3. ASSUME NEW t \in Threads, ReadCandidates(t)
      PROVE  QueueInv'
  <2>1. /\ pc[t] = "read" /\ pc' = [pc EXCEPT ![t] = "apply"]
        /\ \E order \in Seq(Keys) : /\ IsInjective(order)
                                     /\ candidates' = [candidates EXCEPT ![t] = order]
        /\ UNCHANGED <<stale, evidence, capture, queue, active, future, attached,
                      attempt, outcome, suppressed, stopped, lastFailure>>
    <3>1. IsFiniteSet(stale) /\ stale \subseteq Keys
      BY TypeOK, KeysAssumption, FS_Subset DEF TypeOK
    <3>2. PICK order \in SetToSeqs(stale) :
            candidates' = [candidates EXCEPT ![t] = order]
      BY <1>3 DEF ReadCandidates
    <3>3. order \in Seq(stale) /\ IsInjective(order)
      BY <3>1, SetToSeqsProperties
    <3>4. order \in Seq(Keys)
      BY <3>1, <3>3
    <3> QED
      BY <1>3, <3>2, <3>3, <3>4 DEF ReadCandidates, Goto, ledger, job
  <2>2. TypeOK'
    <3>1. /\ pc' \in [Threads -> {"idle", "captured", "read", "apply", "submit",
                                  "attach", "probe", "rebuild", "completed"}]
          /\ candidates' \in [Threads -> Seq(Keys)]
      BY <2>1, TypeOK DEF TypeOK
    <3> QED
      BY <2>1, TypeOK, <3>1 DEF TypeOK
  <2>3. CandidatesAreDistinct'
    BY <2>1, CandidatesAreDistinct DEF CandidatesAreDistinct
  <2>4. OneCompletion'
    BY <2>1, OneCompletion DEF OneCompletion
  <2>5. CompletionIsAhead'
    BY <2>1, CompletionIsAhead DEF CompletionIsAhead
  <2>6. WorkerRuns'
    BY <2>1, WorkerRuns DEF WorkerRuns
  <2>7. NoDuplicateWork' /\ ActiveIsSubmitted'
    BY <2>1, NoDuplicateWork, ActiveIsSubmitted
       DEF NoDuplicateWork, ActiveIsSubmitted
  <2> QED
    BY <2>2, <2>3, <2>4, <2>5, <2>6, <2>7 DEF QueueInv
<1>4. ASSUME NEW t \in Threads, AbandonReconcile(t)
      PROVE  QueueInv'
  <2>1. TypeOK'
    <3>1. pc' \in [Threads -> {"idle", "captured", "read", "apply", "submit",
                               "attach", "probe", "rebuild", "completed"}]
      BY <1>4, TypeOK DEF AbandonReconcile, Goto, ledger, job, TypeOK
    <3> QED
      BY <1>4, TypeOK, <3>1 DEF AbandonReconcile, TypeOK, ledger, job
  <2>2. OneCompletion'
    BY <1>4, OneCompletion
       DEF AbandonReconcile, Goto, ledger, job, OneCompletion
  <2>3. CompletionIsAhead'
    BY <1>4, CompletionIsAhead
       DEF AbandonReconcile, Goto, ledger, job, CompletionIsAhead
  <2>4. WorkerRuns'
    BY <1>4, WorkerRuns DEF AbandonReconcile, Goto, ledger, job, WorkerRuns
  <2>5. NoDuplicateWork' /\ CandidatesAreDistinct' /\ ActiveIsSubmitted'
    BY <1>4, NoDuplicateWork, CandidatesAreDistinct, ActiveIsSubmitted
       DEF AbandonReconcile, Goto, ledger, job, NoDuplicateWork,
           CandidatesAreDistinct, ActiveIsSubmitted
  <2> QED
    BY <2>1, <2>2, <2>3, <2>4, <2>5 DEF QueueInv
<1>5. ASSUME NEW t \in Threads, Apply(t)
      PROVE  QueueInv'
  <2>1. /\ pc[t] = "apply" /\ pc' = [pc EXCEPT ![t] = "submit"]
        /\ queue' \in Seq(Keys) /\ IsInjective(queue')
        /\ \A k \in ToSet(queue') : k # active
        /\ suppressed' \in [Keys -> Suppressions \cup {None}]
        /\ lastFailure' \in [Keys -> Failures \cup {None}]
        /\ UNCHANGED <<stale, evidence, capture, active, future, attached, attempt,
                      outcome, candidates, stopped>>
    BY <1>5, TypeOK, NoDuplicateWork, CandidatesAreDistinct, ApplyEffect
       DEF Apply, Goto, ledger, job
  <2>2. TypeOK'
    <3>1. /\ queue' \in Seq(Keys)
          /\ suppressed' \in [Keys -> Suppressions \cup {None}]
          /\ lastFailure' \in [Keys -> Failures \cup {None}]
          /\ pc' \in [Threads -> {"idle", "captured", "read", "apply", "submit",
                                  "attach", "probe", "rebuild", "completed"}]
      BY <2>1, TypeOK DEF TypeOK
    <3> QED
      BY <2>1, TypeOK, <3>1 DEF TypeOK
  <2>3. NoDuplicateWork'
    BY <2>1, NoDuplicateWork DEF NoDuplicateWork
  <2>4. OneCompletion'
    BY <2>1, OneCompletion DEF OneCompletion
  <2>5. CompletionIsAhead'
    BY <2>1, CompletionIsAhead DEF CompletionIsAhead
  <2>6. WorkerRuns'
    BY <2>1, WorkerRuns DEF WorkerRuns
  <2>7. CandidatesAreDistinct' /\ ActiveIsSubmitted'
    BY <2>1, CandidatesAreDistinct, ActiveIsSubmitted
       DEF CandidatesAreDistinct, ActiveIsSubmitted
  <2> QED
    BY <2>2, <2>3, <2>4, <2>5, <2>6, <2>7 DEF QueueInv
<1>6. ASSUME NEW t \in Threads, SubmitNext(t)
      PROVE  QueueInv'
  <2>1. /\ pc[t] = "submit" /\ candidates' = [candidates EXCEPT ![t] = <<>>]
        /\ \/ /\ pc' = [pc EXCEPT ![t] = "idle"]
              /\ UNCHANGED <<queue, active, future, attached, attempt, outcome>>
           \/ /\ pc' = [pc EXCEPT ![t] = "attach"]
              /\ active = None /\ active' \in Keys /\ active' \notin ToSet(queue')
              /\ queue' \in Seq(Keys) /\ IsInjective(queue')
              /\ future' = "queued" /\ attached' = FALSE /\ outcome' = None
              /\ attempt' \in Attempts
        /\ UNCHANGED <<stale, evidence, capture, suppressed, stopped, lastFailure>>
    <3>1. CASE active # None \/ queue = <<>> \/ stopped
      BY <1>6, <3>1 DEF SubmitNext, Goto, job, ledger
    <3>2. CASE active = None /\ queue # <<>> /\ ~stopped
      <4>1. /\ active' = Head(queue) /\ queue' = Tail(queue)
            /\ queue \in Seq(Keys) /\ IsInjective(queue)
        BY <1>6, <3>2, TypeOK, NoDuplicateWork
           DEF SubmitNext, TypeOK, NoDuplicateWork
      <4>2. /\ active' \in Keys /\ active' \notin ToSet(queue')
            /\ queue' \in Seq(Keys) /\ IsInjective(queue')
        BY <3>2, <4>1, TailInjective
      <4>3. attempt' \in Attempts
        <5>1. attempt' = [capture |-> capture, evidence |-> None,
                          known |-> FALSE, began |-> capture]
          BY <1>6, <3>2 DEF SubmitNext
        <5>2. capture \in 0..MaxCapture
          BY TypeOK DEF TypeOK
        <5> QED
          BY <5>1, <5>2 DEF Attempts
      <4>4. /\ pc' = [pc EXCEPT ![t] = "attach"] /\ future' = "queued"
            /\ attached' = FALSE /\ outcome' = None
        BY <1>6, <3>2 DEF SubmitNext, Goto
      <4> QED
        BY <1>6, <3>2, <4>2, <4>3, <4>4 DEF SubmitNext, ledger
    <3> QED
      BY <3>1, <3>2
  <2>2. TypeOK'
    <3>1. queue' \in Seq(Keys) /\ active' \in Keys \cup {None}
      BY <2>1, TypeOK DEF TypeOK
    <3>2. attached' \in BOOLEAN
      BY <2>1, TypeOK DEF TypeOK
    <3>3. /\ future' \in {"none", "queued", "running", "done"}
          /\ outcome' \in Outcomes \cup {None}
          /\ attempt' \in Attempts \cup {None}
      BY <2>1, TypeOK DEF TypeOK
    <3>4. pc' \in [Threads -> {"idle", "captured", "read", "apply", "submit",
                               "attach", "probe", "rebuild", "completed"}]
      BY <2>1, TypeOK DEF TypeOK
    <3>5. candidates' \in [Threads -> Seq(Keys)]
      BY <2>1, TypeOK, EmptyInjective DEF TypeOK
    <3> QED
      BY <2>1, TypeOK, <3>1, <3>2, <3>3, <3>4, <3>5 DEF TypeOK
  <2>3. NoDuplicateWork'
    BY <2>1, NoDuplicateWork DEF NoDuplicateWork
  <2>4. CandidatesAreDistinct'
    BY <2>1, TypeOK, CandidatesAreDistinct, EmptyInjective
       DEF TypeOK, CandidatesAreDistinct
  <2>5. ActiveIsSubmitted'
    BY <2>1, ActiveIsSubmitted, NoneAssumption DEF ActiveIsSubmitted
  <2>6. OneCompletion'
    BY <2>1, TypeOK, OneCompletion, WorkerAssumption, NoneAssumption
       DEF OneCompletion, TypeOK
  <2>7. CompletionIsAhead'
    BY <2>1, TypeOK, CompletionIsAhead DEF CompletionIsAhead, TypeOK
  <2>8. WorkerRuns'
    BY <2>1, TypeOK, ActiveIsSubmitted, WorkerRuns, WorkerAssumption
       DEF WorkerRuns, TypeOK, ActiveIsSubmitted
  <2> QED
    BY <2>2, <2>3, <2>4, <2>5, <2>6, <2>7, <2>8 DEF QueueInv
<1>7. ASSUME NEW t \in Threads, SubmitRefused(t)
      PROVE  QueueInv'
  <2>1. /\ pc[t] = "submit" /\ candidates' = [candidates EXCEPT ![t] = <<>>]
        /\ pc' = [pc EXCEPT ![t] = "idle"] /\ stopped' = TRUE
        /\ queue' \in Seq(Keys) /\ IsInjective(queue')
        /\ ToSet(queue') \subseteq ToSet(queue)
        /\ UNCHANGED <<stale, evidence, capture, active, future, attached, attempt,
                      outcome, suppressed, lastFailure>>
    <3>1. queue \in Seq(Keys) /\ IsInjective(queue)
      BY TypeOK, NoDuplicateWork DEF TypeOK, NoDuplicateWork
    <3>2. /\ queue' \in Seq(Keys) /\ IsInjective(queue')
          /\ ToSet(queue') \subseteq ToSet(queue)
      BY <1>7, <3>1, TailInjective DEF SubmitRefused
    <3> QED
      BY <1>7, <3>2 DEF SubmitRefused, Goto, ledger, job
  <2>2. TypeOK'
    <3>1. stopped' \in BOOLEAN
      BY <2>1, TypeOK DEF TypeOK
    <3>2. /\ queue' \in Seq(Keys)
          /\ pc' \in [Threads -> {"idle", "captured", "read", "apply", "submit",
                                  "attach", "probe", "rebuild", "completed"}]
          /\ candidates' \in [Threads -> Seq(Keys)]
      BY <2>1, TypeOK DEF TypeOK
    <3> QED
      BY <2>1, TypeOK, <3>1, <3>2 DEF TypeOK
  <2>3. NoDuplicateWork'
    BY <2>1, NoDuplicateWork DEF NoDuplicateWork
  <2>4. CandidatesAreDistinct'
    BY <2>1, TypeOK, CandidatesAreDistinct, EmptyInjective
       DEF TypeOK, CandidatesAreDistinct
  <2>5. OneCompletion'
    BY <2>1, OneCompletion DEF OneCompletion
  <2>6. CompletionIsAhead'
    BY <2>1, CompletionIsAhead DEF CompletionIsAhead
  <2>7. WorkerRuns'
    BY <2>1, WorkerRuns DEF WorkerRuns
  <2>8. ActiveIsSubmitted'
    BY <2>1, ActiveIsSubmitted DEF ActiveIsSubmitted
  <2> QED
    BY <2>2, <2>3, <2>4, <2>5, <2>6, <2>7, <2>8 DEF QueueInv
<1>8. ASSUME NEW t \in Threads, Attach(t)
      PROVE  QueueInv'
  <2>1. TypeOK'
    <3>1. attached' \in BOOLEAN
      BY <1>8, TypeOK DEF Attach, Goto, ledger, TypeOK
    <3>2. pc' \in [Threads -> {"idle", "captured", "read", "apply", "submit",
                               "attach", "probe", "rebuild", "completed"}]
      BY <1>8, TypeOK DEF Attach, Goto, ledger, TypeOK
    <3> QED
      BY <1>8, TypeOK, <3>1, <3>2 DEF Attach, TypeOK, ledger, job
  <2>2. ActiveIsSubmitted'
    BY <1>8, ActiveIsSubmitted, OneCompletion
       DEF Attach, Goto, ledger, ActiveIsSubmitted, OneCompletion
  <2>3. OneCompletion'
    <3>1. CASE future = "done" /\ attached' = attached
               /\ pc' = [pc EXCEPT ![t] = "completed"]
      BY <1>8, <3>1, OneCompletion, TypeOK DEF Attach, OneCompletion, TypeOK
    <3>2. CASE pc' = [pc EXCEPT ![t] = "idle"]
      <4>1. UNCHANGED <<active, future>>
        BY <1>8 DEF Attach
      <4>2. \A u \in Threads : pc'[u] \in {"attach", "completed"} =>
                              pc'[u] = pc[u] /\ u # t
        BY <3>2, TypeOK DEF TypeOK
      <4>3. \A u \in Threads : u # t => pc[u] # "attach"
        BY <1>8, OneCompletion DEF Attach, OneCompletion
      <4> QED
        BY <4>1, <4>2, <4>3, OneCompletion DEF OneCompletion
    <3> QED
      BY <1>8, <3>1, <3>2 DEF Attach, Goto
  <2>4. CompletionIsAhead'
    BY <1>8, TypeOK, CompletionIsAhead
       DEF Attach, Goto, ledger, CompletionIsAhead, TypeOK
  <2>5. WorkerRuns'
    BY <1>8, TypeOK, WorkerRuns, WorkerAssumption
       DEF Attach, Goto, ledger, WorkerRuns, TypeOK
  <2>6. NoDuplicateWork' /\ CandidatesAreDistinct'
    BY <1>8, NoDuplicateWork, CandidatesAreDistinct
       DEF Attach, Goto, ledger, NoDuplicateWork, CandidatesAreDistinct, job
  <2> QED
    BY <2>1, <2>2, <2>3, <2>4, <2>5, <2>6 DEF QueueInv
<1>9. ASSUME RunStart
      PROVE  QueueInv'
  <2>1. /\ pc[Worker] = "idle" /\ pc' = [pc EXCEPT ![Worker] = "probe"]
        /\ future = "queued" /\ future' = "running" /\ outcome' = outcome
        /\ attempt \in Attempts /\ attempt' \in Attempts
        /\ UNCHANGED <<stale, evidence, capture, queue, active, attached, suppressed,
                      candidates, stopped, lastFailure>>
    <3>1. attempt \in Attempts
      BY <1>9, TypeOK, ActiveIsSubmitted DEF RunStart, TypeOK, ActiveIsSubmitted
    <3>2. attempt' \in Attempts
      BY <1>9, <3>1, TypeOK DEF RunStart, TypeOK, Attempts
    <3> QED
      BY <1>9, <3>1, <3>2 DEF RunStart, Goto, ledger
  <2>2. TypeOK'
    <3>1. /\ future' \in {"none", "queued", "running", "done"}
          /\ attempt' \in Attempts \cup {None}
          /\ pc' \in [Threads -> {"idle", "captured", "read", "apply", "submit",
                                  "attach", "probe", "rebuild", "completed"}]
      BY <2>1, TypeOK DEF TypeOK
    <3> QED
      BY <2>1, TypeOK, <3>1 DEF TypeOK
  <2>3. ActiveIsSubmitted'
    BY <2>1, ActiveIsSubmitted, NoneAssumption DEF ActiveIsSubmitted
  <2>4. OneCompletion'
    BY <2>1, OneCompletion DEF OneCompletion
  <2>5. CompletionIsAhead'
    BY <2>1, CompletionIsAhead DEF CompletionIsAhead
  <2>6. WorkerRuns'
    BY <2>1, TypeOK, WorkerRuns, WorkerAssumption DEF WorkerRuns, TypeOK
  <2>7. NoDuplicateWork' /\ CandidatesAreDistinct'
    BY <2>1, NoDuplicateWork, CandidatesAreDistinct
       DEF NoDuplicateWork, CandidatesAreDistinct
  <2> QED
    BY <2>2, <2>3, <2>4, <2>5, <2>6, <2>7 DEF QueueInv
<1>10. ASSUME RunProbe
      PROVE  QueueInv'
  <2>1. /\ pc[Worker] = "probe"
        /\ \/ /\ pc' = [pc EXCEPT ![Worker] = "rebuild"]
              /\ attempt' \in Attempts /\ UNCHANGED <<future, outcome>>
           \/ /\ pc' = [pc EXCEPT ![Worker] = IF attached THEN "completed" ELSE "idle"]
              /\ future' = "done" /\ outcome' \in Outcomes /\ attempt' = attempt
        /\ attempt \in Attempts /\ UNCHANGED <<stale, evidence, capture, queue, active, attached, suppressed,
                      candidates, stopped, lastFailure>>
    <3>1. attempt \in Attempts
      BY <1>10, TypeOK, ActiveIsSubmitted, WorkerRuns
         DEF RunProbe, TypeOK, ActiveIsSubmitted, WorkerRuns
    <3>2. Fingerprint(active) \in Versions \cup {None}
      BY TypeOK, NoneAssumption, <1>10, WorkerRuns, ActiveIsSubmitted
         DEF TypeOK, Fingerprint, RunProbe, WorkerRuns, ActiveIsSubmitted
    <3>3. CASE pc' = [pc EXCEPT ![Worker] = "rebuild"] /\ UNCHANGED <<future, outcome>>
               /\ attempt' = [capture |-> attempt.capture,
                              evidence |-> Fingerprint(active), known |-> TRUE,
                              began |-> attempt.began]
      <4>1. attempt' \in Attempts
        BY <3>1, <3>2, <3>3 DEF Attempts
      <4> QED
        BY <1>10, <3>1, <3>3, <4>1 DEF RunProbe, ledger
    <3>4. CASE \E result \in {"failed", "failed_retryable"} :
                 Settle(result) /\ UNCHANGED attempt
      BY <1>10, <3>1, <3>4 DEF RunProbe, Settle, Goto, Outcomes, ledger
    <3> QED
      BY <1>10, <3>3, <3>4 DEF RunProbe, Goto
  <2>2. TypeOK'
    <3>1. /\ future' \in {"none", "queued", "running", "done"}
          /\ attempt' \in Attempts \cup {None}
          /\ outcome' \in Outcomes \cup {None}
          /\ pc' \in [Threads -> {"idle", "captured", "read", "apply", "submit",
                                  "attach", "probe", "rebuild", "completed"}]
      BY <2>1, TypeOK DEF TypeOK
    <3> QED
      BY <2>1, TypeOK, <3>1 DEF TypeOK
  <2>3. ActiveIsSubmitted'
    BY <2>1, ActiveIsSubmitted, NoneAssumption DEF ActiveIsSubmitted
  <2>4. OneCompletion'
    BY <2>1, TypeOK, ActiveIsSubmitted, OneCompletion, CompletionIsAhead,
       WorkerRuns, WorkerAssumption, KeysAssumption, BoundsAssumption
       DEF OneCompletion, TypeOK, ActiveIsSubmitted, CompletionIsAhead,
           WorkerRuns
  <2>5. CompletionIsAhead'
    BY <2>1, TypeOK, CompletionIsAhead, WorkerRuns, WorkerAssumption
       DEF CompletionIsAhead, TypeOK, WorkerRuns
  <2>6. WorkerRuns'
    BY <2>1, TypeOK, WorkerRuns, WorkerAssumption DEF WorkerRuns, TypeOK
  <2>7. NoDuplicateWork' /\ CandidatesAreDistinct'
    BY <2>1, NoDuplicateWork, CandidatesAreDistinct
       DEF NoDuplicateWork, CandidatesAreDistinct
  <2> QED
    BY <2>2, <2>3, <2>4, <2>5, <2>6, <2>7 DEF QueueInv
<1>11. ASSUME RunSlice
      PROVE  QueueInv'
  <2>1. /\ pc[Worker] = "rebuild"
        /\ pc' = [pc EXCEPT ![Worker] = IF attached THEN "completed" ELSE "idle"]
        /\ future' = "done" /\ outcome' \in Outcomes /\ stale' \subseteq Keys
        /\ lastFailure' \in [Keys -> Failures \cup {None}]
        /\ UNCHANGED <<evidence, capture, queue, active, attached, attempt,
                      suppressed, candidates, stopped>>
    <3>1. \E result \in Outcomes : Settle(result)
      BY <1>11 DEF RunSlice, Outcomes
    <3>2. stale' \subseteq Keys
      BY <1>11, TypeOK DEF RunSlice, TypeOK
    <3>3. lastFailure' \in [Keys -> Failures \cup {None}]
      BY <1>11, TypeOK DEF RunSlice, Remember, TypeOK
    <3> QED
      BY <1>11, <3>1, <3>2, <3>3 DEF RunSlice, Settle, Goto
  <2>2. TypeOK'
    <3>1. /\ stale' \in SUBSET Keys
          /\ future' \in {"none", "queued", "running", "done"}
          /\ outcome' \in Outcomes \cup {None}
          /\ pc' \in [Threads -> {"idle", "captured", "read", "apply", "submit",
                                  "attach", "probe", "rebuild", "completed"}]
          /\ lastFailure' \in [Keys -> Failures \cup {None}]
      BY <2>1, TypeOK DEF TypeOK
    <3> QED
      BY <2>1, TypeOK, <3>1 DEF TypeOK
  <2>3. ActiveIsSubmitted'
    BY <2>1, ActiveIsSubmitted, WorkerRuns DEF ActiveIsSubmitted, WorkerRuns
  <2>4. OneCompletion'
    BY <2>1, ActiveIsSubmitted, OneCompletion, WorkerRuns
       DEF OneCompletion, ActiveIsSubmitted, WorkerRuns
  <2>5. CompletionIsAhead'
    BY <2>1, TypeOK, CompletionIsAhead, WorkerRuns, WorkerAssumption
       DEF CompletionIsAhead, TypeOK, WorkerRuns
  <2>6. WorkerRuns'
    BY <2>1, TypeOK, WorkerRuns, WorkerAssumption DEF WorkerRuns, TypeOK
  <2>7. NoDuplicateWork' /\ CandidatesAreDistinct'
    BY <2>1, NoDuplicateWork, CandidatesAreDistinct
       DEF NoDuplicateWork, CandidatesAreDistinct
  <2> QED
    BY <2>2, <2>3, <2>4, <2>5, <2>6, <2>7 DEF QueueInv
<1>12. ASSUME NEW t \in Threads, Completed(t)
      PROVE  QueueInv'
  <2>1. /\ pc[t] = "completed" /\ pc' = [pc EXCEPT ![t] = "read"]
        /\ active' = None /\ future' = "none" /\ attached' = FALSE
        /\ attempt' = None /\ outcome' = None
        /\ queue' \in Seq(Keys) /\ IsInjective(queue') /\ None \notin ToSet(queue')
        /\ suppressed' \in [Keys -> Suppressions \cup {None}]
        /\ lastFailure' \in [Keys -> Failures \cup {None}]
        /\ UNCHANGED <<stale, evidence, capture, candidates, stopped>>
    <3>1. /\ active \in Keys /\ active \notin ToSet(queue) /\ attempt \in Attempts
          /\ queue \in Seq(Keys) /\ IsInjective(queue)
      BY <1>12, TypeOK, NoDuplicateWork, ActiveIsSubmitted, OneCompletion
         DEF Completed, TypeOK, NoDuplicateWork, ActiveIsSubmitted,
             OneCompletion
    <3>2. queue' \in Seq(Keys) /\ IsInjective(queue')
      BY <1>12, <3>1, AppendInjects DEF Completed, Requeue
    <3>5. None \notin ToSet(queue')
      BY <3>2, NoneAssumption DEF ToSet
    <3>3. suppressed' \in [Keys -> Suppressions \cup {None}]
      <4>1. [capture |-> attempt.capture, evidence |-> attempt.evidence,
             retryable |-> outcome # "failed",
             probeFailed |-> ~attempt.known] \in Suppressions
        BY <3>1 DEF Attempts, Suppressions
      <4> QED
        BY <1>12, <4>1, TypeOK DEF Completed, TypeOK
    <3>4. lastFailure' \in [Keys -> Failures \cup {None}]
      <4>1. [capture |-> attempt.began, evidence |-> attempt.evidence,
             known |-> attempt.known, dropped |-> FALSE] \in Failures
        BY <3>1 DEF Attempts, Failures
      <4> QED
        BY <1>12, <4>1, TypeOK DEF Completed, Remember, TypeOK
    <3> QED
      BY <1>12, <3>2, <3>3, <3>4, <3>5 DEF Completed, Goto, ledger
  <2>2. TypeOK'
    <3>1. attached' \in BOOLEAN
      BY <2>1, TypeOK DEF TypeOK
    <3>2. /\ queue' \in Seq(Keys)
          /\ active' \in Keys \cup {None}
          /\ future' \in {"none", "queued", "running", "done"}
          /\ attempt' \in Attempts \cup {None}
          /\ outcome' \in Outcomes \cup {None}
          /\ suppressed' \in [Keys -> Suppressions \cup {None}]
          /\ pc' \in [Threads -> {"idle", "captured", "read", "apply", "submit",
                                  "attach", "probe", "rebuild", "completed"}]
          /\ lastFailure' \in [Keys -> Failures \cup {None}]
      BY <2>1, TypeOK DEF TypeOK
    <3> QED
      BY <2>1, TypeOK, <3>1, <3>2 DEF TypeOK
  <2>3. NoDuplicateWork'
    BY <2>1, NoDuplicateWork DEF NoDuplicateWork
  <2>4. ActiveIsSubmitted'
    BY <2>1, ActiveIsSubmitted DEF ActiveIsSubmitted
  <2>5. OneCompletion'
    BY <2>1, TypeOK, OneCompletion DEF OneCompletion, TypeOK
  <2>6. CompletionIsAhead'
    BY <2>1, CompletionIsAhead DEF CompletionIsAhead
  <2>7. WorkerRuns'
    BY <2>1, OneCompletion, WorkerRuns DEF WorkerRuns, OneCompletion
  <2>8. CandidatesAreDistinct'
    BY <2>1, CandidatesAreDistinct DEF CandidatesAreDistinct
  <2> QED
    BY <2>2, <2>3, <2>4, <2>5, <2>6, <2>7, <2>8 DEF QueueInv
<1>13. ASSUME Stop
      PROVE  QueueInv'
  <2>1. TypeOK'
    <3>1. stopped' \in BOOLEAN
      BY <1>13, TypeOK DEF Stop, ledger, job, TypeOK
    <3> QED
      BY <1>13, TypeOK, <3>1 DEF Stop, TypeOK, ledger, job
  <2>2. NoDuplicateWork' /\ CandidatesAreDistinct' /\ ActiveIsSubmitted' /\
     OneCompletion' /\ CompletionIsAhead' /\ WorkerRuns'
    BY <1>13, NoDuplicateWork, CandidatesAreDistinct, ActiveIsSubmitted,
       OneCompletion, CompletionIsAhead, WorkerRuns
       DEF Stop, ledger, job, NoDuplicateWork, CandidatesAreDistinct,
           ActiveIsSubmitted, OneCompletion, CompletionIsAhead, WorkerRuns
  <2> QED
    BY <2>1, <2>2 DEF QueueInv
<1>14. CASE UNCHANGED vars
  BY <1>14
     DEF QueueInv, TypeOK, NoDuplicateWork, CandidatesAreDistinct,
         ActiveIsSubmitted, OneCompletion, CompletionIsAhead, WorkerRuns,
         vars, ledger, job
<1> QED
  BY <1>1, <1>2, <1>3, <1>4, <1>5, <1>6, <1>7, <1>8, <1>9, <1>10, <1>11,
     <1>12, <1>13, <1>14
     DEF Next, Reconcile

(* The invariant of the queue, for any number of sources, captures and     *)
(* threads in which callbacks run, whatever list of candidates a thread    *)
(* still holds (agent_rebuild_queue.py).                                   *)
THEOREM QueueInvariant == Spec => []QueueInv
<1>1. Init => QueueInv
  BY QueueInvInit
<1>2. QueueInv /\ [Next]_vars => QueueInv'
  BY QueueInvStep
<1> QED
  BY <1>1, <1>2, PTL DEF Spec

(* The variables keep their types.                                         *)
THEOREM TypeCorrect == Spec => []TypeOK
<1>1. QueueInv => TypeOK
  BY DEF QueueInv
<1> QED
  BY <1>1, QueueInvariant, PTL

(* No source is queued twice, or queued while it is being rebuilt.         *)
THEOREM WorkIsDistinct == Spec => []NoDuplicateWork
<1>1. QueueInv => NoDuplicateWork
  BY DEF QueueInv
<1> QED
  BY <1>1, QueueInvariant, PTL

LEMMA ActiveWillBeCompleted == QueueInv => ActiveWillComplete
<1> SUFFICES ASSUME TypeOK, ActiveIsSubmitted, CompletionIsAhead, active # None
             PROVE  \/ future \in {"queued", "running"} /\ attached
                    \/ \E t \in Threads : pc[t] \in {"attach", "completed"}
  BY DEF QueueInv, ActiveWillComplete
<1>1. future \in {"queued", "running", "done"}
  BY DEF TypeOK, ActiveIsSubmitted
<1>2. CASE future = "done"
  BY <1>2 DEF CompletionIsAhead
<1>3. CASE future \in {"queued", "running"} /\ ~attached
  BY <1>3 DEF CompletionIsAhead
<1> QED
  BY <1>1, <1>2, <1>3

(* An active source has somebody who will complete it: rebuilding never    *)
(* ends because a callback was registered too late.                        *)
THEOREM ActiveIsCompleted == Spec => []ActiveWillComplete
  BY ActiveWillBeCompleted, QueueInvariant, PTL

-----------------------------------------------------------------------------
(* Retries                                                                 *)

LEMMA RetryFactsInit == Init => RetryFacts
<1> SUFFICES ASSUME Init PROVE RetryFacts
  OBVIOUS
<1>1. ListIsCurrent /\ AttemptIsCurrent
  BY WorkerAssumption DEF Init, ListIsCurrent, AttemptIsCurrent
<1>2. FailuresAreOfThePast /\ SuppressionRemembers /\ ReleaseHasAReason
  BY DEF Init, FailuresAreOfThePast, SuppressionRemembers, ReleaseHasAReason
<1>3. WorkIsReleased
  BY DEF Init, WorkIsReleased
<1> QED
  BY <1>1, <1>2, <1>3 DEF RetryFacts

(* What the types say of the numbers.                                      *)
LEMMA RetryNumbers ==
  ASSUME TypeOK, ActiveIsSubmitted, WorkerRuns
  PROVE  /\ capture \in Nat /\ Worker \in Threads
         /\ \A k \in Keys : evidence[k] \in Nat
         /\ \A k \in Keys : lastFailure[k] # None =>
              /\ lastFailure[k] \in Failures /\ lastFailure[k].capture \in Nat
              /\ lastFailure[k].evidence \in Nat \cup {None}
         /\ active # None =>
              /\ active \in Keys /\ attempt \in Attempts /\ attempt # None
              /\ attempt.capture \in Nat /\ attempt.began \in Nat
         /\ pc[Worker] = "probe" => active # None
<1>1. capture \in Nat /\ Worker \in Threads /\ \A k \in Keys : evidence[k] \in Nat
  BY BoundsAssumption, WorkerAssumption DEF TypeOK, Versions
<1>2. ASSUME NEW k \in Keys, lastFailure[k] # None
      PROVE  /\ lastFailure[k] \in Failures /\ lastFailure[k].capture \in Nat
             /\ lastFailure[k].evidence \in Nat \cup {None}
  <2>1. lastFailure[k] \in Failures
    BY <1>2 DEF TypeOK
  <2> QED
    BY <2>1, BoundsAssumption DEF Failures, Versions
<1>3. ASSUME active # None
      PROVE  /\ active \in Keys /\ attempt \in Attempts /\ attempt # None
             /\ attempt.capture \in Nat /\ attempt.began \in Nat
  <2>1. active \in Keys /\ attempt \in Attempts /\ attempt # None
    BY <1>3 DEF TypeOK, ActiveIsSubmitted
  <2> QED
    BY <2>1, BoundsAssumption DEF Attempts
<1>4. pc[Worker] = "probe" => active # None
  BY DEF WorkerRuns, ActiveIsSubmitted
<1> QED
  BY <1>1, <1>2, <1>3, <1>4

(* A step that only moves a thread, and not the worker to a probe or to a  *)
(* list: what is known of the attempts stands.                             *)
LEMMA RetryFactsStand ==
  ASSUME RetryFacts,
         UNCHANGED <<stale, evidence, capture, active, future, attempt,
                     suppressed, lastFailure>>,
         ToSet(queue') \subseteq ToSet(queue),
         pc'[Worker] = "probe" <=> pc[Worker] = "probe",
         pc'[Worker] = "apply" => ToSet(candidates'[Worker]) = stale
  PROVE  RetryFacts'
<1> USE DEF RetryFacts
<1>1. ListIsCurrent'
  BY DEF ListIsCurrent
<1>2. AttemptIsCurrent'
  BY DEF AttemptIsCurrent
<1>3. FailuresAreOfThePast'
  BY DEF FailuresAreOfThePast
<1>4. WorkIsReleased'
  BY DEF WorkIsReleased
<1>5. SuppressionRemembers'
  BY DEF SuppressionRemembers
<1>6. ReleaseHasAReason'
  BY DEF ReleaseHasAReason, CaptureOf
<1> QED
  BY <1>1, <1>2, <1>3, <1>4, <1>5, <1>6

(* One step per action, as for the queue.                                  *)
LEMMA RetryFactsStep == QueueInv /\ RetryFacts /\ [Next]_vars => RetryFacts'
<1> SUFFICES ASSUME QueueInv, RetryFacts, [Next]_vars
             PROVE  RetryFacts'
  OBVIOUS
<1>a. /\ TypeOK /\ NoDuplicateWork /\ CandidatesAreDistinct /\ ActiveIsSubmitted
      /\ OneCompletion /\ CompletionIsAhead /\ WorkerRuns
  BY DEF QueueInv
<1>b. /\ ListIsCurrent /\ AttemptIsCurrent /\ FailuresAreOfThePast /\ WorkIsReleased
      /\ SuppressionRemembers /\ ReleaseHasAReason
  BY DEF RetryFacts
<1>n. /\ capture \in Nat /\ Worker \in Threads
      /\ \A k \in Keys : evidence[k] \in Nat
      /\ \A k \in Keys : lastFailure[k] # None =>
           /\ lastFailure[k] \in Failures /\ lastFailure[k].capture \in Nat
           /\ lastFailure[k].evidence \in Nat \cup {None}
      /\ active # None =>
           /\ active \in Keys /\ attempt \in Attempts /\ attempt # None
           /\ attempt.capture \in Nat /\ attempt.began \in Nat
      /\ pc[Worker] = "probe" => active # None
  BY <1>a, RetryNumbers
<1>1. ASSUME NEW t \in Threads, Capture(t)
      PROVE  RetryFacts'
  <2>1. /\ pc[Worker] = "idle" /\ pc'[Worker] \in {"captured", "read", "idle"}
        /\ \A k \in Keys : evidence'[k] \in Nat /\ evidence'[k] >= evidence[k]
        /\ \A k \in Keys : \/ lastFailure'[k] = None
                           \/ k \in stale' /\ lastFailure'[k] = lastFailure[k]
        /\ UNCHANGED <<capture, queue, active, future, attempt, suppressed, candidates>>
    <3>1. pc'[Worker] \in {"captured", "read", "idle"}
      BY <1>1, <1>a, <1>n DEF Capture, Goto, TypeOK
    <3>2. \A k \in Keys : evidence'[k] \in Nat /\ evidence'[k] >= evidence[k]
      BY <1>1, BoundsAssumption DEF Capture, Versions
    <3>3. \A k \in Keys : \/ lastFailure'[k] = None
                          \/ k \in stale' /\ lastFailure'[k] = lastFailure[k]
      BY <1>1 DEF Capture, Remember
    <3> QED
      BY <1>1, <3>1, <3>2, <3>3 DEF Capture, job
  <2>2. ListIsCurrent'
    BY <2>1 DEF ListIsCurrent
  <2>3. AttemptIsCurrent'
    BY <2>1, <1>a, <1>b, <1>n DEF AttemptIsCurrent, ActiveIsSubmitted
  <2>4. FailuresAreOfThePast'
    BY <2>1, <1>b, <1>n DEF FailuresAreOfThePast
  <2>5. WorkIsReleased'
    BY <2>1, <1>b DEF WorkIsReleased
  <2>6. SuppressionRemembers'
    BY <2>1, <1>b DEF SuppressionRemembers
  <2>7. ReleaseHasAReason'
    <3> SUFFICES ASSUME NEW k \in Keys, suppressed'[k] = None, lastFailure'[k] # None,
                        lastFailure'[k].capture = CaptureOf(k)', ~lastFailure'[k].dropped
                 PROVE  lastFailure'[k].known /\ lastFailure'[k].evidence # evidence'[k]
      BY DEF ReleaseHasAReason
    <3>1. lastFailure[k] # None /\ lastFailure'[k] = lastFailure[k]
      BY <2>1
    <3>2. /\ lastFailure[k].known /\ lastFailure[k].evidence # evidence[k]
          /\ lastFailure[k].evidence \in (0..evidence[k]) \cup {None}
      BY <2>1, <3>1, <1>b DEF ReleaseHasAReason, CaptureOf, FailuresAreOfThePast
    <3>3. evidence'[k] \in Versions
      BY <1>1 DEF Capture
    <3>4. evidence[k] \in Nat /\ evidence'[k] \in Nat /\ evidence[k] <= evidence'[k]
      BY <2>1, <1>n
    <3>5. CASE lastFailure[k].evidence = None
      BY <3>1, <3>2, <3>3, <3>5, NoneAssumption
    <3>6. CASE lastFailure[k].evidence \in 0..evidence[k]
      BY <3>1, <3>2, <3>4, <3>6
    <3> QED
      BY <3>2, <3>5, <3>6
  <2> QED
    BY <2>2, <2>3, <2>4, <2>5, <2>6, <2>7 DEF RetryFacts
<1>2. ASSUME NEW t \in Threads, CaptureCompleted(t)
      PROVE  RetryFacts'
  <2>1. /\ pc'[Worker] = "probe" <=> pc[Worker] = "probe"
        /\ pc'[Worker] = "apply" => pc[Worker] = "apply"
        /\ capture' \in {capture, capture + 1}
        /\ UNCHANGED <<stale, evidence, queue, active, future, attempt,
                      suppressed, candidates, lastFailure>>
    BY <1>2, <1>a, <1>n DEF CaptureCompleted, Goto, TypeOK, ledger, job
  <2>2. ListIsCurrent'
    BY <2>1, <1>b DEF ListIsCurrent
  <2>3. AttemptIsCurrent'
    BY <2>1, <1>b, <1>n DEF AttemptIsCurrent
  <2>4. FailuresAreOfThePast'
    BY <2>1, <1>b, <1>n DEF FailuresAreOfThePast
  <2>5. WorkIsReleased'
    BY <2>1, <1>b DEF WorkIsReleased
  <2>6. SuppressionRemembers'
    BY <2>1, <1>b, <1>n DEF SuppressionRemembers
  <2>7. ReleaseHasAReason'
    BY <2>1, <1>b, <1>n DEF ReleaseHasAReason, CaptureOf, FailuresAreOfThePast
  <2> QED
    BY <2>2, <2>3, <2>4, <2>5, <2>6, <2>7 DEF RetryFacts
<1>3. ASSUME NEW t \in Threads, ReadCandidates(t)
      PROVE  RetryFacts'
  <2>1. IsFiniteSet(stale)
    BY <1>a, KeysAssumption, FS_Subset DEF TypeOK
  <2>2. PICK order \in SetToSeqs(stale) :
          candidates' = [candidates EXCEPT ![t] = order]
    BY <1>3 DEF ReadCandidates
  <2>3. ToSet(order) = stale
    BY <2>1, <2>2, SetToSeqsProperties
  <2>4. pc[t] = "read" /\ pc' = [pc EXCEPT ![t] = "apply"]
        /\ UNCHANGED <<stale, evidence, capture, queue, active, future, attempt,
                      suppressed, lastFailure>>
    BY <1>3 DEF ReadCandidates, Goto, ledger, job
  <2>5. pc'[Worker] = "apply" => ToSet(candidates'[Worker]) = stale
    BY <1>a, <1>b, <1>n, <2>2, <2>3, <2>4 DEF TypeOK, ListIsCurrent
  <2>6. pc'[Worker] = "probe" <=> pc[Worker] = "probe"
    BY <1>a, <1>n, <2>4 DEF TypeOK
  <2> QED
    BY <2>4, <2>5, <2>6, RetryFactsStand
<1>4. ASSUME NEW t \in Threads, AbandonReconcile(t)
      PROVE  RetryFacts'
  <2>1. /\ pc'[Worker] = "probe" <=> pc[Worker] = "probe"
        /\ pc'[Worker] = "apply" => pc[Worker] = "apply"
        /\ UNCHANGED <<stale, evidence, capture, queue, active, future, attempt,
                      suppressed, candidates, lastFailure>>
    BY <1>4, <1>a, <1>n DEF AbandonReconcile, Goto, TypeOK, ledger, job
  <2>2. pc'[Worker] = "apply" => ToSet(candidates'[Worker]) = stale
    BY <2>1, <1>b DEF ListIsCurrent
  <2> QED
    BY <2>1, <2>2, RetryFactsStand
<1>5. ASSUME NEW t \in Threads, Apply(t)
      PROVE  RetryFacts'
  <2>1. /\ \A k \in Keys : Lifted(k, t) \/ Prolonged(k)
        /\ \A k \in Keys : Carried(k, t)
        /\ \A k \in ToSet(queue') : k # active /\ suppressed'[k] = None
    BY <1>5, <1>a, ApplyEffect
  <2>2. /\ pc[t] = "apply" /\ pc' = [pc EXCEPT ![t] = "submit"]
        /\ UNCHANGED <<stale, evidence, capture, active, future, attempt, candidates>>
    BY <1>5 DEF Apply, Goto, ledger, job
  <2>3. /\ pc'[Worker] = "probe" <=> pc[Worker] = "probe"
        /\ pc'[Worker] = "apply" => pc[Worker] = "apply"
    BY <1>a, <1>n, <2>2 DEF TypeOK
  <2>4. ListIsCurrent'
    BY <2>2, <2>3, <1>b DEF ListIsCurrent
  <2>5. AttemptIsCurrent'
    BY <2>2, <2>3, <1>b DEF AttemptIsCurrent
  <2>6. FailuresAreOfThePast'
    BY <2>1, <2>2, <2>3, <1>b DEF FailuresAreOfThePast, Carried
  <2>7. WorkIsReleased'
    BY <2>1, <2>2, <1>b DEF WorkIsReleased, Lifted, Prolonged
  <2>8. SuppressionRemembers'
    BY <2>1, <2>2, <1>b, <1>n
       DEF SuppressionRemembers, FailuresAreOfThePast, Lifted, Prolonged, Carried
  <2>9. ReleaseHasAReason'
    <3> SUFFICES ASSUME NEW k \in Keys, suppressed'[k] = None, lastFailure'[k] # None,
                        lastFailure'[k].capture = CaptureOf(k)', ~lastFailure'[k].dropped
                 PROVE  lastFailure'[k].known /\ lastFailure'[k].evidence # evidence'[k]
      BY DEF ReleaseHasAReason
    <3>1. /\ lastFailure[k] # None /\ lastFailure[k].capture = CaptureOf(k)
          /\ ~lastFailure[k].dropped
          /\ t = Worker \/ k \in ToSet(candidates[t]) \/ suppressed[k] = None
          /\ lastFailure'[k].known = lastFailure[k].known
          /\ lastFailure'[k].evidence = lastFailure[k].evidence
      BY <2>1, <2>2, <2>3 DEF Carried, CaptureOf
    <3>2. CASE suppressed[k] = None
      BY <2>2, <3>1, <3>2, <1>b DEF ReleaseHasAReason
    <3>3. CASE suppressed[k] # None
      <4>1. k \in stale /\ k # active
        BY <3>1, <3>3, <1>b DEF FailuresAreOfThePast, WorkIsReleased
      <4>2. k \in ToSet(candidates[t])
        BY <2>2, <3>1, <3>3, <4>1, <1>b DEF ListIsCurrent
      <4>3. Lifted(k, t)
        BY <2>1, <3>3, NoneAssumption DEF Prolonged
      <4>4. lastFailure[k].capture = capture
        BY <3>1, <4>1 DEF CaptureOf
      <4>5. /\ suppressed[k].capture = capture
            /\ suppressed[k].evidence = lastFailure[k].evidence
            /\ suppressed[k].probeFailed \/ lastFailure[k].known
        BY <3>1, <3>3, <4>4, <1>b, <1>n DEF SuppressionRemembers
      <4>6. ~suppressed[k].probeFailed /\ suppressed[k].evidence # evidence[k]
        BY <3>3, <4>1, <4>2, <4>3, <4>5 DEF Lifted, Fingerprint
      <4> QED
        BY <2>2, <3>1, <4>5, <4>6
    <3> QED
      BY <3>2, <3>3
  <2> QED
    BY <2>4, <2>5, <2>6, <2>7, <2>8, <2>9 DEF RetryFacts
<1>6. ASSUME NEW t \in Threads, SubmitNext(t)
      PROVE  RetryFacts'
  <2>1. CASE active # None \/ queue = <<>> \/ stopped
    <3>1. /\ pc'[Worker] = "probe" <=> pc[Worker] = "probe"
          /\ pc'[Worker] = "apply" => pc[Worker] = "apply" /\ t # Worker
          /\ UNCHANGED <<stale, evidence, capture, queue, active, future, attempt,
                        suppressed, lastFailure>>
      BY <1>6, <1>a, <1>n, <2>1 DEF SubmitNext, Goto, TypeOK, ledger, job
    <3>2. pc'[Worker] = "apply" => candidates'[Worker] = candidates[Worker]
      BY <1>6, <1>a, <1>n, <3>1 DEF SubmitNext, TypeOK
    <3>3. pc'[Worker] = "apply" => ToSet(candidates'[Worker]) = stale
      BY <3>1, <3>2, <1>b DEF ListIsCurrent
    <3> QED
      BY <3>1, <3>3, RetryFactsStand
  <2>2. CASE active = None /\ queue # <<>> /\ ~stopped
    <3>1. /\ active' = Head(queue) /\ queue' = Tail(queue)
          /\ queue \in Seq(Keys) /\ IsInjective(queue)
      BY <1>6, <1>a, <2>2 DEF SubmitNext, TypeOK, NoDuplicateWork
    <3>2. active' \in ToSet(queue) /\ ToSet(queue') \subseteq ToSet(queue)
      BY <2>2, <3>1, TailInjective
    <3>3. /\ future' = "queued" /\ pc' = [pc EXCEPT ![t] = "attach"] /\ pc[t] = "submit"
          /\ attempt' = [capture |-> capture, evidence |-> None, known |-> FALSE,
                         began |-> capture]
          /\ candidates' = [candidates EXCEPT ![t] = <<>>]
          /\ UNCHANGED <<stale, evidence, capture, suppressed, lastFailure>>
      BY <1>6, <2>2 DEF SubmitNext, Goto, ledger
    <3>4. pc[Worker] # "probe" /\ pc'[Worker] # "probe"
      BY <1>a, <1>n, <2>2, <3>3 DEF TypeOK
    <3>5. ListIsCurrent'
      BY <1>a, <1>b, <1>n, <3>3 DEF ListIsCurrent, TypeOK
    <3>6. AttemptIsCurrent'
      <4>1. attempt'.capture = capture /\ ~attempt'.known
        BY <3>3
      <4> QED
        BY <3>3, <3>4, <4>1, <1>n DEF AttemptIsCurrent
    <3>7. FailuresAreOfThePast'
      BY <3>3, <3>4, <1>b DEF FailuresAreOfThePast
    <3>8. WorkIsReleased'
      BY <3>2, <3>3, <1>b DEF WorkIsReleased
    <3>9. SuppressionRemembers'
      BY <3>3, <1>b DEF SuppressionRemembers
    <3>10. ReleaseHasAReason'
      BY <3>3, <3>4, <1>b DEF ReleaseHasAReason, CaptureOf
    <3> QED
      BY <3>5, <3>6, <3>7, <3>8, <3>9, <3>10 DEF RetryFacts
  <2> QED
    BY <2>1, <2>2
<1>7. ASSUME NEW t \in Threads, SubmitRefused(t)
      PROVE  RetryFacts'
  <2>1. queue \in Seq(Keys) /\ IsInjective(queue) /\ queue # <<>> /\ queue' = Tail(queue)
    BY <1>7, <1>a DEF SubmitRefused, TypeOK, NoDuplicateWork
  <2>2. ToSet(queue') \subseteq ToSet(queue)
    BY <2>1, TailInjective
  <2>3. /\ pc'[Worker] = "probe" <=> pc[Worker] = "probe"
        /\ pc'[Worker] = "apply" => pc[Worker] = "apply" /\ t # Worker
        /\ UNCHANGED <<stale, evidence, capture, active, future, attempt,
                      suppressed, lastFailure>>
    BY <1>7, <1>a, <1>n DEF SubmitRefused, Goto, TypeOK, ledger, job
  <2>4. pc'[Worker] = "apply" => candidates'[Worker] = candidates[Worker]
    BY <1>7, <1>a, <1>n, <2>3 DEF SubmitRefused, TypeOK
  <2>5. pc'[Worker] = "apply" => ToSet(candidates'[Worker]) = stale
    BY <2>3, <2>4, <1>b DEF ListIsCurrent
  <2> QED
    BY <2>2, <2>3, <2>5, RetryFactsStand
<1>8. ASSUME NEW t \in Threads, Attach(t)
      PROVE  RetryFacts'
  <2>1. /\ pc'[Worker] = "probe" <=> pc[Worker] = "probe"
        /\ pc'[Worker] = "apply" => pc[Worker] = "apply"
        /\ UNCHANGED <<stale, evidence, capture, queue, active, future, attempt,
                      suppressed, candidates, lastFailure>>
    BY <1>8, <1>a, <1>n DEF Attach, Goto, TypeOK, ledger
  <2>2. pc'[Worker] = "apply" => ToSet(candidates'[Worker]) = stale
    BY <2>1, <1>b DEF ListIsCurrent
  <2> QED
    BY <2>1, <2>2, RetryFactsStand
<1>9. ASSUME RunStart
      PROVE  RetryFacts'
  <2>1. /\ pc[Worker] = "idle" /\ pc'[Worker] = "probe"
        /\ future = "queued" /\ future' = "running"
        /\ attempt'.capture = capture /\ attempt'.began = capture
        /\ attempt'.known = attempt.known
        /\ UNCHANGED <<stale, evidence, capture, queue, active, suppressed, candidates,
                      lastFailure>>
    BY <1>9, <1>a, <1>n DEF RunStart, Goto, TypeOK, ledger
  <2>2. ListIsCurrent' /\ WorkIsReleased' /\ SuppressionRemembers'
    BY <2>1, <1>b DEF ListIsCurrent, WorkIsReleased, SuppressionRemembers
  <2>3. AttemptIsCurrent'
    BY <2>1, <1>b, <1>n DEF AttemptIsCurrent
  <2>4. FailuresAreOfThePast'
    BY <2>1, <1>b, <1>n DEF FailuresAreOfThePast
  <2>5. ReleaseHasAReason'
    BY <2>1, <1>b DEF ReleaseHasAReason, CaptureOf
  <2> QED
    BY <2>2, <2>3, <2>4, <2>5 DEF RetryFacts
<1>10. ASSUME RunProbe
      PROVE  RetryFacts'
  <2>1. /\ pc[Worker] = "probe" /\ pc'[Worker] \in {"rebuild", "completed", "idle"}
        /\ future = "running" /\ future' \in {"running", "done"}
        /\ attempt'.capture = attempt.capture /\ attempt'.began = attempt.began
        /\ ~attempt'.known \/ attempt'.evidence = Fingerprint(active)
        /\ UNCHANGED <<stale, evidence, capture, queue, active, suppressed, candidates,
                      lastFailure>>
    <3>1. pc[Worker] = "probe" /\ future = "running" /\ ~attempt.known
      BY <1>10, <1>a, <1>b DEF RunProbe, WorkerRuns, AttemptIsCurrent
    <3> QED
      BY <1>10, <1>a, <1>n, <3>1 DEF RunProbe, Settle, Goto, TypeOK, ledger
  <2>2. active \in Keys /\ attempt.capture \in Nat /\ attempt.began \in Nat
    BY <2>1, <1>n
  <2>3. attempt.began = attempt.capture /\ attempt.capture <= capture
    BY <2>1, <2>2, <1>n, <1>b DEF AttemptIsCurrent
  <2>4. ListIsCurrent' /\ WorkIsReleased' /\ SuppressionRemembers'
    BY <2>1, <1>b DEF ListIsCurrent, WorkIsReleased, SuppressionRemembers
  <2>5. AttemptIsCurrent'
    BY <2>1, <2>2, <2>3, <1>n DEF AttemptIsCurrent, Fingerprint
  <2>6. FailuresAreOfThePast'
    BY <2>1, <1>b DEF FailuresAreOfThePast
  <2>7. ReleaseHasAReason'
    BY <2>1, <2>2, <2>3, <1>b, <1>n
       DEF ReleaseHasAReason, CaptureOf, FailuresAreOfThePast
  <2> QED
    BY <2>4, <2>5, <2>6, <2>7 DEF RetryFacts
<1>11. ASSUME RunSlice
      PROVE  RetryFacts'
  <2>1. /\ pc[Worker] = "rebuild" /\ pc'[Worker] \in {"completed", "idle"}
        /\ future = "running" /\ future' = "done"
        /\ \A k \in Keys : \/ lastFailure'[k] = None
                           \/ k \in stale' /\ lastFailure'[k] = lastFailure[k]
        /\ UNCHANGED <<evidence, capture, queue, active, attempt, suppressed, candidates>>
    <3>1. \E result \in Outcomes : Settle(result)
      BY <1>11 DEF RunSlice, Outcomes
    <3>2. pc'[Worker] \in {"completed", "idle"} /\ future' = "done"
      BY <1>a, <1>n, <3>1 DEF Settle, Goto, TypeOK
    <3>3. \A k \in Keys : \/ lastFailure'[k] = None
                          \/ k \in stale' /\ lastFailure'[k] = lastFailure[k]
      <4>1. Remember(lastFailure, stale')
        BY <1>11 DEF RunSlice
      <4> QED
        BY <4>1 DEF Remember
    <3>4. /\ pc[Worker] = "rebuild"
          /\ UNCHANGED <<evidence, capture, queue, active, attempt, suppressed, candidates>>
      BY <1>11 DEF RunSlice
    <3>5. future = "running"
      BY <1>a, <3>4 DEF WorkerRuns
    <3> QED
      BY <3>2, <3>3, <3>4, <3>5
  <2>2. ListIsCurrent' /\ WorkIsReleased'
    BY <2>1, <1>b DEF ListIsCurrent, WorkIsReleased
  <2>3. AttemptIsCurrent'
    BY <2>1, <1>b DEF AttemptIsCurrent
  <2>4. FailuresAreOfThePast'
    BY <2>1, <1>b DEF FailuresAreOfThePast
  <2>5. SuppressionRemembers'
    BY <2>1, <1>b DEF SuppressionRemembers
  <2>6. ReleaseHasAReason'
    BY <2>1, <1>b DEF ReleaseHasAReason, CaptureOf
  <2> QED
    BY <2>2, <2>3, <2>4, <2>5, <2>6 DEF RetryFacts
<1>12. ASSUME NEW t \in Threads, Completed(t)
      PROVE  RetryFacts'
  <2>1. /\ pc[t] = "completed" /\ pc' = [pc EXCEPT ![t] = "read"]
        /\ active' = None /\ future' = "none" /\ attempt' = None
        /\ UNCHANGED <<stale, evidence, capture, candidates>>
    BY <1>12 DEF Completed, Goto, ledger
  <2>2. /\ active \in Keys /\ future = "done" /\ active \notin ToSet(queue)
        /\ queue \in Seq(Keys) /\ IsInjective(queue)
    BY <1>a, <1>n, <2>1 DEF OneCompletion, NoDuplicateWork, TypeOK
  <2>3. attempt \in Attempts /\ attempt.began = attempt.capture /\ attempt.capture \in 0..capture
        /\ (attempt.known => attempt.evidence \in (0..evidence[active]) \cup {None})
    BY <1>b, <1>n, <2>2, NoneAssumption DEF AttemptIsCurrent
  <2>4. /\ pc[Worker] # "probe" /\ pc'[Worker] # "probe"
        /\ pc'[Worker] = "apply" => pc[Worker] = "apply"
    BY <1>a, <1>n, <2>1, <2>2 DEF WorkerRuns, TypeOK
  <2>5. ToSet(queue') \subseteq ToSet(queue) \cup {active}
    BY <1>12, <2>2, AppendInjects DEF Completed, Requeue
  <2>6. None \notin ToSet(queue')
    <3>1. ToSet(queue) \subseteq Keys
      BY <2>2 DEF ToSet
    <3> QED
      BY <2>2, <2>5, <3>1, NoneAssumption
  <2>7. ListIsCurrent' /\ AttemptIsCurrent'
    BY <2>1, <2>4, <1>b DEF ListIsCurrent, AttemptIsCurrent
  <2>8. CASE outcome \notin {"blocked", "failed", "failed_retryable"}
    <3>1. UNCHANGED <<suppressed, lastFailure>>
      BY <1>12, <2>8 DEF Completed
    <3>2. FailuresAreOfThePast'
      BY <2>1, <2>4, <3>1, <1>b DEF FailuresAreOfThePast
    <3>3. WorkIsReleased'
      BY <2>1, <2>2, <2>5, <3>1, <1>b, NoneAssumption DEF WorkIsReleased
    <3>4. SuppressionRemembers'
      BY <2>1, <3>1, <1>b DEF SuppressionRemembers
    <3>5. ReleaseHasAReason'
      BY <2>1, <2>4, <3>1, <1>b DEF ReleaseHasAReason, CaptureOf
    <3> QED
      BY <2>7, <3>2, <3>3, <3>4, <3>5 DEF RetryFacts
  <2>9. CASE outcome \in {"blocked", "failed", "failed_retryable"}
    <3> DEFINE s == [capture |-> attempt.capture, evidence |-> attempt.evidence,
                     retryable |-> outcome # "failed", probeFailed |-> ~attempt.known]
               f == [capture |-> attempt.began, evidence |-> attempt.evidence,
                     known |-> attempt.known, dropped |-> FALSE]
    <3>1. s \in Suppressions
      BY <2>3 DEF Attempts, Suppressions
    <3>2. suppressed' = [suppressed EXCEPT ![active] = s] /\ queue' = queue
      BY <1>12, <2>9 DEF Completed
    <3>3. /\ suppressed'[active] = s
          /\ \A k \in Keys \ {active} : suppressed'[k] = suppressed[k]
      BY <2>2, <3>2, <1>a DEF TypeOK
    <3>4. \A k \in Keys : lastFailure'[k] =
            IF k \in stale THEN [lastFailure EXCEPT ![active] = f][k] ELSE None
      BY <1>12, <2>9 DEF Completed, Remember
    <3>5. /\ lastFailure'[active] = None \/ (active \in stale /\ lastFailure'[active] = f)
          /\ \A k \in Keys \ {active} : \/ lastFailure'[k] = None
                                        \/ lastFailure'[k] = lastFailure[k]
      BY <2>2, <3>4, <1>a DEF TypeOK
    <3>6. /\ s.capture = attempt.capture /\ s.evidence = attempt.evidence
          /\ s.probeFailed <=> ~attempt.known
          /\ f.capture = attempt.capture /\ f.evidence = attempt.evidence
          /\ f.known = attempt.known /\ s # None
      BY <2>3, <3>1, NoneAssumption
    <3> HIDE DEF s, f
    <3>7. FailuresAreOfThePast'
      BY <2>1, <2>3, <2>4, <3>5, <3>6, <1>b DEF FailuresAreOfThePast
    <3>8. WorkIsReleased'
      BY <2>1, <2>2, <3>2, <3>3, <1>b, NoneAssumption DEF WorkIsReleased
    <3>9. SuppressionRemembers'
      BY <2>1, <2>3, <3>3, <3>5, <3>6, <1>b, <1>n DEF SuppressionRemembers
    <3>10. ReleaseHasAReason'
      BY <2>1, <2>4, <3>3, <3>5, <3>6, <1>b DEF ReleaseHasAReason, CaptureOf
    <3> QED
      BY <2>7, <3>7, <3>8, <3>9, <3>10 DEF RetryFacts
  <2> QED
    BY <2>8, <2>9
<1>13. ASSUME Stop
      PROVE  RetryFacts'
  <2>1. UNCHANGED <<stale, evidence, capture, queue, active, future, attempt,
                   suppressed, pc, candidates, lastFailure>>
    BY <1>13 DEF Stop, ledger, job
  <2>2. pc'[Worker] = "apply" => ToSet(candidates'[Worker]) = stale
    BY <2>1, <1>b DEF ListIsCurrent
  <2> QED
    BY <2>1, <2>2, RetryFactsStand
<1>14. CASE UNCHANGED vars
  <2>1. UNCHANGED <<stale, evidence, capture, queue, active, future, attempt,
                   suppressed, pc, candidates, lastFailure>>
    BY <1>14 DEF vars, ledger, job
  <2>2. pc'[Worker] = "apply" => ToSet(candidates'[Worker]) = stale
    BY <2>1, <1>b DEF ListIsCurrent
  <2> QED
    BY <2>1, <2>2, RetryFactsStand
<1> QED
  BY <1>1, <1>2, <1>3, <1>4, <1>5, <1>6, <1>7, <1>8, <1>9, <1>10, <1>11,
     <1>12, <1>13, <1>14
     DEF Next, Reconcile

(* Who is about to be attempted was released for a reason, or dropped by a *)
(* second thread.                                                          *)
LEMMA AttemptsHaveAReason ==
  ASSUME RetryInv, pc[Worker] = "probe", lastFailure[active] # None,
         lastFailure[active].capture = attempt.began, ~lastFailure[active].dropped
  PROVE  /\ lastFailure[active].known
         /\ lastFailure[active].evidence # Fingerprint(active)
<1> USE DEF RetryInv, QueueInv, RetryFacts
<1>1. active \in Keys
  BY DEF TypeOK, WorkerRuns, ActiveIsSubmitted
<1>2. suppressed[active] = None /\ active \in stale
  BY <1>1 DEF WorkIsReleased, FailuresAreOfThePast
<1>3. /\ lastFailure[active].known
      /\ lastFailure[active].evidence # evidence[active]
  BY <1>1, <1>2 DEF ReleaseHasAReason, CaptureOf
<1> QED
  BY <1>2, <1>3 DEF Fingerprint

(* "Capture-scoped retries" (agent_rebuild_queue.py:1), for any number of  *)
(* sources, captures and threads that reconcile: while a source stays      *)
(* stale, an unsuccessful attempt is not repeated in the capture in which  *)
(* it ran unless what is known of the source changed, or a thread other    *)
(* than the worker applied a list from before the failure.                 *)
THEOREM RetriesAreScoped == Spec => CaptureScopedRetries
<1>1. Init => RetryInv
  BY QueueInvInit, RetryFactsInit DEF RetryInv
<1>2. RetryInv /\ [Next]_vars => RetryInv'
  BY QueueInvStep, RetryFactsStep DEF RetryInv
<1>3. RetryInv /\ [Next]_vars =>
        [pc[Worker] = "probe" /\ pc'[Worker] # "probe" =>
           LET last == lastFailure[active] IN
           last # None /\ last.capture = attempt.began /\ ~last.dropped =>
             last.known /\ last.evidence # Fingerprint(active)]_vars
  BY AttemptsHaveAReason
<1> QED
  BY <1>1, <1>2, <1>3, PTL DEF Spec, CaptureScopedRetries

-----------------------------------------------------------------------------
(* The upgrade of a ledger (LedgerUpgrade).                                *)
(***************************************************************************)

LEMMA NobodyIsNone ==
  /\ None \notin Openers /\ None \notin Upgrade!Owners /\ MaxCommits \in Nat \ {0}
  /\ \A t \in Openers : ProcessOf[t] \in Upgrade!Owners
BY UpgradeAssumption DEF Upgrade!Owners

LEMMA UpgradeInvInit == Upgrade!Init => Upgrade!UpgradeInv
<1> SUFFICES ASSUME Upgrade!Init
             PROVE  Upgrade!UpgradeInv
  OBVIOUS
<1> USE NobodyIsNone DEF Upgrade!Init
<1>1. Upgrade!TypeOK
  BY DEF Upgrade!TypeOK, Upgrade!Idle, Upgrade!Steps
<1>2. Upgrade!HoldersWork
  BY DEF Upgrade!HoldersWork, Upgrade!Idle, Upgrade!Working
<1>3. Upgrade!UpgraderHolds
  BY DEF Upgrade!UpgraderHolds, Upgrade!Idle
<1>4. Upgrade!CopyIsRecent
  BY DEF Upgrade!CopyIsRecent, Upgrade!Idle
<1> QED
  BY <1>1, <1>2, <1>3, <1>4 DEF Upgrade!UpgradeInv

(* What the lock holders need of a step that moves threads to at.          *)
LEMMA NotWorking ==
  /\ \A step \in {"idle", "admit", "parse", "admit parse"} : step \notin Upgrade!Working
  /\ {"refresh", "baseline", "snapshot", "migrate"} \subseteq Upgrade!Working
BY DEF Upgrade!Working

(* A commit, of whatever rows, numbers a state no copy is newer than.      *)
Grows ==
  /\ version' \in Upgrade!Versions /\ guarded' \in BOOLEAN
  /\ committed' \in committed..MaxCommits /\ tally' \in 0..committed'
  /\ backups \subseteq backups' /\ backups' \subseteq 0..MaxCommits

LEMMA StandsStill ==
  ASSUME Upgrade!TypeOK, UNCHANGED Upgrade!Database
  PROVE  Grows
BY NobodyIsNone DEF Upgrade!TypeOK, Upgrade!Database, Grows

LEMMA CommitGrows ==
  ASSUME Upgrade!TypeOK, NEW inserted \in {0, 1}, Upgrade!Commit(inserted),
         version' \in Upgrade!Versions, guarded' \in BOOLEAN, UNCHANGED backups
  PROVE  Grows /\ committed' = committed + 1
BY NobodyIsNone DEF Upgrade!TypeOK, Upgrade!Commit, Grows

(* A thread that closes leaves the others the locks they hold.             *)
LEMMA CloseKeeps ==
  ASSUME Upgrade!UpgradeInv, NEW t \in Openers, Upgrade!Close(t), Grows
  PROVE  Upgrade!UpgradeInv'
<1>1. /\ Upgrade!TypeOK /\ Upgrade!HoldersWork /\ Upgrade!UpgraderHolds /\ Upgrade!CopyIsRecent
  BY DEF Upgrade!UpgradeInv
<1>2. /\ maintenance' = IF maintenance = t THEN None ELSE maintenance
      /\ refreshLock' = IF refreshLock = t THEN None ELSE refreshLock
      /\ homeLock' = IF maintenance = t /\ ~thread[t].borrowed THEN None ELSE homeLock
      /\ admitted' = [p \in Upgrade!Owners |-> IF admitted[p] = t THEN None ELSE admitted[p]]
      /\ thread' = [thread EXCEPT ![t] = Upgrade!Idle]
  BY DEF Upgrade!Close, Upgrade!FreeUpgradeLocks
<1>3. \A s \in Openers : thread'[s] = IF s = t THEN Upgrade!Idle ELSE thread[s]
  BY <1>1, <1>2 DEF Upgrade!TypeOK
<1>4. Upgrade!TypeOK'
  <2>1. Upgrade!Idle \in [at : Upgrade!Steps, base : 0..MaxCommits, count : 0..MaxCommits,
                          borrowed : BOOLEAN]
    BY NobodyIsNone DEF Upgrade!Idle, Upgrade!Steps
  <2>2. committed' \in 0..MaxCommits /\ tally' \in 0..committed'
    BY <1>1, NobodyIsNone DEF Upgrade!TypeOK, Grows
  <2> QED
    BY <1>1, <1>2, <2>1, <2>2 DEF Upgrade!TypeOK, Grows
<1>5. Upgrade!HoldersWork'
  <2> SUFFICES ASSUME NEW s \in Openers
               PROVE  /\ \A q \in Upgrade!Owners :
                           admitted'[q] = s <=> ProcessOf[s] = q /\ thread'[s].at \in Upgrade!Working
                      /\ refreshLock' = s => thread'[s].at \in {"admit parse"} \cup Upgrade!Working
                      /\ maintenance' = s =>
                           thread'[s].at \in {"refresh", "baseline", "snapshot", "migrate"}
    BY DEF Upgrade!HoldersWork
  <2>1. thread'[s].at = IF s = t THEN "idle" ELSE thread[s].at
    BY <1>3 DEF Upgrade!Idle
  <2>2. \A q \in Upgrade!Owners : admitted'[q] = IF admitted[q] = t THEN None ELSE admitted[q]
    BY <1>2
  <2>3. /\ \A q \in Upgrade!Owners : admitted[q] = s <=> ProcessOf[s] = q /\ thread[s].at \in Upgrade!Working
        /\ refreshLock = s => thread[s].at \in {"admit parse"} \cup Upgrade!Working
        /\ maintenance = s => thread[s].at \in {"refresh", "baseline", "snapshot", "migrate"}
    BY <1>1 DEF Upgrade!HoldersWork
  <2>4. \A q \in Upgrade!Owners :
          admitted'[q] = s <=> ProcessOf[s] = q /\ thread'[s].at \in Upgrade!Working
    BY <2>1, <2>2, <2>3, NobodyIsNone, NotWorking
  <2>5. refreshLock' = s => thread'[s].at \in {"admit parse"} \cup Upgrade!Working
    BY <1>2, <2>1, <2>3, NobodyIsNone, NotWorking
  <2>6. maintenance' = s => thread'[s].at \in {"refresh", "baseline", "snapshot", "migrate"}
    BY <1>2, <2>1, <2>3, NobodyIsNone, NotWorking
  <2> QED
    BY <2>4, <2>5, <2>6
<1>6. Upgrade!UpgraderHolds'
  BY <1>1, <1>2, <1>3, NobodyIsNone DEF Upgrade!TypeOK, Upgrade!UpgraderHolds, Upgrade!Idle
<1>7. Upgrade!CopyIsRecent'
  BY <1>1, <1>3, NobodyIsNone DEF Upgrade!TypeOK, Upgrade!CopyIsRecent, Upgrade!Idle, Grows
<1> QED
  BY <1>4, <1>5, <1>6, <1>7 DEF Upgrade!UpgradeInv

LEMMA StartAgentKeeps ==
  ASSUME Upgrade!UpgradeInv, NEW p \in Upgrade!Owners, Upgrade!StartAgent(p)
  PROVE  Upgrade!UpgradeInv'
<1> USE NobodyIsNone DEF Upgrade!UpgradeInv, Upgrade!StartAgent, Upgrade!Database
<1>1. Upgrade!TypeOK'
  BY DEF Upgrade!TypeOK
<1>2. Upgrade!HoldersWork'
  BY DEF Upgrade!HoldersWork
<1>3. Upgrade!UpgraderHolds'
  BY DEF Upgrade!UpgraderHolds
<1>4. Upgrade!CopyIsRecent'
  BY DEF Upgrade!CopyIsRecent
<1> QED
  BY <1>1, <1>2, <1>3, <1>4

LEMMA StopAgentKeeps ==
  ASSUME Upgrade!UpgradeInv, NEW p \in Upgrade!Owners, Upgrade!StopAgent(p)
  PROVE  Upgrade!UpgradeInv'
<1> USE NobodyIsNone DEF Upgrade!UpgradeInv, Upgrade!StopAgent, Upgrade!Database
<1>1. Upgrade!TypeOK'
  BY DEF Upgrade!TypeOK
<1>2. Upgrade!HoldersWork'
  BY DEF Upgrade!HoldersWork
<1>3. Upgrade!UpgraderHolds'
  BY DEF Upgrade!UpgraderHolds, Upgrade!At
<1>4. Upgrade!CopyIsRecent'
  BY DEF Upgrade!CopyIsRecent
<1> QED
  BY <1>1, <1>2, <1>3, <1>4

(* A process that dies frees what its threads hold and nothing else.       *)
LEMMA CrashKeeps ==
  ASSUME Upgrade!UpgradeInv, NEW p \in Upgrade!Owners, Upgrade!Crash(p)
  PROVE  Upgrade!UpgradeInv'
<1> DEFINE mine == {t \in Openers : ProcessOf[t] = p}
<1>1. /\ Upgrade!TypeOK /\ Upgrade!HoldersWork /\ Upgrade!UpgraderHolds /\ Upgrade!CopyIsRecent
  BY DEF Upgrade!UpgradeInv
<1>2. /\ homeLock' = IF homeLock = p THEN None ELSE homeLock
      /\ maintenance' = IF maintenance \in mine THEN None ELSE maintenance
      /\ refreshLock' = IF refreshLock \in mine THEN None ELSE refreshLock
      /\ admitted' = [admitted EXCEPT ![p] = None]
      /\ thread' = [t \in Openers |-> IF t \in mine THEN Upgrade!Idle ELSE thread[t]]
      /\ UNCHANGED Upgrade!Database
  BY DEF Upgrade!Crash
<1>3. /\ \A s \in Openers : thread'[s] = IF ProcessOf[s] = p THEN Upgrade!Idle ELSE thread[s]
      /\ \A q \in Upgrade!Owners : admitted'[q] = IF q = p THEN None ELSE admitted[q]
  BY <1>1, <1>2 DEF Upgrade!TypeOK
<1>4. Upgrade!TypeOK'
  <2>1. Upgrade!Idle \in [at : Upgrade!Steps, base : 0..MaxCommits, count : 0..MaxCommits,
                          borrowed : BOOLEAN]
    BY NobodyIsNone DEF Upgrade!Idle, Upgrade!Steps
  <2> QED
    BY <1>1, <1>2, <2>1 DEF Upgrade!TypeOK, Upgrade!Database
<1>5. Upgrade!HoldersWork'
  <2> SUFFICES ASSUME NEW s \in Openers
               PROVE  /\ \A q \in Upgrade!Owners :
                           admitted'[q] = s <=> ProcessOf[s] = q /\ thread'[s].at \in Upgrade!Working
                      /\ refreshLock' = s => thread'[s].at \in {"admit parse"} \cup Upgrade!Working
                      /\ maintenance' = s =>
                           thread'[s].at \in {"refresh", "baseline", "snapshot", "migrate"}
    BY DEF Upgrade!HoldersWork
  <2>1. thread'[s].at = IF ProcessOf[s] = p THEN "idle" ELSE thread[s].at
    BY <1>3 DEF Upgrade!Idle
  <2>2. \A q \in Upgrade!Owners : admitted'[q] = IF q = p THEN None ELSE admitted[q]
    BY <1>3
  <2>3. /\ \A q \in Upgrade!Owners : admitted[q] = s <=> ProcessOf[s] = q /\ thread[s].at \in Upgrade!Working
        /\ refreshLock = s => thread[s].at \in {"admit parse"} \cup Upgrade!Working
        /\ maintenance = s => thread[s].at \in {"refresh", "baseline", "snapshot", "migrate"}
    BY <1>1 DEF Upgrade!HoldersWork
  <2>4. \A q \in Upgrade!Owners :
          admitted'[q] = s <=> ProcessOf[s] = q /\ thread'[s].at \in Upgrade!Working
    BY <2>1, <2>2, <2>3, NobodyIsNone, NotWorking
  <2>5. refreshLock' = s => thread'[s].at \in {"admit parse"} \cup Upgrade!Working
    BY <1>2, <2>1, <2>3, NobodyIsNone, NotWorking
  <2>6. maintenance' = s => thread'[s].at \in {"refresh", "baseline", "snapshot", "migrate"}
    BY <1>2, <2>1, <2>3, NobodyIsNone, NotWorking
  <2> QED
    BY <2>4, <2>5, <2>6
<1>6. Upgrade!UpgraderHolds'
  BY <1>1, <1>2, <1>3, NobodyIsNone DEF Upgrade!TypeOK, Upgrade!UpgraderHolds, Upgrade!Idle
<1>7. Upgrade!CopyIsRecent'
  BY <1>1, <1>2, <1>3 DEF Upgrade!CopyIsRecent, Upgrade!Idle, Upgrade!Database
<1> QED
  BY <1>4, <1>5, <1>6, <1>7 DEF Upgrade!UpgradeInv

LEMMA OldWriteKeeps ==
  ASSUME Upgrade!UpgradeInv, Upgrade!OldWrite
  PROVE  Upgrade!UpgradeInv'
<1>1. PICK inserted \in {0, 1} : Upgrade!Commit(inserted)
  BY DEF Upgrade!OldWrite
<1>2. Upgrade!TypeOK /\ UNCHANGED <<version, guarded, backups, Upgrade!Locks, thread>>
  BY DEF Upgrade!OldWrite, Upgrade!UpgradeInv
<1>3. Grows
  BY <1>1, <1>2, CommitGrows DEF Upgrade!TypeOK
<1>4. Upgrade!TypeOK'
  BY <1>2, <1>3, NobodyIsNone DEF Upgrade!TypeOK, Upgrade!Locks, Grows
<1>5. Upgrade!HoldersWork' /\ Upgrade!UpgraderHolds'
  BY <1>2 DEF Upgrade!UpgradeInv, Upgrade!HoldersWork, Upgrade!UpgraderHolds, Upgrade!Locks
<1>6. Upgrade!CopyIsRecent'
  BY <1>2, <1>3, NobodyIsNone DEF Upgrade!UpgradeInv, Upgrade!TypeOK, Upgrade!CopyIsRecent, Grows
<1> QED
  BY <1>4, <1>5, <1>6 DEF Upgrade!UpgradeInv

(* A thread that moves on, and takes no lock. *)
LEMMA OpenKeeps ==
  ASSUME Upgrade!UpgradeInv, NEW t \in Openers, Upgrade!Open(t) \/ Upgrade!Parse(t)
  PROVE  Upgrade!UpgradeInv'
<1> PICK step \in {"admit", "parse"} :
      /\ thread[t].at = "idle" /\ thread' = [thread EXCEPT ![t].at = step]
      /\ UNCHANGED <<Upgrade!Database, Upgrade!Locks>>
  BY DEF Upgrade!Open, Upgrade!Parse, Upgrade!GoTo, Upgrade!At
<1> USE DEF Upgrade!UpgradeInv, Upgrade!Database, Upgrade!Locks
<1>0. \A s \in Openers : thread'[s] = IF s = t THEN [thread[s] EXCEPT !.at = step] ELSE thread[s]
  BY DEF Upgrade!TypeOK
<1>1. Upgrade!TypeOK'
  BY DEF Upgrade!TypeOK, Upgrade!Steps
<1>2. Upgrade!HoldersWork'
  <2> SUFFICES ASSUME NEW s \in Openers
               PROVE  /\ \A q \in Upgrade!Owners :
                           admitted'[q] = s <=> ProcessOf[s] = q /\ thread'[s].at \in Upgrade!Working
                      /\ refreshLock' = s => thread'[s].at \in {"admit parse"} \cup Upgrade!Working
                      /\ maintenance' = s =>
                           thread'[s].at \in {"refresh", "baseline", "snapshot", "migrate"}
    BY DEF Upgrade!HoldersWork
  <2>1. thread'[s].at = IF s = t THEN step ELSE thread[s].at
    BY <1>0 DEF Upgrade!TypeOK
  <2>2. \A q \in Upgrade!Owners : admitted'[q] = admitted[q]
    OBVIOUS
  <2>3. /\ \A q \in Upgrade!Owners : admitted[q] = s <=> ProcessOf[s] = q /\ thread[s].at \in Upgrade!Working
        /\ refreshLock = s => thread[s].at \in {"admit parse"} \cup Upgrade!Working
        /\ maintenance = s => thread[s].at \in {"refresh", "baseline", "snapshot", "migrate"}
    BY DEF Upgrade!HoldersWork
  <2>4. \A q \in Upgrade!Owners :
          admitted'[q] = s <=> ProcessOf[s] = q /\ thread'[s].at \in Upgrade!Working
    BY <2>1, <2>2, <2>3, NobodyIsNone, NotWorking
  <2>5. refreshLock' = s => thread'[s].at \in {"admit parse"} \cup Upgrade!Working
    BY <2>1, <2>3, NobodyIsNone, NotWorking
  <2>6. maintenance' = s => thread'[s].at \in {"refresh", "baseline", "snapshot", "migrate"}
    BY <2>1, <2>3, NobodyIsNone, NotWorking
  <2> QED
    BY <2>4, <2>5, <2>6
<1>3. Upgrade!UpgraderHolds'
  BY <1>0 DEF Upgrade!TypeOK, Upgrade!UpgraderHolds
<1>4. Upgrade!CopyIsRecent'
  BY <1>0 DEF Upgrade!TypeOK, Upgrade!CopyIsRecent
<1> QED
  BY <1>1, <1>2, <1>3, <1>4

(* What the invariant says of one thread. *)
AdmittedOf(t) ==
  \A p \in Upgrade!Owners :
    admitted[p] = t <=> ProcessOf[t] = p /\ thread[t].at \in Upgrade!Working

LocksOf(t) ==
  /\ refreshLock = t => thread[t].at \in {"admit parse"} \cup Upgrade!Working
  /\ maintenance = t => thread[t].at \in {"refresh", "baseline", "snapshot", "migrate"}
  /\ thread[t].at \in {"refresh", "baseline", "snapshot", "migrate"} =>
       maintenance = t /\ homeLock = ProcessOf[t]
  /\ thread[t].at \in {"baseline", "snapshot", "migrate"} => refreshLock = t

CopyOf(t) ==
  /\ thread[t].at \in {"snapshot", "migrate"} => thread[t].base <= committed
  /\ thread[t].at = "migrate" => \E c \in backups : thread[t].base <= c /\ c <= committed

LEMMA InvOfThreads ==
  Upgrade!UpgradeInv <=> Upgrade!TypeOK /\ \A t \in Openers : AdmittedOf(t) /\ LocksOf(t) /\ CopyOf(t)
BY DEF Upgrade!UpgradeInv, Upgrade!HoldersWork, Upgrade!UpgraderHolds, Upgrade!CopyIsRecent,
       AdmittedOf, LocksOf, CopyOf

LEMMA NoCopyYet ==
  ASSUME NEW t, thread'[t].at \notin {"snapshot", "migrate"}
  PROVE  CopyOf(t)'
BY DEF CopyOf

(* A thread is left alone by a step that takes none of its locks.          *)
Spared(s) ==
  /\ thread'[s] = thread[s]
  /\ \A p \in Upgrade!Owners : admitted'[p] = s <=> admitted[p] = s
  /\ refreshLock' = s <=> refreshLock = s
  /\ maintenance' = s <=> maintenance = s
  /\ maintenance = s => homeLock' = homeLock

LEMMA SparedKeeps ==
  ASSUME NEW s \in Openers, Upgrade!TypeOK, AdmittedOf(s), LocksOf(s), CopyOf(s),
         Spared(s), Grows
  PROVE  AdmittedOf(s)' /\ LocksOf(s)' /\ CopyOf(s)'
<1>1. /\ committed \in Nat /\ committed' \in Nat /\ committed <= committed'
      /\ backups \subseteq backups'
  <2>1. committed \in 0..MaxCommits /\ committed' \in committed..MaxCommits
    BY DEF Upgrade!TypeOK, Grows
  <2> QED
    BY <2>1, NobodyIsNone DEF Grows
<1>2. backups \subseteq Nat /\ thread[s].base \in Nat
  <2>1. backups \subseteq 0..MaxCommits /\ thread[s].base \in 0..MaxCommits
    BY DEF Upgrade!TypeOK
  <2> QED
    BY <2>1, NobodyIsNone
<1>3. AdmittedOf(s)' /\ LocksOf(s)'
  <2>1. AdmittedOf(s)'
    BY DEF AdmittedOf, Spared
  <2>2. LocksOf(s)'
    BY DEF LocksOf, Spared
  <2> QED
    BY <2>1, <2>2
<1>4. thread'[s].at \in {"snapshot", "migrate"} => thread'[s].base <= committed'
  BY <1>1, <1>2 DEF CopyOf, Spared
<1>5. ASSUME thread'[s].at = "migrate"
      PROVE  \E c \in backups' : thread'[s].base <= c /\ c <= committed'
  <2>1. PICK c \in backups : thread[s].base <= c /\ c <= committed
    BY <1>5 DEF CopyOf, Spared
  <2>2. c \in backups' /\ c \in Nat
    BY <1>1, <1>2, <2>1
  <2>3. thread'[s].base = thread[s].base
    BY DEF Spared
  <2>4. thread'[s].base <= c /\ c <= committed'
    BY <1>1, <1>2, <2>1, <2>2, <2>3
  <2> QED
    BY <2>2, <2>4
<1>6. CopyOf(s)'
  BY <1>4, <1>5 DEF CopyOf
<1> QED
  BY <1>3, <1>6

LEMMA MoveKeeps ==
  ASSUME Upgrade!UpgradeInv, NEW t \in Openers, Upgrade!TypeOK', Grows, AdmittedOf(t)', LocksOf(t)', CopyOf(t)',
         \A s \in Openers : s # t => Spared(s)
  PROVE  Upgrade!UpgradeInv'
<1>1. Upgrade!TypeOK /\ \A s \in Openers : AdmittedOf(s) /\ LocksOf(s) /\ CopyOf(s)
  BY InvOfThreads
<1>2. \A s \in Openers : AdmittedOf(s)' /\ LocksOf(s)' /\ CopyOf(s)'
  BY <1>1, SparedKeeps
<1>3. (Upgrade!TypeOK /\ \A s \in Openers : AdmittedOf(s) /\ LocksOf(s) /\ CopyOf(s))'
  BY <1>2
<1> QED
  BY <1>3 DEF Upgrade!UpgradeInv, Upgrade!HoldersWork, Upgrade!UpgraderHolds,
              Upgrade!CopyIsRecent, AdmittedOf, LocksOf, CopyOf

(* The record of a thread that moved. *)
LEMMA MovedThread ==
  ASSUME Upgrade!TypeOK, NEW t \in Openers, NEW step \in Upgrade!Steps,
         thread' = [thread EXCEPT ![t].at = step]
  PROVE  /\ thread' \in [Openers -> [at : Upgrade!Steps, base : 0..MaxCommits, count : 0..MaxCommits,
                                     borrowed : BOOLEAN]]
         /\ thread'[t].at = step /\ thread'[t].base = thread[t].base
         /\ \A s \in Openers : s # t => thread'[s] = thread[s]
BY DEF Upgrade!TypeOK

LEMMA AdmitKeeps ==
  ASSUME Upgrade!UpgradeInv, NEW t \in Openers, Upgrade!Admit(t), ~Upgrade!Waits(t)
  PROVE  Upgrade!UpgradeInv'
<1>1. Upgrade!TypeOK /\ \A s \in Openers : AdmittedOf(s) /\ LocksOf(s) /\ CopyOf(s)
  BY InvOfThreads
<1>2. PICK step \in {"inspect", "ready"} : thread' = [thread EXCEPT ![t].at = step]
  BY DEF Upgrade!Admit, Upgrade!GoTo
<1>3. /\ thread[t].at \in {"admit", "admit parse"}
      /\ admitted' = [admitted EXCEPT ![ProcessOf[t]] = t]
      /\ admitted[ProcessOf[t]] = None
      /\ UNCHANGED <<Upgrade!Database, homeLock, maintenance, refreshLock>>
  BY DEF Upgrade!Admit, Upgrade!At, Upgrade!Waits
<1>4. step \in Upgrade!Steps /\ step \in Upgrade!Working
  BY DEF Upgrade!Steps, Upgrade!Working
<1>5. \A p \in Upgrade!Owners : admitted'[p] = IF p = ProcessOf[t] THEN t ELSE admitted[p]
  BY <1>1, <1>3 DEF Upgrade!TypeOK
<1>6. Upgrade!TypeOK' /\ Grows
  <2>1. admitted' \in [Upgrade!Owners -> Openers \cup {None}]
    BY <1>1, <1>3 DEF Upgrade!TypeOK
  <2> QED
    BY <1>1, <1>2, <1>3, <1>4, <2>1, MovedThread, StandsStill DEF Upgrade!TypeOK, Upgrade!Database
<1>7. /\ thread'[t].at = step /\ thread'[t].base = thread[t].base
      /\ \A s \in Openers : s # t => thread'[s] = thread[s]
  BY <1>1, <1>2, <1>4, MovedThread
<1>8. AdmittedOf(t)' /\ LocksOf(t)'
  <2>1. AdmittedOf(t)'
    <3>1. \A p \in Upgrade!Owners : admitted'[p] = t <=> p = ProcessOf[t]
      <4>1. AdmittedOf(t) /\ thread[t].at \notin Upgrade!Working
        BY <1>1, <1>3, NotWorking
      <4>2. \A p \in Upgrade!Owners : admitted[p] # t
        BY <4>1 DEF AdmittedOf
      <4> QED
        BY <1>5, <4>2
    <3> QED
      BY <1>4, <1>7, <3>1 DEF AdmittedOf
  <2>2. maintenance # t
    BY <1>1, <1>3 DEF LocksOf
  <2>3. /\ thread'[t].at \in Upgrade!Working
        /\ thread'[t].at \notin {"refresh", "baseline", "snapshot", "migrate"}
    BY <1>4, <1>7
  <2> QED
    BY <1>3, <2>1, <2>2, <2>3 DEF LocksOf
<1>9. \A s \in Openers : s # t => Spared(s)
  BY <1>1, <1>3, <1>5, <1>7, NobodyIsNone DEF Spared
<1>10. CopyOf(t)'
  BY <1>7, NoCopyYet
<1> QED
  BY <1>6, <1>8, <1>9, <1>10, MoveKeeps

LEMMA TakeRefreshToParseKeeps ==
  ASSUME Upgrade!UpgradeInv, NEW t \in Openers, Upgrade!TakeRefreshToParse(t), ~Upgrade!Waits(t)
  PROVE  Upgrade!UpgradeInv'
<1>1. Upgrade!TypeOK /\ \A s \in Openers : AdmittedOf(s) /\ LocksOf(s) /\ CopyOf(s)
  BY InvOfThreads
<1>2. /\ thread[t].at = "parse" /\ refreshLock = None /\ refreshLock' = t
      /\ thread' = [thread EXCEPT ![t].at = "admit parse"]
      /\ UNCHANGED <<Upgrade!Database, homeLock, maintenance, admitted>>
  BY DEF Upgrade!TakeRefreshToParse, Upgrade!At, Upgrade!GoTo, Upgrade!Waits
<1>3. "admit parse" \in Upgrade!Steps
  BY DEF Upgrade!Steps
<1>4. /\ thread'[t].at = "admit parse" /\ thread'[t].base = thread[t].base
      /\ \A s \in Openers : s # t => thread'[s] = thread[s]
  BY <1>1, <1>2, <1>3, MovedThread
<1>5. Upgrade!TypeOK' /\ Grows
  BY <1>1, <1>2, <1>3, MovedThread, StandsStill DEF Upgrade!TypeOK, Upgrade!Database
<1>6. AdmittedOf(t)' /\ LocksOf(t)' /\ CopyOf(t)'
  <2>1. AdmittedOf(t)'
    BY <1>1, <1>2, <1>4, NotWorking DEF AdmittedOf
  <2>2. maintenance # t
    BY <1>1, <1>2 DEF LocksOf
  <2>3. thread'[t].at \notin {"refresh", "baseline", "snapshot", "migrate"}
    BY <1>4
  <2> QED
    BY <1>2, <1>4, <2>1, <2>2, <2>3, NoCopyYet DEF LocksOf
<1>7. \A s \in Openers : s # t => Spared(s)
  BY <1>1, <1>2, <1>4, NobodyIsNone DEF Spared
<1> QED
  BY <1>5, <1>6, <1>7, MoveKeeps

LEMMA InspectKeeps ==
  ASSUME Upgrade!UpgradeInv, NEW t \in Openers, Upgrade!Inspect(t)
  PROVE  Upgrade!UpgradeInv'
<1>1. Upgrade!TypeOK /\ (\A s \in Openers : AdmittedOf(s) /\ LocksOf(s) /\ CopyOf(s)) /\ Grows
  BY InvOfThreads, StandsStill DEF Upgrade!Inspect
<1>2. CASE Upgrade!Close(t)
  BY <1>1, <1>2, CloseKeeps
<1>3. CASE ~Upgrade!Close(t)
  <2>1. PICK step : thread' = [thread EXCEPT ![t].at = step]
                    /\ step = CASE version = "none" -> "create"
                                [] version = "old" -> "home"
                                [] version = "current" -> "ready"
    BY <1>3 DEF Upgrade!Inspect, Upgrade!GoTo
  <2>2. step \in {"create", "home", "ready"}
    BY <1>1, <1>3, <2>1 DEF Upgrade!Inspect, Upgrade!TypeOK, Upgrade!Versions
  <2>3. thread[t].at = "inspect" /\ UNCHANGED <<Upgrade!Database, Upgrade!Locks>>
    BY <1>3 DEF Upgrade!Inspect, Upgrade!At
  <2>4. step \in Upgrade!Steps /\ step \in Upgrade!Working /\ "inspect" \in Upgrade!Working
    BY <2>2 DEF Upgrade!Steps, Upgrade!Working
  <2>5. /\ thread'[t].at = step /\ thread'[t].base = thread[t].base
        /\ \A s \in Openers : s # t => thread'[s] = thread[s]
    BY <1>1, <2>1, <2>4, MovedThread
  <2>6. Upgrade!TypeOK'
    BY <1>1, <2>1, <2>3, <2>4, MovedThread DEF Upgrade!TypeOK, Upgrade!Database, Upgrade!Locks
  <2>7. AdmittedOf(t)' /\ LocksOf(t)' /\ CopyOf(t)'
    <3>1. AdmittedOf(t)'
      BY <1>1, <2>3, <2>4, <2>5 DEF AdmittedOf, Upgrade!Locks
    <3>2. maintenance # t
      BY <1>1, <2>3 DEF LocksOf
    <3>3. /\ thread'[t].at \in Upgrade!Working
          /\ thread'[t].at \notin {"refresh", "baseline", "snapshot", "migrate"}
      BY <2>2, <2>4, <2>5
    <3>4. maintenance' = maintenance
      BY <2>3 DEF Upgrade!Locks
    <3> QED
      BY <3>1, <3>2, <3>3, <3>4, NoCopyYet DEF LocksOf
  <2>8. \A s \in Openers : s # t => Spared(s)
    BY <2>3, <2>5 DEF Spared, Upgrade!Locks
  <2> QED
    BY <1>1, <2>6, <2>7, <2>8, MoveKeeps
<1> QED
  BY <1>2, <1>3

LEMMA CreateKeeps ==
  ASSUME Upgrade!UpgradeInv, NEW t \in Openers, Upgrade!Create(t)
  PROVE  Upgrade!UpgradeInv'
<1>1. Upgrade!TypeOK /\ (\A s \in Openers : AdmittedOf(s) /\ LocksOf(s) /\ CopyOf(s)) /\ thread[t].at = "create"
  BY InvOfThreads DEF Upgrade!Create, Upgrade!At
<1>2. CASE version = "none"
  <2>1. /\ version' = "current" /\ guarded' = TRUE /\ Upgrade!Commit(0)
        /\ thread' = [thread EXCEPT ![t].at = "ready"]
        /\ UNCHANGED <<backups, Upgrade!Locks>>
    BY <1>2 DEF Upgrade!Create, Upgrade!GoTo
  <2>2. Grows
    BY <1>1, <2>1, CommitGrows DEF Upgrade!Versions
  <2>3. "ready" \in Upgrade!Steps /\ "ready" \in Upgrade!Working /\ "create" \in Upgrade!Working
    BY DEF Upgrade!Steps, Upgrade!Working
  <2>4. /\ thread'[t].at = "ready"
        /\ \A s \in Openers : s # t => thread'[s] = thread[s]
        /\ thread' \in [Openers -> [at : Upgrade!Steps, base : 0..MaxCommits,
                                    count : 0..MaxCommits, borrowed : BOOLEAN]]
    BY <1>1, <2>1, <2>3, MovedThread
  <2>5. Upgrade!TypeOK'
    <3>1. committed' \in 0..MaxCommits
      BY <1>1, <2>2, NobodyIsNone DEF Upgrade!TypeOK, Grows
    <3> QED
      BY <1>1, <2>1, <2>2, <2>4, <3>1 DEF Upgrade!TypeOK, Grows, Upgrade!Locks
  <2>6. AdmittedOf(t)' /\ LocksOf(t)' /\ CopyOf(t)'
    <3>1. AdmittedOf(t)'
      BY <1>1, <2>1, <2>3, <2>4 DEF AdmittedOf, Upgrade!Locks
    <3>2. maintenance # t
      BY <1>1 DEF LocksOf
    <3>3. /\ thread'[t].at \in Upgrade!Working
          /\ thread'[t].at \notin {"refresh", "baseline", "snapshot", "migrate"}
      BY <2>3, <2>4
    <3>4. maintenance' = maintenance
      BY <2>1 DEF Upgrade!Locks
    <3> QED
      BY <3>1, <3>2, <3>3, <3>4, NoCopyYet DEF LocksOf
  <2>7. \A s \in Openers : s # t => Spared(s)
    BY <2>1, <2>4 DEF Spared, Upgrade!Locks
  <2> QED
    BY <2>2, <2>5, <2>6, <2>7, MoveKeeps
<1>3. CASE version # "none"
  BY <1>1, <1>3, CloseKeeps, StandsStill DEF Upgrade!Create
<1> QED
  BY <1>2, <1>3

LEMMA TakeHomeKeeps ==
  ASSUME Upgrade!UpgradeInv, NEW t \in Openers, Upgrade!TakeHome(t)
  PROVE  Upgrade!UpgradeInv'
<1>1. /\ Upgrade!TypeOK /\ (\A s \in Openers : AdmittedOf(s) /\ LocksOf(s) /\ CopyOf(s))
      /\ Grows /\ thread[t].at = "home" /\ UNCHANGED Upgrade!Database
  BY InvOfThreads, StandsStill DEF Upgrade!TakeHome, Upgrade!At
<1>2. CASE Upgrade!Close(t)
  BY <1>1, <1>2, CloseKeeps
<1>3. CASE ~Upgrade!Close(t)
  <2>1. /\ maintenance = None /\ maintenance' = t /\ homeLock' = ProcessOf[t]
        /\ thread' = [thread EXCEPT ![t].at = "refresh", ![t].borrowed = (homeLock = ProcessOf[t])]
        /\ UNCHANGED <<refreshLock, admitted>>
    BY <1>3 DEF Upgrade!TakeHome
  <2>2. "refresh" \in Upgrade!Steps /\ "refresh" \in Upgrade!Working /\ "home" \in Upgrade!Working
    BY DEF Upgrade!Steps, Upgrade!Working
  <2>3. /\ thread'[t].at = "refresh"
        /\ \A s \in Openers : s # t => thread'[s] = thread[s]
        /\ thread' \in [Openers -> [at : Upgrade!Steps, base : 0..MaxCommits,
                                    count : 0..MaxCommits, borrowed : BOOLEAN]]
    <3> DEFINE borrows == homeLock = ProcessOf[t]
    <3>1. borrows \in BOOLEAN
      OBVIOUS
    <3>2. thread' = [thread EXCEPT ![t].at = "refresh", ![t].borrowed = borrows]
      BY <2>1
    <3> HIDE DEF borrows
    <3> QED
      BY <1>1, <2>2, <3>1, <3>2 DEF Upgrade!TypeOK
  <2>4. Upgrade!TypeOK'
    BY <1>1, <2>1, <2>3, NobodyIsNone DEF Upgrade!TypeOK, Upgrade!Database
  <2>5. AdmittedOf(t)'
    BY <1>1, <2>1, <2>2, <2>3 DEF AdmittedOf
  <2>6. LocksOf(t)'
    BY <2>1, <2>2, <2>3 DEF LocksOf
  <2>7. CopyOf(t)'
    BY <2>3, NoCopyYet
  <2>8. \A s \in Openers : s # t => Spared(s)
    BY <1>1, <2>1, <2>3, NobodyIsNone DEF Spared
  <2> QED
    BY <1>1, <2>4, <2>5, <2>6, <2>7, <2>8, MoveKeeps
<1> QED
  BY <1>2, <1>3

LEMMA TakeRefreshKeeps ==
  ASSUME Upgrade!UpgradeInv, NEW t \in Openers, Upgrade!TakeRefresh(t)
  PROVE  Upgrade!UpgradeInv'
<1>1. /\ Upgrade!TypeOK /\ (\A s \in Openers : AdmittedOf(s) /\ LocksOf(s) /\ CopyOf(s))
      /\ Grows /\ thread[t].at = "refresh" /\ UNCHANGED Upgrade!Database
  BY InvOfThreads, StandsStill DEF Upgrade!TakeRefresh, Upgrade!At
<1>2. CASE Upgrade!Close(t)
  BY <1>1, <1>2, CloseKeeps
<1>3. CASE ~Upgrade!Close(t)
  <2>1. /\ refreshLock = None /\ refreshLock' = t
        /\ thread' = [thread EXCEPT ![t].at = "baseline"]
        /\ UNCHANGED <<homeLock, maintenance, admitted>>
    BY <1>3 DEF Upgrade!TakeRefresh, Upgrade!GoTo
  <2>2. /\ "baseline" \in Upgrade!Steps /\ "baseline" \in Upgrade!Working
        /\ "refresh" \in Upgrade!Working
    BY DEF Upgrade!Steps, Upgrade!Working
  <2>3. /\ thread'[t].at = "baseline"
        /\ \A s \in Openers : s # t => thread'[s] = thread[s]
        /\ thread' \in [Openers -> [at : Upgrade!Steps, base : 0..MaxCommits,
                                    count : 0..MaxCommits, borrowed : BOOLEAN]]
    BY <1>1, <2>1, <2>2, MovedThread
  <2>4. Upgrade!TypeOK'
    BY <1>1, <2>1, <2>3 DEF Upgrade!TypeOK, Upgrade!Database
  <2>5. AdmittedOf(t)'
    BY <1>1, <2>1, <2>2, <2>3 DEF AdmittedOf
  <2>6. maintenance = t /\ homeLock = ProcessOf[t]
    BY <1>1 DEF LocksOf
  <2>7. LocksOf(t)'
    BY <2>1, <2>2, <2>3, <2>6 DEF LocksOf
  <2>8. CopyOf(t)'
    BY <2>3, NoCopyYet
  <2>9. \A s \in Openers : s # t => Spared(s)
    BY <1>1, <2>1, <2>3, NobodyIsNone DEF Spared
  <2> QED
    BY <1>1, <2>4, <2>5, <2>7, <2>8, <2>9, MoveKeeps
<1> QED
  BY <1>2, <1>3

LEMMA BaselineKeeps ==
  ASSUME Upgrade!UpgradeInv, NEW t \in Openers, Upgrade!Baseline(t)
  PROVE  Upgrade!UpgradeInv'
<1>1. /\ Upgrade!TypeOK /\ (\A s \in Openers : AdmittedOf(s) /\ LocksOf(s) /\ CopyOf(s))
      /\ Grows /\ thread[t].at = "baseline" /\ UNCHANGED Upgrade!Database
  BY InvOfThreads, StandsStill DEF Upgrade!Baseline, Upgrade!At
<1>2. CASE Upgrade!Close(t)
  BY <1>1, <1>2, CloseKeeps
<1>3. CASE ~Upgrade!Close(t)
  <2>1. /\ thread' = [thread EXCEPT ![t].at = "snapshot", ![t].base = committed]
        /\ UNCHANGED Upgrade!Locks
    BY <1>3 DEF Upgrade!Baseline
  <2>2. /\ "snapshot" \in Upgrade!Steps /\ "snapshot" \in Upgrade!Working
        /\ "baseline" \in Upgrade!Working
    BY DEF Upgrade!Steps, Upgrade!Working
  <2>3. /\ thread'[t].at = "snapshot" /\ thread'[t].base = committed
        /\ \A s \in Openers : s # t => thread'[s] = thread[s]
        /\ thread' \in [Openers -> [at : Upgrade!Steps, base : 0..MaxCommits,
                                    count : 0..MaxCommits, borrowed : BOOLEAN]]
    BY <1>1, <2>1, <2>2 DEF Upgrade!TypeOK
  <2>4. Upgrade!TypeOK'
    BY <1>1, <2>1, <2>3 DEF Upgrade!TypeOK, Upgrade!Database, Upgrade!Locks
  <2>5. AdmittedOf(t)'
    BY <1>1, <2>1, <2>2, <2>3 DEF AdmittedOf, Upgrade!Locks
  <2>6. maintenance = t /\ homeLock = ProcessOf[t] /\ refreshLock = t
    BY <1>1 DEF LocksOf
  <2>7. LocksOf(t)'
    BY <2>1, <2>2, <2>3, <2>6 DEF LocksOf, Upgrade!Locks
  <2>8. CopyOf(t)'
    <3>1. committed' = committed /\ committed \in Nat
      BY <1>1, NobodyIsNone DEF Upgrade!Database, Upgrade!TypeOK
    <3> QED
      BY <2>3, <3>1 DEF CopyOf
  <2>9. \A s \in Openers : s # t => Spared(s)
    BY <2>1, <2>3 DEF Spared, Upgrade!Locks
  <2> QED
    BY <1>1, <2>4, <2>5, <2>7, <2>8, <2>9, MoveKeeps
<1> QED
  BY <1>2, <1>3

LEMMA SnapshotKeeps ==
  ASSUME Upgrade!UpgradeInv, NEW t \in Openers, Upgrade!Snapshot(t)
  PROVE  Upgrade!UpgradeInv'
<1>1. /\ Upgrade!TypeOK /\ (\A s \in Openers : AdmittedOf(s) /\ LocksOf(s) /\ CopyOf(s))
      /\ thread[t].at = "snapshot" /\ backups' = backups \cup {committed}
      /\ thread' = [thread EXCEPT ![t].at = "migrate", ![t].count = tally]
      /\ UNCHANGED <<version, guarded, committed, tally, Upgrade!Locks>>
  BY InvOfThreads DEF Upgrade!Snapshot, Upgrade!At
<1>2. committed \in Nat /\ committed \in 0..MaxCommits /\ tally \in 0..MaxCommits
  <2>1. committed \in 0..MaxCommits /\ tally \in 0..committed
    BY <1>1 DEF Upgrade!TypeOK
  <2> QED
    BY <2>1, NobodyIsNone
<1>3. Grows
  BY <1>1, <1>2, NobodyIsNone DEF Upgrade!TypeOK, Grows
<1>4. /\ "migrate" \in Upgrade!Steps /\ "migrate" \in Upgrade!Working
      /\ "snapshot" \in Upgrade!Working
  BY DEF Upgrade!Steps, Upgrade!Working
<1>5. /\ thread'[t].at = "migrate" /\ thread'[t].base = thread[t].base
      /\ \A s \in Openers : s # t => thread'[s] = thread[s]
      /\ thread' \in [Openers -> [at : Upgrade!Steps, base : 0..MaxCommits,
                                  count : 0..MaxCommits, borrowed : BOOLEAN]]
  BY <1>1, <1>2, <1>4 DEF Upgrade!TypeOK
<1>6. Upgrade!TypeOK'
  BY <1>1, <1>2, <1>5 DEF Upgrade!TypeOK, Upgrade!Locks
<1>7. AdmittedOf(t)'
  BY <1>1, <1>4, <1>5 DEF AdmittedOf, Upgrade!Locks
<1>8. LocksOf(t)'
  <2>1. maintenance = t /\ homeLock = ProcessOf[t] /\ refreshLock = t
    BY <1>1 DEF LocksOf
  <2> QED
    BY <1>1, <1>4, <1>5, <2>1 DEF LocksOf, Upgrade!Locks
<1>9. CopyOf(t)'
  <2>1. thread[t].base <= committed
    BY <1>1 DEF CopyOf
  <2>2. committed' = committed /\ committed \in backups' /\ thread'[t].base <= committed'
    BY <1>1, <1>5, <2>1
  <2> QED
    BY <1>2, <2>2 DEF CopyOf
<1>10. \A s \in Openers : s # t => Spared(s)
  BY <1>1, <1>5 DEF Spared, Upgrade!Locks
<1> QED
  BY <1>3, <1>6, <1>7, <1>8, <1>9, <1>10, MoveKeeps

(* The upgrade itself: its thread lets the locks go, and nobody else had   *)
(* one.                                                                    *)
LEMMA MigrateKeeps ==
  ASSUME Upgrade!UpgradeInv, NEW t \in Openers, Upgrade!Migrate(t)
  PROVE  Upgrade!UpgradeInv'
<1>1. /\ Upgrade!TypeOK /\ (\A s \in Openers : AdmittedOf(s) /\ LocksOf(s) /\ CopyOf(s))
      /\ thread[t].at = "migrate"
  BY InvOfThreads DEF Upgrade!Migrate, Upgrade!At
<1>2. CASE UNCHANGED Upgrade!Database /\ Upgrade!Close(t)
  BY <1>1, <1>2, CloseKeeps, StandsStill
<1>3. CASE ~(UNCHANGED Upgrade!Database /\ Upgrade!Close(t))
  <2>1. /\ version' = "current" /\ guarded' = TRUE /\ Upgrade!Commit(0)
        /\ thread' = [thread EXCEPT ![t].at = "ready"]
        /\ Upgrade!FreeUpgradeLocks(t)
        /\ UNCHANGED <<backups, admitted>>
    BY <1>3 DEF Upgrade!Migrate, Upgrade!GoTo
  <2>2. Grows
    BY <1>1, <2>1, CommitGrows DEF Upgrade!Versions
  <2>3. "ready" \in Upgrade!Steps /\ "ready" \in Upgrade!Working /\ "migrate" \in Upgrade!Working
    BY DEF Upgrade!Steps, Upgrade!Working
  <2>4. /\ thread'[t].at = "ready"
        /\ \A s \in Openers : s # t => thread'[s] = thread[s]
        /\ thread' \in [Openers -> [at : Upgrade!Steps, base : 0..MaxCommits,
                                    count : 0..MaxCommits, borrowed : BOOLEAN]]
    BY <1>1, <2>1, <2>3, MovedThread
  <2>5. maintenance = t /\ refreshLock = t
    BY <1>1 DEF LocksOf
  <2>6. /\ maintenance' = None /\ refreshLock' = None
        /\ homeLock' \in {homeLock, None}
    BY <2>1, <2>5 DEF Upgrade!FreeUpgradeLocks
  <2>7. Upgrade!TypeOK'
    <3>1. committed' \in 0..MaxCommits
      BY <1>1, <2>2, NobodyIsNone DEF Upgrade!TypeOK, Grows
    <3> QED
      BY <1>1, <2>1, <2>2, <2>4, <2>6, <3>1 DEF Upgrade!TypeOK, Grows
  <2>8. AdmittedOf(t)'
    BY <1>1, <2>1, <2>3, <2>4 DEF AdmittedOf
  <2>9. LocksOf(t)'
    BY <2>3, <2>4, <2>6, NobodyIsNone DEF LocksOf
  <2>10. CopyOf(t)'
    BY <2>4, NoCopyYet
  <2>11. \A s \in Openers : s # t => Spared(s)
    BY <2>1, <2>4, <2>5, <2>6, NobodyIsNone DEF Spared
  <2> QED
    BY <2>2, <2>7, <2>8, <2>9, <2>10, <2>11, MoveKeeps
<1> QED
  BY <1>2, <1>3

LEMMA WriteKeeps ==
  ASSUME Upgrade!UpgradeInv, NEW t \in Openers, Upgrade!Write(t) \/ Upgrade!Finish(t)
  PROVE  Upgrade!UpgradeInv'
<1>1. Upgrade!TypeOK
  BY DEF Upgrade!UpgradeInv
<1>2. CASE Upgrade!Write(t)
  <2>1. PICK inserted \in {0, 1} : Upgrade!Commit(inserted)
    BY <1>2 DEF Upgrade!Write
  <2>2. Upgrade!Close(t) /\ UNCHANGED <<version, guarded, backups>>
    BY <1>2 DEF Upgrade!Write
  <2>3. Grows
    BY <1>1, <2>1, <2>2, CommitGrows DEF Upgrade!TypeOK
  <2> QED
    BY <2>2, <2>3, CloseKeeps
<1>3. CASE Upgrade!Finish(t)
  BY <1>1, <1>3, CloseKeeps, StandsStill DEF Upgrade!Finish
<1> QED
  BY <1>2, <1>3

LEMMA UpgradeInvStep == Upgrade!UpgradeInv /\ [Upgrade!Next]_(Upgrade!vars) => Upgrade!UpgradeInv'
<1> SUFFICES ASSUME Upgrade!UpgradeInv, [Upgrade!Next]_(Upgrade!vars)
             PROVE  Upgrade!UpgradeInv'
  OBVIOUS
<1>1. CASE UNCHANGED Upgrade!vars
  <2> USE <1>1 DEF Upgrade!vars, Upgrade!UpgradeInv
  <2>1. Upgrade!TypeOK'
    BY DEF Upgrade!TypeOK
  <2>2. Upgrade!HoldersWork'
    BY DEF Upgrade!HoldersWork
  <2>3. Upgrade!UpgraderHolds'
    BY DEF Upgrade!UpgraderHolds
  <2>4. Upgrade!CopyIsRecent'
    BY DEF Upgrade!CopyIsRecent
  <2> QED
    BY <2>1, <2>2, <2>3, <2>4
<1>2. ASSUME NEW t \in Openers, Upgrade!Open(t) \/ Upgrade!Parse(t)
      PROVE  Upgrade!UpgradeInv'
  BY <1>2, OpenKeeps
<1>3. ASSUME NEW t \in Openers, Upgrade!Step(t)
      PROVE  Upgrade!UpgradeInv'
  <2>1. ~Upgrade!Waits(t)
    BY <1>3 DEF Upgrade!Step
  <2>2. CASE Upgrade!Admit(t)
    BY <2>1, <2>2, AdmitKeeps
  <2>3. CASE Upgrade!TakeRefreshToParse(t)
    BY <2>1, <2>3, TakeRefreshToParseKeeps
  <2>4. CASE Upgrade!Inspect(t)
    BY <2>4, InspectKeeps
  <2>5. CASE Upgrade!Create(t)
    BY <2>5, CreateKeeps
  <2>6. CASE Upgrade!TakeHome(t)
    BY <2>6, TakeHomeKeeps
  <2>7. CASE Upgrade!TakeRefresh(t)
    BY <2>7, TakeRefreshKeeps
  <2>8. CASE Upgrade!Baseline(t)
    BY <2>8, BaselineKeeps
  <2>9. CASE Upgrade!Snapshot(t)
    BY <2>9, SnapshotKeeps
  <2>10. CASE Upgrade!Migrate(t)
    BY <2>10, MigrateKeeps
  <2>11. CASE Upgrade!Write(t) \/ Upgrade!Finish(t)
    BY <2>11, WriteKeeps
  <2> QED
    BY <1>3, <2>2, <2>3, <2>4, <2>5, <2>6, <2>7, <2>8, <2>9, <2>10, <2>11 DEF Upgrade!Step
<1>4. ASSUME NEW p \in Upgrade!Owners,
             Upgrade!StartAgent(p) \/ Upgrade!StopAgent(p) \/ Upgrade!Crash(p)
      PROVE  Upgrade!UpgradeInv'
  BY <1>4, StartAgentKeeps, StopAgentKeeps, CrashKeeps
<1>5. CASE Upgrade!OldWrite
  BY <1>5, OldWriteKeeps
<1> QED
  BY <1>1, <1>2, <1>3, <1>4, <1>5 DEF Upgrade!Next

(* One upgrade at a time: who works on it has the maintenance lock.        *)
LEMMA OneUpgradeHolds == Upgrade!UpgradeInv => Upgrade!OneUpgrade
<1> SUFFICES ASSUME Upgrade!UpgradeInv
             PROVE  Upgrade!OneUpgrade
  OBVIOUS
<1>1. \A t \in Openers :
        thread[t].at \in {"baseline", "snapshot", "migrate"} =>
          maintenance = t /\ refreshLock = t /\ homeLock = ProcessOf[t]
  BY DEF Upgrade!UpgradeInv, Upgrade!UpgraderHolds
<1> QED
  BY <1>1 DEF Upgrade!OneUpgrade

(* The parser waits to be admitted, an admitted thread for nobody.         *)
LEMMA NoWaitCycleHolds == Upgrade!UpgradeInv => Upgrade!NoWaitCycle
<1> SUFFICES ASSUME Upgrade!UpgradeInv, \E t \in Openers : ~Upgrade!At(t, "idle")
             PROVE  \E t \in Openers : ~Upgrade!At(t, "idle") /\ ~Upgrade!Waits(t)
  BY DEF Upgrade!NoWaitCycle
<1> PICK t \in Openers : ~Upgrade!At(t, "idle")
  OBVIOUS
<1>1. Upgrade!TypeOK /\ \A s \in Openers : AdmittedOf(s) /\ LocksOf(s) /\ CopyOf(s)
  BY InvOfThreads
<1>2. \A s \in Openers : thread[s].at \in Upgrade!Working =>
                           ~Upgrade!At(s, "idle") /\ ~Upgrade!Waits(s)
  BY NotWorking DEF Upgrade!At, Upgrade!Waits
<1>3. ASSUME NEW s \in Openers, admitted[ProcessOf[s]] # None
      PROVE  \E r \in Openers : thread[r].at \in Upgrade!Working
  <2>1. admitted[ProcessOf[s]] \in Openers /\ ProcessOf[s] \in Upgrade!Owners
    BY <1>1, <1>3, NobodyIsNone DEF Upgrade!TypeOK
  <2>2. AdmittedOf(admitted[ProcessOf[s]])
    BY <1>1, <2>1
  <2> QED
    BY <2>1, <2>2 DEF AdmittedOf
<1>4. ASSUME NEW s \in Openers, thread[s].at \in {"admit", "admit parse"}
      PROVE  \E r \in Openers : ~Upgrade!At(r, "idle") /\ ~Upgrade!Waits(r)
  <2>1. CASE admitted[ProcessOf[s]] # None
    BY <1>2, <1>3, <2>1
  <2>2. CASE admitted[ProcessOf[s]] = None
    <3>1. ~Upgrade!At(s, "idle") /\ ~Upgrade!Waits(s)
      BY <1>4, <2>2 DEF Upgrade!At, Upgrade!Waits
    <3> QED
      BY <3>1
  <2> QED
    BY <2>1, <2>2
<1>5. CASE ~Upgrade!Waits(t)
  BY <1>5
<1>6. CASE thread[t].at \in {"admit", "admit parse"}
  BY <1>4, <1>6
<1>7. CASE thread[t].at = "parse" /\ refreshLock # None
  <2>1. refreshLock \in Openers
    BY <1>1, <1>7 DEF Upgrade!TypeOK
  <2>2. thread[refreshLock].at \in {"admit parse"} \cup Upgrade!Working
    BY <1>1, <2>1 DEF LocksOf
  <2>3. CASE thread[refreshLock].at = "admit parse"
    BY <1>4, <2>1, <2>3
  <2>4. CASE thread[refreshLock].at \in Upgrade!Working
    BY <1>2, <2>1, <2>4
  <2> QED
    BY <2>2, <2>3, <2>4
<1> QED
  BY <1>5, <1>6, <1>7 DEF Upgrade!Waits, Upgrade!At

(* The step that upgrades finds the copy it made: a copy no older than the *)
(* baseline, in a ledger that has not moved since.                         *)
LEMMA BackedUpStep ==
  Upgrade!UpgradeInv /\ [Upgrade!Next]_(Upgrade!vars) => Upgrade!BackedUp
<1> SUFFICES ASSUME Upgrade!UpgradeInv, [Upgrade!Next]_(Upgrade!vars),
                    version = "old", version' # "old"
             PROVE  committed \in backups /\ guarded'
  BY DEF Upgrade!BackedUp
<1>1. PICK t \in Openers : Upgrade!Migrate(t)
  <2>1. ~UNCHANGED version
    OBVIOUS
  <2>2. /\ ~UNCHANGED Upgrade!vars /\ ~UNCHANGED Upgrade!Database
    BY <2>1 DEF Upgrade!vars, Upgrade!Database
  <2>3. \A t \in Openers : Upgrade!Step(t) => Upgrade!Migrate(t)
    BY <2>1, <2>2 DEF Upgrade!Step, Upgrade!Admit, Upgrade!TakeRefreshToParse, Upgrade!Inspect,
                      Upgrade!Create, Upgrade!TakeHome, Upgrade!TakeRefresh, Upgrade!Baseline,
                      Upgrade!Snapshot, Upgrade!Write, Upgrade!Finish
  <2>4. /\ \A t \in Openers : ~Upgrade!Open(t) /\ ~Upgrade!Parse(t)
        /\ \A p \in Upgrade!Owners : ~Upgrade!StartAgent(p) /\ ~Upgrade!StopAgent(p) /\ ~Upgrade!Crash(p)
        /\ ~Upgrade!OldWrite
    BY <2>1, <2>2 DEF Upgrade!Open, Upgrade!Parse, Upgrade!StartAgent, Upgrade!StopAgent,
                      Upgrade!Crash, Upgrade!OldWrite
  <2> QED
    BY <2>2, <2>3, <2>4 DEF Upgrade!Next
<1>2. committed = thread[t].base /\ guarded' /\ thread[t].at = "migrate"
  <2>1. ~UNCHANGED Upgrade!Database
    BY DEF Upgrade!Database
  <2> QED
    BY <1>1, <2>1 DEF Upgrade!Migrate, Upgrade!At
<1>3. PICK c \in backups : thread[t].base <= c /\ c <= committed
  BY <1>2 DEF Upgrade!UpgradeInv, Upgrade!CopyIsRecent
<1>4. c \in Nat /\ committed \in Nat
  <2>1. backups \subseteq 0..MaxCommits /\ committed \in 0..MaxCommits
    BY DEF Upgrade!UpgradeInv, Upgrade!TypeOK
  <2> QED
    BY <2>1, NobodyIsNone
<1> QED
  BY <1>2, <1>3, <1>4

-----------------------------------------------------------------------------
(***************************************************************************)
(* The findings of a storage analysis (StorageAnalysis).                   *)
(***************************************************************************)

LEMMA SameCardinality ==
  ASSUME NEW S
  PROVE  Storage!Cardinality(S) = Cardinality(S)
BY DEF Storage!Cardinality, Cardinality

LEMMA PartOfInterval ==
  ASSUME NEW a \in Int, NEW b \in Int, NEW S, S \subseteq a .. b
  PROVE  IsFiniteSet(S) /\ Cardinality(S) \in Nat
<1>1. IsFiniteSet(a .. b)
  BY FS_Interval
<1>2. IsFiniteSet(S)
  BY <1>1, FS_Subset
<1> QED
  BY <1>2, FS_CardinalityType

(* What a slice holds of a kind is counted at its place in the whole.      *)
LEMMA SliceIsCounted ==
  ASSUME NEW T, NEW s \in Seq(T), NEW k \in Nat, NEW w \in Nat, k <= w, w <= Len(s), NEW kind
  PROVE  Storage!Count(SubSeq(SubSeq(s, k + 1, w), 1, w - k), kind)
           = Cardinality({i \in k + 1 .. w : s[i] = kind})
<1> DEFINE slice == SubSeq(s, k + 1, w)
           part1 == SubSeq(slice, 1, w - k)
           at == {i \in 1 .. w - k : s[k + i] = kind}
           place == {i \in k + 1 .. w : s[i] = kind}
           shift == [i \in at |-> k + i]
<1>1. slice \in Seq(T) /\ Len(slice) = w - k /\ \A i \in 1 .. w - k : slice[i] = s[k + i]
  <2>1. \A i \in k + 1 .. w : s[i] \in T
    OBVIOUS
  <2>2. /\ slice \in Seq(T)
        /\ Len(slice) = IF k + 1 <= w THEN w - (k + 1) + 1 ELSE 0
        /\ \A i \in 1 .. w - (k + 1) + 1 : slice[i] = s[k + 1 + i - 1]
    BY <2>1, SubSeqProperties
  <2> QED
    BY <2>2
<1> HIDE DEF slice
<1>2. part1 = slice
  BY <1>1, SubSeqFull
<1>3. DOMAIN part1 = 1 .. w - k /\ \A i \in 1 .. w - k : part1[i] = s[k + i]
  BY <1>1, <1>2
<1>4. Storage!Count(part1, kind) = Storage!Cardinality({i \in DOMAIN part1 : part1[i] = kind})
  BY DEF Storage!Count
<1>5. {i \in DOMAIN part1 : part1[i] = kind} = at
  BY <1>3
<1>6. Cardinality(place) = Cardinality(at)
  <2>1. IsFiniteSet(at)
    <3>1. at \subseteq 1 .. w - k /\ 1 \in Int /\ w - k \in Int
      OBVIOUS
    <3> HIDE DEF at
    <3> QED
      BY <3>1, PartOfInterval
  <2>2. shift \in [at -> place]
    OBVIOUS
  <2>3. \A i, j \in at : shift[i] = shift[j] => i = j
    OBVIOUS
  <2>4. \A j \in place : \E i \in at : shift[i] = j
    <3> TAKE j \in place
    <3>1. j - k \in at /\ shift[j - k] = j
      OBVIOUS
    <3> QED
      BY <3>1
  <2> HIDE DEF at, place, shift
  <2>5. shift \in Bijection(at, place)
    BY <2>2, <2>3, <2>4 DEF Bijection, Injection, Surjection, IsInjective
  <2>6. ExistsBijection(at, place)
    BY <2>5 DEF ExistsBijection
  <2> QED
    BY <2>1, <2>6, FS_Bijection
<1> QED
  BY <1>4, <1>5, <1>6, SameCardinality DEF slice

LEMMA PrefixIsCounted ==
  ASSUME NEW T, NEW s \in Seq(T), NEW w \in Nat, w <= Len(s), NEW kind
  PROVE  /\ Storage!Count(SubSeq(s, 1, w), kind) = Cardinality({i \in 1 .. w : s[i] = kind})
         /\ Storage!Count(SubSeq(s, 1, w), kind) \in Nat
<1>1. SubSeq(s, 1, w) \in Seq(T) /\ Len(SubSeq(s, 1, w)) = w
      /\ \A i \in 1 .. w : SubSeq(s, 1, w)[i] = s[i]
  <2>1. \A i \in 1 .. w : s[i] \in T
    OBVIOUS
  <2>2. /\ SubSeq(s, 1, w) \in Seq(T)
        /\ Len(SubSeq(s, 1, w)) = IF 1 <= w THEN w - 1 + 1 ELSE 0
        /\ \A i \in 1 .. w - 1 + 1 : SubSeq(s, 1, w)[i] = s[1 + i - 1]
    BY <2>1, SubSeqProperties
  <2> QED
    BY <2>2
<1>2. {i \in DOMAIN SubSeq(s, 1, w) : SubSeq(s, 1, w)[i] = kind} = {i \in 1 .. w : s[i] = kind}
  BY <1>1
<1>3. Storage!Count(SubSeq(s, 1, w), kind) = Cardinality({i \in 1 .. w : s[i] = kind})
  BY <1>2, SameCardinality DEF Storage!Count
<1>4. Cardinality({i \in 1 .. w : s[i] = kind}) \in Nat
  <2>1. {i \in 1 .. w : s[i] = kind} \subseteq 1 .. w /\ 1 \in Int /\ w \in Int
    OBVIOUS
  <2> QED
    BY <2>1, PartOfInterval
<1> QED
  BY <1>3, <1>4

LEMMA CountsAddUp ==
  ASSUME NEW T, NEW s \in Seq(T), NEW k \in Nat, NEW w \in Nat, k <= w, w <= Len(s), NEW kind
  PROVE  Storage!Count(SubSeq(s, 1, k), kind)
           + Storage!Count(SubSeq(SubSeq(s, k + 1, w), 1, w - k), kind)
           = Storage!Count(SubSeq(s, 1, w), kind)
<1> DEFINE A == {i \in 1 .. k : s[i] = kind}
           B == {i \in k + 1 .. w : s[i] = kind}
<1>1. A \subseteq 1 .. k /\ B \subseteq k + 1 .. w
  OBVIOUS
<1>2. A \cap B = {} /\ A \cup B = {i \in 1 .. w : s[i] = kind}
  OBVIOUS
<1>3. /\ Storage!Count(SubSeq(s, 1, k), kind) = Cardinality(A)
      /\ Storage!Count(SubSeq(s, 1, w), kind) = Cardinality(A \cup B)
      /\ Storage!Count(SubSeq(SubSeq(s, k + 1, w), 1, w - k), kind) = Cardinality(B)
  <2>1. k <= Len(s)
    OBVIOUS
  <2>2. Storage!Count(SubSeq(s, 1, k), kind) = Cardinality(A)
    BY <2>1, PrefixIsCounted
  <2>3. Storage!Count(SubSeq(s, 1, w), kind) = Cardinality({i \in 1 .. w : s[i] = kind})
    BY PrefixIsCounted
  <2>4. Storage!Count(SubSeq(SubSeq(s, k + 1, w), 1, w - k), kind) = Cardinality(B)
    BY SliceIsCounted
  <2> QED
    BY <1>2, <2>2, <2>3, <2>4
<1> HIDE DEF A, B
<1>4. IsFiniteSet(A) /\ IsFiniteSet(B) /\ Cardinality(A) \in Nat /\ Cardinality(B) \in Nat
  <2>1. 1 \in Int /\ k \in Int /\ k + 1 \in Int /\ w \in Int
    OBVIOUS
  <2>2. IsFiniteSet(A) /\ Cardinality(A) \in Nat
    BY <1>1, <2>1, PartOfInterval
  <2>3. IsFiniteSet(B) /\ Cardinality(B) \in Nat
    BY <1>1, <2>1, PartOfInterval
  <2> QED
    BY <2>2, <2>3
<1>5. Cardinality(A \cup B) = Cardinality(A) + Cardinality(B) - Cardinality({})
  <2>1. Cardinality(A \cup B) = Cardinality(A) + Cardinality(B) - Cardinality(A \cap B)
    BY ONLY <1>4, FS_Union
  <2> QED
    BY <1>2, <2>1
<1>6. Cardinality({}) = 0
  BY FS_EmptySet
<1> QED
  BY <1>3, <1>4, <1>5, <1>6

(* Findings of a prefix and of what follows it are those of the two.       *)
LEMMA MetricsAddUp ==
  ASSUME NEW T, NEW s \in Seq(T), NEW k \in Nat, NEW w \in Nat, k <= w, w <= Len(s)
  PROVE  Storage!Plus(Storage!Metrics(s, k), Storage!Metrics(SubSeq(s, k + 1, w), w - k))
           = Storage!Metrics(s, w)
BY CountsAddUp DEF Storage!Plus, Storage!Metrics

LEMMA MetricsType ==
  ASSUME NEW T, NEW s \in Seq(T), NEW w \in Nat, w <= Len(s)
  PROVE  Storage!Metrics(s, w) \in [compacted : Nat, unclassified : Nat]
BY PrefixIsCounted DEF Storage!Metrics

LEMMA MetricsOfNothing ==
  ASSUME NEW T, NEW s \in Seq(T)
  PROVE  Storage!Metrics(s, 0) = Storage!Metrics(<<>>, 0)
<1>1. SubSeq(s, 1, 0) = <<>> /\ SubSeq(<<>>, 1, 0) = <<>>
  BY SubSeqEmpty
<1> QED
  BY <1>1 DEF Storage!Metrics

(* What is appended leaves the findings of what was there.                 *)
LEMMA MetricsOfAppended ==
  ASSUME NEW T, NEW s \in Seq(T), NEW row \in T, NEW w \in Nat, w <= Len(s)
  PROVE  Storage!Metrics(Append(s, row), w) = Storage!Metrics(s, w)
<1>1. /\ Append(s, row) \in Seq(T) /\ w <= Len(Append(s, row))
      /\ \A i \in 1 .. w : Append(s, row)[i] = s[i]
  OBVIOUS
<1>2. \A kind : {i \in 1 .. w : Append(s, row)[i] = kind} = {i \in 1 .. w : s[i] = kind}
  BY <1>1
<1>3. \A kind : Storage!Count(SubSeq(Append(s, row), 1, w), kind) = Storage!Count(SubSeq(s, 1, w), kind)
  <2> TAKE kind
  <2>1. Storage!Count(SubSeq(s, 1, w), kind) = Cardinality({i \in 1 .. w : s[i] = kind})
    BY PrefixIsCounted
  <2>2. Storage!Count(SubSeq(Append(s, row), 1, w), kind)
          = Cardinality({i \in 1 .. w : Append(s, row)[i] = kind})
    <3> DEFINE longer == Append(s, row)
    <3>1. longer \in Seq(T) /\ w <= Len(longer)
      OBVIOUS
    <3> HIDE DEF longer
    <3>2. Storage!Count(SubSeq(longer, 1, w), kind) = Cardinality({i \in 1 .. w : longer[i] = kind})
      BY <3>1, PrefixIsCounted
    <3> QED
      BY <3>2 DEF longer
  <2> QED
    BY <1>2, <2>1, <2>2
<1> QED
  BY <1>3 DEF Storage!Metrics

LEMMA KnownRow ==
  ASSUME NEW row \in {Storage!NoRow} \cup Storage!Rows, row.known
  PROVE  /\ row \in Storage!Rows /\ row.size \in Nat /\ row.at \in Nat
         /\ row.missing \in BOOLEAN
<1>1. ~Storage!NoRow.known
  BY DEF Storage!NoRow
<1>2. row \in Storage!Rows
  BY <1>1
<1> QED
  BY <1>2 DEF Storage!Rows

(* A step of the directories: what lies at a path then is new, or was at a *)
(* path of the same task; and a writing that is not new has at most grown. *)
Lasts(q) ==
  disk'[q] # None =>
    /\ disk'[q].at = diskWrites + 1 \/ \E o \in Storage!Kin(q) : disk'[q] = disk[o]
    /\ \/ disk'[q].written = diskWrites + 1
       \/ \E o \in Storage!Kin(q) :
            /\ disk'[q].written = disk[o].written
            /\ Len(disk[o].rows) <= Len(disk'[q].rows)
            /\ \A n \in Nat : n <= Len(disk[o].rows) =>
                 Storage!Metrics(disk'[q].rows, n) = Storage!Metrics(disk[o].rows, n)

DiskStep == diskWrites \in Nat /\ diskWrites' = diskWrites + 1 /\ \A q \in FilePaths : Lasts(q)

LEMMA KinIsKin ==
  ASSUME NEW p \in FilePaths, NEW q \in Storage!Kin(p)'
  PROVE  /\ q \in FilePaths /\ disk'[q] # None
         /\ Storage!Kin(q) = Storage!Kin(p)
BY DEF Storage!Kin

LEMMA SizeLasts ==
  ASSUME DiskStep, NEW p \in FilePaths, NEW row, row.at \in Nat, Storage!SizeHolds(p, row)
  PROVE  Storage!SizeHolds(p, row)'
<1>1. row.at <= diskWrites
  BY DEF Storage!SizeHolds
<1>2. ASSUME NEW q \in Storage!Kin(p)', disk'[q].at = row.at
      PROVE  Storage!Size(disk'[q]) = row.size
  <2>1. PICK o \in Storage!Kin(p) : disk'[q] = disk[o]
    BY <1>1, <1>2, KinIsKin DEF DiskStep, Lasts
  <2> QED
    BY <1>2, <2>1 DEF Storage!SizeHolds
<1>3. row.at <= diskWrites'
  BY <1>1 DEF DiskStep
<1> QED
  BY <1>2, <1>3 DEF Storage!SizeHolds

LEMMA StatLasts ==
  ASSUME DiskStep, NEW p \in FilePaths, NEW stat, stat.at \in Nat, Storage!StatHolds(p, stat)
  PROVE  Storage!StatHolds(p, stat)'
<1>1. Storage!SizeHolds(p, stat)' /\ stat.at <= diskWrites
  BY SizeLasts DEF Storage!StatHolds, Storage!SizeHolds
<1>2. ASSUME NEW q \in Storage!Kin(p)', disk'[q].at = stat.at
      PROVE  disk'[q].inode = stat.inode
  <2>1. PICK o \in Storage!Kin(p) : disk'[q] = disk[o]
    BY <1>1, <1>2, KinIsKin DEF DiskStep, Lasts
  <2> QED
    BY <1>2, <2>1 DEF Storage!StatHolds
<1> QED
  BY <1>1, <1>2 DEF Storage!StatHolds

LEMMA FindingsLast ==
  ASSUME DiskStep, NEW p \in FilePaths, NEW f \in Storage!Findings, Storage!FindingsHold(p, f),
         \A q \in FilePaths : disk'[q] # None => Len(disk'[q].rows) \in Nat,
         \A q \in FilePaths : disk[q] # None => Len(disk[q].rows) \in Nat
  PROVE  Storage!FindingsHold(p, f)'
<1>0. f.offset \in Nat /\ f.at \in Nat /\ f.guard \in Nat
  BY DEF Storage!Findings
<1>1. /\ f.at <= diskWrites /\ f.guard <= diskWrites /\ f.offset = 2 * (f.offset \div 2)
      /\ f.offset = 0 => f.metrics = Storage!Metrics(<<>>, 0)
  BY DEF Storage!FindingsHold
<1>2. f.at <= diskWrites' /\ f.guard <= diskWrites'
  BY <1>0, <1>1 DEF DiskStep
<1>3. ASSUME f.offset # 0, NEW q \in Storage!Kin(p)', disk'[q].written = f.guard
      PROVE  /\ f.offset <= 2 * Len(disk'[q].rows)
             /\ f.metrics = Storage!Metrics(disk'[q].rows, f.offset \div 2)
  <2>1. PICK o \in Storage!Kin(p) :
          /\ disk'[q].written = disk[o].written
          /\ Len(disk[o].rows) <= Len(disk'[q].rows)
          /\ \A n \in Nat : n <= Len(disk[o].rows) =>
               Storage!Metrics(disk'[q].rows, n) = Storage!Metrics(disk[o].rows, n)
    BY <1>0, <1>1, <1>3, KinIsKin DEF DiskStep, Lasts
  <2>2. f.offset <= 2 * Len(disk[o].rows) /\ f.metrics = Storage!Metrics(disk[o].rows, f.offset \div 2)
    BY <1>3, <2>1 DEF Storage!FindingsHold
  <2>3. Len(disk[o].rows) \in Nat /\ Len(disk'[q].rows) \in Nat
    BY <2>1, KinIsKin DEF Storage!Kin
  <2>4. f.offset \div 2 \in Nat /\ f.offset \div 2 <= Len(disk[o].rows)
    BY <1>0, <1>1, <2>2, <2>3
  <2> QED
    BY <1>0, <2>1, <2>2, <2>3, <2>4
<1>4. ASSUME f.offset # 0, NEW q \in Storage!Kin(p)', disk'[q].at = f.at
      PROVE  disk'[q].written = f.guard
  <2>1. PICK o \in Storage!Kin(p) : disk'[q] = disk[o]
    BY <1>0, <1>1, <1>4, KinIsKin DEF DiskStep, Lasts
  <2> QED
    BY <1>4, <2>1 DEF Storage!FindingsHold
<1> QED
  BY <1>1, <1>2, <1>3, <1>4 DEF Storage!FindingsHold

(* So all that was recorded holds after such a step.                       *)
LEMMA RecordsLast ==
  ASSUME Storage!StorageInv, DiskStep, Storage!TypeOK', Storage!FilesDiffer',
         UNCHANGED <<files, findings, inventory, phase, selected, requests, scanned>>
  PROVE  Storage!StorageInv'
<1>1. Storage!TypeOK /\ Storage!KeptRecordsHold /\ Storage!AnalysisHolds /\ Storage!TreeIsSelected
  BY DEF Storage!StorageInv
<1>2. /\ \A q \in FilePaths : disk'[q] # None => Len(disk'[q].rows) \in Nat
      /\ \A q \in FilePaths : disk[q] # None => Len(disk[q].rows) \in Nat
  BY <1>1 DEF Storage!TypeOK, Storage!Files
<1>3. Storage!KeptRecordsHold'
  <2> SUFFICES ASSUME NEW p \in FilePaths
               PROVE  /\ files'[p].known => Storage!SizeHolds(p, files[p])'
                      /\ findings'[p] # None => Storage!FindingsHold(p, findings[p])'
    BY DEF Storage!KeptRecordsHold
  <2>1. PICK row, f : row = files[p] /\ f = findings[p]
    OBVIOUS
  <2>2. ASSUME row.known
        PROVE  Storage!SizeHolds(p, row)'
    <3>1. row.at \in Nat
      <4>1. row \in {Storage!NoRow} \cup Storage!Rows
        BY <1>1, <2>1 DEF Storage!TypeOK
      <4> QED
        BY <2>2, <4>1, KnownRow
    <3>2. Storage!SizeHolds(p, row)
      BY <1>1, <2>1, <2>2 DEF Storage!KeptRecordsHold
    <3> QED
      BY <3>1, <3>2, SizeLasts
  <2>3. ASSUME f # None
        PROVE  Storage!FindingsHold(p, f)'
    <3>1. f \in Storage!Findings /\ Storage!FindingsHold(p, f)
      BY <1>1, <2>1, <2>3 DEF Storage!TypeOK, Storage!KeptRecordsHold
    <3> QED
      BY <1>2, <3>1, FindingsLast
  <2>4. files'[p] = row /\ findings'[p] = f
    BY <2>1
  <2>5. files'[p].known => Storage!SizeHolds(p, files[p])'
    BY <2>2, <2>4 DEF Storage!SizeHolds
  <2>6. findings'[p] # None => Storage!FindingsHold(p, findings[p])'
    BY <2>3, <2>4 DEF Storage!FindingsHold
  <2> QED
    BY <2>5, <2>6
<1>4. Storage!AnalysisHolds'
  <2>1. ASSUME NEW u \in Storage!Users, NEW p \in DOMAIN inventory'[u]
        PROVE  Storage!StatHolds(p, inventory[u][p])'
    <3>1. PICK stat : stat = inventory[u][p]
      OBVIOUS
    <3>2. p \in FilePaths /\ stat.at \in Nat /\ Storage!StatHolds(p, stat)
      BY <1>1, <2>1, <3>1 DEF Storage!TypeOK, Storage!Stats, Storage!AnalysisHolds
    <3>3. Storage!StatHolds(p, stat)' /\ inventory'[u][p] = stat
      BY <3>1, <3>2, StatLasts
    <3> QED
      BY <3>3 DEF Storage!StatHolds, Storage!SizeHolds
  <2>2. ASSUME NEW p \in DOMAIN requests'
        PROVE  /\ Storage!StatHolds(p, requests[p].stat)'
               /\ requests'[p].existing # None => Storage!FindingsHold(p, requests[p].existing)'
    <3>1. PICK stat, f : stat = requests[p].stat /\ f = requests[p].existing
      OBVIOUS
    <3>2. p \in FilePaths /\ stat.at \in Nat /\ Storage!StatHolds(p, stat)
      BY <1>1, <2>2, <3>1 DEF Storage!TypeOK, Storage!Stats, Storage!AnalysisHolds
    <3>3. Storage!StatHolds(p, stat)' /\ requests'[p].stat = stat /\ requests'[p].existing = f
      BY <3>1, <3>2, StatLasts
    <3>4. ASSUME f # None
          PROVE  Storage!FindingsHold(p, f)'
      <4>1. f \in Storage!Findings /\ Storage!FindingsHold(p, f)
        BY <1>1, <2>2, <3>1, <3>4 DEF Storage!TypeOK, Storage!AnalysisHolds
      <4> QED
        BY <1>2, <3>2, <4>1, FindingsLast
    <3>5. Storage!StatHolds(p, requests[p].stat)'
      BY <3>3 DEF Storage!StatHolds, Storage!SizeHolds
    <3>6. requests'[p].existing # None => Storage!FindingsHold(p, requests[p].existing)'
      BY <3>3, <3>4 DEF Storage!FindingsHold
    <3> QED
      BY <3>5, <3>6
  <2>3. ASSUME NEW p \in DOMAIN scanned'
        PROVE  Storage!FindingsHold(p, scanned[p])'
    <3>1. PICK f : f = scanned[p]
      OBVIOUS
    <3>2. p \in FilePaths /\ f \in Storage!Findings /\ Storage!FindingsHold(p, f)
      BY <1>1, <2>3, <3>1 DEF Storage!TypeOK, Storage!AnalysisHolds, Storage!TreeIsSelected
    <3>3. Storage!FindingsHold(p, f)' /\ scanned'[p] = f
      BY <1>2, <3>1, <3>2, FindingsLast
    <3> QED
      BY <3>3 DEF Storage!FindingsHold
  <2> QED
    BY <2>1, <2>2, <2>3 DEF Storage!AnalysisHolds
<1>5. Storage!TreeIsSelected'
  BY <1>1 DEF Storage!TreeIsSelected
<1> QED
  BY <1>3, <1>4, <1>5 DEF Storage!StorageInv

LEMMA SameFileLasts ==
  ASSUME NEW q \in FilePaths, NEW o \in Storage!Kin(q), disk'[q] = disk[o],
         Len(disk[o].rows) \in Nat
  PROVE  Lasts(q)
<1>1. /\ disk'[q].written = disk[o].written
      /\ Len(disk[o].rows) <= Len(disk'[q].rows)
      /\ \A n \in Nat : n <= Len(disk[o].rows) =>
           Storage!Metrics(disk'[q].rows, n) = Storage!Metrics(disk[o].rows, n)
  OBVIOUS
<1> QED
  BY <1>1 DEF Lasts

LEMMA WrittenKeeps ==
  ASSUME Storage!StorageInv, NEW p \in FilePaths, NEW f, Storage!Written(p, f),
         \/ f = None
         \/ /\ f \in Storage!Files /\ f.at = diskWrites + 1
            /\ f.inode = diskWrites + 1 \/ (disk[p] # None /\ f.inode = disk[p].inode)
            /\ \/ f.written = diskWrites + 1
               \/ /\ disk[p] # None
                  /\ f.written = disk[p].written
                  /\ Len(disk[p].rows) <= Len(f.rows)
                  /\ \A n \in Nat : n <= Len(disk[p].rows) =>
                       Storage!Metrics(f.rows, n) = Storage!Metrics(disk[p].rows, n)
  PROVE  Storage!StorageInv'
<1>1. Storage!TypeOK /\ Storage!FilesDiffer
  BY DEF Storage!StorageInv
<1>2. /\ diskWrites' = diskWrites + 1 /\ diskWrites \in Nat
      /\ \A q \in FilePaths : disk'[q] = IF q = p THEN f ELSE disk[q]
      /\ disk' \in [FilePaths -> {None} \cup Storage!Files]
      /\ UNCHANGED <<files, findings, inventory, phase, selected, requests, scanned, cancelled>>
  BY <1>1 DEF Storage!TypeOK, Storage!Written
<1>3. Storage!TypeOK'
  BY <1>1, <1>2 DEF Storage!TypeOK
<1>4. DiskStep
  <2> SUFFICES ASSUME NEW q \in FilePaths, disk'[q] # None
               PROVE  Lasts(q)
    BY <1>2 DEF DiskStep, Lasts
  <2>1. CASE q # p
    <3>1. disk'[q] = disk[q] /\ q \in Storage!Kin(q) /\ Len(disk[q].rows) \in Nat
      BY <1>1, <1>2, <2>1 DEF Storage!Kin, Storage!TypeOK, Storage!Files
    <3> QED
      BY <3>1, SameFileLasts
  <2>2. CASE q = p
    <3>1. disk'[q] = f /\ f # None /\ (disk[p] # None => p \in Storage!Kin(q))
      BY <1>2, <2>2 DEF Storage!Kin
    <3> QED
      BY <3>1, <2>2 DEF Lasts
  <2> QED
    BY <2>1, <2>2
<1>5. Storage!FilesDiffer'
  <2>1. ASSUME NEW q \in FilePaths, disk'[q] # None
        PROVE  /\ disk'[q].at <= diskWrites' /\ disk'[q].inode <= diskWrites'
               /\ disk'[q].written <= diskWrites'
    <3>1. CASE q # p
      <4>1. /\ disk'[q] = disk[q] /\ disk[q] \in Storage!Files
            /\ disk[q].at <= diskWrites /\ disk[q].inode <= diskWrites
            /\ disk[q].written <= diskWrites
        BY <1>1, <1>2, <2>1, <3>1 DEF Storage!FilesDiffer, Storage!TypeOK
      <4> QED
        BY <1>2, <4>1 DEF Storage!Files
    <3>2. CASE q = p
      <4>1. disk'[q] = f /\ f # None /\ f \in Storage!Files
        BY <1>2, <2>1, <3>2
      <4>2. disk[p] # None => /\ disk[p] \in Storage!Files
                              /\ disk[p].inode <= diskWrites /\ disk[p].written <= diskWrites
        BY <1>1 DEF Storage!FilesDiffer, Storage!TypeOK
      <4> QED
        BY <1>2, <4>1, <4>2 DEF Storage!Files
    <3> QED
      BY <3>1, <3>2
  <2>2. ASSUME NEW q \in FilePaths, disk'[q] # None, NEW o \in Storage!Kin(q)' \ {q}
        PROVE  /\ disk'[q].at # disk'[o].at /\ disk'[q].inode # disk'[o].inode
               /\ disk'[q].written # disk'[o].written
    <3>1. o \in FilePaths /\ disk'[o] # None /\ o # q /\ TaskAt[o] = TaskAt[q]
      BY DEF Storage!Kin
    <3>2. ASSUME NEW x \in FilePaths, x # p, NEW y \in FilePaths, y # x, TaskAt[x] = TaskAt[y],
                 disk'[x] # None, disk'[y] # None
          PROVE  /\ disk'[x].at # disk'[y].at /\ disk'[x].inode # disk'[y].inode
                 /\ disk'[x].written # disk'[y].written
      <4>1. /\ disk'[x] = disk[x] /\ disk[x] \in Storage!Files
            /\ disk[x].at <= diskWrites /\ disk[x].inode <= diskWrites
            /\ disk[x].written <= diskWrites
        BY <1>1, <1>2, <3>2 DEF Storage!FilesDiffer, Storage!TypeOK
      <4>2. disk[y] # None => /\ disk[x].at # disk[y].at /\ disk[x].inode # disk[y].inode
                              /\ disk[x].written # disk[y].written
        BY <1>1, <3>2, <4>1 DEF Storage!FilesDiffer, Storage!Kin
      <4>3. CASE y # p
        BY <1>2, <3>2, <4>1, <4>2, <4>3
      <4>4. CASE y = p
        BY <1>2, <3>2, <4>1, <4>2, <4>4 DEF Storage!Files
      <4> QED
        BY <4>3, <4>4
    <3>3. CASE q # p
      BY <2>2, <3>1, <3>2, <3>3
    <3>4. CASE q = p
      BY <2>2, <3>1, <3>2, <3>4
    <3> QED
      BY <3>3, <3>4
  <2> QED
    BY <2>1, <2>2 DEF Storage!FilesDiffer
<1> QED
  BY <1>2, <1>3, <1>4, <1>5, RecordsLast

LEMMA MoveKeepsFindings ==
  ASSUME Storage!StorageInv, NEW p \in FilePaths, NEW q \in FilePaths, Storage!Move(p, q)
  PROVE  Storage!StorageInv'
<1>1. Storage!TypeOK /\ Storage!FilesDiffer
  BY DEF Storage!StorageInv
<1>2. /\ diskWrites' = diskWrites + 1 /\ diskWrites \in Nat
      /\ p # q /\ TaskAt[p] = TaskAt[q] /\ disk[p] # None /\ disk[q] = None
      /\ \A x \in FilePaths :
           disk'[x] = IF x = q THEN disk[p] ELSE IF x = p THEN None ELSE disk[x]
      /\ disk' \in [FilePaths -> {None} \cup Storage!Files]
      /\ UNCHANGED <<files, findings, inventory, phase, selected, requests, scanned, cancelled>>
  BY <1>1 DEF Storage!TypeOK, Storage!Move
<1>3. Storage!TypeOK'
  BY <1>1, <1>2 DEF Storage!TypeOK
<1> DEFINE was(x) == IF x = q THEN p ELSE x
<1>4. ASSUME NEW x \in FilePaths, disk'[x] # None
      PROVE  /\ was(x) \in FilePaths /\ disk'[x] = disk[was(x)] /\ disk[was(x)] # None
             /\ disk[was(x)] \in Storage!Files /\ TaskAt[was(x)] = TaskAt[x]
  BY <1>1, <1>2, <1>4 DEF Storage!TypeOK
<1>5. \A x, y \in FilePaths : disk'[x] # None /\ disk'[y] # None /\ was(x) = was(y) => x = y
  BY <1>2
<1> HIDE DEF was
<1>6. DiskStep
  <2> SUFFICES ASSUME NEW x \in FilePaths, disk'[x] # None
               PROVE  Lasts(x)
    BY <1>2 DEF DiskStep, Lasts
  <2>1. was(x) \in Storage!Kin(x) /\ disk'[x] = disk[was(x)] /\ Len(disk[was(x)].rows) \in Nat
    BY <1>4 DEF Storage!Kin, Storage!Files
  <2> QED
    BY <2>1, SameFileLasts
<1>7. Storage!FilesDiffer'
  <2>1. ASSUME NEW x \in FilePaths, disk'[x] # None
        PROVE  /\ disk'[x].at <= diskWrites' /\ disk'[x].inode <= diskWrites'
               /\ disk'[x].written <= diskWrites'
    <3>1. /\ disk'[x] = disk[was(x)] /\ disk[was(x)] \in Storage!Files
          /\ disk[was(x)].at <= diskWrites /\ disk[was(x)].inode <= diskWrites
          /\ disk[was(x)].written <= diskWrites
      BY <1>1, <1>4, <2>1 DEF Storage!FilesDiffer
    <3> QED
      BY <1>2, <3>1 DEF Storage!Files
  <2>2. ASSUME NEW x \in FilePaths, disk'[x] # None, NEW y \in Storage!Kin(x)' \ {x}
        PROVE  /\ disk'[x].at # disk'[y].at /\ disk'[x].inode # disk'[y].inode
               /\ disk'[x].written # disk'[y].written
    <3>1. y \in FilePaths /\ disk'[y] # None /\ y # x /\ TaskAt[y] = TaskAt[x]
      BY DEF Storage!Kin
    <3>2. was(y) \in Storage!Kin(was(x)) \ {was(x)}
      BY <1>4, <1>5, <2>2, <3>1 DEF Storage!Kin
    <3>3. /\ disk[was(x)].at # disk[was(y)].at /\ disk[was(x)].inode # disk[was(y)].inode
          /\ disk[was(x)].written # disk[was(y)].written
      BY <1>1, <1>4, <2>2, <3>2 DEF Storage!FilesDiffer
    <3> QED
      BY <1>4, <2>2, <3>1, <3>3
  <2> QED
    BY <2>1, <2>2 DEF Storage!FilesDiffer
<1> QED
  BY <1>2, <1>3, <1>6, <1>7, RecordsLast

LEMMA DirectoriesKeep ==
  ASSUME Storage!StorageInv, NEW p \in FilePaths, NEW k \in RowKinds, NEW t \in BOOLEAN,
         \/ Storage!AppendRow(p, k, t) \/ Storage!Replace(p, <<k>>)
         \/ Storage!Rewrite(p, <<k>>) \/ Storage!Delete(p)
  PROVE  Storage!StorageInv'
<1>1. Storage!TypeOK /\ diskWrites \in Nat /\ disk[p] \in {None} \cup Storage!Files
  BY DEF Storage!StorageInv, Storage!TypeOK
<1>2. CASE Storage!AppendRow(p, k, t)
  <2> DEFINE f == [disk[p] EXCEPT !.rows = Append(@, k), !.torn = t, !.at = diskWrites + 1]
  <2>1. disk[p] # None /\ Storage!Written(p, f) /\ disk[p] \in Storage!Files
    BY <1>1, <1>2 DEF Storage!AppendRow
  <2>2. /\ f \in Storage!Files /\ f.at = diskWrites + 1 /\ f.inode = disk[p].inode
        /\ f.written = disk[p].written /\ f.rows = Append(disk[p].rows, k)
        /\ disk[p].rows \in Seq(RowKinds \cup {"compacted"})
    <3> DEFINE longer == Append(disk[p].rows, k)
    <3>1. disk[p].rows \in Seq(RowKinds \cup {"compacted"})
      BY <2>1 DEF Storage!Files
    <3>2. longer \in Seq(RowKinds \cup {"compacted"}) /\ diskWrites + 1 \in Nat
      BY <1>1, <3>1
    <3>3. PICK g \in Storage!Files, n \in Nat : g = disk[p] /\ n = diskWrites + 1
      BY <2>1, <3>2
    <3>4. f = [g EXCEPT !.rows = longer, !.torn = t, !.at = n]
      BY <3>3
    <3> HIDE DEF longer, f
    <3>5. /\ f \in Storage!Files /\ f.rows = longer /\ f.at = n
          /\ f.inode = g.inode /\ f.written = g.written
      BY ONLY <3>2, <3>4 DEF Storage!Files
    <3> QED
      BY <3>1, <3>3, <3>5 DEF longer
  <2>3. \A n \in Nat : n <= Len(disk[p].rows) =>
          Storage!Metrics(f.rows, n) = Storage!Metrics(disk[p].rows, n)
    <3>1. k \in RowKinds \cup {"compacted"}
      OBVIOUS
    <3> QED
      BY <2>2, <3>1, MetricsOfAppended
  <2>4. Len(disk[p].rows) <= Len(f.rows)
    BY <2>2
  <2> HIDE DEF f
  <2> QED
    BY <2>1, <2>2, <2>3, <2>4, WrittenKeeps
<1>3. CASE Storage!Replace(p, <<k>>)
  <2> DEFINE f == [rows |-> <<k>>, torn |-> FALSE, at |-> diskWrites + 1, inode |-> diskWrites + 1,
                   written |-> diskWrites + 1]
  <2>1. Storage!Written(p, f)
    BY <1>3 DEF Storage!Replace
  <2>2. /\ f \in Storage!Files /\ f.at = diskWrites + 1 /\ f.inode = diskWrites + 1
        /\ f.written = diskWrites + 1
    BY <1>1 DEF Storage!Files
  <2> HIDE DEF f
  <2> QED
    BY <2>1, <2>2, WrittenKeeps
<1>4. CASE Storage!Rewrite(p, <<k>>)
  <2> DEFINE f == [disk[p] EXCEPT !.rows = <<k>>, !.torn = FALSE, !.at = diskWrites + 1,
                                  !.written = diskWrites + 1]
  <2>1. disk[p] # None /\ Storage!Written(p, f) /\ disk[p] \in Storage!Files
    BY <1>1, <1>4 DEF Storage!Rewrite
  <2>2. /\ f \in Storage!Files /\ f.at = diskWrites + 1 /\ f.inode = disk[p].inode
        /\ f.written = diskWrites + 1
    <3>1. <<k>> \in Seq(RowKinds \cup {"compacted"}) /\ diskWrites + 1 \in Nat
      BY <1>1
    <3>2. PICK g \in Storage!Files, n \in Nat : g = disk[p] /\ n = diskWrites + 1
      BY <2>1, <3>1
    <3>3. f = [g EXCEPT !.rows = <<k>>, !.torn = FALSE, !.at = n, !.written = n]
      BY <3>2
    <3> HIDE DEF f
    <3>4. f \in Storage!Files /\ f.at = n /\ f.inode = g.inode /\ f.written = n
      BY ONLY <3>1, <3>3 DEF Storage!Files
    <3> QED
      BY <3>2, <3>4
  <2> HIDE DEF f
  <2> QED
    BY <2>1, <2>2, WrittenKeeps
<1>5. CASE Storage!Delete(p)
  BY <1>5, WrittenKeeps DEF Storage!Delete
<1> QED
  BY <1>2, <1>3, <1>4, <1>5

(* While the directories stand still, so does what holds of them.          *)
LEMMA StandingHolds ==
  ASSUME UNCHANGED <<disk, diskWrites>>, NEW p \in FilePaths, NEW x
  PROVE  /\ Storage!SizeHolds(p, x) <=> Storage!SizeHolds(p, x)'
         /\ Storage!StatHolds(p, x) <=> Storage!StatHolds(p, x)'
         /\ Storage!FindingsHold(p, x) <=> Storage!FindingsHold(p, x)'
<1>1. Storage!Kin(p)' = Storage!Kin(p)
  BY DEF Storage!Kin
<1>2. Storage!SizeHolds(p, x) <=> Storage!SizeHolds(p, x)'
  BY <1>1 DEF Storage!SizeHolds
<1>3. Storage!StatHolds(p, x) <=> Storage!StatHolds(p, x)'
  BY <1>1, <1>2 DEF Storage!StatHolds
<1>4. Storage!FindingsHold(p, x) <=> Storage!FindingsHold(p, x)'
  BY <1>1 DEF Storage!FindingsHold
<1> QED
  BY <1>2, <1>3, <1>4

LEMMA FilesStillDiffer ==
  ASSUME UNCHANGED <<disk, diskWrites>>, Storage!FilesDiffer
  PROVE  Storage!FilesDiffer'
<1>1. \A p : Storage!Kin(p)' = Storage!Kin(p)
  BY DEF Storage!Kin
<1> QED
  BY <1>1 DEF Storage!FilesDiffer

(* Records of the cache that hold are kept, and so are those that replace  *)
(* them.                                                                   *)
LEMMA KeptRecords ==
  ASSUME UNCHANGED <<disk, diskWrites>>,
         \A p \in FilePaths : \A x : x = files'[p] /\ x.known => Storage!SizeHolds(p, x),
         \A p \in FilePaths : \A x : x = findings'[p] /\ x # None => Storage!FindingsHold(p, x)
  PROVE  Storage!KeptRecordsHold'
<1> SUFFICES ASSUME NEW p \in FilePaths
             PROVE  /\ files'[p].known => Storage!SizeHolds(p, files[p])'
                    /\ findings'[p] # None => Storage!FindingsHold(p, findings[p])'
  BY DEF Storage!KeptRecordsHold
<1>1. PICK x, y : x = files'[p] /\ y = findings'[p]
  OBVIOUS
<1>2. x.known => Storage!SizeHolds(p, x)'
  BY <1>1, StandingHolds
<1>3. y # None => Storage!FindingsHold(p, y)'
  BY <1>1, StandingHolds
<1>4. files'[p].known => Storage!SizeHolds(p, files[p])'
  BY <1>1, <1>2 DEF Storage!SizeHolds
<1>5. findings'[p] # None => Storage!FindingsHold(p, findings[p])'
  BY <1>1, <1>3 DEF Storage!FindingsHold
<1> QED
  BY <1>4, <1>5

LEMMA RecordsOf ==
  ASSUME Storage!StorageInv, NEW p \in FilePaths
  PROVE  /\ \A x : x = files[p] /\ x.known => Storage!SizeHolds(p, x)
         /\ \A x : x = findings[p] /\ x # None => Storage!FindingsHold(p, x)
BY DEF Storage!StorageInv, Storage!KeptRecordsHold

LEMMA AnalysisRecords ==
  ASSUME UNCHANGED <<disk, diskWrites>>, Storage!TypeOK', Storage!TreeIsSelected',
         DOMAIN scanned' \subseteq FilePaths,
         \A u \in Storage!Users : \A p \in DOMAIN inventory'[u] : \A x :
           x = inventory'[u][p] => Storage!StatHolds(p, x),
         \A p \in DOMAIN requests' : \A x : x = requests'[p].stat => Storage!StatHolds(p, x),
         \A p \in DOMAIN requests' : \A x :
           x = requests'[p].existing /\ x # None => Storage!FindingsHold(p, x),
         \A p \in DOMAIN scanned' : \A x : x = scanned'[p] => Storage!FindingsHold(p, x)
  PROVE  Storage!AnalysisHolds'
<1>1. /\ \A u \in Storage!Users : DOMAIN inventory'[u] \subseteq FilePaths
      /\ DOMAIN requests' \subseteq FilePaths
  BY DEF Storage!TypeOK
<1>2. ASSUME NEW u \in Storage!Users, NEW p \in DOMAIN inventory'[u]
      PROVE  Storage!StatHolds(p, inventory[u][p])'
  <2>1. PICK x : x = inventory'[u][p]
    OBVIOUS
  <2>2. Storage!StatHolds(p, x)'
    BY <1>1, <1>2, <2>1, StandingHolds
  <2> QED
    BY <2>1, <2>2 DEF Storage!StatHolds, Storage!SizeHolds
<1>3. ASSUME NEW p \in DOMAIN requests'
      PROVE  /\ Storage!StatHolds(p, requests[p].stat)'
             /\ requests'[p].existing # None => Storage!FindingsHold(p, requests[p].existing)'
  <2>1. PICK x, y : x = requests'[p].stat /\ y = requests'[p].existing
    OBVIOUS
  <2>2. Storage!StatHolds(p, x)' /\ (y # None => Storage!FindingsHold(p, y)')
    BY <1>1, <1>3, <2>1, StandingHolds
  <2>3. Storage!StatHolds(p, requests[p].stat)'
    BY <2>1, <2>2 DEF Storage!StatHolds, Storage!SizeHolds
  <2>4. requests'[p].existing # None => Storage!FindingsHold(p, requests[p].existing)'
    BY <2>1, <2>2 DEF Storage!FindingsHold
  <2> QED
    BY <2>3, <2>4
<1>4. ASSUME NEW p \in DOMAIN scanned'
      PROVE  Storage!FindingsHold(p, scanned[p])'
  <2>1. PICK x : x = scanned'[p]
    OBVIOUS
  <2>2. Storage!FindingsHold(p, x)'
    BY <1>4, <2>1, StandingHolds
  <2> QED
    BY <2>1, <2>2 DEF Storage!FindingsHold
<1> QED
  BY <1>2, <1>3, <1>4 DEF Storage!AnalysisHolds

LEMMA RecordsOfAnalysis ==
  ASSUME Storage!StorageInv
  PROVE  /\ \A u \in Storage!Users : \A p \in DOMAIN inventory[u] : \A x :
              x = inventory[u][p] => p \in FilePaths /\ x \in Storage!Stats /\ Storage!StatHolds(p, x)
         /\ \A p \in DOMAIN requests : \A x :
              x = requests[p].stat => p \in FilePaths /\ x \in Storage!Stats /\ Storage!StatHolds(p, x)
         /\ \A p \in DOMAIN requests : \A x :
              x = requests[p].existing /\ x # None => x \in Storage!Findings /\ Storage!FindingsHold(p, x)
         /\ \A p \in DOMAIN scanned : \A x :
              x = scanned[p] => p \in FilePaths /\ x \in Storage!Findings /\ Storage!FindingsHold(p, x)
BY DEF Storage!StorageInv, Storage!AnalysisHolds, Storage!TypeOK, Storage!TreeIsSelected

LEMMA SizeType ==
  ASSUME NEW f \in Storage!Files
  PROVE  /\ Len(f.rows) \in Nat /\ Storage!Size(f) \in Nat
         /\ 2 * Len(f.rows) <= Storage!Size(f)
         /\ Storage!Size(f) <= 2 * Len(f.rows) + 1
<1>1. Len(f.rows) \in Nat
  BY DEF Storage!Files
<1>2. CASE f.torn
  BY <1>1, <1>2 DEF Storage!Size
<1>3. CASE ~f.torn
  BY <1>1, <1>3 DEF Storage!Size
<1> QED
  BY <1>2, <1>3

(* A listing tells of each file what it is.                                *)
LEMMA ListKeeps ==
  ASSUME Storage!StorageInv, NEW u \in Storage!Users, Storage!List(u)
  PROVE  Storage!StorageInv'
<1>1. Storage!TypeOK /\ Storage!FilesDiffer /\ Storage!TreeIsSelected
  BY DEF Storage!StorageInv
<1>2. /\ phase[u] = "idle" /\ phase' = [phase EXCEPT ![u] = "listed"]
      /\ inventory' = [inventory EXCEPT ![u] = Storage!Inventory]
      /\ UNCHANGED <<disk, diskWrites, files, findings, requests, scanned>>
      /\ selected' = IF u = "analysis" THEN Storage!Present(files) ELSE selected
      /\ cancelled' \in {cancelled, FALSE}
  BY DEF Storage!List
<1>3. /\ DOMAIN Storage!Inventory \subseteq FilePaths
      /\ \A p \in DOMAIN Storage!Inventory :
           /\ disk[p] # None /\ disk[p] \in Storage!Files
           /\ Storage!Inventory[p] = Storage!Stat(disk[p])
  BY <1>1 DEF Storage!Inventory, Storage!TypeOK
<1>4. \A p \in DOMAIN Storage!Inventory :
        /\ Storage!Inventory[p] \in Storage!Stats
        /\ Storage!StatHolds(p, Storage!Inventory[p])
  <2> TAKE p \in DOMAIN Storage!Inventory
  <2>1. disk[p].at \in Nat /\ disk[p].inode \in Nat
    BY <1>3 DEF Storage!Files
  <2>2. Storage!Size(disk[p]) \in Nat
    BY <1>3, SizeType
  <2>3. \A q \in Storage!Kin(p) : disk[q].at = disk[p].at => q = p
    BY <1>1, <1>3 DEF Storage!FilesDiffer
  <2>4. disk[p].at <= diskWrites
    BY <1>1, <1>3 DEF Storage!FilesDiffer
  <2>5. PICK stat : stat = Storage!Stat(disk[p])
    OBVIOUS
  <2>6. stat.size = Storage!Size(disk[p]) /\ stat.at = disk[p].at /\ stat.inode = disk[p].inode
        /\ stat \in Storage!Stats
    BY <2>1, <2>2, <2>5 DEF Storage!Stat, Storage!Stats
  <2>7. Storage!StatHolds(p, stat)
    BY <2>3, <2>4, <2>6 DEF Storage!StatHolds, Storage!SizeHolds
  <2> QED
    BY <1>3, <2>5, <2>6, <2>7
<1>5. \A v \in Storage!Users : inventory'[v] = IF v = u THEN Storage!Inventory ELSE inventory[v]
  BY <1>1, <1>2 DEF Storage!TypeOK
<1>6. Storage!TypeOK'
  <2>1. Storage!Present(files) \subseteq FilePaths
    BY DEF Storage!Present
  <2>2. phase' \in [Storage!Users -> {"idle", "listed", "refreshed", "scan"}]
    BY <1>1, <1>2 DEF Storage!TypeOK
  <2>3. DOMAIN inventory' = Storage!Users
    BY <1>1, <1>2 DEF Storage!TypeOK
  <2>4. \A v \in Storage!Users : /\ DOMAIN inventory'[v] \subseteq FilePaths
                                 /\ \A p \in DOMAIN inventory'[v] : inventory'[v][p] \in Storage!Stats
    BY <1>1, <1>3, <1>4, <1>5 DEF Storage!TypeOK
  <2>5. selected' \subseteq FilePaths /\ cancelled' \in BOOLEAN
    BY <1>1, <1>2, <2>1 DEF Storage!TypeOK
  <2> QED
    BY <1>1, <1>2, <2>2, <2>3, <2>4, <2>5 DEF Storage!TypeOK
<1>7. Storage!TreeIsSelected'
  <2>1. CASE u = "analysis"
    <3>1. phase'["analysis"] = "listed" /\ phase["analysis"] = "idle"
      BY <1>1, <1>2, <2>1 DEF Storage!TypeOK
    <3> QED
      BY <1>1, <1>2, <3>1 DEF Storage!TreeIsSelected
  <2>2. CASE u # "analysis"
    <3>1. phase'["analysis"] = phase["analysis"]
      BY <1>1, <1>2, <2>2 DEF Storage!TypeOK, Storage!Users
    <3> QED
      BY <1>1, <1>2, <2>2, <3>1 DEF Storage!TreeIsSelected
  <2> QED
    BY <2>1, <2>2
<1>8. Storage!KeptRecordsHold'
  BY <1>2, RecordsOf, KeptRecords
<1>9. Storage!AnalysisHolds'
  <2>1. \A v \in Storage!Users : \A p \in DOMAIN inventory'[v] : \A x :
          x = inventory'[v][p] => Storage!StatHolds(p, x)
    BY <1>4, <1>5, RecordsOfAnalysis
  <2>2. DOMAIN scanned' \subseteq FilePaths
    BY <1>2, RecordsOfAnalysis
  <2> QED
    BY <1>2, <1>6, <1>7, <2>1, <2>2, RecordsOfAnalysis, AnalysisRecords
<1>10. Storage!FilesDiffer'
  BY <1>1, <1>2, FilesStillDiffer
<1> QED
  BY <1>6, <1>7, <1>8, <1>9, <1>10 DEF Storage!StorageInv

(* A refresh keeps the rows that are reusable and replaces the others by   *)
(* what the listing told.                                                  *)
LEMMA RefreshRowsKeeps ==
  ASSUME Storage!StorageInv, NEW u \in Storage!Users, Storage!RefreshRows(u)
  PROVE  Storage!StorageInv'
<1>1. Storage!TypeOK /\ Storage!FilesDiffer /\ Storage!TreeIsSelected
  BY DEF Storage!StorageInv
<1>2. /\ phase[u] = "listed"
      /\ phase' = [phase EXCEPT ![u] = IF u = "viewer" THEN "idle" ELSE "refreshed"]
      /\ inventory' = IF u = "viewer" THEN [inventory EXCEPT ![u] = <<>>] ELSE inventory
      /\ files' = Storage!Refreshed(inventory[u])
      /\ findings' = Storage!KeptFindings(inventory[u])
      /\ UNCHANGED <<disk, diskWrites, selected, requests, scanned, cancelled>>
  BY DEF Storage!RefreshRows
<1>3. PICK inv : inv = inventory[u]
  OBVIOUS
<1>4. /\ DOMAIN inv \subseteq FilePaths
      /\ \A p \in DOMAIN inv : inv[p] \in Storage!Stats /\ Storage!StatHolds(p, inv[p])
  BY <1>1, <1>3, RecordsOfAnalysis DEF Storage!TypeOK
<1>5. ASSUME NEW p \in FilePaths
      PROVE  /\ files'[p] \in {Storage!NoRow} \cup Storage!Rows
             /\ files'[p].known => Storage!SizeHolds(p, files'[p])
  <2>1. PICK row : row = files[p]
    OBVIOUS
  <2>2. row \in {Storage!NoRow} \cup Storage!Rows /\ (row.known => Storage!SizeHolds(p, row))
    BY <1>1, <2>1, RecordsOf DEF Storage!TypeOK
  <2>3. files'[p] = IF p \in DOMAIN inv
                    THEN IF Storage!Reusable(row, inv[p]) THEN row
                         ELSE [known |-> TRUE, missing |-> FALSE, size |-> inv[p].size,
                               at |-> inv[p].at]
                    ELSE IF row.known THEN [row EXCEPT !.missing = TRUE] ELSE row
    BY <1>2, <1>3, <2>1 DEF Storage!Refreshed
  <2>4. CASE files'[p] = row
    BY <2>2, <2>4
  <2>5. CASE /\ p \in DOMAIN inv
             /\ files'[p] = [known |-> TRUE, missing |-> FALSE, size |-> inv[p].size,
                             at |-> inv[p].at]
    <3>1. PICK stat \in Storage!Stats : stat = inv[p] /\ Storage!StatHolds(p, stat)
      BY <1>4, <2>5
    <3>2. PICK new : new = [known |-> TRUE, missing |-> FALSE, size |-> stat.size, at |-> stat.at]
      OBVIOUS
    <3>3. new \in Storage!Rows /\ new.size = stat.size /\ new.at = stat.at
      BY <3>2 DEF Storage!Rows, Storage!Stats
    <3>4. Storage!SizeHolds(p, new)
      BY <3>1, <3>3 DEF Storage!StatHolds, Storage!SizeHolds
    <3> QED
      BY <2>5, <3>1, <3>2, <3>3, <3>4
  <2>6. CASE row.known /\ files'[p] = [row EXCEPT !.missing = TRUE]
    <3>1. row \in Storage!Rows
      BY <2>2, <2>6, KnownRow
    <3>2. PICK new : new = [row EXCEPT !.missing = TRUE]
      OBVIOUS
    <3>3. new \in Storage!Rows /\ new.size = row.size /\ new.at = row.at
      BY <3>1, <3>2 DEF Storage!Rows
    <3>4. Storage!SizeHolds(p, new)
      BY <2>2, <2>6, <3>3 DEF Storage!SizeHolds
    <3> QED
      BY <2>6, <3>2, <3>3, <3>4
  <2> QED
    BY <2>3, <2>4, <2>5, <2>6
<1>6. \A p \in FilePaths : findings'[p] \in {findings[p], None}
  BY <1>2 DEF Storage!KeptFindings
<1>7. \A v \in Storage!Users :
        \/ inventory'[v] = inventory[v]
        \/ inventory'[v] = <<>> /\ DOMAIN inventory'[v] = {}
  BY <1>1, <1>2 DEF Storage!TypeOK
<1>8. Storage!TypeOK'
  <2>1. files' \in [FilePaths -> {Storage!NoRow} \cup Storage!Rows]
    <3>1. files' = [p \in FilePaths |-> files'[p]]
      BY <1>2 DEF Storage!Refreshed
    <3> QED
      BY <1>5, <3>1
  <2>2. findings' \in [FilePaths -> {None} \cup Storage!Findings]
    <3>1. findings' = [p \in FilePaths |-> findings'[p]]
      BY <1>2 DEF Storage!KeptFindings
    <3>2. \A p \in FilePaths : findings[p] \in {None} \cup Storage!Findings
      BY <1>1 DEF Storage!TypeOK
    <3> QED
      BY <1>6, <3>1, <3>2
  <2>3. phase' \in [Storage!Users -> {"idle", "listed", "refreshed", "scan"}]
    BY <1>1, <1>2 DEF Storage!TypeOK
  <2>4. DOMAIN inventory' = Storage!Users
    BY <1>1, <1>2 DEF Storage!TypeOK
  <2>5. \A v \in Storage!Users : /\ DOMAIN inventory'[v] \subseteq FilePaths
                                 /\ \A p \in DOMAIN inventory'[v] : inventory'[v][p] \in Storage!Stats
    BY <1>1, <1>7 DEF Storage!TypeOK
  <2> QED
    BY <1>1, <1>2, <2>1, <2>2, <2>3, <2>4, <2>5 DEF Storage!TypeOK
<1>9. Storage!TreeIsSelected'
  <2>1. phase'["analysis"] = "scan" <=> phase["analysis"] = "scan"
    BY <1>1, <1>2 DEF Storage!TypeOK, Storage!Users
  <2> QED
    BY <1>1, <1>2, <2>1 DEF Storage!TreeIsSelected
<1>10. Storage!KeptRecordsHold'
  <2>1. \A p \in FilePaths : \A x : x = findings'[p] /\ x # None => Storage!FindingsHold(p, x)
    BY <1>6, RecordsOf
  <2>2. \A p \in FilePaths : \A x : x = files'[p] /\ x.known => Storage!SizeHolds(p, x)
    BY <1>5
  <2> QED
    BY <1>2, <2>1, <2>2, KeptRecords
<1>11. Storage!AnalysisHolds'
  <2>1. \A v \in Storage!Users : \A p \in DOMAIN inventory'[v] : \A x :
          x = inventory'[v][p] => Storage!StatHolds(p, x)
    BY <1>7, RecordsOfAnalysis
  <2>2. DOMAIN scanned' \subseteq FilePaths
    BY <1>2, RecordsOfAnalysis
  <2> QED
    BY <1>2, <1>8, <1>9, <2>1, <2>2, RecordsOfAnalysis, AnalysisRecords
<1>12. Storage!FilesDiffer'
  BY <1>1, <1>2, FilesStillDiffer
<1> QED
  BY <1>8, <1>9, <1>10, <1>11, <1>12 DEF Storage!StorageInv

(* An analysis that ends forgets what it gathered.                         *)
LEMMA EndsKeeps ==
  ASSUME Storage!StorageInv, NEW state, Storage!Ends(state),
         UNCHANGED <<disk, diskWrites, files, cancelled>>,
         findings' \in [FilePaths -> {None} \cup Storage!Findings],
         \A p \in FilePaths : \A x : x = findings'[p] /\ x # None => Storage!FindingsHold(p, x)
  PROVE  Storage!StorageInv'
<1>1. Storage!TypeOK /\ Storage!FilesDiffer
  BY DEF Storage!StorageInv
<1>2. /\ phase' = [phase EXCEPT !["analysis"] = "idle"]
      /\ inventory' = [inventory EXCEPT !["analysis"] = <<>>]
      /\ selected' = {} /\ requests' = <<>> /\ scanned' = <<>>
  BY DEF Storage!Ends
<1>3. DOMAIN requests' = {} /\ DOMAIN scanned' = {}
  BY <1>2
<1>4. \A v \in Storage!Users :
        \/ inventory'[v] = inventory[v]
        \/ inventory'[v] = <<>> /\ DOMAIN inventory'[v] = {}
  BY <1>1, <1>2 DEF Storage!TypeOK
<1>5. Storage!TypeOK'
  <2>1. phase' \in [Storage!Users -> {"idle", "listed", "refreshed", "scan"}]
    BY <1>1, <1>2 DEF Storage!TypeOK
  <2>2. DOMAIN inventory' = Storage!Users
    BY <1>1, <1>2 DEF Storage!TypeOK
  <2>3. \A v \in Storage!Users : /\ DOMAIN inventory'[v] \subseteq FilePaths
                                 /\ \A p \in DOMAIN inventory'[v] : inventory'[v][p] \in Storage!Stats
    BY <1>1, <1>4 DEF Storage!TypeOK
  <2> QED
    BY <1>1, <1>2, <1>3, <2>1, <2>2, <2>3 DEF Storage!TypeOK
<1>6. Storage!TreeIsSelected'
  <2>1. phase'["analysis"] = "idle"
    BY <1>1, <1>2 DEF Storage!TypeOK, Storage!Users
  <2> QED
    BY <1>3, <2>1 DEF Storage!TreeIsSelected
<1>7. Storage!KeptRecordsHold'
  <2>1. \A p \in FilePaths : \A x : x = files'[p] /\ x.known => Storage!SizeHolds(p, x)
    BY RecordsOf
  <2> QED
    BY <2>1, KeptRecords
<1>8. Storage!AnalysisHolds'
  <2>1. \A v \in Storage!Users : \A p \in DOMAIN inventory'[v] : \A x :
          x = inventory'[v][p] => Storage!StatHolds(p, x)
    BY <1>4, RecordsOfAnalysis
  <2> QED
    BY <1>3, <1>5, <1>6, <2>1, AnalysisRecords
<1>9. Storage!FilesDiffer'
  BY <1>1, FilesStillDiffer
<1> QED
  BY <1>5, <1>6, <1>7, <1>8, <1>9 DEF Storage!StorageInv

(* The tree that is scanned is the one that was selected.                  *)
LEMMA PlanKeeps ==
  ASSUME Storage!StorageInv, Storage!Plan
  PROVE  Storage!StorageInv'
<1>1. Storage!TypeOK /\ Storage!FilesDiffer /\ Storage!TreeIsSelected
  BY DEF Storage!StorageInv
<1>2. /\ phase["analysis"] = "refreshed"
      /\ UNCHANGED <<disk, diskWrites, files, findings, cancelled>>
  BY DEF Storage!Plan
<1>3. CASE Storage!Ends("failed")
  <2>1. findings' \in [FilePaths -> {None} \cup Storage!Findings]
    BY <1>1, <1>2 DEF Storage!TypeOK
  <2>2. \A p \in FilePaths : \A x : x = findings'[p] /\ x # None => Storage!FindingsHold(p, x)
    BY <1>2, RecordsOf
  <2> QED
    BY <1>2, <1>3, <2>1, <2>2, EndsKeeps
<1>4. CASE ~Storage!Ends("failed")
  <2> DEFINE tree == Storage!Present(files)
             inv == inventory["analysis"]
  <2>1. /\ tree = selected /\ tree \subseteq DOMAIN inv
        /\ phase' = [phase EXCEPT !["analysis"] = "scan"]
        /\ requests' = [p \in tree |-> [stat |-> inv[p], existing |-> findings[p]]]
        /\ UNCHANGED <<scanned, selected, inventory>>
    BY <1>4 DEF Storage!Plan
  <2>2. tree \subseteq FilePaths
    BY DEF Storage!Present
  <2> HIDE DEF tree
  <2>3. \A p \in tree :
          /\ inv[p] \in Storage!Stats /\ Storage!StatHolds(p, inv[p])
          /\ findings[p] \in {None} \cup Storage!Findings
    <3>1. "analysis" \in Storage!Users
      BY DEF Storage!Users
    <3>2. \A p \in DOMAIN inv : inv[p] \in Storage!Stats /\ Storage!StatHolds(p, inv[p])
      BY <3>1, RecordsOfAnalysis
    <3> QED
      BY <1>1, <2>1, <2>2, <3>2 DEF Storage!TypeOK
  <2> HIDE DEF inv
  <2>4. DOMAIN requests' = tree
    BY <2>1
  <2>5. \A p \in tree : requests'[p].stat = inv[p] /\ requests'[p].existing = findings[p]
    BY <2>1
  <2>6. Storage!TypeOK'
    <3>1. phase' \in [Storage!Users -> {"idle", "listed", "refreshed", "scan"}]
      BY <1>1, <2>1 DEF Storage!TypeOK
    <3>2. DOMAIN requests' \subseteq FilePaths
      BY <2>2, <2>4
    <3>3. \A p \in DOMAIN requests' :
            requests'[p].stat \in Storage!Stats /\ requests'[p].existing \in {None} \cup Storage!Findings
      BY <2>3, <2>4, <2>5
    <3> QED
      BY <1>1, <1>2, <2>1, <3>1, <3>2, <3>3 DEF Storage!TypeOK
  <2>7. Storage!TreeIsSelected'
    <3>1. phase'["analysis"] = "scan"
      BY <1>1, <2>1 DEF Storage!TypeOK, Storage!Users
    <3>2. DOMAIN scanned = {}
      BY <1>1, <1>2 DEF Storage!TreeIsSelected
    <3> QED
      BY <2>1, <2>4, <3>1, <3>2 DEF Storage!TreeIsSelected
  <2>8. Storage!KeptRecordsHold'
    BY <1>2, RecordsOf, KeptRecords
  <2>9. Storage!AnalysisHolds'
    <3>1. \A p \in DOMAIN requests' : \A x : x = requests'[p].stat => Storage!StatHolds(p, x)
      BY <2>3, <2>4, <2>5
    <3>2. \A p \in DOMAIN requests' : \A x :
            x = requests'[p].existing /\ x # None => Storage!FindingsHold(p, x)
      BY <2>2, <2>4, <2>5, RecordsOf
    <3>3. \A v \in Storage!Users : \A p \in DOMAIN inventory'[v] : \A x :
            x = inventory'[v][p] => Storage!StatHolds(p, x)
      BY <2>1, RecordsOfAnalysis
    <3>4. /\ \A p \in DOMAIN scanned' : \A x : x = scanned'[p] => Storage!FindingsHold(p, x)
          /\ DOMAIN scanned' \subseteq FilePaths
      BY <2>1, RecordsOfAnalysis
    <3> QED
      BY <1>2, <2>6, <2>7, <3>1, <3>2, <3>3, <3>4, AnalysisRecords
  <2>10. Storage!FilesDiffer'
    BY <1>1, <1>2, FilesStillDiffer
  <2> QED
    BY <2>6, <2>7, <2>8, <2>9, <2>10 DEF Storage!StorageInv
<1> QED
  BY <1>3, <1>4

(* What an analysis finds in a file, whole or from where the last findings *)
(* end, are the rows the listing covered.                                  *)
LEMMA FoundHolds ==
  ASSUME Storage!StorageInv, NEW p \in DOMAIN requests, Storage!Scannable(p, requests[p])
  PROVE  /\ Storage!Found(p, requests[p]) \in Storage!Findings
         /\ Storage!FindingsHold(p, Storage!Found(p, requests[p]))
<1>1. Storage!TypeOK /\ Storage!FilesDiffer
  BY DEF Storage!StorageInv
<1>2. PICK r, f : r = requests[p] /\ f = disk[p]
  OBVIOUS
<1>3. /\ p \in FilePaths /\ f # None /\ f \in Storage!Files /\ f.inode = r.stat.inode
      /\ r.stat.size <= Storage!Size(f) /\ r.stat \in Storage!Stats
      /\ Storage!StatHolds(p, r.stat)
      /\ r.existing # None =>
           r.existing \in Storage!Findings /\ Storage!FindingsHold(p, r.existing)
  <2>1. f # None /\ f.inode = r.stat.inode /\ Storage!Size(f) >= r.stat.size
    BY <1>2 DEF Storage!Scannable
  <2>2. p \in FilePaths /\ r.stat \in Storage!Stats /\ Storage!StatHolds(p, r.stat)
    BY <1>2, RecordsOfAnalysis
  <2>3. f \in Storage!Files
    BY <1>1, <1>2, <2>1, <2>2 DEF Storage!TypeOK
  <2>4. Storage!Size(f) \in Nat /\ r.stat.size \in Nat
    BY <2>2, <2>3, SizeType DEF Storage!Stats
  <2> QED
    BY <1>2, <2>1, <2>2, <2>3, <2>4, RecordsOfAnalysis
<1>4. PICK L, told, n : L = Len(f.rows) /\ told = r.stat.size /\ n = told \div 2
  OBVIOUS
<1>5. /\ L \in Nat /\ told \in Nat /\ n \in Nat /\ n <= L
      /\ f.rows \in Seq(RowKinds \cup {"compacted"})
  <2>1. L \in Nat /\ Storage!Size(f) \in Nat /\ Storage!Size(f) <= 2 * L + 1
    BY <1>3, <1>4, SizeType
  <2>2. told \in Nat /\ told <= Storage!Size(f)
    BY <1>3, <1>4 DEF Storage!Stats
  <2>3. f.rows \in Seq(RowKinds \cup {"compacted"})
    BY <1>3 DEF Storage!Files
  <2> QED
    BY <1>4, <2>1, <2>2, <2>3
<1> DEFINE appends == Storage!CanAttemptAppend(p, r) /\ Storage!GuardHolds(f, r.existing)
           k == r.existing.offset \div 2
           metrics == IF appends
                      THEN Storage!Plus(r.existing.metrics,
                                        Storage!Metrics(SubSeq(f.rows, k + 1, n), n - k))
                      ELSE Storage!Metrics(f.rows, n)
<1>6. Storage!Found(p, r) = [offset |-> 2 * n, inode |-> r.stat.inode, at |-> r.stat.at,
                             guard |-> Storage!Guard(f, 2 * n), metrics |-> metrics]
  <2>1. (IF r.stat.size < Storage!Size(f) THEN r.stat.size ELSE Storage!Size(f)) \div 2 = n
    <3>1. Storage!Size(f) \in Nat
      BY <1>3, SizeType
    <3> QED
      BY <1>3, <1>4, <1>5, <3>1
  <2>2. (IF 2 * n > 2 * Len(f.rows) THEN Len(f.rows) ELSE n) = n
    BY <1>4, <1>5
  <2> QED
    BY <1>2, <2>1, <2>2 DEF Storage!Found
<1>7. metrics = Storage!Metrics(f.rows, n)
  <2>1. CASE appends
    <3>1. PICK ex : ex = r.existing
      OBVIOUS
    <3>2. /\ ex # None /\ ex \in Storage!Findings /\ Storage!FindingsHold(p, ex)
          /\ told > ex.offset /\ Storage!Guard(f, ex.offset) = ex.guard
      BY <1>3, <1>4, <2>1, <3>1 DEF Storage!CanAttemptAppend, Storage!GuardHolds
    <3>3. ex.offset \in Nat /\ k \in Nat /\ ex.offset = 2 * k /\ k = ex.offset \div 2
      BY <3>1, <3>2 DEF Storage!Findings, Storage!FindingsHold
    <3> HIDE DEF k
    <3>4. k <= n
      BY <1>4, <1>5, <3>2, <3>3
    <3>5. ex.metrics = Storage!Metrics(f.rows, k)
      <4>1. CASE ex.offset = 0
        <5>1. k = 0 /\ ex.metrics = Storage!Metrics(<<>>, 0)
          BY <3>2, <3>3, <4>1 DEF Storage!FindingsHold
        <5> QED
          BY <1>5, <5>1, MetricsOfNothing
      <4>2. CASE ex.offset # 0
        <5>1. f.written = ex.guard
          BY <3>2, <4>2 DEF Storage!Guard
        <5>2. p \in Storage!Kin(p)
          BY <1>2, <1>3 DEF Storage!Kin
        <5> QED
          BY <1>2, <3>2, <3>3, <4>2, <5>1, <5>2 DEF Storage!FindingsHold
      <4> QED
        BY <4>1, <4>2
    <3>6. Storage!Plus(Storage!Metrics(f.rows, k),
                       Storage!Metrics(SubSeq(f.rows, k + 1, n), n - k))
            = Storage!Metrics(f.rows, n)
      BY <1>4, <1>5, <3>3, <3>4, MetricsAddUp
    <3> QED
      BY <2>1, <3>1, <3>5, <3>6
  <2>2. CASE ~appends
    BY <2>2
  <2> QED
    BY <2>1, <2>2
<1> HIDE DEF metrics
<1>8. PICK g : g = Storage!Found(p, r)
  OBVIOUS
<1>9. /\ g.offset = 2 * n /\ g.inode = r.stat.inode /\ g.at = r.stat.at
      /\ g.guard = (IF n = 0 THEN 0 ELSE f.written) /\ g.metrics = Storage!Metrics(f.rows, n)
      /\ g = [offset |-> g.offset, inode |-> g.inode, at |-> g.at, guard |-> g.guard,
              metrics |-> g.metrics]
  <2>1. Storage!Guard(f, 2 * n) = IF n = 0 THEN 0 ELSE f.written
    BY <1>5 DEF Storage!Guard
  <2> QED
    BY <1>6, <1>7, <1>8, <2>1
<1>10. /\ f.written \in Nat /\ f.written <= diskWrites /\ diskWrites \in Nat
       /\ r.stat.at \in Nat /\ r.stat.inode \in Nat /\ r.stat.at <= diskWrites
  <2>1. f.written \in Nat
    BY <1>3 DEF Storage!Files
  <2>2. f.written <= diskWrites
    BY <1>1, <1>2, <1>3 DEF Storage!FilesDiffer
  <2>3. r.stat.at <= diskWrites
    BY <1>3 DEF Storage!StatHolds, Storage!SizeHolds
  <2>4. r.stat.at \in Nat /\ r.stat.inode \in Nat
    BY <1>3 DEF Storage!Stats
  <2>5. diskWrites \in Nat
    BY <1>1 DEF Storage!TypeOK
  <2> QED
    BY <2>1, <2>2, <2>3, <2>4, <2>5
<1>11. g \in Storage!Findings
  <2>1. g.metrics \in [compacted : Nat, unclassified : Nat]
    BY <1>4, <1>5, <1>9, MetricsType
  <2>2. g.offset \in Nat /\ g.inode \in Nat /\ g.at \in Nat /\ g.guard \in Nat
    BY <1>5, <1>9, <1>10
  <2> QED
    BY <1>9, <2>1, <2>2 DEF Storage!Findings
<1>12. Storage!FindingsHold(p, g)
  <2>1. g.at <= diskWrites /\ g.guard <= diskWrites
    BY <1>9, <1>10
  <2>2. g.offset \div 2 = n /\ g.offset = 2 * (g.offset \div 2)
    BY <1>5, <1>9
  <2>3. g.offset = 0 => g.metrics = Storage!Metrics(<<>>, 0)
    <3>1. g.offset = 0 => n = 0
      BY <1>5, <1>9
    <3> QED
      BY <1>5, <1>9, <3>1, MetricsOfNothing
  <2>4. ASSUME g.offset # 0, NEW q \in Storage!Kin(p)
        PROVE  /\ disk[q].written = g.guard =>
                    /\ g.offset <= 2 * Len(disk[q].rows)
                    /\ g.metrics = Storage!Metrics(disk[q].rows, g.offset \div 2)
               /\ disk[q].at = g.at => disk[q].written = g.guard
    <3>1. n # 0 /\ g.guard = f.written
      BY <1>5, <1>9, <2>4
    <3>2. q # p => disk[p].inode # disk[q].inode /\ disk[p].written # disk[q].written
      BY <1>1, <1>2, <1>3 DEF Storage!FilesDiffer
    <3>3. disk[q].written = g.guard => q = p
      BY <1>2, <3>1, <3>2
    <3>4. g.offset <= 2 * Len(f.rows)
      BY <1>4, <1>5, <1>9
    <3>5. disk[q].at = g.at => disk[q].inode = r.stat.inode
      BY <1>3, <1>9 DEF Storage!StatHolds
    <3>6. disk[q].at = g.at => q = p
      BY <1>2, <1>3, <3>2, <3>5
    <3> QED
      BY <1>2, <1>9, <2>2, <3>1, <3>3, <3>4, <3>6
  <2> QED
    BY <2>1, <2>2, <2>3, <2>4 DEF Storage!FindingsHold
<1> QED
  BY <1>2, <1>8, <1>11, <1>12

LEMMA ScanKeeps ==
  ASSUME Storage!StorageInv, NEW p \in FilePaths, Storage!Scan(p)
  PROVE  Storage!StorageInv'
<1>1. Storage!TypeOK /\ Storage!FilesDiffer /\ Storage!TreeIsSelected
  BY DEF Storage!StorageInv
<1>2. /\ phase["analysis"] = "scan" /\ p \in DOMAIN requests
      /\ UNCHANGED <<disk, diskWrites, files, findings, cancelled>>
  BY DEF Storage!Scan
<1>3. ASSUME NEW state, Storage!Ends(state)
      PROVE  Storage!StorageInv'
  <2>1. findings' \in [FilePaths -> {None} \cup Storage!Findings]
    BY <1>1, <1>2 DEF Storage!TypeOK
  <2>2. \A q \in FilePaths : \A x : x = findings'[q] /\ x # None => Storage!FindingsHold(q, x)
    BY <1>2, RecordsOf
  <2> QED
    BY <1>2, <1>3, <2>1, <2>2, EndsKeeps
<1>4. ASSUME NEW g \in Storage!Findings, Storage!FindingsHold(p, g),
             scanned' = [q \in DOMAIN scanned \cup {p} |-> IF q = p THEN g ELSE scanned[q]],
             UNCHANGED <<phase, requests, inventory, selected>>
      PROVE  Storage!StorageInv'
  <2>1. /\ DOMAIN scanned' = DOMAIN scanned \cup {p}
        /\ scanned'[p] = g /\ \A q \in DOMAIN scanned : q # p => scanned'[q] = scanned[q]
    BY <1>4
  <2>2. \A q \in DOMAIN scanned' :
          /\ q \in FilePaths /\ scanned'[q] \in Storage!Findings
          /\ Storage!FindingsHold(q, scanned'[q])
    BY <1>4, <2>1, RecordsOfAnalysis
  <2>3. Storage!TypeOK'
    BY <1>1, <1>2, <1>4, <2>2 DEF Storage!TypeOK
  <2>4. Storage!TreeIsSelected'
    BY <1>1, <1>2, <1>4, <2>1 DEF Storage!TreeIsSelected
  <2>5. Storage!KeptRecordsHold'
    BY <1>2, RecordsOf, KeptRecords
  <2>6. Storage!AnalysisHolds'
    BY <1>2, <1>4, <2>2, <2>3, <2>4, RecordsOfAnalysis, AnalysisRecords
  <2>7. Storage!FilesDiffer'
    BY <1>1, <1>2, FilesStillDiffer
  <2> QED
    BY <2>3, <2>4, <2>5, <2>6, <2>7 DEF Storage!StorageInv
<1> DEFINE keep(g) ==
             /\ scanned' = [q \in DOMAIN scanned \cup {p} |-> IF q = p THEN g ELSE scanned[q]]
             /\ UNCHANGED <<phase, requests, inventory, selected>>
<1>5. CASE cancelled
  <2>1. Storage!Ends("cancelled")
    BY <1>5 DEF Storage!Scan
  <2> QED
    BY <1>3, <2>1
<1>6. CASE ~cancelled /\ Storage!Unchanged(requests[p])
  <2>1. PICK g : g = requests[p].existing
    OBVIOUS
  <2>2. keep(g)
    BY <1>6, <2>1 DEF Storage!Scan
  <2>3. g # None
    BY <1>6, <2>1 DEF Storage!Unchanged
  <2> QED
    BY <1>2, <1>4, <2>1, <2>2, <2>3, RecordsOfAnalysis
<1>7. CASE /\ ~cancelled /\ ~Storage!Unchanged(requests[p])
           /\ Storage!Scannable(p, requests[p])
  <2>1. PICK g : g = Storage!Found(p, requests[p])
    OBVIOUS
  <2>2. keep(g)
    BY <1>7, <2>1 DEF Storage!Scan
  <2>3. g \in Storage!Findings /\ Storage!FindingsHold(p, g)
    BY <1>2, <1>7, <2>1, FoundHolds
  <2> QED
    BY <1>4, <2>2, <2>3
<1>8. CASE /\ ~cancelled /\ ~Storage!Unchanged(requests[p])
           /\ ~Storage!Scannable(p, requests[p])
  <2>1. Storage!Ends("failed")
    BY <1>8 DEF Storage!Scan
  <2> QED
    BY <1>3, <2>1
<1> QED
  BY <1>5, <1>6, <1>7, <1>8

(* What a completed analysis keeps is what it scanned.                     *)
LEMMA PublishKeeps ==
  ASSUME Storage!StorageInv, Storage!Publish
  PROVE  Storage!StorageInv'
<1>1. Storage!TypeOK
  BY DEF Storage!StorageInv
<1>2. PICK state : Storage!Ends(state)
  BY DEF Storage!Publish
<1>3. /\ UNCHANGED <<disk, diskWrites, files, cancelled>>
      /\ \/ findings' = findings
         \/ findings' = [p \in FilePaths |->
                           IF p \in DOMAIN scanned THEN scanned[p] ELSE findings[p]]
  BY DEF Storage!Publish
<1>4. \A p \in FilePaths : \/ findings'[p] = findings[p]
                           \/ p \in DOMAIN scanned /\ findings'[p] = scanned[p]
  BY <1>3
<1>5. \A p \in FilePaths : /\ findings'[p] \in {None} \cup Storage!Findings
                           /\ findings'[p] # None => Storage!FindingsHold(p, findings'[p])
  <2>1. \A p \in FilePaths : findings[p] \in {None} \cup Storage!Findings
    BY <1>1 DEF Storage!TypeOK
  <2> QED
    BY <1>4, <2>1, RecordsOf, RecordsOfAnalysis
<1>6. findings' \in [FilePaths -> {None} \cup Storage!Findings]
  <2>1. CASE findings' = findings
    BY <1>1, <2>1 DEF Storage!TypeOK
  <2>2. CASE findings' = [p \in FilePaths |->
                            IF p \in DOMAIN scanned THEN scanned[p] ELSE findings[p]]
    BY <1>5, <2>2
  <2> QED
    BY <1>3, <2>1, <2>2
<1> QED
  BY <1>2, <1>3, <1>5, <1>6, EndsKeeps

LEMMA StorageStands ==
  ASSUME Storage!StorageInv, cancelled' \in BOOLEAN,
         UNCHANGED <<disk, diskWrites, files, findings, inventory, phase, selected, requests,
                     scanned>>
  PROVE  Storage!StorageInv'
<1>1. Storage!TypeOK /\ Storage!FilesDiffer /\ Storage!TreeIsSelected
  BY DEF Storage!StorageInv
<1>2. Storage!TypeOK'
  BY <1>1 DEF Storage!TypeOK
<1>3. Storage!TreeIsSelected'
  BY <1>1 DEF Storage!TreeIsSelected
<1>4. Storage!KeptRecordsHold'
  BY RecordsOf, KeptRecords
<1>5. Storage!AnalysisHolds'
  BY <1>2, <1>3, RecordsOfAnalysis, AnalysisRecords
<1>6. Storage!FilesDiffer'
  BY <1>1, FilesStillDiffer
<1> QED
  BY <1>2, <1>3, <1>4, <1>5, <1>6 DEF Storage!StorageInv

LEMMA StorageInvStep ==
  ASSUME Storage!StorageInv, [Storage!Next]_(Storage!vars)
  PROVE  Storage!StorageInv'
<1>1. CASE \E p \in FilePaths, k \in RowKinds, t \in BOOLEAN : Storage!AppendRow(p, k, t)
  BY <1>1, DirectoriesKeep
<1>2. CASE \E p \in FilePaths, k \in RowKinds : Storage!Replace(p, <<k>>)
  <2>1. TRUE \in BOOLEAN
    OBVIOUS
  <2> QED
    BY <1>2, <2>1, DirectoriesKeep
<1>3. CASE \E p \in FilePaths, k \in RowKinds : Storage!Rewrite(p, <<k>>)
  <2>1. TRUE \in BOOLEAN
    OBVIOUS
  <2> QED
    BY <1>3, <2>1, DirectoriesKeep
<1>4. CASE \E p \in FilePaths : Storage!Delete(p)
  BY <1>4, WrittenKeeps DEF Storage!Delete
<1>5. CASE \E p, q \in FilePaths : Storage!Move(p, q)
  BY <1>5, MoveKeepsFindings
<1>6. CASE \E u \in Storage!Users : Storage!List(u) \/ Storage!RefreshRows(u)
  BY <1>6, ListKeeps, RefreshRowsKeeps
<1>7. CASE Storage!Plan
  BY <1>7, PlanKeeps
<1>8. CASE \E p \in FilePaths : Storage!Scan(p)
  BY <1>8, ScanKeeps
<1>9. CASE Storage!Publish
  BY <1>9, PublishKeeps
<1>10. CASE Storage!Cancel
  BY <1>10, StorageStands DEF Storage!Cancel
<1>11. CASE UNCHANGED Storage!vars
  <2>1. cancelled' \in BOOLEAN
    BY <1>11 DEF Storage!vars, Storage!StorageInv, Storage!TypeOK
  <2> QED
    BY <1>11, <2>1, StorageStands DEF Storage!vars
<1> QED
  BY <1>1, <1>2, <1>3, <1>4, <1>5, <1>6, <1>7, <1>8, <1>9, <1>10, <1>11 DEF Storage!Next

LEMMA StorageInvInit ==
  ASSUME Analysed
  PROVE  Storage!StorageInv
<1> DEFINE first == [offset |-> 2, inode |-> 0, at |-> 0, guard |-> 0,
                     metrics |-> Storage!Metrics(Compacted.rows, 1)]
           row == [known |-> TRUE, missing |-> FALSE, size |-> 2, at |-> 0]
<1>1. /\ disk = [p \in FilePaths |-> IF p = AnalysedAt THEN Compacted ELSE None]
      /\ diskWrites = 0
      /\ files = [p \in FilePaths |-> IF p = AnalysedAt THEN row ELSE Storage!NoRow]
      /\ findings = [p \in FilePaths |-> IF p = AnalysedAt THEN first ELSE None]
      /\ inventory = [u \in Storage!Users |-> <<>>] /\ phase = [u \in Storage!Users |-> "idle"]
      /\ selected = {} /\ requests = <<>> /\ scanned = <<>> /\ cancelled = FALSE
  BY DEF Analysed
<1>2. /\ Compacted.rows = <<"compacted">> /\ Compacted.at = 0 /\ Compacted.inode = 0
      /\ Compacted.written = 0 /\ Compacted.torn = FALSE /\ Len(Compacted.rows) = 1
      /\ Compacted.rows \in Seq(RowKinds \cup {"compacted"})
      /\ Compacted \in Storage!Files
  BY DEF Compacted, Storage!Files
<1>3. Storage!Metrics(Compacted.rows, 1) \in [compacted : Nat, unclassified : Nat]
  <2>1. 1 \in Nat /\ 1 <= Len(Compacted.rows)
    BY <1>2
  <2> QED
    BY <1>2, <2>1, MetricsType
<1>4. first \in Storage!Findings /\ row \in Storage!Rows
  BY <1>3 DEF Storage!Findings, Storage!Rows
<1>5. PICK f, r : f = first /\ r = row
  OBVIOUS
<1>6. /\ f.offset = 2 /\ f.at = 0 /\ f.guard = 0
      /\ f.metrics = Storage!Metrics(Compacted.rows, 1) /\ r.size = 2 /\ r.at = 0
  BY <1>5
<1> HIDE DEF first, row
<1>7. Storage!TypeOK
  <2>1. disk \in [FilePaths -> {None} \cup Storage!Files]
    BY <1>1, <1>2
  <2>2. files \in [FilePaths -> {Storage!NoRow} \cup Storage!Rows]
    BY <1>1, <1>4
  <2>3. findings \in [FilePaths -> {None} \cup Storage!Findings]
    BY <1>1, <1>4
  <2>4. phase \in [Storage!Users -> {"idle", "listed", "refreshed", "scan"}]
    BY <1>1
  <2>5. \A u \in Storage!Users : DOMAIN inventory[u] = {}
    BY <1>1
  <2>6. DOMAIN requests = {} /\ DOMAIN scanned = {}
    BY <1>1
  <2> QED
    BY <1>1, <2>1, <2>2, <2>3, <2>4, <2>5, <2>6 DEF Storage!TypeOK
<1>8. \A p : \A q \in Storage!Kin(p) : q = AnalysedAt /\ disk[q] = Compacted
  BY <1>1 DEF Storage!Kin
<1>9. Storage!FilesDiffer
  <2>1. \A p \in FilePaths : disk[p] # None => p = AnalysedAt /\ disk[p] = Compacted
    BY <1>1
  <2>2. ASSUME NEW p \in FilePaths, disk[p] # None
        PROVE  /\ disk[p].at <= diskWrites /\ disk[p].inode <= diskWrites
               /\ disk[p].written <= diskWrites
    <3>1. disk[p] = Compacted /\ diskWrites = 0
      BY <1>1, <2>1, <2>2
    <3> QED
      BY <1>2, <3>1
  <2>3. ASSUME NEW p \in FilePaths, disk[p] # None, NEW q \in Storage!Kin(p)
        PROVE  q = p
    BY <1>8, <2>1, <2>3
  <2> QED
    BY <2>2, <2>3 DEF Storage!FilesDiffer
<1>10. Storage!KeptRecordsHold
  <2>1. Storage!Size(Compacted) = 2
    BY <1>2 DEF Storage!Size
  <2>2. ASSUME NEW p \in FilePaths
        PROVE  Storage!SizeHolds(p, r)
    <3>1. \A q \in Storage!Kin(p) : Storage!Size(disk[q]) = r.size
      BY <1>6, <1>8, <2>1
    <3>2. r.at <= diskWrites
      BY <1>1, <1>6
    <3> QED
      BY <3>1, <3>2 DEF Storage!SizeHolds
  <2>3. ASSUME NEW p \in FilePaths
        PROVE  Storage!FindingsHold(p, f)
    <3>1. f.at <= diskWrites /\ f.guard <= diskWrites /\ f.offset # 0
          /\ f.offset = 2 * (f.offset \div 2) /\ f.offset \div 2 = 1
      BY <1>1, <1>6
    <3>2. \A q \in Storage!Kin(p) :
            /\ disk[q].written = f.guard
            /\ f.offset <= 2 * Len(disk[q].rows)
            /\ f.metrics = Storage!Metrics(disk[q].rows, 1)
      <4> TAKE q \in Storage!Kin(p)
      <4>1. disk[q] = Compacted
        BY <1>8
      <4>2. f.offset <= 2 * Len(Compacted.rows)
        BY <1>2, <1>6
      <4>3. Compacted.written = f.guard
        BY <1>2, <1>6
      <4> QED
        BY <1>6, <4>1, <4>2, <4>3
    <3> QED
      BY <3>1, <3>2 DEF Storage!FindingsHold
  <2>4. ~Storage!NoRow.known
    BY DEF Storage!NoRow
  <2>5. \A p \in FilePaths : files[p] \in {r, Storage!NoRow} /\ findings[p] \in {f, None}
    BY <1>1, <1>5
  <2> QED
    BY <2>2, <2>3, <2>4, <2>5 DEF Storage!KeptRecordsHold
<1>11. Storage!AnalysisHolds
  <2>1. \A u \in Storage!Users : DOMAIN inventory[u] = {}
    BY <1>1
  <2>2. DOMAIN requests = {} /\ DOMAIN scanned = {}
    BY <1>1
  <2> QED
    BY <2>1, <2>2 DEF Storage!AnalysisHolds
<1>12. Storage!TreeIsSelected
  <2>1. phase["analysis"] = "idle" /\ DOMAIN scanned = {}
    BY <1>1 DEF Storage!Users
  <2> QED
    BY <2>1 DEF Storage!TreeIsSelected
<1> QED
  BY <1>7, <1>9, <1>10, <1>11, <1>12 DEF Storage!StorageInv

(* A file shown as wholly analysed is one whose time and size the findings *)
(* have: they counted this writing, to its end.                            *)
LEMMA CompleteHolds ==
  ASSUME Storage!StorageInv
  PROVE  Storage!CompleteIsExact
<1> SUFFICES ASSUME NEW p \in Storage!Present(files), disk[p] # None, disk[p].at = files[p].at,
                    Storage!Covers(findings[p], files[p].size, files[p].at)
             PROVE  findings[p].metrics = Storage!Metrics(disk[p].rows, Len(disk[p].rows))
  BY DEF Storage!CompleteIsExact
<1>1. p \in FilePaths /\ files[p].known
  BY DEF Storage!Present
<1>2. PICK f, row, x : f = findings[p] /\ row = files[p] /\ x = disk[p]
  OBVIOUS
<1>3. f # None /\ f.offset = row.size /\ f.at = row.at /\ x.at = row.at
  BY <1>2 DEF Storage!Covers
<1>4. Storage!SizeHolds(p, row) /\ Storage!FindingsHold(p, f)
  BY <1>1, <1>2, <1>3, RecordsOf
<1>5. p \in Storage!Kin(p)
  BY <1>1 DEF Storage!Kin
<1>6. f \in Storage!Findings /\ x \in Storage!Files
  BY <1>1, <1>2, <1>3 DEF Storage!StorageInv, Storage!TypeOK
<1>7. Storage!Size(x) = f.offset
  BY <1>2, <1>3, <1>4, <1>5 DEF Storage!SizeHolds
<1>8. /\ Len(x.rows) \in Nat /\ 2 * Len(x.rows) <= Storage!Size(x)
      /\ Storage!Size(x) <= 2 * Len(x.rows) + 1 /\ f.offset \in Nat
      /\ x.rows \in Seq(RowKinds \cup {"compacted"})
  BY <1>6, SizeType DEF Storage!Findings, Storage!Files
<1>9. f.offset = 2 * (f.offset \div 2)
  BY <1>4 DEF Storage!FindingsHold
<1>10. f.offset \div 2 = Len(x.rows)
  BY <1>7, <1>8, <1>9
<1>11. CASE f.offset = 0
  <2>1. Len(x.rows) = 0 /\ f.metrics = Storage!Metrics(<<>>, 0)
    BY <1>4, <1>10, <1>11 DEF Storage!FindingsHold
  <2> QED
    BY <1>2, <1>8, <2>1, MetricsOfNothing
<1>12. CASE f.offset # 0
  <2>1. disk[p].written = f.guard
    BY <1>2, <1>3, <1>4, <1>5, <1>12 DEF Storage!FindingsHold
  <2>2. f.metrics = Storage!Metrics(disk[p].rows, f.offset \div 2)
    BY <1>4, <1>5, <1>12, <2>1 DEF Storage!FindingsHold
  <2> QED
    BY <1>2, <1>10, <2>2
<1> QED
  BY <1>11, <1>12

LEMMA AllOrNothingStep ==
  ASSUME Storage!StorageInv, [Storage!Next]_(Storage!vars)
  PROVE  Storage!StoresAllOrNothing
<1>1. CASE Storage!Publish /\ ~cancelled
  <2>1. /\ phase["analysis"] = "scan" /\ DOMAIN requests = DOMAIN scanned
        /\ findings' = [p \in FilePaths |->
                          IF p \in DOMAIN scanned THEN scanned[p] ELSE findings[p]]
        /\ verdict' = "completed"
    BY <1>1 DEF Storage!Publish, Storage!Ends
  <2>2. DOMAIN requests = selected /\ selected \subseteq FilePaths
    BY <2>1 DEF Storage!StorageInv, Storage!TreeIsSelected, Storage!TypeOK
  <2>3. selected = DOMAIN scanned /\ \A p \in selected : findings'[p] = scanned[p]
    BY <2>1, <2>2
  <2> QED
    BY <2>1, <2>3 DEF Storage!StoresAllOrNothing
<1>2. CASE findings' = findings /\ (verdict' = verdict \/ verdict' # "completed")
  BY <1>2 DEF Storage!StoresAllOrNothing
<1>3. CASE findings' = findings /\ verdict' = verdict
  BY <1>2, <1>3
<1>4. CASE verdict' = verdict
  BY <1>4 DEF Storage!StoresAllOrNothing
<1>5. CASE Storage!Publish /\ cancelled
  <2>1. findings' = findings /\ verdict' = "cancelled"
    BY <1>5 DEF Storage!Publish, Storage!Ends
  <2> QED
    BY <1>2, <2>1
<1>6. CASE Storage!Plan
  <2>1. findings' = findings /\ verdict' \in {verdict, "failed"}
    BY <1>6 DEF Storage!Plan, Storage!Ends
  <2> QED
    BY <1>2, <2>1
<1>7. CASE \E p \in FilePaths : Storage!Scan(p)
  <2> PICK p \in FilePaths : Storage!Scan(p)
    BY <1>7
  <2>1. findings' = findings
    BY DEF Storage!Scan
  <2>2. verdict' \in {verdict, "failed", "cancelled"}
    <3>1. CASE cancelled
      BY <3>1 DEF Storage!Scan, Storage!Ends
    <3>2. CASE ~cancelled /\ Storage!Unchanged(requests[p])
      BY <3>2 DEF Storage!Scan
    <3>3. CASE ~cancelled /\ ~Storage!Unchanged(requests[p]) /\ Storage!Scannable(p, requests[p])
      BY <3>3 DEF Storage!Scan
    <3>4. CASE ~cancelled /\ ~Storage!Unchanged(requests[p]) /\ ~Storage!Scannable(p, requests[p])
      BY <3>4 DEF Storage!Scan, Storage!Ends
    <3> QED
      BY <3>1, <3>2, <3>3, <3>4
  <2> QED
    BY <1>2, <2>1, <2>2
<1>8. CASE \E u \in Storage!Users : Storage!List(u)
  <2>1. findings' = findings /\ verdict' \in {verdict, "running"}
    BY <1>8 DEF Storage!List
  <2> QED
    BY <1>2, <2>1
<1>9. CASE \E u \in Storage!Users : Storage!RefreshRows(u)
  BY <1>4, <1>9 DEF Storage!RefreshRows
<1>10. CASE \/ \E p \in FilePaths, k \in RowKinds, t \in BOOLEAN : Storage!AppendRow(p, k, t)
            \/ \E p \in FilePaths, k \in RowKinds : Storage!Replace(p, <<k>>)
            \/ \E p \in FilePaths, k \in RowKinds : Storage!Rewrite(p, <<k>>)
            \/ \E p \in FilePaths : Storage!Delete(p)
  BY <1>4, <1>10 DEF Storage!AppendRow, Storage!Replace, Storage!Rewrite, Storage!Delete,
                     Storage!Written
<1>11. CASE \E p, q \in FilePaths : Storage!Move(p, q)
  BY <1>4, <1>11 DEF Storage!Move
<1>12. CASE Storage!Cancel \/ UNCHANGED Storage!vars
  BY <1>4, <1>12 DEF Storage!Cancel, Storage!vars
<1> QED
  BY <1>1, <1>5, <1>6, <1>7, <1>8, <1>9, <1>10, <1>11, <1>12 DEF Storage!Next

-----------------------------------------------------------------------------
(***************************************************************************)
(* The import of the caches that older clients left (LegacyMigration).     *)
(***************************************************************************)

(* Tasks and caches are numbered. *)
LEMMA MigrationConstants ==
  /\ DOMAIN TaskKeys = 1 .. Len(TaskKeys) /\ Len(TaskKeys) \in Nat
  /\ DOMAIN CachePaths = 1 .. Len(CachePaths) /\ Len(CachePaths) \in Nat
  /\ \A i \in DOMAIN TaskKeys : TaskKeys[i] \in Migration!Tasks
  /\ \A i \in DOMAIN CachePaths : CachePaths[i] \in Migration!Legacy
  /\ \A k \in Migration!Tasks : \E i \in DOMAIN TaskKeys : k = TaskKeys[i]
  /\ \A c \in Migration!Legacy : \E i \in DOMAIN CachePaths : c = CachePaths[i]
BY MigrationAssumption DEF Migration!Tasks, Migration!Legacy, Migration!Range

(* A history is as long as itself. *)
LEMMA EqualHistories ==
  ASSUME NEW h \in KnownHistories
  PROVE  Migration!Relation(h, h) = "identical"
<1>1. h.offset \in Nat
  BY MigrationAssumption
<1>2. ~(h.offset < h.offset) /\ ~(h.offset > h.offset)
  BY <1>1
<1> QED
  BY <1>2 DEF Migration!Relation

(* A run that has not begun. *)
LEMMA NoRunTyped == Migration!NoRun \in Migration!Runs /\ Migration!Empty \in Migration!Contents
<1>1. Migration!Empty \in Migration!Contents
  BY DEF Migration!Contents, Migration!Empty
<1>2. [rows |-> Migration!Empty, bytes |-> 0] \in Migration!Files
  BY <1>1 DEF Migration!Files
<1>3. 1 \in 1 .. Len(CachePaths) + 1 /\ 1 \in 1 .. Len(TaskKeys) + 1
  BY MigrationConstants
<1>4. [k \in Migration!Tasks |-> None]
        \in [Migration!Tasks -> Migration!Legacy \cup {"ledger", None}]
  OBVIOUS
<1> QED
  BY <1>1, <1>2, <1>3, <1>4, Zenon DEF Migration!NoRun, Migration!Runs

(* Nothing is merged, nothing was written. *)
LEMMA MigrationInvInit == Migration!Init => Migration!MigrationInv
<1> SUFFICES ASSUME Migration!Init PROVE Migration!MigrationInv
  OBVIOUS
<1>1. Migration!TypeOK
  <2>1. cache \in [Migration!Legacy -> Migration!Files]
    <3>1. [rows : Migration!Contents, bytes : {0}] \subseteq Migration!Files
      BY DEF Migration!Files
    <3> QED
      BY <3>1 DEF Migration!Init
  <2>2. 0 \in 0 .. MaxClientWrites
    BY MigrationAssumption
  <2>3. 0 \in 0 .. MaxMigrations
    BY MigrationAssumption
  <2> QED
    BY <2>1, <2>2, <2>3, NoRunTyped DEF Migration!Init, Migration!TypeOK
<1>2. Migration!BytesAreOfTheirWrite
  <2>1. \A c \in Migration!Legacy : cache[c].bytes = 0 /\ run.digest[c].bytes = 0
    BY DEF Migration!Init, Migration!NoRun
  <2> QED
    BY <2>1 DEF Migration!BytesAreOfTheirWrite, Migration!Init
<1>3. Migration!MergedSoFar
  BY DEF Migration!Init, Migration!NoRun, Migration!MergedSoFar
<1> QED
  BY <1>1, <1>2, <1>3 DEF Migration!MigrationInv

(* A run that stops rolls back. *)
LEMMA StoppedRunHolds ==
  ASSUME Migration!TypeOK, Migration!BytesAreOfTheirWrite,
         run' = Migration!NoRun,
         UNCHANGED <<cache, imported, transitions, completed, writes, runs>>
  PROVE  Migration!MigrationInv'
<1>1. Migration!TypeOK'
  BY NoRunTyped DEF Migration!TypeOK
<1>2. \A c \in Migration!Legacy : run'.digest[c].bytes = 0
  BY DEF Migration!NoRun
<1>3. Migration!BytesAreOfTheirWrite'
  BY <1>2 DEF Migration!BytesAreOfTheirWrite, Migration!TypeOK
<1>4. run'.at = "idle"
  BY DEF Migration!NoRun
<1>5. Migration!MergedSoFar'
  BY <1>4 DEF Migration!MergedSoFar
<1> QED
  BY <1>1, <1>3, <1>5 DEF Migration!MigrationInv

(* An older client touches one cache, and gives it other bytes. *)
LEMMA ForeignWriteHolds ==
  ASSUME Migration!MigrationInv, NEW d \in Migration!Legacy, NEW f \in Migration!Files,
         writes < MaxClientWrites, writes' = writes + 1, f.bytes = writes + 1,
         cache' = [cache EXCEPT ![d] = f],
         UNCHANGED <<imported, transitions, completed, run, runs>>
  PROVE  Migration!MigrationInv'
<1> USE DEF Migration!MigrationInv
<1>0. writes \in Nat /\ MaxClientWrites \in Nat
  BY MigrationAssumption DEF Migration!TypeOK
<1>1. Migration!TypeOK'
  BY <1>0 DEF Migration!TypeOK
<1>2. /\ cache \in [Migration!Legacy -> Migration!Files]
      /\ run.digest \in [Migration!Legacy -> Migration!Files]
  BY DEF Migration!TypeOK, Migration!Runs
<1>3. \A c \in Migration!Legacy : cache[c].bytes \in Nat /\ run.digest[c].bytes \in Nat
  BY <1>2 DEF Migration!Files
<1>4. Migration!BytesAreOfTheirWrite'
  BY <1>0, <1>2, <1>3 DEF Migration!BytesAreOfTheirWrite
<1>5. \A c \in Migration!Legacy : cache'[c] = run.digest[c] => cache[c] = run.digest[c]
  <2> TAKE c \in Migration!Legacy
  <2>1. CASE c = d
    <3>1. cache'[c].bytes = writes + 1
      BY <1>2, <2>1
    <3>2. run.digest[c].bytes <= writes
      BY DEF Migration!BytesAreOfTheirWrite
    <3> QED
      BY <1>0, <1>3, <3>1, <3>2
  <2>2. CASE c # d
    BY <1>2, <2>2
  <2> QED
    BY <2>1, <2>2
<1>6. run.candidate \in DOMAIN CachePaths => Migration!Candidate \in Migration!Legacy
  BY MigrationConstants DEF Migration!Candidate
<1>7. Migration!Candidate' = Migration!Candidate
  BY DEF Migration!Candidate
<1>8. ASSUME run.candidate \in DOMAIN CachePaths, NEW k, Migration!HasWhatItRead(k)
      PROVE  Migration!HasWhatItRead(k)'
  BY <1>5, <1>6, <1>7, <1>8 DEF Migration!HasWhatItRead
<1>9. ASSUME NEW k, Migration!GoesOn(k)
      PROVE  Migration!GoesOn(k)'
  BY <1>7, <1>9 DEF Migration!GoesOn
<1>10. Migration!MergedSoFar'
  BY <1>8, <1>9 DEF Migration!MergedSoFar
<1> QED
  BY <1>1, <1>4, <1>10

(* Nothing the invariant speaks of but the ledger or the run changes. *)
LEMMA CaptureHolds ==
  ASSUME Migration!MigrationInv, NEW k \in Migration!Tasks, Migration!Capture(k)
  PROVE  Migration!MigrationInv'
<1> USE DEF Migration!MigrationInv
<1>1. Migration!TypeOK'
  <2>1. writes' \in 0 .. MaxClientWrites
    BY MigrationAssumption DEF Migration!Capture, Migration!TypeOK
  <2>2. imported' \in Migration!Contents
    BY DEF Migration!Capture, Migration!TypeOK, Migration!Contents
  <2>3. transitions' \subseteq Migration!Tasks \X (Migration!Legacy \cup {"ledger"})
    BY DEF Migration!Capture, Migration!TypeOK
  <2> QED
    BY <2>1, <2>2, <2>3 DEF Migration!Capture, Migration!TypeOK
<1>2. \A c \in Migration!Legacy : cache[c].bytes \in Nat /\ run.digest[c].bytes \in Nat
  BY DEF Migration!TypeOK, Migration!Runs, Migration!Files
<1>3. Migration!BytesAreOfTheirWrite'
  BY <1>2, MigrationAssumption
     DEF Migration!Capture, Migration!TypeOK, Migration!BytesAreOfTheirWrite
<1>4. Migration!MergedSoFar'
  BY DEF Migration!Capture, Migration!MergedSoFar
<1> QED
  BY <1>1, <1>3, <1>4

(* The plan that is shown, the request, the start of the job. *)
LEMMA PlanHolds ==
  ASSUME Migration!MigrationInv,
         Migration!Ask \/ Migration!Discover \/ Migration!Begin
  PROVE  Migration!MigrationInv'
<1> USE DEF Migration!MigrationInv
<1>0. UNCHANGED <<cache, imported, transitions, completed, writes>>
  BY DEF Migration!Ask, Migration!Discover, Migration!Begin, Migration!Stops
<1>1. CASE run' = Migration!NoRun /\ UNCHANGED runs
  BY <1>0, <1>1, StoppedRunHolds
<1>2. CASE Migration!Ask
  <2>1. PICK answer \in [Migration!Tasks -> Migration!Legacy \cup {"ledger", None}] :
          run' = [Migration!NoRun EXCEPT !.at = "asked", !.precedence = answer]
    BY <1>2 DEF Migration!Ask
  <2>2. run' \in Migration!Runs /\ run'.at = "asked" /\ run'.digest = Migration!NoRun.digest
    BY <2>1, NoRunTyped DEF Migration!Runs
  <2>3. \A c \in Migration!Legacy : run'.digest[c].bytes = 0
    BY <2>2 DEF Migration!NoRun
  <2>4. runs' \in 0 .. MaxMigrations
    <3>1. runs < MaxMigrations /\ runs' = runs + 1 /\ runs \in 0 .. MaxMigrations
      BY <1>2 DEF Migration!Ask, Migration!TypeOK
    <3> QED
      BY <3>1, MigrationAssumption
  <2>5. Migration!TypeOK'
    BY <1>0, <2>2, <2>4 DEF Migration!TypeOK
  <2>6. Migration!BytesAreOfTheirWrite'
    BY <1>0, <2>3 DEF Migration!BytesAreOfTheirWrite, Migration!TypeOK
  <2> QED
    BY <2>2, <2>5, <2>6 DEF Migration!MergedSoFar
<1>3. CASE Migration!Discover
  <2>1. run' \in Migration!Runs /\ run'.at = "queued" /\ run'.digest = cache
    BY <1>3 DEF Migration!Discover, Migration!TypeOK, Migration!Runs
  <2>2. Migration!TypeOK'
    BY <1>0, <1>3, <2>1 DEF Migration!TypeOK, Migration!Discover
  <2>3. Migration!BytesAreOfTheirWrite'
    BY <1>0, <2>1 DEF Migration!BytesAreOfTheirWrite
  <2> QED
    BY <2>1, <2>2, <2>3 DEF Migration!MergedSoFar
<1>4. CASE Migration!Begin /\ run' # Migration!NoRun
  <2>1. /\ run' = [run EXCEPT !.at = "candidate", !.rows = imported,
                              !.moves = {m \in transitions : Migration!Follows("ledger", m[1])}]
        /\ UNCHANGED runs
    BY <1>4 DEF Migration!Begin, Migration!Stops
  <2>2. {m \in transitions : Migration!Follows("ledger", m[1])} \in
          SUBSET (Migration!Tasks \X (Migration!Legacy \cup {"ledger"}))
    BY DEF Migration!TypeOK
  <2>3. run' \in Migration!Runs /\ run'.at = "candidate" /\ run'.rows = imported
        /\ run'.digest = run.digest
    BY <2>1, <2>2 DEF Migration!TypeOK, Migration!Runs
  <2>4. Migration!TypeOK'
    BY <1>0, <2>1, <2>3 DEF Migration!TypeOK
  <2>5. Migration!BytesAreOfTheirWrite'
    BY <1>0, <2>3 DEF Migration!BytesAreOfTheirWrite
  <2> QED
    BY <1>0, <2>3, <2>4, <2>5 DEF Migration!MergedSoFar
<1> QED
  BY <1>1, <1>2, <1>3, <1>4 DEF Migration!Begin, Migration!Stops

(* The next cache: a cache with rows has a task to begin with. *)
LEMMA NextCandidateHolds ==
  ASSUME Migration!MigrationInv, Migration!NextCandidate
  PROVE  Migration!MigrationInv'
<1> USE DEF Migration!MigrationInv
<1>0. UNCHANGED <<cache, imported, transitions, completed, writes, runs>> /\ run.at = "candidate"
      /\ run.rows = imported /\ run \in Migration!Runs
  BY DEF Migration!NextCandidate, Migration!MergedSoFar, Migration!TypeOK
<1>1. CASE run' = Migration!NoRun
  BY <1>0, <1>1, StoppedRunHolds
<1>2. CASE run' = [run EXCEPT !.at = "done"]
  <2>1. run' \in Migration!Runs /\ run'.at = "done" /\ run'.digest = run.digest
    BY <1>0, <1>2 DEF Migration!Runs
  <2> QED
    BY <1>0, <2>1 DEF Migration!TypeOK, Migration!BytesAreOfTheirWrite, Migration!MergedSoFar
<1>3. CASE run' = [run EXCEPT !.candidate = run.candidate + 1] /\ ~(run.candidate > Len(CachePaths))
  <2>0. run.candidate + 1 \in 1 .. Len(CachePaths) + 1
    BY <1>0, <1>3, MigrationConstants DEF Migration!Runs
  <2>1. run' \in Migration!Runs /\ run'.at = "candidate" /\ run'.digest = run.digest
        /\ run'.rows = imported
    BY <1>0, <1>3, <2>0 DEF Migration!Runs
  <2> QED
    BY <1>0, <2>1 DEF Migration!TypeOK, Migration!BytesAreOfTheirWrite, Migration!MergedSoFar
<1>4. CASE /\ run' = [run EXCEPT !.at = "merge", !.key = 1] /\ ~(run.candidate > Len(CachePaths))
           /\ Migration!Exists(Migration!Candidate)
  <2>0. run.candidate \in DOMAIN CachePaths /\ Migration!Candidate \in Migration!Legacy
    BY <1>0, <1>4, MigrationConstants DEF Migration!Runs, Migration!Candidate
  <2>1. 1 \in DOMAIN TaskKeys
    <3>1. run.digest[Migration!Candidate].rows \in [Migration!Tasks -> KnownHistories \cup {None}]
      BY <1>0, <2>0 DEF Migration!Runs, Migration!Files, Migration!Contents
    <3>2. Migration!Tasks # {}
      BY <1>4, <3>1 DEF Migration!Exists, Migration!Empty
    <3> QED
      BY <3>2, MigrationConstants
  <2>2. run' \in Migration!Runs /\ run'.at = "merge" /\ run'.digest = run.digest
        /\ run'.rows = imported /\ run'.key = 1 /\ run'.candidate = run.candidate
    <3>1. 1 \in 1 .. Len(TaskKeys) + 1
      BY MigrationConstants
    <3> QED
      BY <1>0, <1>4, <3>1 DEF Migration!Runs
  <2>3. \A i \in DOMAIN TaskKeys : i >= 1
    BY MigrationConstants
  <2>4. Migration!MergedSoFar'
    BY <1>0, <2>0, <2>1, <2>2, <2>3 DEF Migration!MergedSoFar
  <2> QED
    BY <1>0, <2>2, <2>4 DEF Migration!TypeOK, Migration!BytesAreOfTheirWrite
<1> QED
  BY <1>1, <1>2, <1>3, <1>4 DEF Migration!NextCandidate

(* One task: what is kept or copied goes on from what was there, and has what was read. *)
LEMMA MergeHolds ==
  ASSUME Migration!MigrationInv, Migration!Merge
  PROVE  Migration!MigrationInv'
<1> USE DEF Migration!MigrationInv
<1>0. /\ UNCHANGED <<cache, imported, transitions, completed, writes, runs>> /\ run.at = "merge"
      /\ run.key \in DOMAIN TaskKeys /\ run \in Migration!Runs
      /\ run.candidate \in DOMAIN CachePaths
  BY DEF Migration!Merge, Migration!MergedSoFar, Migration!TypeOK
<1> PICK k \in Migration!Tasks : k = TaskKeys[run.key]
  BY <1>0, MigrationConstants
<1> PICK c \in Migration!Legacy : c = Migration!Candidate
  BY <1>0, MigrationConstants DEF Migration!Candidate
<1> DEFINE incoming == cache[c].rows[k]
           merged == IF incoming = None THEN run.rows[k] ELSE Migration!Merged(k, incoming)
<1>1. CASE run' = Migration!NoRun
  BY <1>0, <1>1, StoppedRunHolds
<1>2. CASE run' # Migration!NoRun
  <2>1. /\ run' = [run EXCEPT !.rows[k] = merged, !.key = run.key + 1,
                              !.at = IF run.key = Len(TaskKeys) THEN "verify" ELSE "merge"]
        /\ ~(incoming # None /\ merged = None /\ run.precedence[k] \in {None, c})
    BY <1>2 DEF Migration!Merge
  <2>3. /\ run.rows \in [Migration!Tasks -> KnownHistories \cup {None}]
        /\ incoming \in KnownHistories \cup {None}
    BY <1>0 DEF Migration!Runs, Migration!Files, Migration!Contents, Migration!TypeOK
  <2>4. merged \in KnownHistories \cup {None}
    BY <2>3 DEF Migration!Merged
  <2>5. run.key \in Nat /\ run.key <= Len(TaskKeys) /\ Len(TaskKeys) \in Nat
    BY <1>0, MigrationConstants
  <2> HIDE DEF merged, incoming
  <2>6. [run.rows EXCEPT ![k] = merged] \in Migration!Contents
    BY <2>3, <2>4 DEF Migration!Contents
  <2>7. run.key + 1 \in 1 .. Len(TaskKeys) + 1
    BY <2>5
  <2>8. /\ run'.at = (IF run.key = Len(TaskKeys) THEN "verify" ELSE "merge")
        /\ run'.digest = run.digest /\ run'.precedence = run.precedence
        /\ run'.key = run.key + 1 /\ run'.candidate = run.candidate
        /\ run'.rows = [run.rows EXCEPT ![k] = merged]
        /\ run' \in Migration!Runs
    BY <1>0, <2>1, <2>6, <2>7 DEF Migration!Runs
  <2>9. Migration!Candidate' = c
    BY <2>8 DEF Migration!Candidate
  <2>10. run.rows[k] = imported[k]
    BY <1>0, <2>5 DEF Migration!MergedSoFar
  <2>11. Migration!GoesOn(k)'
    <3>1. /\ run'.rows[k] = merged /\ imported'[k] = run.rows[k]
          /\ run'.precedence[k] = run.precedence[k]
      BY <1>0, <2>3, <2>8, <2>10
    <3>2. CASE merged = run.rows[k]
      BY <3>1, <3>2 DEF Migration!GoesOn
    <3>3. CASE merged # run.rows[k]
      <4>1. incoming # None /\ merged = Migration!Merged(k, incoming)
            /\ run.precedence[k] \in {None, c}
        BY <3>3 DEF merged, Migration!Merged
      <4>2. merged # None
        BY <2>1, <4>1
      <4>3. \/ run.precedence[k] = c \/ run.rows[k] = None
            \/ Migration!Relation(run.rows[k], merged) = "extends"
        BY <3>3, <4>1, <4>2 DEF Migration!Merged
      <4> QED
        BY <2>9, <3>1, <4>2, <4>3 DEF Migration!GoesOn
    <3> QED
      BY <3>2, <3>3
  <2>12. Migration!HasWhatItRead(k)'
    <3> SUFFICES ASSUME cache[c] = run.digest[c], run.digest[c].rows[k] # None,
                        run.precedence[k] \in {None, c}
                 PROVE  merged # None /\ Migration!Relation(merged, run.digest[c].rows[k])
                                            \in {"identical", "prefix"}
      <4>1. run'.rows[k] = merged
        BY <2>3, <2>8
      <4> QED
        BY <1>0, <2>8, <2>9, <4>1 DEF Migration!HasWhatItRead
    <3>1. incoming # None /\ incoming = run.digest[c].rows[k] /\ incoming \in KnownHistories
      BY <2>3 DEF incoming
    <3>2. merged = Migration!Merged(k, incoming)
      BY <3>1 DEF merged
    <3>3. merged # None
      BY <2>1, <3>1
    <3>4. merged = incoming \/ Migration!Relation(merged, incoming) \in {"identical", "prefix"}
      BY <3>2, <3>3 DEF Migration!Merged
    <3> QED
      BY <3>1, <3>3, <3>4, EqualHistories
  <2>13. ASSUME NEW i \in DOMAIN TaskKeys, i # run.key
         PROVE  /\ TaskKeys[i] # k /\ run'.rows[TaskKeys[i]] = run.rows[TaskKeys[i]]
                /\ Migration!GoesOn(TaskKeys[i]) => Migration!GoesOn(TaskKeys[i])'
                /\ Migration!HasWhatItRead(TaskKeys[i]) => Migration!HasWhatItRead(TaskKeys[i])'
    <3>1. TaskKeys[i] # k
      BY <1>0, <2>13, MigrationAssumption
    <3>2. TaskKeys[i] \in Migration!Tasks
      BY MigrationConstants
    <3>3. run'.rows[TaskKeys[i]] = run.rows[TaskKeys[i]]
      BY <2>3, <2>8, <3>1, <3>2
    <3> QED
      BY <1>0, <2>8, <2>9, <3>1, <3>3 DEF Migration!GoesOn, Migration!HasWhatItRead
  <2>14. ASSUME NEW i \in DOMAIN TaskKeys
         PROVE  IF run'.at = "merge" /\ i >= run'.key
                THEN run'.rows[TaskKeys[i]] = imported'[TaskKeys[i]]
                ELSE Migration!GoesOn(TaskKeys[i])' /\ Migration!HasWhatItRead(TaskKeys[i])'
    <3>0. i \in Nat /\ i <= Len(TaskKeys)
      BY MigrationConstants
    <3>1. CASE i = run.key
      BY <2>5, <2>8, <2>11, <2>12, <3>1
    <3>2. CASE i > run.key
      <4>1. run'.at = "merge" /\ i >= run'.key
        BY <2>5, <2>8, <3>0, <3>2
      <4>2. run.rows[TaskKeys[i]] = imported[TaskKeys[i]]
        BY <1>0, <2>5, <3>0, <3>2 DEF Migration!MergedSoFar
      <4> QED
        BY <1>0, <2>5, <2>13, <3>0, <3>2, <4>1, <4>2
    <3>3. CASE i < run.key
      <4>1. Migration!GoesOn(TaskKeys[i]) /\ Migration!HasWhatItRead(TaskKeys[i])
        BY <1>0, <2>5, <3>0, <3>3 DEF Migration!MergedSoFar
      <4>2. ~(i >= run'.key)
        BY <2>5, <2>8, <3>0, <3>3
      <4> QED
        BY <2>5, <2>13, <3>0, <3>3, <4>1, <4>2
    <3> QED
      BY <2>5, <3>0, <3>1, <3>2, <3>3
  <2>15. run'.at = "merge" => run'.key \in DOMAIN TaskKeys
    BY <2>5, <2>8, MigrationConstants
  <2>16. Migration!MergedSoFar'
    BY <1>0, <2>8, <2>14, <2>15 DEF Migration!MergedSoFar
  <2> QED
    BY <1>0, <2>8, <2>16 DEF Migration!TypeOK, Migration!BytesAreOfTheirWrite
<1> QED
  BY <1>1, <1>2

(* The commit: what was merged is the ledger from now on. *)
LEMMA CommitCandidateHolds ==
  ASSUME Migration!MigrationInv, Migration!CommitCandidate
  PROVE  Migration!MigrationInv'
<1> USE DEF Migration!MigrationInv
<1>0. /\ UNCHANGED <<cache, writes, runs>> /\ run.at = "verify" /\ run \in Migration!Runs
      /\ run.candidate \in DOMAIN CachePaths
  BY DEF Migration!CommitCandidate, Migration!Stops, Migration!MergedSoFar, Migration!TypeOK
<1>1. CASE ~Migration!Unchanged
  BY <1>1, StoppedRunHolds DEF Migration!CommitCandidate, Migration!Stops
<1>2. CASE Migration!Unchanged
  <2> DEFINE moves == run.moves \cup {<<k, Migration!Candidate>> :
                 k \in {x \in Migration!Tasks : cache[Migration!Candidate].rows[x] # None
                                               /\ Migration!Follows(Migration!Candidate, x)}}
  <2>1. /\ imported' = run.rows /\ transitions' = moves
        /\ completed' = completed \cup {<<Migration!Candidate, run.digest[Migration!Candidate]>>}
        /\ run' = [run EXCEPT !.at = "candidate", !.moves = moves, !.candidate = run.candidate + 1]
    BY <1>2 DEF Migration!CommitCandidate
  <2>2. Migration!Candidate \in Migration!Legacy
    BY <1>0, MigrationConstants DEF Migration!Candidate
  <2>3. moves \in SUBSET (Migration!Tasks \X (Migration!Legacy \cup {"ledger"}))
    BY <1>0, <2>2 DEF Migration!Runs
  <2>4. run.candidate + 1 \in 1 .. Len(CachePaths) + 1
    BY <1>0, MigrationConstants
  <2> HIDE DEF moves
  <2>5. /\ run' \in Migration!Runs /\ run'.at = "candidate" /\ run'.rows = run.rows
        /\ run'.digest = run.digest
    BY <1>0, <2>1, <2>3, <2>4 DEF Migration!Runs
  <2>6. run.digest[Migration!Candidate] \in Migration!Files /\ run.rows \in Migration!Contents
    BY <1>0, <2>2 DEF Migration!Runs
  <2>7. Migration!TypeOK'
    BY <1>0, <2>1, <2>2, <2>3, <2>5, <2>6 DEF Migration!TypeOK
  <2>8. Migration!BytesAreOfTheirWrite'
    BY <1>0, <2>5 DEF Migration!BytesAreOfTheirWrite
  <2>9. Migration!MergedSoFar'
    BY <2>1, <2>5 DEF Migration!MergedSoFar
  <2> QED
    BY <2>7, <2>8, <2>9
<1> QED
  BY <1>1, <1>2

(* Every step of a client, a capture or the run. *)
LEMMA MigrationInvStep ==
  Migration!MigrationInv /\ [Migration!Next]_(Migration!vars) => Migration!MigrationInv'
<1> SUFFICES ASSUME Migration!MigrationInv, [Migration!Next]_(Migration!vars)
             PROVE  Migration!MigrationInv'
  OBVIOUS
<1>0. /\ writes \in Nat /\ cache \in [Migration!Legacy -> Migration!Files]
      /\ MaxClientWrites \in Nat
  BY MigrationAssumption DEF Migration!MigrationInv, Migration!TypeOK
<1>1. ASSUME NEW c \in Migration!Legacy, Migration!OldClientRemoved(c)
      PROVE  Migration!MigrationInv'
  <2>1. [rows |-> Migration!Empty, bytes |-> writes + 1] \in Migration!Files
    BY <1>0, NoRunTyped DEF Migration!Files
  <2> QED
    BY <1>1, <2>1, ForeignWriteHolds DEF Migration!OldClientRemoved
<1>2. ASSUME NEW c \in Migration!Legacy, NEW k \in Migration!Tasks, Migration!OldClientWrites(c, k)
      PROVE  Migration!MigrationInv'
  <2>1. PICK h \in KnownHistories :
          cache' = [cache EXCEPT ![c] = [rows |-> [@.rows EXCEPT ![k] = h], bytes |-> writes']]
    BY <1>2 DEF Migration!OldClientWrites
  <2>2. writes' = writes + 1 /\ writes < MaxClientWrites
    BY <1>2 DEF Migration!OldClientWrites
  <2> DEFINE newRows == [cache[c].rows EXCEPT ![k] = h]
             f == [rows |-> newRows, bytes |-> writes + 1]
  <2>3. cache[c] \in Migration!Files
    BY <1>0
  <2>4. newRows \in Migration!Contents
    BY <2>3 DEF Migration!Files, Migration!Contents
  <2>5. f \in Migration!Files /\ f.bytes = writes + 1
    BY <1>0, <2>4 DEF Migration!Files
  <2>6. cache' = [cache EXCEPT ![c] = f]
    BY <2>1, <2>2
  <2> HIDE DEF newRows, f
  <2> QED
    BY <1>2, <2>2, <2>5, <2>6, ForeignWriteHolds DEF Migration!OldClientWrites
<1>3. CASE Migration!End \/ Migration!Crash
  BY <1>3, StoppedRunHolds
     DEF Migration!End, Migration!Crash, Migration!Stops, Migration!MigrationInv
<1>4. CASE UNCHANGED Migration!vars
  BY <1>4 DEF Migration!vars, Migration!MigrationInv, Migration!TypeOK,
     Migration!BytesAreOfTheirWrite, Migration!MergedSoFar, Migration!GoesOn, Migration!HasWhatItRead, Migration!Candidate
<1> QED
  BY <1>1, <1>2, <1>3, <1>4, CaptureHolds, PlanHolds, NextCandidateHolds, MergeHolds,
     CommitCandidateHolds DEF Migration!Next

(* A capture and a commit are the steps that change the ledger. *)
LEMMA HistoryStaysStep ==
  ASSUME Migration!MigrationInv, [Migration!Next]_(Migration!vars)
  PROVE  Migration!KeepsHistory
<1> SUFFICES ASSUME NEW k \in Migration!Tasks, imported[k] # None, imported'[k] # imported[k]
             PROVE  /\ imported'[k] # None
                    /\ \/ Migration!Relation(imported[k], imported'[k]) = "extends"
                       \/ run.precedence[k] \in Migration!Legacy
  BY DEF Migration!KeepsHistory
<1>1. imported \in Migration!Contents /\ run \in Migration!Runs
  BY DEF Migration!MigrationInv, Migration!TypeOK
<1>2. CASE \E j \in Migration!Tasks : Migration!Capture(j)
  <2>1. PICK j \in Migration!Tasks, h \in KnownHistories :
          /\ imported[j] # None => Migration!Relation(imported[j], h) = "extends"
          /\ imported' = [imported EXCEPT ![j] = h]
    BY <1>2 DEF Migration!Capture
  <2>2. j = k /\ imported'[k] = h
    BY <1>1, <2>1 DEF Migration!Contents
  <2> QED
    BY <2>1, <2>2, MigrationAssumption
<1>3. CASE Migration!CommitCandidate
  <2>1. run.at = "verify" /\ imported' = run.rows
    BY <1>3 DEF Migration!CommitCandidate, Migration!Stops
  <2>2. Migration!GoesOn(k) /\ run.candidate \in DOMAIN CachePaths
    BY <2>1, MigrationConstants DEF Migration!MigrationInv, Migration!MergedSoFar
  <2>3. Migration!Candidate \in Migration!Legacy
    BY <2>2, MigrationConstants DEF Migration!Candidate
  <2> QED
    BY <2>1, <2>2, <2>3 DEF Migration!GoesOn
<1>4. CASE imported' = imported
  BY <1>4
<1> QED
  BY <1>2, <1>3, <1>4 DEF Migration!Next, Migration!vars, Migration!OldClientRemoved,
     Migration!OldClientWrites, Migration!Ask, Migration!Discover, Migration!Begin,
     Migration!NextCandidate, Migration!Merge, Migration!End, Migration!Crash, Migration!Stops

(* What is audited is what was merged, of the cache as it still is. *)
LEMMA MigratedStep ==
  ASSUME Migration!MigrationInv, [Migration!Next]_(Migration!vars)
  PROVE  Migration!CompletesWhatItMigrates
<1> SUFFICES ASSUME NEW c \in Migration!Legacy, NEW k \in Migration!Tasks,
                    <<c, run.digest[c]>> \in completed' \ completed,
                    run.digest[c].rows[k] # None, run.precedence[k] \in {None, c}
             PROVE  imported'[k] # None /\ Migration!Relation(imported'[k], run.digest[c].rows[k])
                                              \in {"identical", "prefix"}
  BY DEF Migration!CompletesWhatItMigrates
<1>1. Migration!CommitCandidate
  BY DEF Migration!Next, Migration!vars, Migration!OldClientRemoved, Migration!Capture,
     Migration!OldClientWrites, Migration!Ask, Migration!Discover, Migration!Begin,
     Migration!NextCandidate, Migration!Merge, Migration!End, Migration!Crash, Migration!Stops
<1>2. /\ run.at = "verify" /\ Migration!Unchanged /\ imported' = run.rows
      /\ completed' = completed \cup {<<Migration!Candidate, run.digest[Migration!Candidate]>>}
  BY <1>1 DEF Migration!CommitCandidate, Migration!Stops
<1>3. c = Migration!Candidate
  BY <1>2
<1>4. Migration!HasWhatItRead(k)
  BY <1>2, MigrationConstants DEF Migration!MigrationInv, Migration!MergedSoFar
<1> QED
  BY <1>2, <1>3, <1>4 DEF Migration!HasWhatItRead, Migration!Unchanged

-----------------------------------------------------------------------------
(***************************************************************************)
(* The search for captures of before the history contract                  *)
(* (UpgradeDiscovery).                                                     *)
(***************************************************************************)


(* A set of numbers that is not empty has a least one. *)
LEMMA LeastNumber ==
  ASSUME NEW S, S \subseteq Nat, S # {}
  PROVE  \E t \in S : \A u \in S : t <= u
<1> DEFINE Below == OpToRel(<, Nat)
<1>1. \A m \in Nat : \A n \in Nat : <<m, n>> \in Below <=> m < n
  BY DEF OpToRel
<1>2. IsWellFoundedOn(Below, Nat)
  BY NatLessThanWellFounded
<1> HIDE DEF Below
<1>3. PICK t \in S : \A u \in S : ~(<<u, t>> \in Below)
  BY <1>2, WFMin, Zenon
<1>4. \A u \in S : ~(u < t)
  BY <1>1, <1>3
<1> QED
  BY <1>4

(* Going through a sequence, one step after the other, is a function. *)
LEMMA DecisionsGoOn ==
  ASSUME NEW q \in Seq(Captured)
  PROVE  /\ Discovery!Decisions(q)[0] = Discovery!Budget
         /\ \A i \in 1 .. Len(q) :
              Discovery!Decisions(q)[i] = Discovery!Decide(Discovery!Decisions(q)[i - 1], q[i])
<1> DEFINE Step(f, i) == IF i = 0 THEN Discovery!Budget ELSE Discovery!Decide(f[i - 1], q[i])
           Exists(m) == \E f : f = [i \in 0 .. m |-> Step(f, i)]
           Bad == {m \in Nat : ~Exists(m)}
<1>1. ~(0 \in Bad)
  <2>1. [i \in 0 .. 0 |-> Discovery!Budget]
          = [i \in 0 .. 0 |-> Step([j \in 0 .. 0 |-> Discovery!Budget], i)]
    OBVIOUS
  <2> QED
    BY <2>1
<1>2. ASSUME NEW m \in Nat, m > 0, Exists(m - 1)
      PROVE  Exists(m)
  <2>1. PICK f : f = [i \in 0 .. m - 1 |-> Step(f, i)]
    BY <1>2
  <2> DEFINE last == Discovery!Decide(f[m - 1], q[m])
             g == [i \in 0 .. m |-> IF i = m THEN last ELSE f[i]]
  <2>2. ASSUME NEW i \in 0 .. m
        PROVE  g[i] = Step(g, i)
    <3>1. CASE i = m
      <4>1. g[i] = last /\ g[i - 1] = f[m - 1] /\ i # 0
        BY <1>2, <3>1
      <4> QED
        BY <3>1, <4>1
    <3>2. CASE i # m
      <4>1. i \in 0 .. m - 1 /\ g[i] = f[i]
        BY <1>2, <3>2
      <4>2. f[i] = Step(f, i)
        BY <2>1, <4>1
      <4>3. i # 0 => g[i - 1] = f[i - 1]
        BY <1>2, <4>1
      <4> QED
        BY <4>1, <4>2, <4>3
    <3> QED
      BY <3>1, <3>2
  <2>3. g = [i \in 0 .. m |-> Step(g, i)]
    BY <2>2
  <2> HIDE DEF g
  <2> QED
    BY <2>3
<1> HIDE DEF Exists
<1>3. Bad = {}
  <2> SUFFICES ASSUME Bad # {} PROVE FALSE
    OBVIOUS
  <2>1. Bad \subseteq Nat
    OBVIOUS
  <2>2. PICK m \in Bad : \A u \in Bad : m <= u
    <3> HIDE DEF Bad
    <3> QED
      BY <2>1, LeastNumber
  <2>3. m \in Nat /\ m # 0
    BY <1>1, <2>2
  <2>4. ~(m - 1 \in Bad)
    BY <2>2, <2>3
  <2>5. Exists(m - 1)
    BY <2>3, <2>4
  <2> QED
    BY <1>2, <2>2, <2>3, <2>5
<1>4. Exists(Len(q))
  BY <1>3
<1> DEFINE after == CHOOSE f : f = [i \in 0 .. Len(q) |-> Step(f, i)]
<1>5. after = [i \in 0 .. Len(q) |-> Step(after, i)]
  BY <1>4 DEF Exists
<1>6. Discovery!Decisions(q) = after
  BY DEF Discovery!Decisions
<1> HIDE DEF after
<1>7. \A i \in 0 .. Len(q) : after[i] = Step(after, i)
  BY <1>5
<1> QED
  BY <1>6, <1>7

(* The number of elements the search counts with is the one of the library. *)
LEMMA DiscoveryCardinality ==
  ASSUME NEW S
  PROVE  Discovery!Cardinality(S) = Cardinality(S)
BY DEF Discovery!Cardinality, Cardinality

(* What a refresh knows on its way; whom it served is behind all others. *)
Known == [bytes : Nat, files : Nat, sequence : Nat, decided : [Captured -> Discovery!Verdicts],
          receipt : SUBSET Captured, passed : [Captured -> Nat]]
Served(b, s) == b.decided[s].attempt > Cardinality(Captured)

(* Who is not served keeps the rank, and either is not counted as passed over  *)
(* or was, when budget had been spent.                                         *)
Treated(b, s, spent) ==
  /\ Discovery!Decided(b.decided, s)
  /\ b.decided[s].fits => Discovery!Home(s)
  /\ Served(b, s) \/ b.decided[s].attempt = decided[s].attempt
  /\ \/ b.passed[s] = 0
     \/ b.passed[s] = passed[s] + 1 /\ b.decided[s].attempt = decided[s].attempt /\ spent

Full(b) == b.bytes = RefreshBytes /\ b.files = RefreshFiles

(* What is recorded of a candidate changes nothing of the others; one that *)
(* cost something is served.                                               *)
LEMMA RecordHolds ==
  ASSUME NEW b \in Known, NEW s \in Captured, NEW cost \in Nat, cost <= b.bytes,
         cost > 0 => b.files > 0,
         NEW d, d.kind \in {"pending", "rebuild", "unchanged"},
         d.reason \in {"budget", "failed", "known"},
         b.sequence >= Cardinality(Captured), Cardinality(Captured) \in Nat,
         NEW c, c = Discovery!Record(b, s, d, cost)
  PROVE  /\ c \in Known /\ c.sequence >= b.sequence
         /\ \A t \in Captured : t # s => c.decided[t] = b.decided[t] /\ c.passed[t] = b.passed[t]
         /\ c.decided[s].kind = d.kind
         /\ c.decided[s].fits <=> Discovery!Home(s)
         /\ IF cost = 0 THEN c.decided[s].attempt = b.decided[s].attempt
                             /\ c.bytes = b.bytes /\ c.files = b.files
                        ELSE Served(c, s)
         /\ c.passed[s] = IF cost = 0 /\ d.reason = "budget" THEN b.passed[s] + 1 ELSE 0
<1> DEFINE finding == [kind |-> d.kind, reason |-> d.reason, fits |-> Discovery!Home(s),
                       attempt |-> IF cost = 0 THEN b.decided[s].attempt ELSE b.sequence + 1]
           over == IF cost = 0 /\ d.reason = "budget" THEN b.passed[s] + 1 ELSE 0
<1>1. /\ b.bytes \in Nat /\ b.files \in Nat /\ b.sequence \in Nat
      /\ b.decided \in [Captured -> Discovery!Verdicts] /\ b.passed \in [Captured -> Nat]
      /\ b.receipt \in SUBSET Captured
  BY DEF Known
<1>2. finding \in Discovery!Verdicts
  <2>1. b.decided[s].attempt \in Nat
    BY <1>1 DEF Discovery!Verdicts
  <2>2. Discovery!Home(s) \in BOOLEAN
    BY DEF Discovery!Home
  <2> QED
    BY <1>1, <2>1, <2>2 DEF Discovery!Verdicts
<1>3. over \in Nat
  BY <1>1
<1> HIDE DEF over
<1>4. /\ c.bytes = b.bytes - cost
      /\ c.files = (IF cost = 0 THEN b.files ELSE b.files - 1)
      /\ c.sequence = (IF cost = 0 THEN b.sequence ELSE b.sequence + 1)
      /\ c.decided = [b.decided EXCEPT ![s] = finding]
      /\ c.passed = [b.passed EXCEPT ![s] = over]
      /\ c.receipt = b.receipt
  BY <1>1 DEF Discovery!Record, Known, over
<1> DEFINE decisions == [b.decided EXCEPT ![s] = finding]
           passes == [b.passed EXCEPT ![s] = over]
           bytesLeft == b.bytes - cost
           filesLeft == IF cost = 0 THEN b.files ELSE b.files - 1
           number == IF cost = 0 THEN b.sequence ELSE b.sequence + 1
<1>5. c \in Known
  <2>1. bytesLeft \in Nat /\ filesLeft \in Nat /\ number \in Nat
    BY <1>1
  <2>2. decisions \in [Captured -> Discovery!Verdicts] /\ passes \in [Captured -> Nat]
    BY <1>1, <1>2, <1>3
  <2>3. c = [b EXCEPT !.bytes = bytesLeft, !.files = filesLeft, !.sequence = number,
                      !.decided = decisions, !.passed = passes]
    BY DEF Discovery!Record, over
  <2> HIDE DEF bytesLeft, filesLeft, number, decisions, passes
  <2> QED
    BY <2>1, <2>2, <2>3 DEF Known
<1>6. c.decided[s] = finding /\ c.passed[s] = over
  BY <1>1, <1>4
<1>7. cost # 0 => Served(c, s)
  BY <1>1, <1>6 DEF Served
<1> QED
  BY <1>1, <1>4, <1>5, <1>6, <1>7 DEF over

(* Any header alone is within the budget. *)
LEMMA DiscoveryConstants ==
  /\ IsFiniteSet(Captured) /\ Cardinality(Captured) \in Nat
  /\ \A s \in Captured : /\ HeaderWidth[s] \in Nat \ {0} /\ HeaderWidth[s] <= RefreshBytes
                         /\ CopiedWidth[s] \in Nat \ {0}
  /\ RefreshBytes \in Nat /\ RefreshFiles \in Nat \ {0}
<1>1. \A s \in Captured : HeaderWidth[s] \in 1 .. RefreshBytes
  BY DiscoveryAssumption
<1> QED
  BY <1>1, DiscoveryAssumption, FS_CardinalityType

(* One candidate: it is served, or passed over if budget was spent before. *)
LEMMA DecideHolds ==
  ASSUME Discovery!TypeOK, NEW b \in Known, NEW s \in Captured,
         b.decided[s] = decided[s], b.passed[s] = passed[s], b.sequence >= Cardinality(Captured),
         b.bytes <= RefreshBytes, b.files <= RefreshFiles,
         NEW c, c = Discovery!Decide(b, s)
  PROVE  /\ c \in Known /\ c.sequence >= b.sequence
         /\ c.bytes <= b.bytes /\ c.files <= b.files
         /\ \A t \in Captured : t # s => c.decided[t] = b.decided[t] /\ c.passed[t] = b.passed[t]
         /\ Treated(c, s, ~Full(b))
         /\ (c.bytes = b.bytes /\ c.files = b.files) \/ Served(c, s)
<1> DEFINE Goal == /\ c \in Known /\ c.sequence >= b.sequence
                   /\ c.bytes <= b.bytes /\ c.files <= b.files
                   /\ \A t \in Captured : t # s =>
                        c.decided[t] = b.decided[t] /\ c.passed[t] = b.passed[t]
                   /\ Treated(c, s, ~Full(b))
                   /\ (c.bytes = b.bytes /\ c.files = b.files) \/ Served(c, s)
<1>0. /\ Cardinality(Captured) \in Nat
      /\ HeaderWidth[s] \in Nat \ {0} /\ HeaderWidth[s] <= RefreshBytes
      /\ CopiedWidth[s] \in Nat \ {0} /\ RefreshBytes \in Nat /\ RefreshFiles \in Nat \ {0}
  BY DiscoveryConstants
<1>1. /\ b.bytes \in Nat /\ b.files \in Nat /\ b.sequence \in Nat
      /\ b.passed[s] \in Nat
  BY DEF Known
<1>2. ASSUME NEW a \in Known, NEW d, NEW cost \in Nat, c = Discovery!Record(a, s, d, cost),
             a.decided = b.decided, a.passed = b.passed, a.sequence = b.sequence,
             a.bytes = b.bytes, a.files = b.files,
             cost <= b.bytes, cost > 0 => b.files > 0,
             d.kind \in {"pending", "rebuild", "unchanged"},
             d.reason \in {"budget", "failed", "known"},
             d.kind = "unchanged" =>
               Discovery!Home(s) /\ sources[s].readable /\ ~sources[s].inherits,
             d.kind = "rebuild" => ~Discovery!Home(s) \/ sources[s].inherits,
             cost = 0 /\ d.reason = "budget" => ~Full(b)
      PROVE  Goal
  <2>1. /\ c \in Known /\ c.sequence >= a.sequence
        /\ \A t \in Captured : t # s => c.decided[t] = a.decided[t] /\ c.passed[t] = a.passed[t]
        /\ c.decided[s].kind = d.kind
        /\ c.decided[s].fits <=> Discovery!Home(s)
        /\ IF cost = 0 THEN c.decided[s].attempt = a.decided[s].attempt
                             /\ c.bytes = a.bytes /\ c.files = a.files
                       ELSE Served(c, s)
        /\ c.passed[s] = IF cost = 0 /\ d.reason = "budget" THEN a.passed[s] + 1 ELSE 0
    BY <1>0, <1>2, RecordHolds
  <2>2. c.bytes <= b.bytes /\ c.files <= b.files
    BY <1>1, <1>2 DEF Discovery!Record, Known
  <2> QED
    BY <1>2, <2>1, <2>2 DEF Treated, Discovery!Decided
<1>3. CASE Discovery!Home(s)
  <2>1. c = Discovery!Classify(b, s)
    BY <1>3 DEF Discovery!Decide
  <2>2. CASE b.files > 0 /\ HeaderWidth[s] <= b.bytes
    <3>1. c = Discovery!Record(b, s, Discovery!Inspect(s), HeaderWidth[s])
      BY <2>1, <2>2 DEF Discovery!Classify
    <3> QED
      BY <1>0, <1>2, <1>3, <2>2, <3>1 DEF Discovery!Inspect
  <2>3. CASE ~(b.files > 0 /\ HeaderWidth[s] <= b.bytes)
    <3>1. ~Full(b)
      BY <1>0, <2>3 DEF Full
    <3>2. CASE b.decided[s].kind = "pending" /\ b.decided[s].reason # "budget"
      <4>1. c = [b EXCEPT !.passed[s] = b.passed[s] + 1]
        BY <2>1, <2>3, <3>2 DEF Discovery!Classify
      <4> DEFINE passes == [b.passed EXCEPT ![s] = b.passed[s] + 1]
      <4>2. passes \in [Captured -> Nat]
        BY <1>1 DEF Known
      <4>3. c = [b EXCEPT !.passed = passes]
        BY <4>1
      <4>4. passes[s] = b.passed[s] + 1 /\ \A t \in Captured : t # s => passes[t] = b.passed[t]
        BY DEF Known
      <4> HIDE DEF passes
      <4>5. /\ c \in Known /\ c.decided = b.decided /\ c.bytes = b.bytes /\ c.files = b.files
            /\ c.sequence = b.sequence /\ c.passed = passes
        BY <4>2, <4>3 DEF Known
      <4>6. c.decided[s].fits => Discovery!Home(s)
        BY <1>3
      <4> QED
        BY <1>1, <3>1, <3>2, <4>4, <4>5, <4>6 DEF Treated, Discovery!Decided
    <3>3. CASE ~(b.decided[s].kind = "pending" /\ b.decided[s].reason # "budget")
      <4>1. c = Discovery!Record(b, s, [kind |-> "pending", reason |-> "budget"], 0)
        BY <2>1, <2>3, <3>3 DEF Discovery!Classify
      <4> QED
        BY <1>1, <1>2, <3>1, <4>1
    <3> QED
      BY <3>2, <3>3
  <2> QED
    BY <2>2, <2>3
<1>4. CASE ~Discovery!Home(s)
  <2> DEFINE Open(why) == [kind |-> "pending", reason |-> why]
             proven == [kind |-> "rebuild", reason |-> "known"]
             kept == [b EXCEPT !.receipt = @ \cup {s}]
  <2>1. c = Discovery!Relocate(b, s)
    BY <1>4 DEF Discovery!Decide
  <2>2. CASE c = Discovery!Record(b, s, Open("failed"), 0)
    BY <1>1, <1>2, <2>2
  <2>3. CASE c = Discovery!Record(b, s, proven, 0)
    BY <1>1, <1>2, <1>4, <2>3
  <2>4. CASE ~(b.files = 0 \/ CopiedWidth[s] > b.bytes) /\
             c = Discovery!Record(b, s, Open("failed"), CopiedWidth[s])
    BY <1>0, <1>1, <1>2, <2>4
  <2>5. CASE ~(b.files = 0 \/ CopiedWidth[s] > b.bytes) /\
             c = Discovery!Record(kept, s, proven, CopiedWidth[s])
    <3>1. /\ kept \in Known /\ kept.decided = b.decided /\ kept.passed = b.passed
          /\ kept.sequence = b.sequence /\ kept.bytes = b.bytes /\ kept.files = b.files
      BY DEF Known
    <3> HIDE DEF kept
    <3> QED
      BY <1>0, <1>1, <1>2, <1>4, <2>5, <3>1
  <2>6. CASE /\ b.files = 0 \/ CopiedWidth[s] > b.bytes
             /\ ~(CopiedWidth[s] > RefreshBytes)
             /\ c = Discovery!Record(b, s, Open("budget"), 0)
    <3>1. ~Full(b)
      BY <1>0, <1>1, <2>6 DEF Full
    <3> QED
      BY <1>1, <1>2, <2>6, <3>1
  <2> QED
    BY <2>1, <2>2, <2>3, <2>4, <2>5, <2>6 DEF Discovery!Relocate
<1> QED
  BY <1>3, <1>4

(* An order goes through every candidate once, the least attempted first. *)
LEMMA OrdersList ==
  ASSUME Discovery!TypeOK, NEW q \in Discovery!Orders
  PROVE  /\ q \in Seq(Captured) /\ Len(q) \in Nat
         /\ \A i \in 1 .. Len(q) : q[i] \in Discovery!Candidates
         /\ \A i, j \in 1 .. Len(q) : i # j => q[i] # q[j]
         /\ \A s \in Discovery!Candidates : \E i \in 1 .. Len(q) : q[i] = s
         /\ \A i, j \in 1 .. Len(q) : i < j => decided[q[i]].attempt <= decided[q[j]].attempt
<1> DEFINE C == Discovery!Candidates
           n == Discovery!Cardinality(C)
<1>1. C \subseteq Captured
  BY DEF Discovery!Candidates, Discovery!TypeOK
<1>2. n \in Nat
  BY <1>1, DiscoveryConstants, FS_Subset, FS_CardinalityType, DiscoveryCardinality
<1>3. /\ q \in Discovery!Bijection(1 .. n, C)
      /\ \A i, j \in DOMAIN q : i < j => decided[q[i]].attempt <= decided[q[j]].attempt
  BY DEF Discovery!Orders
<1>4. /\ q \in [1 .. n -> C] /\ \A i, j \in 1 .. n : q[i] = q[j] => i = j
      /\ \A s \in C : \E i \in 1 .. n : q[i] = s
  BY <1>3 DEF Discovery!Bijection, Discovery!Injection, Discovery!Surjection, Discovery!IsInjective
<1> HIDE DEF C, n
<1>5. q \in Seq(C) /\ Len(q) = n
  BY <1>2, <1>4
<1>6. q \in Seq(Captured)
  <2>1. q \in [1 .. n -> Captured]
    BY <1>1, <1>4
  <2> QED
    BY <1>2, <2>1
<1> QED
  BY <1>2, <1>3, <1>4, <1>5, <1>6 DEF C

(* Where a refresh is after the first i candidates. *)
GoneThrough(q, i) ==
  LET b == Discovery!Decisions(q)[i] IN
  /\ b \in Known /\ b.sequence >= Cardinality(Captured)
  /\ b.bytes <= RefreshBytes /\ b.files <= RefreshFiles
  /\ \A t \in Captured : (\A j \in 1 .. i : q[j] # t) =>
       b.decided[t] = decided[t] /\ b.passed[t] = passed[t]
  /\ \A j \in 1 .. i : Treated(b, q[j], \E m \in 1 .. j - 1 : Served(b, q[m]))
  /\ Full(b) \/ \E j \in 1 .. i : Served(b, q[j])

(* A refresh begins with its whole budget and what was decided before. *)
LEMMA BudgetHolds ==
  ASSUME Discovery!TypeOK, NEW q \in Discovery!Orders
  PROVE  GoneThrough(q, 0)
<1>1. Discovery!Decisions(q)[0] = Discovery!Budget
  BY OrdersList, DecisionsGoOn
<1>2. Discovery!Budget \in Known
  BY DiscoveryConstants, DiscoveryCardinality DEF Discovery!Budget, Known, Discovery!TypeOK
<1> QED
  BY <1>1, <1>2, DiscoveryConstants, DiscoveryCardinality
     DEF GoneThrough, Discovery!Budget, Full

(* One candidate more has been gone through. *)
LEMMA OneMoreHolds ==
  ASSUME Discovery!TypeOK, NEW q \in Discovery!Orders, NEW i \in 1 .. Len(q), GoneThrough(q, i - 1)
  PROVE  GoneThrough(q, i)
<1> DEFINE b == Discovery!Decisions(q)[i - 1]
           c == Discovery!Decisions(q)[i]
           s == q[i]
<1>1. /\ Len(q) \in Nat /\ \A j \in 1 .. Len(q) : q[j] \in Captured
      /\ \A j, k \in 1 .. Len(q) : j # k => q[j] # q[k]
  BY OrdersList DEF Discovery!Candidates, Discovery!TypeOK
<1>2. c = Discovery!Decide(b, s)
  BY OrdersList, DecisionsGoOn
<1>3. /\ b \in Known /\ b.sequence >= Cardinality(Captured)
      /\ b.bytes <= RefreshBytes /\ b.files <= RefreshFiles
      /\ \A t \in Captured : (\A j \in 1 .. i - 1 : q[j] # t) =>
           b.decided[t] = decided[t] /\ b.passed[t] = passed[t]
      /\ \A j \in 1 .. i - 1 : Treated(b, q[j], \E m \in 1 .. j - 1 : Served(b, q[m]))
      /\ Full(b) \/ \E j \in 1 .. i - 1 : Served(b, q[j])
  BY DEF GoneThrough
<1> HIDE DEF b, c
<1>4. s \in Captured /\ \A j \in 1 .. i - 1 : j \in 1 .. Len(q) /\ q[j] \in Captured /\ q[j] # s
  BY <1>1
<1>5. b.decided[s] = decided[s] /\ b.passed[s] = passed[s]
  BY <1>3, <1>4
<1>6. /\ c \in Known /\ c.sequence >= b.sequence
      /\ c.bytes <= b.bytes /\ c.files <= b.files
      /\ \A t \in Captured : t # s => c.decided[t] = b.decided[t] /\ c.passed[t] = b.passed[t]
      /\ Treated(c, s, ~Full(b))
      /\ (c.bytes = b.bytes /\ c.files = b.files) \/ Served(c, s)
  BY <1>2, <1>3, <1>4, <1>5, DecideHolds
<1>7. /\ c.sequence >= Cardinality(Captured) /\ c.bytes <= RefreshBytes /\ c.files <= RefreshFiles
  <2>1. /\ c.sequence \in Nat /\ b.sequence \in Nat /\ Cardinality(Captured) \in Nat
        /\ c.bytes \in Nat /\ b.bytes \in Nat /\ c.files \in Nat /\ b.files \in Nat
        /\ RefreshBytes \in Nat /\ RefreshFiles \in Nat
    BY <1>3, <1>6, DiscoveryConstants DEF Known
  <2> QED
    BY <1>3, <1>6, <2>1
<1>8. \A j \in 1 .. i - 1 : Served(b, q[j]) => Served(c, q[j])
  BY <1>4, <1>6 DEF Served
<1>9. ASSUME NEW t \in Captured, \A j \in 1 .. i : q[j] # t
      PROVE  c.decided[t] = decided[t] /\ c.passed[t] = passed[t]
  <2>1. t # s /\ \A j \in 1 .. i - 1 : q[j] # t
    BY <1>9
  <2> QED
    BY <1>3, <1>6, <2>1
<1>10. ASSUME NEW j \in 1 .. i
       PROVE  Treated(c, q[j], \E m \in 1 .. j - 1 : Served(c, q[m]))
  <2>1. CASE j = i
    BY <1>3, <1>6, <1>8, <2>1 DEF Treated
  <2>2. CASE j # i
    <3>1. j \in 1 .. i - 1
      BY <2>2
    <3>2. \A m \in 1 .. j - 1 : m \in 1 .. i - 1
      BY <3>1
    <3>3. Treated(b, q[j], \E m \in 1 .. j - 1 : Served(b, q[m]))
      BY <1>3, <3>1
    <3>4. c.decided[q[j]] = b.decided[q[j]] /\ c.passed[q[j]] = b.passed[q[j]]
      BY <1>4, <1>6, <3>1
    <3>5. (\E m \in 1 .. j - 1 : Served(b, q[m])) => \E m \in 1 .. j - 1 : Served(c, q[m])
      BY <1>8, <3>2
    <3> QED
      BY <3>3, <3>4, <3>5 DEF Treated, Discovery!Decided, Served
  <2> QED
    BY <2>1, <2>2
<1>11. Full(c) \/ \E j \in 1 .. i : Served(c, q[j])
  <2>1. CASE Served(c, s)
    BY <2>1
  <2>2. CASE \E j \in 1 .. i - 1 : Served(b, q[j])
    BY <1>8, <2>2
  <2>3. CASE Full(b) /\ c.bytes = b.bytes /\ c.files = b.files
    BY <2>3 DEF Full
  <2> QED
    BY <1>3, <1>6, <2>1, <2>2, <2>3
<1> QED
  BY <1>6, <1>7, <1>9, <1>10, <1>11 DEF GoneThrough, c

(* The last candidate is reached: there is no least one that is not. *)
LEMMA AllGoneThrough ==
  ASSUME Discovery!TypeOK, NEW q \in Discovery!Orders
  PROVE  GoneThrough(q, Len(q))
<1> DEFINE Bad == {i \in 0 .. Len(q) : ~GoneThrough(q, i)}
<1>1. Len(q) \in Nat /\ Bad \subseteq Nat
  BY OrdersList
<1>2. Bad = {}
  <2> SUFFICES ASSUME Bad # {} PROVE FALSE
    OBVIOUS
  <2>1. PICK i \in Bad : \A u \in Bad : i <= u
    <3> HIDE DEF Bad
    <3> QED
      BY <1>1, LeastNumber
  <2>2. i \in 1 .. Len(q)
    BY <1>1, <2>1, BudgetHolds
  <2>3. GoneThrough(q, i - 1)
    BY <1>1, <2>1, <2>2
  <2> QED
    BY <2>1, <2>2, <2>3, OneMoreHolds
<1> QED
  BY <1>1, <1>2

(* Ranks say who was attempted before whom. *)
LEMMA RankedHolds ==
  ASSUME NEW d \in [Captured -> Discovery!Verdicts], NEW r, r = Discovery!Ranked(d)
  PROVE  /\ r \in [Captured -> Discovery!Verdicts]
         /\ \A s \in Captured : r[s].kind = d[s].kind /\ r[s].fits = d[s].fits
         /\ \A s \in Captured : r[s].attempt <= Cardinality(Captured)
         /\ \A s, t \in Captured : d[t].attempt > d[s].attempt => r[t].attempt > r[s].attempt
<1> DEFINE Upto(s) == {t \in Captured : d[t].attempt > 0 /\ d[t].attempt <= d[s].attempt}
           rank(s) == IF d[s].attempt = 0 THEN 0 ELSE Discovery!Cardinality(Upto(s))
<1>1. \A s \in Captured : d[s].attempt \in Nat /\ d[s] \in Discovery!Verdicts
  BY DEF Discovery!Verdicts
<1>2. \A s \in Captured : IsFiniteSet(Upto(s)) /\ Cardinality(Upto(s)) \in Nat
                          /\ Cardinality(Upto(s)) <= Cardinality(Captured)
  <2> TAKE s \in Captured
  <2>1. Upto(s) \in SUBSET Captured
    OBVIOUS
  <2> QED
    BY <2>1, DiscoveryConstants, FS_Subset, FS_CardinalityType
<1>3. r = [s \in Captured |-> [d[s] EXCEPT !.attempt = rank(s)]]
  BY DEF Discovery!Ranked
<1>4. \A s \in Captured : rank(s) \in Nat /\ rank(s) <= Cardinality(Captured)
  BY <1>2, DiscoveryConstants, DiscoveryCardinality
<1> HIDE DEF rank
<1>5. \A s \in Captured : /\ r[s] \in Discovery!Verdicts /\ r[s].kind = d[s].kind
                          /\ r[s].fits = d[s].fits /\ r[s].attempt = rank(s)
  BY <1>1, <1>3, <1>4 DEF Discovery!Verdicts
<1>6. ASSUME NEW s \in Captured, NEW t \in Captured, d[t].attempt > d[s].attempt
      PROVE  rank(t) > rank(s)
  <2>1. t \in Upto(t) /\ t \notin Upto(s) /\ Upto(s) \subseteq Upto(t)
    BY <1>1, <1>6
  <2>2. rank(t) = Cardinality(Upto(t))
    BY <1>1, <1>6, DiscoveryCardinality DEF rank
  <2>3. Cardinality(Upto(t)) # 0
    BY <1>2, <2>1, FS_EmptySet
  <2>4. Cardinality(Upto(s)) <= Cardinality(Upto(t)) /\ Cardinality(Upto(s)) # Cardinality(Upto(t))
    BY <1>2, <2>1, FS_Subset
  <2>5. rank(s) = 0 \/ rank(s) = Cardinality(Upto(s))
    BY DiscoveryCardinality DEF rank
  <2> HIDE DEF Upto
  <2> QED
    BY <1>2, <2>2, <2>3, <2>4, <2>5
<1>7. r \in [Captured -> Discovery!Verdicts]
  BY <1>3, <1>5
<1> QED
  BY <1>4, <1>5, <1>6, <1>7

(* What a refresh decides of every weak source, and who is passed over. *)
LEMMA RefreshDecides ==
  ASSUME Discovery!DiscoveryInv, NEW q \in Discovery!Orders,
         NEW b, b = Discovery!Decisions(q)[Len(q)]
  PROVE  /\ b \in Known
         /\ \A s \in weak : /\ Discovery!Decided(b.decided, s)
                            /\ b.decided[s].fits => Discovery!Home(s)
         /\ \A s \in Captured : Served(b, s) \/ b.decided[s].attempt = decided[s].attempt
         /\ \A s \in Discovery!Candidates :
              b.passed[s] # 0 =>
                /\ b.passed[s] = passed[s] + 1 /\ b.decided[s].attempt = decided[s].attempt
                /\ \E t \in Discovery!Candidates :
                     Served(b, t) /\ decided[t].attempt <= decided[s].attempt /\ t # s
<1>0. Discovery!TypeOK
  BY DEF Discovery!DiscoveryInv
<1>1. GoneThrough(q, Len(q))
  BY <1>0, AllGoneThrough
<1>2. /\ Len(q) \in Nat
      /\ \A i \in 1 .. Len(q) : q[i] \in Discovery!Candidates
      /\ \A i, j \in 1 .. Len(q) : i # j => q[i] # q[j]
      /\ \A s \in Discovery!Candidates : \E i \in 1 .. Len(q) : q[i] = s
      /\ \A i, j \in 1 .. Len(q) : i < j => decided[q[i]].attempt <= decided[q[j]].attempt
  BY <1>0, OrdersList
<1>3. /\ b \in Known
      /\ \A t \in Captured : (\A j \in 1 .. Len(q) : q[j] # t) =>
           b.decided[t] = decided[t] /\ b.passed[t] = passed[t]
      /\ \A j \in 1 .. Len(q) : Treated(b, q[j], \E m \in 1 .. j - 1 : Served(b, q[m]))
  BY <1>1 DEF GoneThrough
<1>4. \A t \in Captured \ Discovery!Candidates : b.decided[t] = decided[t]
  BY <1>2, <1>3
<1>5. weak \subseteq Captured /\ Discovery!Candidates \subseteq weak
  BY <1>0 DEF Discovery!TypeOK, Discovery!Candidates
<1>6. ASSUME NEW s \in weak
      PROVE  Discovery!Decided(b.decided, s) /\ (b.decided[s].fits => Discovery!Home(s))
  <2>1. CASE s \in Discovery!Candidates
    BY <1>2, <1>3, <2>1 DEF Treated
  <2>2. CASE s \notin Discovery!Candidates
    <3>1. decided[s].fits /\ b.decided[s] = decided[s]
      BY <1>4, <1>5, <2>2 DEF Discovery!Candidates, Discovery!Settled
    <3> QED
      BY <3>1 DEF Discovery!DiscoveryInv, Discovery!DecisionsHold, Discovery!Decided
  <2> QED
    BY <2>1, <2>2
<1>7. ASSUME NEW s \in Captured
      PROVE  Served(b, s) \/ b.decided[s].attempt = decided[s].attempt
  BY <1>2, <1>3, <1>4 DEF Treated
<1>8. ASSUME NEW s \in Discovery!Candidates, b.passed[s] # 0
      PROVE  /\ b.passed[s] = passed[s] + 1 /\ b.decided[s].attempt = decided[s].attempt
             /\ \E t \in Discovery!Candidates :
                  Served(b, t) /\ decided[t].attempt <= decided[s].attempt /\ t # s
  <2>1. PICK j \in 1 .. Len(q) : q[j] = s
    BY <1>2
  <2>2. /\ b.passed[s] = passed[s] + 1 /\ b.decided[s].attempt = decided[s].attempt
        /\ \E m \in 1 .. j - 1 : Served(b, q[m])
    BY <1>3, <1>8, <2>1 DEF Treated
  <2>3. PICK m \in 1 .. j - 1 : Served(b, q[m])
    BY <2>2
  <2>4. m \in 1 .. Len(q) /\ m < j
    BY <1>2, <2>1
  <2> QED
    BY <1>2, <2>1, <2>2, <2>3, <2>4
<1> QED
  BY <1>3, <1>6, <1>7, <1>8

(* Being passed over costs one source its place before the others. *)
LEMMA PassedHolds ==
  ASSUME Discovery!DiscoveryInv, NEW q \in Discovery!Orders,
         NEW b, b = Discovery!Decisions(q)[Len(q)],
         decided' = Discovery!Ranked(b.decided), UNCHANGED weak,
         passed' = [s \in Captured |-> IF s \in Discovery!Candidates THEN b.passed[s] ELSE 0]
  PROVE  Discovery!AreRanks' /\ Discovery!PassedByOthers'
<1>1. /\ b \in Known
      /\ \A s \in Captured : Served(b, s) \/ b.decided[s].attempt = decided[s].attempt
      /\ \A s \in Discovery!Candidates :
              b.passed[s] # 0 =>
                /\ b.passed[s] = passed[s] + 1 /\ b.decided[s].attempt = decided[s].attempt
                /\ \E t \in Discovery!Candidates :
                     Served(b, t) /\ decided[t].attempt <= decided[s].attempt /\ t # s
  BY RefreshDecides
<1>2. /\ \A s \in Captured : decided[s].attempt \in Nat /\ passed[s] \in Nat
      /\ \A s \in Captured : b.decided[s].attempt \in Nat /\ b.passed[s] \in Nat
      /\ \A s \in Captured : decided[s].attempt <= Cardinality(Captured)
      /\ Cardinality(Captured) \in Nat /\ weak \subseteq Captured
      /\ Discovery!Candidates \subseteq weak
  BY <1>1, DiscoveryConstants, DiscoveryCardinality
     DEF Discovery!DiscoveryInv, Discovery!TypeOK, Discovery!Verdicts,
     Discovery!AreRanks, Known, Discovery!Candidates
<1>3. /\ \A s \in Captured : decided'[s].attempt <= Cardinality(Captured)
      /\ \A s, t \in Captured : b.decided[t].attempt > b.decided[s].attempt
                                  => decided'[t].attempt > decided'[s].attempt
  BY <1>1, RankedHolds DEF Known
<1>4. Discovery!AreRanks'
  BY <1>3, DiscoveryCardinality DEF Discovery!AreRanks
<1>5. ASSUME NEW s \in Captured
      PROVE  /\ passed'[s] <= Cardinality(Discovery!BehindOrDone(s)')
             /\ s \notin weak' => passed'[s] = 0
  <2> DEFINE A == Discovery!BehindOrDone(s)
             B == Discovery!BehindOrDone(s)'
  <2>1. A \in SUBSET Captured /\ B \in SUBSET Captured
    BY DEF Discovery!BehindOrDone
  <2>2. /\ IsFiniteSet(A) /\ IsFiniteSet(B) /\ Cardinality(A) \in Nat /\ Cardinality(B) \in Nat
    BY <2>1, DiscoveryConstants, FS_Subset, FS_CardinalityType
  <2>3. CASE s \notin Discovery!Candidates \/ b.passed[s] = 0
    BY <1>2, <2>2, <2>3
  <2>4. CASE s \in Discovery!Candidates /\ b.passed[s] # 0
    <3>1. PICK t \in Discovery!Candidates :
            Served(b, t) /\ decided[t].attempt <= decided[s].attempt /\ t # s
      BY <1>1, <2>4
    <3>2. passed'[s] = passed[s] + 1 /\ b.decided[s].attempt = decided[s].attempt
      BY <1>1, <2>4
    <3>3. t \notin A /\ t \in Captured
      BY <1>2, <3>1 DEF Discovery!BehindOrDone
    <3>4. t \in B
      <4>1. b.decided[t].attempt > b.decided[s].attempt
        BY <1>2, <3>1, <3>2, <3>3 DEF Served
      <4> QED
        BY <1>3, <3>1, <3>3, <4>1 DEF Discovery!BehindOrDone
    <3>5. A \subseteq B
      <4> SUFFICES ASSUME NEW u \in A PROVE u \in B
        OBVIOUS
      <4>1. CASE u \notin weak
        BY <4>1 DEF Discovery!BehindOrDone
      <4>2. CASE decided[u].attempt > decided[s].attempt
        <5>1. u \in Captured
          BY <2>1
        <5>2. b.decided[u].attempt > b.decided[s].attempt
          BY <1>1, <1>2, <3>2, <4>2, <5>1 DEF Served
        <5> QED
          BY <1>3, <5>1, <5>2 DEF Discovery!BehindOrDone
      <4> QED
        BY <4>1, <4>2 DEF Discovery!BehindOrDone
    <3>6. Cardinality(A) <= Cardinality(B) /\ Cardinality(A) # Cardinality(B)
      BY <2>2, <3>3, <3>4, <3>5, FS_Subset
    <3>7. passed[s] <= Cardinality(A)
      BY DiscoveryCardinality DEF Discovery!DiscoveryInv, Discovery!PassedByOthers
    <3> HIDE DEF A, B
    <3>8. passed'[s] <= Cardinality(B)
      BY <1>2, <2>2, <3>2, <3>6, <3>7
    <3> QED
      BY <1>2, <2>4, <3>8 DEF B
  <2> QED
    BY <2>3, <2>4
<1>6. Discovery!PassedByOthers'
  BY <1>5, DiscoveryCardinality DEF Discovery!PassedByOthers
<1> QED
  BY <1>4, <1>6

(* Whoever waits after a refresh waits for a protected source, and no source  *)
(* waits that is to be rebuilt.                                               *)
LEMMA WaitsHold ==
  ASSUME Discovery!DiscoveryInv, NEW d \in [Captured -> Discovery!Verdicts],
         \A s \in weak : Discovery!Decided(d, s),
         NEW p, p = Discovery!Protected(d),
         NEW refused, refused \subseteq Claiming, \A c \in refused : SlotOf[c] \in p,
         wait' = Discovery!Waits(p, refused), UNCHANGED <<sources, weak>>,
         \A s \in Captured : decided'[s].kind = d[s].kind
  PROVE  /\ wait' \in [Captured \cup Claiming -> Captured \cup {"no", "unnamed"}]
         /\ Discovery!WaitsAreTheirs' /\ Discovery!WaitsAreJustified'
<1>1. /\ DOMAIN wait = Captured \cup Claiming
      /\ wait \in [Captured \cup Claiming -> Captured \cup {"no", "unnamed"}]
      /\ weak \subseteq Captured
      /\ \A s \in Captured : ~Discovery!Home(s) => s \in weak
      /\ \A e \in Captured \cup Claiming :
           wait[e] \in Captured => e \in Claiming /\ wait[e] = SlotOf[e]
      /\ \A s \in weak : wait[s] # "no" => ~sources[s].inherits
  BY DEF Discovery!DiscoveryInv, Discovery!TypeOK, Discovery!WaitsAreTheirs
<1>2. /\ "no" \notin Captured /\ "unnamed" \notin Captured /\ Captured \cap Claiming = {}
      /\ \A s \in Captured : FamilyOf[s] \subseteq Captured
      /\ \A c \in Claiming : SlotOf[c] \in Captured
      /\ NamedClaimants \subseteq Claiming
  BY DiscoveryAssumption
<1>3. /\ p \subseteq weak
      /\ \A s \in weak : ~Discovery!Home(s) => s \in p
      /\ \A s \in weak \ p : Discovery!Home(s) /\ d[s].kind = "unchanged"
  BY DEF Discovery!Protected
<1>4. ASSUME NEW e \in Discovery!Blocked(p) \ p
      PROVE  \E s \in p : \/ e \in FamilyOf[s] /\ e \in Captured
                          \/ e \in Claiming /\ SlotOf[e] = s
  <2>1. \/ \E s \in p : e \in FamilyOf[s]
        \/ e \in Claiming /\ SlotOf[e] \in p
        \/ e \in DOMAIN wait /\ wait[e] \in p
    BY <1>2 DEF Discovery!Blocked
  <2> QED
    BY <1>1, <1>2, <1>3, <2>1
<1> DEFINE w(e) == IF e \in refused THEN SlotOf[e]
                   ELSE IF e \in Discovery!Blocked(p) \ p /\ (e \in Claiming \/ Discovery!Home(e))
                   THEN IF wait[e] = "no" THEN "unnamed" ELSE wait[e]
                   ELSE IF e \in Discovery!Blocked(p) THEN wait[e] ELSE "no"
<1>w. wait' = [e \in Captured \cup Claiming |-> w(e)]
  BY <1>1 DEF Discovery!Waits
<1>5. ASSUME NEW e \in Captured \cup Claiming
      PROVE  wait'[e] = w(e) /\ w(e) \in Captured \cup {"no", "unnamed"}
  BY <1>1, <1>2, <1>w
<1>6. wait' \in [Captured \cup Claiming -> Captured \cup {"no", "unnamed"}]
  <2> HIDE DEF w
  <2> QED
    BY <1>5, <1>w
<1>7. Discovery!WaitsAreTheirs'
  <2>1. \A s \in Captured : ~Discovery!Home(s)' => s \in weak'
    BY <1>1 DEF Discovery!Home
  <2>2. ASSUME NEW e \in DOMAIN wait', wait'[e] \in Captured
        PROVE  e \in Claiming /\ wait'[e] = SlotOf[e]
    BY <1>1, <1>2, <1>5, <1>6, <2>2
  <2>3. ASSUME NEW s \in weak, wait'[s] # "no"
        PROVE  ~sources[s].inherits
    <3>1. s \in Captured /\ s \notin refused
      BY <1>1, <1>2
    <3>2. CASE s \in Discovery!Blocked(p) \ p
      BY <1>3, <2>3, <3>2 DEF Discovery!Decided
    <3>3. CASE ~(s \in Discovery!Blocked(p) \ p)
      BY <1>1, <1>5, <2>3, <3>1, <3>3
    <3> QED
      BY <3>2, <3>3
  <2> QED
    BY <2>1, <2>2, <2>3 DEF Discovery!WaitsAreTheirs
<1>8. Discovery!Protected(decided)' = p
  <2>1. weak' = weak /\ \A s \in weak : decided'[s].kind = d[s].kind
    BY <1>1
  <2> QED
    BY <2>1 DEF Discovery!Protected, Discovery!Home
<1>9. ASSUME NEW e \in Captured \cup Claiming, e \notin p, wait'[e] # "no"
      PROVE  \E s \in p : e \in FamilyOf[s] \cup {c \in Claiming : SlotOf[c] = s}
  <2>1. CASE e \in refused
    BY <2>1
  <2>2. CASE e \in Discovery!Blocked(p) \ p
    BY <1>4, <2>2
  <2> QED
    BY <1>5, <1>9, <2>1, <2>2
<1>10. ASSUME NEW s \in weak, Discovery!Home(s), d[s].kind = "rebuild"
       PROVE  wait'[s] = "no"
  <2>1. sources[s].inherits
    BY <1>10 DEF Discovery!Decided
  <2> QED
    BY <1>7, <2>1 DEF Discovery!WaitsAreTheirs
<1>11. Discovery!WaitsAreJustified'
  <2>1. \A s \in weak' : Discovery!Home(s)' /\ decided'[s].kind = "rebuild" => wait'[s] = "no"
    BY <1>1, <1>10 DEF Discovery!Home
  <2> QED
    BY <1>6, <1>8, <1>9, <2>1 DEF Discovery!WaitsAreJustified
<1> QED
  BY <1>6, <1>7, <1>11

(* A refresh keeps the invariant. *)
LEMMA RefreshHolds ==
  ASSUME Discovery!DiscoveryInv, Discovery!Refresh
  PROVE  Discovery!DiscoveryInv'
<1>1. PICK q \in Discovery!Orders, parsed \in SUBSET {c \in Claiming : claim[c] = "seen"} :
        LET b == Discovery!Decisions(q)[Len(q)]
            p == Discovery!Protected(b.decided)
            met == parsed \ Discovery!Blocked(p)
            refused == {c \in met : SlotOf[c] \in p}
        IN /\ decided' = Discovery!Ranked(b.decided)
           /\ receipt' = b.receipt
           /\ passed' = [s \in Captured |-> IF s \in Discovery!Candidates THEN b.passed[s] ELSE 0]
           /\ wait' = Discovery!Waits(p, refused)
           /\ claim' = [c \in Claiming |-> IF c \in met \ refused THEN "counted" ELSE claim[c]]
           /\ refreshed' = TRUE
           /\ UNCHANGED <<sources, weak, changes>>
  BY DEF Discovery!Refresh
<1> DEFINE b == Discovery!Decisions(q)[Len(q)]
           p == Discovery!Protected(b.decided)
           met == parsed \ Discovery!Blocked(p)
           refused == {c \in met : SlotOf[c] \in p}
<1>2. /\ b \in Known
      /\ \A s \in weak : /\ Discovery!Decided(b.decided, s)
                         /\ b.decided[s].fits => Discovery!Home(s)
  BY RefreshDecides
<1>3. /\ decided' = Discovery!Ranked(b.decided) /\ receipt' = b.receipt
      /\ passed' = [s \in Captured |-> IF s \in Discovery!Candidates THEN b.passed[s] ELSE 0]
      /\ wait' = Discovery!Waits(p, refused)
      /\ claim' = [c \in Claiming |-> IF c \in met \ refused THEN "counted" ELSE claim[c]]
      /\ refreshed' = TRUE
      /\ sources' = sources /\ weak' = weak
  BY <1>1
<1>4. refused \subseteq Claiming /\ \A c \in refused : SlotOf[c] \in p
  OBVIOUS
<1> HIDE DEF b
<1>5. Discovery!AreRanks' /\ Discovery!PassedByOthers'
  BY <1>3, PassedHolds DEF b
<1>6. /\ decided' \in [Captured -> Discovery!Verdicts]
      /\ \A s \in Captured : decided'[s].kind = b.decided[s].kind
                             /\ decided'[s].fits = b.decided[s].fits
  BY <1>2, <1>3, RankedHolds DEF Known
<1> HIDE DEF p, refused, met
<1>7. /\ wait' \in [Captured \cup Claiming -> Captured \cup {"no", "unnamed"}]
      /\ Discovery!WaitsAreTheirs' /\ Discovery!WaitsAreJustified'
  <2>1. b.decided \in [Captured -> Discovery!Verdicts]
    BY <1>2 DEF Known
  <2>2. /\ \A s \in weak : Discovery!Decided(b.decided, s)
        /\ \A s \in Captured : decided'[s].kind = b.decided[s].kind
        /\ UNCHANGED <<sources, weak>> /\ p = Discovery!Protected(b.decided)
    BY <1>2, <1>3, <1>6 DEF p
  <2> QED
    BY <1>3, <1>4, <2>1, <2>2, WaitsHold
<1>8. Discovery!TypeOK'
  <2>1. passed' \in [Captured -> Nat]
    <3>1. b.passed \in [Captured -> Nat]
      BY <1>2 DEF Known
    <3> QED
      BY <1>3, <3>1
  <2>2. claim' \in [Claiming -> {"absent", "seen", "counted"}]
    BY <1>3 DEF Discovery!DiscoveryInv, Discovery!TypeOK
  <2>3. receipt' \subseteq Captured
    BY <1>2, <1>3 DEF Known
  <2> QED
    BY <1>3, <1>6, <1>7, <2>1, <2>2, <2>3 DEF Discovery!DiscoveryInv, Discovery!TypeOK
<1>9. Discovery!DecisionsHold'
  <2> SUFFICES ASSUME NEW s \in weak, decided'[s].fits
               PROVE  Discovery!Home(s)' /\ Discovery!Decided(decided, s)'
    BY <1>3 DEF Discovery!DecisionsHold
  <2>1. decided'[s].kind = b.decided[s].kind /\ b.decided[s].fits
    BY <1>6 DEF Discovery!DiscoveryInv, Discovery!TypeOK
  <2> QED
    BY <1>2, <1>3, <2>1 DEF Discovery!Decided, Discovery!Home
<1> QED
  BY <1>5, <1>7, <1>8, <1>9 DEF Discovery!DiscoveryInv

(* Attempts are numbered anew only by a refresh, and weak sources become fewer. *)
LEMMA AttemptsStand ==
  ASSUME Discovery!DiscoveryInv, weak' \subseteq weak,
         \A s \in Captured :
           decided'[s].attempt \in Nat /\ decided'[s].attempt <= Cardinality(Captured),
         \A s \in weak' : decided'[s].attempt = decided[s].attempt /\ passed'[s] = passed[s],
         \A s \in Captured \ weak' : passed'[s] = 0
  PROVE  Discovery!AreRanks' /\ Discovery!PassedByOthers'
<1>1. weak \subseteq Captured
  BY DEF Discovery!DiscoveryInv, Discovery!TypeOK
<1>2. ASSUME NEW s \in Captured
      PROVE  passed'[s] <= Cardinality(Discovery!BehindOrDone(s)')
  <2> DEFINE A == Discovery!BehindOrDone(s)
             B == Discovery!BehindOrDone(s)'
  <2>1. A \in SUBSET Captured /\ B \in SUBSET Captured
    BY DEF Discovery!BehindOrDone
  <2>2. /\ IsFiniteSet(B) /\ Cardinality(A) \in Nat /\ Cardinality(B) \in Nat
    BY <2>1, DiscoveryConstants, FS_Subset, FS_CardinalityType
  <2>3. passed[s] \in Nat /\ passed[s] <= Cardinality(A)
    BY DiscoveryCardinality
       DEF Discovery!DiscoveryInv, Discovery!PassedByOthers, Discovery!TypeOK
  <2>4. CASE s \in weak'
    <3>1. A \subseteq B
      <4> SUFFICES ASSUME NEW u \in A PROVE u \in B
        OBVIOUS
      <4>1. u \notin weak' \/ decided'[u].attempt > decided'[s].attempt
        BY <1>1, <2>4 DEF Discovery!BehindOrDone
      <4> QED
        BY <2>1, <4>1 DEF Discovery!BehindOrDone
    <3>2. Cardinality(A) <= Cardinality(B)
      BY <2>2, <3>1, FS_Subset
    <3> HIDE DEF A, B
    <3> QED
      BY <2>2, <2>3, <2>4, <3>2 DEF B
  <2>5. CASE s \notin weak'
    BY <2>2, <2>5
  <2> QED
    BY <2>4, <2>5
<1> QED
  BY <1>2, DiscoveryCardinality DEF Discovery!AreRanks, Discovery!PassedByOthers

(* Nothing is decided and nobody waits when the ledger has been upgraded. *)
LEMMA DiscoveryInvInit ==
  Discovery!Init => Discovery!DiscoveryInv
<1> SUFFICES ASSUME Discovery!Init PROVE Discovery!DiscoveryInv
  OBVIOUS
<1>0. \A s \in Captured : decided[s] = Discovery!Unexamined
  BY DEF Discovery!Init
<1>1. /\ sources \in [Captured -> Discovery!Files] /\ \A s \in Captured : Discovery!Home(s)
  BY DEF Discovery!Init, Discovery!Home
<1>2. Discovery!TypeOK
  BY <1>1 DEF Discovery!Init, Discovery!TypeOK, Discovery!Verdicts, Discovery!Unexamined
<1>3. Discovery!DecisionsHold
  BY <1>0 DEF Discovery!Init, Discovery!DecisionsHold, Discovery!Unexamined
<1>4. \A s \in Captured : 0 <= Cardinality(Discovery!BehindOrDone(s))
  <2> TAKE s \in Captured
  <2>1. Discovery!BehindOrDone(s) \in SUBSET Captured
    BY DEF Discovery!BehindOrDone
  <2> QED
    BY <2>1, DiscoveryConstants, FS_Subset, FS_CardinalityType
<1>5. Discovery!AreRanks /\ Discovery!PassedByOthers
  BY <1>0, <1>4, DiscoveryConstants, DiscoveryCardinality
     DEF Discovery!Init, Discovery!AreRanks, Discovery!PassedByOthers, Discovery!Unexamined
<1>6. Discovery!WaitsAreTheirs /\ Discovery!WaitsAreJustified
  BY <1>1, DiscoveryAssumption
     DEF Discovery!Init, Discovery!WaitsAreTheirs, Discovery!WaitsAreJustified
<1> QED
  BY <1>2, <1>3, <1>5, <1>6 DEF Discovery!DiscoveryInv

(* A changed file ends what was decided of it; its header stays. *)
LEMMA EditHolds ==
  ASSUME Discovery!DiscoveryInv, NEW s \in Captured, Discovery!Edit(s)
  PROVE  Discovery!DiscoveryInv'
<1> USE DEF Discovery!DiscoveryInv
<1>1. PICK f \in Discovery!Files :
        /\ s \in weak /\ f.inherits = sources[s].inherits
        /\ sources' = [sources EXCEPT ![s] = f]
        /\ decided' = [decided EXCEPT ![s].fits = FALSE]
        /\ receipt' = receipt \ {s}
        /\ refreshed' = FALSE /\ UNCHANGED <<weak, wait, errors, passed, claim>>
  BY DEF Discovery!Edit, Discovery!Change
<1>2. /\ decided \in [Captured -> Discovery!Verdicts] /\ sources \in [Captured -> Discovery!Files]
      /\ \A t \in weak : t \in Captured
  BY DEF Discovery!TypeOK
<1>3. /\ decided' \in [Captured -> Discovery!Verdicts]
      /\ \A t \in Captured : decided'[t].attempt = decided[t].attempt
      /\ decided'[s].fits = FALSE /\ \A t \in Captured : t # s => decided'[t] = decided[t]
  BY <1>1, <1>2 DEF Discovery!Verdicts
<1>4. /\ sources' \in [Captured -> Discovery!Files]
      /\ \A t \in Captured : t # s => sources'[t] = sources[t]
      /\ \A t \in Captured : sources'[t].inherits = sources[t].inherits
  BY <1>1, <1>2
<1>5. Discovery!TypeOK'
  BY <1>1, <1>3, <1>4 DEF Discovery!TypeOK
<1>6. Discovery!DecisionsHold'
  <2> SUFFICES ASSUME NEW t \in weak, decided'[t].fits
               PROVE  Discovery!Home(t)' /\ Discovery!Decided(decided, t)'
    BY <1>1 DEF Discovery!DecisionsHold
  <2>1. t # s /\ t \in Captured
    BY <1>2, <1>3
  <2> QED
    BY <1>3, <1>4, <2>1 DEF Discovery!DecisionsHold, Discovery!Decided, Discovery!Home
<1>7. Discovery!AreRanks' /\ Discovery!PassedByOthers'
  <2>1. \A t \in Captured :
          decided[t].attempt \in Nat /\ decided[t].attempt <= Cardinality(Captured)
    BY <1>2, DiscoveryCardinality DEF Discovery!AreRanks, Discovery!Verdicts
  <2>2. \A t \in Captured \ weak : passed[t] = 0
    BY DEF Discovery!PassedByOthers
  <2> QED
    BY <1>1, <1>2, <1>3, <2>1, <2>2, AttemptsStand
<1>8. Discovery!WaitsAreTheirs'
  BY <1>1, <1>2, <1>4 DEF Discovery!WaitsAreTheirs, Discovery!Home
<1> QED
  BY <1>1, <1>5, <1>6, <1>7, <1>8 DEF Discovery!WaitsAreJustified

(* A source that was rebuilt is weak no more. *)
LEMMA RebuildHolds ==
  ASSUME Discovery!DiscoveryInv, NEW s \in Captured, Discovery!Rebuild(s)
  PROVE  Discovery!DiscoveryInv'
<1> USE DEF Discovery!DiscoveryInv
<1>1. /\ weak' = weak \ {s} /\ receipt' = receipt \ {s}
      /\ sources' = [sources EXCEPT ![s].place = "home", ![s].edited = FALSE]
      /\ passed' = [passed EXCEPT ![s] = 0]
      /\ decided' = [decided EXCEPT ![s] = Discovery!Unexamined]
      /\ refreshed' = FALSE
      /\ UNCHANGED <<wait, claim>>
  BY DEF Discovery!Rebuild
<1>2. /\ decided \in [Captured -> Discovery!Verdicts] /\ sources \in [Captured -> Discovery!Files]
      /\ passed \in [Captured -> Nat] /\ weak \subseteq Captured
  BY DEF Discovery!TypeOK
<1>3. Discovery!Unexamined \in Discovery!Verdicts /\ Discovery!Unexamined.attempt = 0
  BY DEF Discovery!Verdicts, Discovery!Unexamined
<1>4. /\ sources' \in [Captured -> Discovery!Files] /\ sources'[s].place = "home"
      /\ \A t \in Captured : t # s => sources'[t] = sources[t]
  BY <1>1, <1>2 DEF Discovery!Files
<1>5. /\ decided' \in [Captured -> Discovery!Verdicts] /\ passed' \in [Captured -> Nat]
      /\ \A t \in Captured : t # s => decided'[t] = decided[t] /\ passed'[t] = passed[t]
      /\ decided'[s].attempt = 0 /\ passed'[s] = 0
  BY <1>1, <1>2, <1>3
<1>6. Discovery!TypeOK'
  BY <1>1, <1>4, <1>5 DEF Discovery!TypeOK
<1>7. Discovery!DecisionsHold'
  BY <1>1, <1>2, <1>4, <1>5 DEF Discovery!DecisionsHold, Discovery!Decided, Discovery!Home
<1>8. Discovery!AreRanks' /\ Discovery!PassedByOthers'
  <2>1. \A t \in Captured :
          decided[t].attempt \in Nat /\ decided[t].attempt <= Cardinality(Captured)
    BY <1>2, DiscoveryCardinality DEF Discovery!AreRanks, Discovery!Verdicts
  <2>2. \A t \in Captured \ weak : passed[t] = 0
    BY DEF Discovery!PassedByOthers
  <2>3. \A t \in Captured : decided'[t].attempt \in Nat
                            /\ decided'[t].attempt <= Cardinality(Captured)
    BY <1>5, <2>1, DiscoveryConstants
  <2>4. \A t \in Captured \ weak' : passed'[t] = 0
    BY <1>1, <1>5, <2>2
  <2> QED
    BY <1>1, <1>2, <1>5, <2>3, <2>4, AttemptsStand
<1>9. Discovery!WaitsAreTheirs'
  BY <1>1, <1>2, <1>4 DEF Discovery!WaitsAreTheirs, Discovery!Home
<1> QED
  BY <1>1, <1>6, <1>7, <1>8, <1>9 DEF Discovery!WaitsAreJustified

(* Every step keeps the invariant. *)
LEMMA DiscoveryInvStep ==
  ASSUME Discovery!DiscoveryInv, [Discovery!Next]_(Discovery!vars)
  PROVE  Discovery!DiscoveryInv'
<1>1. ASSUME NEW c \in Claiming, Discovery!Appear(c)
      PROVE  Discovery!DiscoveryInv'
  <2>1. /\ claim' = [claim EXCEPT ![c] = "seen"] /\ refreshed' = FALSE
        /\ UNCHANGED <<sources, weak, decided, receipt, wait, passed>>
    BY <1>1 DEF Discovery!Appear, Discovery!Change
  <2> QED
    BY <2>1 DEF Discovery!DiscoveryInv, Discovery!TypeOK, Discovery!DecisionsHold,
       Discovery!Decided, Discovery!Home, Discovery!AreRanks, Discovery!PassedByOthers,
       Discovery!BehindOrDone, Discovery!WaitsAreTheirs, Discovery!WaitsAreJustified
<1>2. CASE UNCHANGED Discovery!vars
  BY <1>2 DEF Discovery!vars, Discovery!DiscoveryInv, Discovery!TypeOK, Discovery!DecisionsHold,
     Discovery!Decided, Discovery!Home, Discovery!AreRanks, Discovery!PassedByOthers,
     Discovery!BehindOrDone, Discovery!WaitsAreTheirs, Discovery!WaitsAreJustified,
     Discovery!Protected
<1> QED
  BY <1>1, <1>2, RefreshHolds, EditHolds, RebuildHolds DEF Discovery!Next

(* There are fewer others than sources. *)
LEMMA NobodyStarvesHolds ==
  ASSUME Discovery!DiscoveryInv
  PROVE  Discovery!NobodyStarves
<1> SUFFICES ASSUME NEW s \in Captured
             PROVE  passed[s] < Cardinality(Captured)
  BY DiscoveryCardinality DEF Discovery!NobodyStarves
<1> DEFINE A == Discovery!BehindOrDone(s)
<1>1. A \in SUBSET Captured /\ s \notin A
  BY DEF Discovery!BehindOrDone
<1>2. Cardinality(A) <= Cardinality(Captured) /\ Cardinality(A) # Cardinality(Captured)
  BY <1>1, DiscoveryConstants, FS_Subset
<1>3. Cardinality(A) \in Nat /\ Cardinality(Captured) \in Nat
  BY <1>1, DiscoveryConstants, FS_Subset, FS_CardinalityType
<1>4. passed[s] \in Nat /\ passed[s] <= Cardinality(A)
  BY DiscoveryCardinality DEF Discovery!DiscoveryInv, Discovery!TypeOK, Discovery!PassedByOthers
<1> HIDE DEF A
<1> QED
  BY <1>2, <1>3, <1>4

(* What a refresh counts in the place of a weak capture it counts after it *)
(* has read that the capture inherits nothing.                             *)
LEMMA ReplacesNothingStep ==
  ASSUME Discovery!DiscoveryInv, [Discovery!Next]_(Discovery!vars)
  PROVE  Discovery!ReplacesNothing
<1> SUFFICES ASSUME NEW c \in Claiming, claim[c] = "seen", claim'[c] = "counted",
                    SlotOf[c] \in weak
             PROVE  /\ Discovery!Home(SlotOf[c]) /\ sources[SlotOf[c]].readable
                    /\ ~sources[SlotOf[c]].inherits
  BY DEF Discovery!ReplacesNothing
<1>1. claim \in [Claiming -> {"absent", "seen", "counted"}]
  BY DEF Discovery!DiscoveryInv, Discovery!TypeOK
<1>2. Discovery!Refresh
  <2>1. ASSUME NEW d \in Claiming, Discovery!Appear(d) PROVE FALSE
    BY <1>1, <2>1 DEF Discovery!Appear
  <2> QED
    BY <2>1 DEF Discovery!Next, Discovery!vars, Discovery!Edit, Discovery!Rebuild
<1>3. PICK q \in Discovery!Orders, parsed \in SUBSET {d \in Claiming : claim[d] = "seen"} :
        LET b == Discovery!Decisions(q)[Len(q)]
            p == Discovery!Protected(b.decided)
            met == parsed \ Discovery!Blocked(p)
            refused == {d \in met : SlotOf[d] \in p}
        IN claim' = [d \in Claiming |-> IF d \in met \ refused THEN "counted" ELSE claim[d]]
  BY <1>2 DEF Discovery!Refresh
<1> DEFINE b == Discovery!Decisions(q)[Len(q)]
<1>4. SlotOf[c] \notin Discovery!Protected(b.decided)
  BY <1>3
<1>5. \A s \in weak : Discovery!Decided(b.decided, s)
  BY RefreshDecides
<1> HIDE DEF b
<1> QED
  BY <1>4, <1>5 DEF Discovery!Protected, Discovery!Decided

-----------------------------------------------------------------------------
(***************************************************************************)
(* Which file of a session is counted (SourceOwnership).                   *)
(***************************************************************************)

(* The files of a session are in a strict order: a set of them has a best. *)
LEMMA BestIsFirst ==
  ASSUME NEW f, NEW ps \in SUBSET (1 .. MaxPath), ps # {}, NEW top \in Nat,
         \A p \in ps : f[p].mtime \in Nat /\ f[p].mtime <= top
  PROVE  /\ Ownership!Best(f, ps) \in ps
         /\ \A q \in ps \ {Ownership!Best(f, ps)} : Ownership!Before(f, Ownership!Best(f, ps), q)
<1>1. \A p \in ps : p \in Nat /\ DirectoryOf[p] \in Nat
  BY OwnershipAssumption
<1>2. PICK d \in {DirectoryOf[p] : p \in ps} : \A u \in {DirectoryOf[p] : p \in ps} : d <= u
  <2>1. {DirectoryOf[p] : p \in ps} \subseteq Nat /\ {DirectoryOf[p] : p \in ps} # {}
    BY <1>1
  <2> QED
    BY <2>1, LeastNumber
<1> DEFINE inDirectory == {p \in ps : DirectoryOf[p] = d}
           ages == {top - f[p].mtime : p \in inDirectory}
<1>3. PICK t \in ages : \A u \in ages : t <= u
  <2>1. ages \subseteq Nat /\ ages # {}
    BY <1>2
  <2> HIDE DEF ages
  <2> QED
    BY <2>1, LeastNumber
<1> DEFINE newest == {p \in inDirectory : top - f[p].mtime = t}
<1>4. PICK p \in newest : \A u \in newest : p <= u
  <2>1. newest \subseteq Nat /\ newest # {}
    BY <1>1, <1>3
  <2> HIDE DEF newest
  <2> QED
    BY <2>1, LeastNumber
<1>5. ASSUME NEW q \in ps \ {p}
      PROVE  Ownership!Before(f, p, q)
  <2>1. p \in ps /\ DirectoryOf[p] = d /\ top - f[p].mtime = t
    BY <1>4
  <2>2. d <= DirectoryOf[q] /\ d \in Nat /\ DirectoryOf[q] \in Nat
    BY <1>1, <1>2
  <2>3. CASE DirectoryOf[q] # d
    BY <2>1, <2>2, <2>3 DEF Ownership!Before, Directory
  <2>4. CASE DirectoryOf[q] = d
    <3>1. t <= top - f[q].mtime
      BY <1>3, <2>4
    <3>2. top - f[q].mtime = t => p < q
      BY <1>1, <1>4, <2>4
    <3> QED
      BY <2>1, <2>4, <3>1, <3>2 DEF Ownership!Before, Directory
  <2> QED
    BY <2>3, <2>4
<1>6. p \in ps
  BY <1>4
<1>7. \E o \in ps : \A q \in ps \ {o} : Ownership!Before(f, o, q)
  BY <1>5, <1>6
<1>8. Ownership!Best(f, ps) = CHOOSE o \in ps : \A q \in ps \ {o} : Ownership!Before(f, o, q)
  BY DEF Ownership!Best
<1> QED
  BY <1>7, <1>8, Zenon

(* Of two files one comes first.                                           *)
LEMMA BeforeIsStrict ==
  ASSUME NEW f, NEW p \in 1 .. MaxPath, NEW q \in 1 .. MaxPath,
         f[p].mtime \in Nat, f[q].mtime \in Nat, Ownership!Before(f, p, q)
  PROVE  ~Ownership!Before(f, q, p)
BY OwnershipAssumption DEF Ownership!Before, Directory

(* A bounded set of numbers that is not empty has a greatest one. *)
LEMMA GreatestNumber ==
  ASSUME NEW S, S \subseteq Nat, S # {}, NEW top \in Nat, \A u \in S : u <= top
  PROVE  \E t \in S : \A u \in S : u <= t
<1>0. \A u \in S : top - u \in Nat
  OBVIOUS
<1>1. {top - u : u \in S} \subseteq Nat /\ {top - u : u \in S} # {}
  BY <1>0
<1>2. PICK d \in {top - u : u \in S} : \A e \in {top - u : u \in S} : d <= e
  BY <1>1, LeastNumber
<1>3. PICK t \in S : d = top - t
  BY <1>2
<1>4. ASSUME NEW u \in S PROVE u <= t
  <2>1. top - t <= top - u
    BY <1>2, <1>3
  <2>2. u \in Nat /\ t \in Nat
    BY <1>3
  <2> QED
    BY <2>1, <2>2
<1> QED
  BY <1>3, <1>4

LEMMA MaxIsLast ==
  ASSUME NEW ps \in SUBSET (1 .. MaxPath), ps # {}
  PROVE  Ownership!Max(ps) \in ps
<1>1. MaxPath \in Nat /\ ps \subseteq Nat /\ \A p \in ps : p <= MaxPath
  BY OwnershipAssumption
<1>2. PICK p \in ps : \A q \in ps : q <= p
  BY <1>1, GreatestNumber
<1>3. \A q \in ps : p >= q
  BY <1>1, <1>2
<1> QED
  BY <1>3 DEF Ownership!Max

(* What the workers return, and what a commit knows on its way. *)
Answers == [kind : {"error", "stale"}] \cup [kind : {"append", "full"}, gen : Ownership!Gens]

InHand(results) ==
  refresh # None /\ Ownership!OwnershipInv /\ results \in [DOMAIN refresh.asked -> Answers]

Wholes(results) == {p \in DOMAIN refresh.asked : results[p].kind = "full"}
WinnerOf(results) == Ownership!Best(refresh.seen, Wholes(results))

Filings == [row : [Ownership!SourceKeys -> Ownership!Rows \cup {None}],
            key : [DOMAIN refresh.key -> Ownership!SourceKeys],
            named : SUBSET (1 .. MaxPath)]

OwnerIsKept(st, done) ==
  (\E q \in DOMAIN refresh.key : st.key[q] = SessionKey) =>
    \A p \in DOMAIN refresh.asked \ done :
      st.row[SessionKey].path = p => st.key[p] = SessionKey /\ p \notin st.named

Kept(st, done) ==
  /\ st \in Filings
  /\ \A p \in 1 .. MaxPath : st.row[p] # None => st.row[p].path = p
  /\ \A q \in DOMAIN refresh.key : st.key[q] \in {q, SessionKey} /\ st.row[st.key[q]] # None
  /\ OwnerIsKept(st, done)

(* The session is counted, or its key is free and the winner is to come. *)
Counted(results, st, done) ==
  \/ Ownership!Parsed(st.row[SessionKey])
  \/ /\ WinnerOf(results) \in Wholes(results) \ done
     /\ \A q \in DOMAIN refresh.key : st.key[q] # SessionKey

(* What a commit may rest on: the types of what the refresh has seen.      *)
LEMMA InHandFacts ==
  ASSUME NEW results, InHand(results)
  PROVE  /\ DOMAIN refresh.key \subseteq 1 .. MaxPath
         /\ DOMAIN refresh.asked \subseteq DOMAIN refresh.key
         /\ copyChanges \in Nat /\ SessionKey \notin 1 .. MaxPath
         /\ Ownership!SourceKeys = (1 .. MaxPath) \cup {SessionKey}
         /\ \A p \in DOMAIN refresh.key :
              /\ refresh.seen[p].size \in Nat
              /\ refresh.seen[p].mtime \in Nat /\ refresh.seen[p].mtime <= copyChanges
         /\ \A p \in DOMAIN refresh.asked :
              /\ results[p].kind \in {"error", "stale", "append", "full"}
              /\ results[p].kind \in {"append", "full"} => results[p].gen \in Ownership!Gens
<1>1. PICK ps \in SUBSET (1 .. MaxPath) :
        /\ refresh.key \in [ps -> Ownership!SourceKeys]
        /\ \A p \in ps : refresh.seen[p] # None
        /\ \E qs \in SUBSET ps : refresh.asked \in [qs -> Ownership!Requests]
  <2>1. refresh # None /\ Ownership!RefreshTypeOK
    BY DEF InHand, Ownership!OwnershipInv, Ownership!TypeOK
  <2> QED
    BY <2>1 DEF Ownership!RefreshTypeOK
<1>2. refresh.seen \in [1 .. MaxPath -> Ownership!Stats \cup {None}]
  BY DEF InHand, Ownership!OwnershipInv, Ownership!TypeOK, Ownership!RefreshTypeOK
<1>3. \A p \in DOMAIN refresh.key :
              /\ refresh.seen[p].size \in Nat
              /\ refresh.seen[p].mtime \in Nat /\ refresh.seen[p].mtime <= copyChanges
  <2> SUFFICES ASSUME NEW p \in DOMAIN refresh.key
               PROVE  /\ refresh.seen[p].size \in Nat
                      /\ refresh.seen[p].mtime \in Nat /\ refresh.seen[p].mtime <= copyChanges
    OBVIOUS
  <2>1. refresh.seen[p] \in Ownership!Stats
    BY <1>1, <1>2
  <2> QED
    BY <2>1 DEF Ownership!Stats, InHand, Ownership!OwnershipInv, Ownership!DatedByChanges
<1>4. /\ copyChanges \in Nat /\ SessionKey \notin 1 .. MaxPath
      /\ Ownership!SourceKeys = (1 .. MaxPath) \cup {SessionKey}
  BY OwnershipAssumption DEF InHand, Ownership!OwnershipInv, Ownership!TypeOK, Ownership!SourceKeys
<1>5. \A p \in DOMAIN refresh.asked :
        /\ results[p].kind \in {"error", "stale", "append", "full"}
        /\ results[p].kind \in {"append", "full"} => results[p].gen \in Ownership!Gens
  <2>1. \A a \in Answers : /\ a.kind \in {"error", "stale", "append", "full"}
                           /\ a.kind \in {"append", "full"} => a.gen \in Ownership!Gens
    BY DEF Answers
  <2> QED
    BY <2>1 DEF InHand
<1> QED
  BY <1>1, <1>3, <1>4, <1>5

(* A row that is written says what was seen of its file.                   *)
LEMMA SeenRows ==
  ASSUME NEW results, InHand(results), NEW p \in DOMAIN refresh.key, NEW e \in BOOLEAN,
         NEW g \in Ownership!Gens \cup {None}, NEW r, r = Ownership!SeenRow(p, e, g)
  PROVE  r \in Ownership!Rows /\ r # None /\ r.path = p /\ r.gen = g /\ r.error = e
<1>1. r \in Ownership!Rows
  BY InHandFacts DEF Ownership!SeenRow, Ownership!Rows
<1> QED
  BY <1>1, OwnershipAssumption DEF Ownership!SeenRow

(* A file that could not be read: a row goes on saying what it said. *)
LEMMA ErrorHolds ==
  ASSUME NEW results, InHand(results), NEW st, NEW done, Kept(st, done),
         NEW p \in DOMAIN refresh.asked \ done, results[p].kind = "error",
         NEW c, c = Ownership!WithError(st, p, results)
  PROVE  /\ Kept(c, done \cup {p})
         /\ Counted(results, st, done) => Counted(results, c, done \cup {p})
<1> DEFINE lost == /\ st.key[p] = SessionKey /\ p \notin refresh.named
                   /\ \E q \in DOMAIN results : results[q].kind \in {"append", "full"}
           k == IF lost THEN p ELSE st.key[p]
           r == IF st.row[k] = None THEN Ownership!SeenRow(p, TRUE, None)
                ELSE [st.row[k] EXCEPT !.missing = FALSE, !.error = TRUE]
           keys == [st.key EXCEPT ![p] = k]
           rows == [st.row EXCEPT ![k] = r]
<1>1. /\ p \in DOMAIN refresh.key /\ p \in 1 .. MaxPath /\ p # SessionKey
      /\ Ownership!SourceKeys = (1 .. MaxPath) \cup {SessionKey}
  BY InHandFacts
<1>2. /\ st.row \in [Ownership!SourceKeys -> Ownership!Rows \cup {None}]
      /\ st.key \in [DOMAIN refresh.key -> Ownership!SourceKeys]
      /\ st.named \in SUBSET (1 .. MaxPath)
      /\ \A q \in DOMAIN refresh.key : st.key[q] \in {q, SessionKey} /\ st.row[st.key[q]] # None
      /\ \A q \in 1 .. MaxPath : st.row[q] # None => st.row[q].path = q
  BY DEF Kept, Filings
<1>3. /\ k \in {p, SessionKey} /\ k \in Ownership!SourceKeys
      /\ k = SessionKey => st.key[p] = SessionKey /\ st.row[SessionKey] # None
  BY <1>1, <1>2
<1>4. /\ r \in Ownership!Rows /\ r # None
      /\ st.row[k] = None => k = p /\ r.path = p
      /\ st.row[k] # None => r.path = st.row[k].path /\ r.gen = st.row[k].gen
  <2>1. CASE st.row[k] = None
    <3>1. r = Ownership!SeenRow(p, TRUE, None) /\ k = p
      BY <1>3, <2>1
    <3> HIDE DEF r, k
    <3>2. None \in Ownership!Gens \cup {None} /\ TRUE \in BOOLEAN
      OBVIOUS
    <3>3. r \in Ownership!Rows /\ r # None /\ r.path = p
      BY <1>1, <3>1, <3>2, SeenRows
    <3> QED
      BY <2>1, <3>1, <3>3
  <2>2. CASE st.row[k] # None
    <3>1. st.row[k] \in Ownership!Rows
      BY <1>2, <1>3, <2>2
    <3>2. r = [st.row[k] EXCEPT !.missing = FALSE, !.error = TRUE]
      BY <2>2
    <3> HIDE DEF r
    <3>3. r \in Ownership!Rows /\ r.path = st.row[k].path /\ r.gen = st.row[k].gen
      <4> DEFINE old == st.row[k]
      <4>1. r = [path |-> old.path, size |-> old.size, mtime |-> old.mtime, missing |-> FALSE,
                 error |-> TRUE, gen |-> old.gen]
        BY <3>1, <3>2 DEF Ownership!Rows
      <4> HIDE DEF old
      <4>2. old \in Ownership!Rows
        BY <3>1 DEF old
      <4> QED
        BY <4>1, <4>2 DEF Ownership!Rows, old
    <3> QED
      BY <2>2, <3>3, OwnershipAssumption
  <2> QED
    BY <2>1, <2>2
<1>5. c = [st EXCEPT !.key = keys, !.row = rows]
  BY <1>2 DEF Ownership!WithError
<1> HIDE DEF r, k
<1>6. keys \in [DOMAIN refresh.key -> Ownership!SourceKeys]
      /\ rows \in [Ownership!SourceKeys -> Ownership!Rows \cup {None}]
  BY <1>1, <1>2, <1>3, <1>4
<1>7. c \in Filings /\ c.key = keys /\ c.row = rows /\ c.named = st.named
  <2> HIDE DEF keys, rows
  <2>1. st \in Filings
    BY DEF Kept
  <2> QED
    BY <1>5, <1>6, <2>1 DEF Filings
<1>8. /\ \A q \in 1 .. MaxPath : c.row[q] # None => c.row[q].path = q
      /\ \A q \in DOMAIN refresh.key : c.key[q] \in {q, SessionKey} /\ c.row[c.key[q]] # None
  BY <1>1, <1>2, <1>3, <1>4, <1>7
<1>9. OwnerIsKept(c, done \cup {p})
  BY <1>1, <1>2, <1>3, <1>4, <1>7 DEF Kept, OwnerIsKept
<1>10. ASSUME Counted(results, st, done)
       PROVE  Counted(results, c, done \cup {p})
  <2>1. CASE Ownership!Parsed(st.row[SessionKey])
    BY <1>1, <1>2, <1>3, <1>4, <1>7, <2>1 DEF Counted, Ownership!Parsed
  <2>2. CASE ~Ownership!Parsed(st.row[SessionKey])
    BY <1>1, <1>2, <1>3, <1>7, <1>10, <2>2 DEF Counted, Wholes
  <2> QED
    BY <2>1, <2>2
<1> QED
  BY <1>7, <1>8, <1>9, <1>10 DEF Kept

(* A file whose row is written again: it goes on counting what was counted. *)
LEMMA FiledHolds ==
  ASSUME NEW results, InHand(results), NEW st, NEW done, Kept(st, done),
         NEW p \in DOMAIN refresh.asked \ done, results[p].kind # "full",
         NEW e \in BOOLEAN, NEW g \in Ownership!Gens \cup {None},
         Ownership!Parsed(st.row[st.key[p]]) => g # None,
         NEW c, c = [st EXCEPT !.row[st.key[p]] = Ownership!SeenRow(p, e, g)]
  PROVE  /\ Kept(c, done \cup {p})
         /\ Counted(results, st, done) => Counted(results, c, done \cup {p})
<1> DEFINE k == st.key[p]
           r == Ownership!SeenRow(p, e, g)
           rows == [st.row EXCEPT ![k] = r]
<1>1. /\ p \in DOMAIN refresh.key /\ p \in 1 .. MaxPath /\ SessionKey \notin 1 .. MaxPath
      /\ Ownership!SourceKeys = (1 .. MaxPath) \cup {SessionKey}
  BY InHandFacts
<1>2. /\ st.row \in [Ownership!SourceKeys -> Ownership!Rows \cup {None}]
      /\ st.key \in [DOMAIN refresh.key -> Ownership!SourceKeys]
      /\ \A q \in DOMAIN refresh.key : st.key[q] \in {q, SessionKey} /\ st.row[st.key[q]] # None
      /\ \A q \in 1 .. MaxPath : st.row[q] # None => st.row[q].path = q
  BY DEF Kept, Filings
<1>3. k \in {p, SessionKey} /\ k \in Ownership!SourceKeys /\ k = st.key[p]
  BY <1>1, <1>2
<1>4. r \in Ownership!Rows /\ r # None /\ r.path = p /\ r.gen = g
  <2> HIDE DEF r
  <2>1. r = Ownership!SeenRow(p, e, g)
    BY DEF r
  <2> QED
    BY <1>1, <2>1, SeenRows
<1>5. c = [st EXCEPT !.row = rows]
  BY <1>2
<1>6. Ownership!Parsed(st.row[k]) => g # None
  OBVIOUS
<1> HIDE DEF r, k
<1>7. rows \in [Ownership!SourceKeys -> Ownership!Rows \cup {None}]
  BY <1>2, <1>3, <1>4
<1>8. c \in Filings /\ c.key = st.key /\ c.row = rows /\ c.named = st.named
  <2> HIDE DEF rows
  <2>1. st \in Filings
    BY DEF Kept
  <2> QED
    BY <1>5, <1>7, <2>1 DEF Filings
<1>a. \A a \in Ownership!SourceKeys : c.row[a] = IF a = k THEN r ELSE st.row[a]
  BY <1>2, <1>8
<1> HIDE DEF rows
<1>9. /\ \A q \in 1 .. MaxPath : c.row[q] # None => c.row[q].path = q
      /\ \A q \in DOMAIN refresh.key : c.key[q] \in {q, SessionKey} /\ c.row[c.key[q]] # None
  <2>1. \A q \in 1 .. MaxPath : c.row[q] # None => c.row[q].path = q
    BY <1>1, <1>2, <1>3, <1>4, <1>a
  <2>2. \A q \in DOMAIN refresh.key : c.key[q] \in {q, SessionKey} /\ c.row[c.key[q]] # None
    BY <1>2, <1>3, <1>4, <1>8, <1>a
  <2> QED
    BY <2>1, <2>2
<1>10. OwnerIsKept(c, done \cup {p})
  BY <1>1, <1>2, <1>3, <1>4, <1>8, <1>a DEF Kept, OwnerIsKept
<1>11. ASSUME Counted(results, st, done)
       PROVE  Counted(results, c, done \cup {p})
  <2>1. CASE Ownership!Parsed(st.row[SessionKey])
    BY <1>1, <1>2, <1>3, <1>4, <1>6, <1>8, <1>a, <2>1 DEF Counted, Ownership!Parsed
  <2>2. CASE ~Ownership!Parsed(st.row[SessionKey])
    BY <1>1, <1>2, <1>3, <1>8, <1>11, <1>a, <2>2 DEF Counted, Wholes
  <2> QED
    BY <2>1, <2>2
<1> QED
  BY <1>8, <1>9, <1>10, <1>11 DEF Kept

(* A file that waits for a rebuild keeps its generation.                   *)
LEMMA StaleHolds ==
  ASSUME NEW results, InHand(results), NEW st, NEW done, Kept(st, done),
         NEW p \in DOMAIN refresh.asked \ done, results[p].kind = "stale",
         NEW c, c = Ownership!WithStale(st, p)
  PROVE  /\ Kept(c, done \cup {p})
         /\ Counted(results, st, done) => Counted(results, c, done \cup {p})
<1> DEFINE g == st.row[st.key[p]].gen
<1>1. g \in Ownership!Gens \cup {None}
  <2>1. p \in DOMAIN refresh.key
    BY InHandFacts
  <2>2. st.row[st.key[p]] \in Ownership!Rows
    BY <2>1 DEF Kept, Filings
  <2> QED
    BY <2>2 DEF Ownership!Rows
<1>2. c = [st EXCEPT !.row[st.key[p]] = Ownership!SeenRow(p, TRUE, g)]
  BY DEF Ownership!WithStale
<1>3. Ownership!Parsed(st.row[st.key[p]]) => g # None
  BY DEF Ownership!Parsed
<1> HIDE DEF g
<1>4. results[p].kind # "full" /\ TRUE \in BOOLEAN
  OBVIOUS
<1> QED
  BY <1>1, <1>2, <1>3, <1>4, FiledHolds

(* A file that was read on.                                                *)
LEMMA AppendHolds ==
  ASSUME NEW results, InHand(results), NEW st, NEW done, Kept(st, done),
         NEW p \in DOMAIN refresh.asked \ done, results[p].kind = "append",
         NEW c, c = Ownership!WithAppend(st, p, results[p].gen)
  PROVE  /\ Kept(c, done \cup {p})
         /\ Counted(results, st, done) => Counted(results, c, done \cup {p})
<1> DEFINE g == results[p].gen
<1>1. g \in Ownership!Gens
  BY InHandFacts
<1>2. c = [st EXCEPT !.row[st.key[p]] = Ownership!SeenRow(p, FALSE, g)]
  BY DEF Ownership!WithAppend
<1> HIDE DEF g
<1>3. g \in Ownership!Gens \cup {None} /\ g # None /\ FALSE \in BOOLEAN
  BY <1>1, OwnershipAssumption
<1>4. results[p].kind # "full"
  OBVIOUS
<1> QED
  BY <1>2, <1>3, <1>4, FiledHolds

(* What is known of a row that was replaced. *)
HasReplaced(st, p, k, g, c) ==
  /\ c \in Filings
  /\ c.key = [st.key EXCEPT ![p] = k]
  /\ c.named = IF k = SessionKey THEN st.named ELSE st.named \ {p}
  /\ c.row[k] # None /\ c.row[k].path = p /\ c.row[k].gen = g
  /\ \A a \in Ownership!SourceKeys \ {k} :
       c.row[a] = IF st.row[a] # None /\ st.row[a].path = p THEN None ELSE st.row[a]
  /\ \A q \in 1 .. MaxPath : c.row[q] # None => c.row[q].path = q

OfTheirPath(rows) == \A q \in 1 .. MaxPath : rows[q] # None => rows[q].path = q

(* A generation replaces a row and ends the other rows of its file. *)
LEMMA ReplacedRows ==
  ASSUME NEW results, InHand(results), NEW st \in Filings,
         OfTheirPath(st.row),
         NEW p \in DOMAIN refresh.asked, NEW k \in {p, SessionKey}, NEW g \in Ownership!Gens,
         NEW c, c = Ownership!Replaced(st, p, k, g)
  PROVE  HasReplaced(st, p, k, g, c)
<1> DEFINE others == {a \in Ownership!SourceKeys \ {k} : st.row[a] # None /\ st.row[a].path = p}
           r == Ownership!SeenRow(p, FALSE, g)
           keys == [st.key EXCEPT ![p] = k]
           names == IF k = SessionKey THEN st.named ELSE st.named \ {p}
           rows == [a \in Ownership!SourceKeys |-> CASE a = k -> r
                                                     [] a \in others -> None
                                                     [] OTHER -> st.row[a]]
<1>1. /\ p \in DOMAIN refresh.key /\ p \in 1 .. MaxPath /\ SessionKey \notin 1 .. MaxPath
      /\ Ownership!SourceKeys = (1 .. MaxPath) \cup {SessionKey}
  BY InHandFacts
<1>2. /\ st.row \in [Ownership!SourceKeys -> Ownership!Rows \cup {None}]
      /\ st.key \in [DOMAIN refresh.key -> Ownership!SourceKeys]
      /\ st.named \in SUBSET (1 .. MaxPath)
  BY DEF Filings
<1>3. r \in Ownership!Rows /\ r # None /\ r.path = p /\ r.gen = g
  <2> HIDE DEF r
  <2> DEFINE e == FALSE
  <2>1. r = Ownership!SeenRow(p, e, g)
    BY DEF r
  <2>2. e \in BOOLEAN
    OBVIOUS
  <2> HIDE DEF e
  <2>3. g \in Ownership!Gens \cup {None}
    OBVIOUS
  <2>4. p \in DOMAIN refresh.key
    BY <1>1
  <2>5. r \in Ownership!Rows /\ r # None /\ r.path = p /\ r.gen = g /\ r.error = e
    BY <2>1, <2>2, <2>3, <2>4, SeenRows
  <2> QED
    BY <2>5
<1>4. c = [st EXCEPT !.key = keys, !.named = names, !.row = rows]
  BY <1>2 DEF Ownership!Replaced
<1> HIDE DEF r
<1>5. k \in Ownership!SourceKeys /\ k \notin others
  BY <1>1
<1> HIDE DEF others
<1>6. \A a \in Ownership!SourceKeys :
        rows[a] = IF a = k THEN r ELSE IF a \in others THEN None ELSE st.row[a]
  BY <1>5
<1>7. rows \in [Ownership!SourceKeys -> Ownership!Rows \cup {None}]
      /\ keys \in [DOMAIN refresh.key -> Ownership!SourceKeys]
      /\ names \in SUBSET (1 .. MaxPath)
  BY <1>1, <1>2, <1>3, <1>5
<1>8. c \in Filings /\ c.key = keys /\ c.row = rows /\ c.named = names
  <2> HIDE DEF keys, rows, names
  <2> QED
    BY <1>4, <1>7 DEF Filings
<1> HIDE DEF rows
<1>9. \A q \in 1 .. MaxPath : rows[q] # None => rows[q].path = q
  BY <1>1, <1>3, <1>6 DEF OfTheirPath
<1>10. \A a \in Ownership!SourceKeys \ {k} :
         c.row[a] = IF st.row[a] # None /\ st.row[a].path = p THEN None ELSE st.row[a]
  BY <1>6, <1>8 DEF others
<1>11. c.row[k] # None /\ c.row[k].path = p /\ c.row[k].gen = g
  BY <1>3, <1>5, <1>6, <1>8
<1>12. /\ c.key = [st.key EXCEPT ![p] = k]
       /\ c.named = IF k = SessionKey THEN st.named ELSE st.named \ {p}
  BY <1>8
<1>13. \A q \in 1 .. MaxPath : c.row[q] # None => c.row[q].path = q
  BY <1>8, <1>9
<1> QED
  BY <1>8, <1>10, <1>11, <1>12, <1>13 DEF HasReplaced

(* A file that does not take the session's key keeps the one it has. *)
LEMMA FallbackHolds ==
  ASSUME NEW results, InHand(results), NEW st, NEW done, Kept(st, done),
         NEW p \in DOMAIN refresh.asked \ done, NEW g \in Ownership!Gens,
         WinnerOf(results) \in Wholes(results),
         p # WinnerOf(results) => WinnerOf(results) \notin done,
         p = WinnerOf(results) => \E q \in DOMAIN refresh.key : st.key[q] = SessionKey,
         NEW c, c = Ownership!Replaced(st, p, Ownership!Fallback(st, p), g)
  PROVE  /\ Kept(c, done \cup {p})
         /\ Counted(results, st, done) => Counted(results, c, done \cup {p})
<1> DEFINE k == Ownership!Fallback(st, p)
<1>1. /\ p \in DOMAIN refresh.key /\ p \in 1 .. MaxPath /\ SessionKey \notin 1 .. MaxPath
      /\ DOMAIN refresh.key \subseteq 1 .. MaxPath
      /\ Ownership!SourceKeys = (1 .. MaxPath) \cup {SessionKey}
  BY InHandFacts
<1>2. /\ st \in Filings
      /\ st.key \in [DOMAIN refresh.key -> Ownership!SourceKeys]
      /\ \A q \in DOMAIN refresh.key : st.key[q] \in {q, SessionKey} /\ st.row[st.key[q]] # None
      /\ \A q \in 1 .. MaxPath : st.row[q] # None => st.row[q].path = q
  BY DEF Kept, Filings
<1>3. /\ k \in {p, SessionKey}
      /\ k = p => p \in st.named \/ st.key[p] = p
  BY <1>1, <1>2 DEF Ownership!Fallback
<1>4. c = Ownership!Replaced(st, p, k, g)
  OBVIOUS
<1>m. p \in DOMAIN refresh.asked /\ g \in Ownership!Gens
  OBVIOUS
<1>n. st \in Filings
  BY <1>2
<1>o. OfTheirPath(st.row)
  BY <1>2 DEF OfTheirPath
<1>p. k \in {p, SessionKey}
  BY <1>3
<1> HIDE DEF k
<1>5. /\ c \in Filings
      /\ c.key = [st.key EXCEPT ![p] = k]
      /\ c.named = IF k = SessionKey THEN st.named ELSE st.named \ {p}
      /\ c.row[k] # None /\ c.row[k].path = p /\ c.row[k].gen = g
      /\ \A a \in Ownership!SourceKeys \ {k} :
           c.row[a] = IF st.row[a] # None /\ st.row[a].path = p THEN None ELSE st.row[a]
      /\ \A q \in 1 .. MaxPath : c.row[q] # None => c.row[q].path = q
  <2>1. HasReplaced(st, p, k, g, c)
    BY <1>4, <1>m, <1>n, <1>o, <1>p, ReplacedRows
  <2> QED
    BY <2>1 DEF HasReplaced
<1>6. \A q \in DOMAIN refresh.key : c.key[q] = IF q = p THEN k ELSE st.key[q]
  BY <1>1, <1>2, <1>5
<1>7. ASSUME st.row[SessionKey].path = p, NEW q \in DOMAIN refresh.key, st.key[q] = SessionKey
      PROVE  k = SessionKey
  <2>1. OwnerIsKept(st, done) /\ p \in DOMAIN refresh.asked \ done
    BY DEF Kept
  <2>2. st.key[p] = SessionKey /\ p \notin st.named
    BY <1>7, <2>1 DEF OwnerIsKept
  <2> QED
    BY <1>1, <1>3, <2>2
<1>8. \A q \in DOMAIN refresh.key : c.key[q] \in {q, SessionKey} /\ c.row[c.key[q]] # None
  <2> SUFFICES ASSUME NEW q \in DOMAIN refresh.key
               PROVE  c.key[q] \in {q, SessionKey} /\ c.row[c.key[q]] # None
    OBVIOUS
  <2>1. CASE q = p
    BY <1>3, <1>5, <1>6, <2>1
  <2>2. CASE q # p /\ st.key[q] = k
    BY <1>2, <1>5, <1>6, <2>2
  <2>3. CASE q # p /\ st.key[q] # k /\ st.key[q] = q
    <3>1. st.row[q] # None /\ st.row[q].path = q
      BY <1>1, <1>2, <2>3
    <3> QED
      BY <1>1, <1>5, <1>6, <2>3, <3>1
  <2>4. CASE q # p /\ st.key[q] # k /\ st.key[q] = SessionKey
    <3>1. st.row[SessionKey] # None /\ st.row[SessionKey].path # p
      BY <1>2, <1>7, <2>4
    <3> QED
      BY <1>1, <1>5, <1>6, <2>4, <3>1
  <2> QED
    BY <1>2, <2>1, <2>2, <2>3, <2>4
<1>9. OwnerIsKept(c, done \cup {p})
  <2> SUFFICES ASSUME NEW q \in DOMAIN refresh.key, c.key[q] = SessionKey,
                      NEW o \in DOMAIN refresh.asked \ (done \cup {p}),
                      c.row[SessionKey].path = o
               PROVE  c.key[o] = SessionKey /\ o \notin c.named
    BY DEF OwnerIsKept
  <2>1. k = p
    BY <1>3, <1>5
  <2>2. q # p /\ st.key[q] = SessionKey
    BY <1>1, <1>6, <2>1
  <2>3. c.row[SessionKey] = st.row[SessionKey]
    BY <1>1, <1>5, <1>8, <2>1
  <2>4. st.key[o] = SessionKey /\ o \notin st.named
    BY <2>2, <2>3 DEF Kept, OwnerIsKept
  <2>5. o \in DOMAIN refresh.key
    BY InHandFacts
  <2> QED
    BY <1>5, <1>6, <2>4, <2>5
<1>10. ASSUME Counted(results, st, done)
       PROVE  Counted(results, c, done \cup {p})
  <2>1. CASE k = SessionKey
    <3>1. c.row[SessionKey].gen # None
      BY <1>5, <2>1, OwnershipAssumption
    <3> QED
      BY <1>5, <2>1, <3>1 DEF Counted, Ownership!Parsed
  <2>2. CASE k = p /\ Ownership!Parsed(st.row[SessionKey]) /\ st.row[SessionKey].path # p
    BY <1>1, <1>5, <2>2 DEF Counted, Ownership!Parsed
  <2>3. CASE k = p /\ \A q \in DOMAIN refresh.key : st.key[q] # SessionKey
    <3>1. p # WinnerOf(results)
      BY <2>3
    <3>2. \A q \in DOMAIN refresh.key : c.key[q] # SessionKey
      BY <1>1, <1>6, <2>3
    <3> QED
      BY <3>1, <3>2 DEF Counted
  <2>4. Ownership!Parsed(st.row[SessionKey]) \/ \A q \in DOMAIN refresh.key : st.key[q] # SessionKey
    BY <1>10 DEF Counted
  <2> QED
    BY <1>3, <1>7, <2>1, <2>2, <2>3, <2>4
<1> QED
  BY <1>5, <1>8, <1>9, <1>10 DEF Kept

(* A file that takes the session's key is counted, and no other loses a row. *)
LEMMA TakingHolds ==
  ASSUME NEW results, InHand(results), NEW st \in Filings, NEW done,
         OfTheirPath(st.row),
         NEW p \in DOMAIN refresh.asked \ done, NEW g \in Ownership!Gens,
         \A q \in DOMAIN refresh.key \ {p} :
           \/ st.key[q] = SessionKey
           \/ st.key[q] = q /\ st.row[q] # None,
         NEW c, c = Ownership!Replaced(st, p, SessionKey, g)
  PROVE  /\ Kept(c, done \cup {p})
         /\ Counted(results, c, done \cup {p})
<1>1. /\ p \in DOMAIN refresh.key /\ p \in 1 .. MaxPath /\ SessionKey \notin 1 .. MaxPath
      /\ DOMAIN refresh.key \subseteq 1 .. MaxPath
      /\ Ownership!SourceKeys = (1 .. MaxPath) \cup {SessionKey}
  BY InHandFacts
<1> DEFINE k == SessionKey
<1>2. k \in {p, SessionKey}
  OBVIOUS
<1>a. c = Ownership!Replaced(st, p, k, g)
  OBVIOUS
<1>b. p \in DOMAIN refresh.asked /\ g \in Ownership!Gens
  OBVIOUS
<1> HIDE DEF k
<1>3. /\ c \in Filings
      /\ c.key = [st.key EXCEPT ![p] = k]
      /\ c.named = IF k = SessionKey THEN st.named ELSE st.named \ {p}
      /\ c.row[k] # None /\ c.row[k].path = p /\ c.row[k].gen = g
      /\ \A a \in Ownership!SourceKeys \ {k} :
           c.row[a] = IF st.row[a] # None /\ st.row[a].path = p THEN None ELSE st.row[a]
      /\ \A q \in 1 .. MaxPath : c.row[q] # None => c.row[q].path = q
  <2>1. HasReplaced(st, p, k, g, c)
    BY <1>2, <1>a, <1>b, ReplacedRows
  <2> QED
    BY <2>1 DEF HasReplaced
<1>4. k = SessionKey
  BY DEF k
<1>5. st.key \in [DOMAIN refresh.key -> Ownership!SourceKeys]
  BY DEF Filings
<1>6. \A q \in DOMAIN refresh.key : c.key[q] = IF q = p THEN SessionKey ELSE st.key[q]
  BY <1>1, <1>3, <1>4, <1>5
<1>7. \A q \in DOMAIN refresh.key : c.key[q] \in {q, SessionKey} /\ c.row[c.key[q]] # None
  <2> SUFFICES ASSUME NEW q \in DOMAIN refresh.key
               PROVE  c.key[q] \in {q, SessionKey} /\ c.row[c.key[q]] # None
    OBVIOUS
  <2>1. CASE c.key[q] = SessionKey
    BY <1>3, <1>4, <2>1
  <2>2. CASE c.key[q] # SessionKey
    <3>1. q # p /\ c.key[q] = q /\ st.row[q] # None /\ st.row[q].path = q
      BY <1>1, <1>6, <2>2 DEF OfTheirPath
    <3> QED
      BY <1>1, <1>3, <1>4, <3>1
  <2> QED
    BY <2>1, <2>2
<1>8. OwnerIsKept(c, done \cup {p})
  BY <1>3, <1>4 DEF OwnerIsKept
<1>9. Counted(results, c, done \cup {p})
  <2>1. c.row[SessionKey] # None /\ c.row[SessionKey].gen # None
    BY <1>3, <1>4, OwnershipAssumption
  <2> QED
    BY <2>1 DEF Counted, Ownership!Parsed
<1> QED
  BY <1>3, <1>7, <1>8, <1>9 DEF Kept

(* The winner is the best of the files that were read as a whole.          *)
LEMMA WinnerIsFirst ==
  ASSUME NEW results, InHand(results), Wholes(results) # {}
  PROVE  /\ WinnerOf(results) \in Wholes(results)
         /\ \A q \in Wholes(results) \ {WinnerOf(results)} :
              Ownership!Before(refresh.seen, WinnerOf(results), q)
<1>1. DOMAIN refresh.asked \subseteq DOMAIN refresh.key /\ DOMAIN refresh.key \subseteq 1 .. MaxPath
      /\ copyChanges \in Nat
  BY InHandFacts
<1>2. Wholes(results) \in SUBSET (1 .. MaxPath)
  BY <1>1 DEF Wholes
<1>3. \A q \in Wholes(results) :
        refresh.seen[q].mtime \in Nat /\ refresh.seen[q].mtime <= copyChanges
  <2>1. \A q \in DOMAIN refresh.key :
          refresh.seen[q].mtime \in Nat /\ refresh.seen[q].mtime <= copyChanges
    BY InHandFacts
  <2> QED
    BY <1>1, <2>1 DEF Wholes
<1> QED
  BY <1>1, <1>2, <1>3, BestIsFirst DEF WinnerOf

(* A file that was read as a whole: the best of them takes the session's   *)
(* key unless a better file has it, and who yields it keeps its row.       *)
LEMMA GenerationHolds ==
  ASSUME NEW results, InHand(results), NEW st, NEW done, Kept(st, done),
         NEW p \in DOMAIN refresh.asked \ done, results[p].kind = "full",
         p # WinnerOf(results) => WinnerOf(results) \notin done,
         NEW c, c = Ownership!WithGeneration(st, p, results[p].gen, WinnerOf(results))
  PROVE  /\ Kept(c, done \cup {p})
         /\ Counted(results, st, done) => Counted(results, c, done \cup {p})
<1> DEFINE g == results[p].gen
           w == WinnerOf(results)
           rivals == {q \in DOMAIN st.key \ {p} : st.key[q] = SessionKey}
           rival == Ownership!Best(refresh.seen, rivals)
           yielded == Ownership!Fallback(st, rival)
           rows == Ownership!Rekeyed(st.row, SessionKey, yielded, rival)
           taken == [st EXCEPT !.row = Ownership!Rekeyed(@, SessionKey, yielded, rival),
                               !.key[rival] = yielded, !.named = @ \ {rival}]
           Named(s) == [s EXCEPT !.named = IF st.key[p] = SessionKey THEN @ ELSE @ \cup {p}]
<1>1. /\ p \in DOMAIN refresh.key /\ p \in 1 .. MaxPath /\ SessionKey \notin 1 .. MaxPath
      /\ DOMAIN refresh.key \subseteq 1 .. MaxPath
      /\ DOMAIN refresh.asked \subseteq DOMAIN refresh.key
      /\ copyChanges \in Nat
      /\ Ownership!SourceKeys = (1 .. MaxPath) \cup {SessionKey}
      /\ g \in Ownership!Gens
  BY InHandFacts
<1>2. /\ st \in Filings /\ OfTheirPath(st.row)
      /\ st.row \in [Ownership!SourceKeys -> Ownership!Rows \cup {None}]
      /\ st.key \in [DOMAIN refresh.key -> Ownership!SourceKeys]
      /\ st.named \in SUBSET (1 .. MaxPath)
      /\ DOMAIN st.key = DOMAIN refresh.key
      /\ \A q \in DOMAIN refresh.key : st.key[q] \in {q, SessionKey} /\ st.row[st.key[q]] # None
      /\ \A q \in 1 .. MaxPath : st.row[q] # None => st.row[q].path = q
  BY DEF Kept, Filings, OfTheirPath
<1>3. p \in Wholes(results) /\ w \in Wholes(results)
  <2>1. p \in Wholes(results)
    BY DEF Wholes
  <2> QED
    BY <2>1, WinnerIsFirst
<1>4. CASE c = Ownership!Replaced(st, p, Ownership!Fallback(st, p), g)
           /\ (p = w => rivals # {})
  <2>1. p = w => \E q \in DOMAIN refresh.key : st.key[q] = SessionKey
    BY <1>2, <1>4
  <2>2. p # w => w \notin done
    OBVIOUS
  <2>3. c = Ownership!Replaced(st, p, Ownership!Fallback(st, p), g)
    BY <1>4
  <2> HIDE DEF g
  <2>4. g \in Ownership!Gens
    BY <1>1
  <2> QED
    BY <1>3, <2>1, <2>2, <2>3, <2>4, FallbackHolds
<1>5. CASE rivals = {} /\ c = Ownership!Replaced(Named(st), p, SessionKey, g)
  <2> DEFINE s == Named(st)
  <2>1. s = [st EXCEPT !.named = IF st.key[p] = SessionKey THEN @ ELSE @ \cup {p}]
    OBVIOUS
  <2>2. c = Ownership!Replaced(s, p, SessionKey, g)
    BY <1>5
  <2> HIDE DEF s, g, Named
  <2>3. s \in Filings /\ s.row = st.row /\ s.key = st.key
    BY <1>1, <1>2, <2>1 DEF Filings
  <2>4. OfTheirPath(s.row)
    BY <1>2, <2>3
  <2>5. \A q \in DOMAIN refresh.key \ {p} :
           \/ s.key[q] = SessionKey
           \/ s.key[q] = q /\ s.row[q] # None
    BY <1>2, <1>5, <2>3
  <2>6. g \in Ownership!Gens
    BY <1>1
  <2> QED
    BY <2>2, <2>3, <2>4, <2>5, <2>6, TakingHolds
<1>6. CASE rivals # {} /\ c = Ownership!Replaced(Named(taken), p, SessionKey, g)
  <2>1. rival \in rivals
    <3>1. rivals \in SUBSET (1 .. MaxPath)
      BY <1>1, <1>2
    <3>2. \A q \in rivals : refresh.seen[q].mtime \in Nat /\ refresh.seen[q].mtime <= copyChanges
      <4>1. \A q \in DOMAIN refresh.key :
              refresh.seen[q].mtime \in Nat /\ refresh.seen[q].mtime <= copyChanges
        BY InHandFacts
      <4> QED
        BY <1>2, <4>1
    <3>3. rivals # {} /\ copyChanges \in Nat
      BY <1>1, <1>6
    <3> HIDE DEF rivals
    <3> QED
      BY <3>1, <3>2, <3>3, BestIsFirst
  <2> DEFINE s == Named(taken)
             keys == [st.key EXCEPT ![rival] = yielded]
             names == IF st.key[p] = SessionKey THEN st.named \ {rival}
                      ELSE (st.named \ {rival}) \cup {p}
  <2>2. /\ rival \in DOMAIN refresh.key /\ rival # p /\ st.key[rival] = SessionKey
        /\ rival \in 1 .. MaxPath
        /\ st.row[SessionKey] # None
    BY <1>1, <1>2, <2>1
  <2>3. yielded \in {rival, SessionKey}
    BY <2>2 DEF Ownership!Fallback
  <2>4. s = [st EXCEPT !.row = rows, !.key = keys, !.named = names]
    BY <1>2
  <2>5. c = Ownership!Replaced(s, p, SessionKey, g)
    BY <1>6
  <2> HIDE DEF rivals, rival, yielded
  <2>6. /\ rows \in [Ownership!SourceKeys -> Ownership!Rows \cup {None}]
        /\ \A q \in 1 .. MaxPath : rows[q] # None => rows[q].path = q
        /\ \A q \in 1 .. MaxPath \ {rival} : rows[q] = st.row[q]
        /\ yielded = rival => rows[rival] # None
    <3>1. CASE yielded = SessionKey
      <4>1. rows = [st.row EXCEPT ![SessionKey] = None]
        BY <3>1 DEF Ownership!Rekeyed
      <4> HIDE DEF rows
      <4> QED
        BY <1>1, <1>2, <2>2, <3>1, <4>1
    <3>2. CASE yielded = rival
      <4> DEFINE old == st.row[SessionKey]
                 new == [old EXCEPT !.path = rival]
      <4>1. rows = [st.row EXCEPT ![rival] = new, ![SessionKey] = None]
        BY <1>1, <2>2, <3>2 DEF Ownership!Rekeyed
      <4>2. old \in Ownership!Rows
        BY <1>1, <1>2, <2>2
      <4>3. new \in Ownership!Rows /\ new.path = rival
        <5> HIDE DEF old
        <5>1. new = [path |-> rival, size |-> old.size, mtime |-> old.mtime,
                     missing |-> old.missing, error |-> old.error, gen |-> old.gen]
          BY <4>2 DEF Ownership!Rows
        <5> HIDE DEF new
        <5> QED
          BY <2>2, <4>2, <5>1 DEF Ownership!Rows
      <4>4. new # None
        BY <4>3, OwnershipAssumption
      <4> HIDE DEF rows, new
      <4>5. \A a \in Ownership!SourceKeys :
              rows[a] = IF a = SessionKey THEN None ELSE IF a = rival THEN new ELSE st.row[a]
        BY <1>1, <1>2, <2>2, <4>1
      <4>6. rows \in [Ownership!SourceKeys -> Ownership!Rows \cup {None}]
        BY <1>1, <1>2, <2>2, <4>1, <4>3
      <4>7. \A q \in 1 .. MaxPath : rows[q] # None => rows[q].path = q
        BY <1>1, <1>2, <4>3, <4>5
      <4>8. (\A q \in 1 .. MaxPath \ {rival} : rows[q] = st.row[q]) /\ rows[rival] # None
        BY <1>1, <2>2, <4>4, <4>5
      <4> QED
        BY <4>6, <4>7, <4>8
    <3> QED
      BY <2>3, <3>1, <3>2
  <2> HIDE DEF rows, s, g, Named, taken
  <2>7. keys \in [DOMAIN refresh.key -> Ownership!SourceKeys] /\ names \in SUBSET (1 .. MaxPath)
    BY <1>1, <1>2, <2>2, <2>3
  <2>8. \A q \in DOMAIN refresh.key : keys[q] = IF q = rival THEN yielded ELSE st.key[q]
    BY <1>2
  <2> HIDE DEF keys, names
  <2>9. s \in Filings /\ s.row = rows /\ s.key = keys
    BY <1>2, <2>4, <2>6, <2>7 DEF Filings
  <2>10. OfTheirPath(s.row)
    BY <2>6, <2>9 DEF OfTheirPath
  <2>11. \A q \in DOMAIN refresh.key \ {p} :
           \/ s.key[q] = SessionKey
           \/ s.key[q] = q /\ s.row[q] # None
    BY <1>1, <1>2, <2>3, <2>6, <2>8, <2>9
  <2>12. g \in Ownership!Gens
    BY <1>1
  <2> QED
    BY <2>5, <2>9, <2>10, <2>11, <2>12, TakingHolds
<1> HIDE DEF rivals, rival, yielded, rows
<1>7. \/ c = Ownership!Replaced(st, p, Ownership!Fallback(st, p), g) /\ (p = w => rivals # {})
      \/ rivals = {} /\ c = Ownership!Replaced(Named(st), p, SessionKey, g)
      \/ rivals # {} /\ c = Ownership!Replaced(Named(taken), p, SessionKey, g)
  <2>1. c = CASE p # w -> Ownership!Replaced(st, p, Ownership!Fallback(st, p), g)
             [] p = w /\ rivals = {} -> Ownership!Replaced(Named(st), p, SessionKey, g)
             [] p = w /\ rivals # {} /\ Ownership!Before(refresh.seen, rival, p) ->
                  Ownership!Replaced(st, p, Ownership!Fallback(st, p), g)
             [] p = w /\ rivals # {} /\ ~Ownership!Before(refresh.seen, rival, p) ->
                  Ownership!Replaced(Named(taken), p, SessionKey, g)
    BY DEF Ownership!WithGeneration, rivals, rival, yielded
  <2> HIDE DEF w, g, Named, taken
  <2> QED
    BY <2>1
<1> QED
  BY <1>4, <1>5, <1>6, <1>7

(* The winner comes last of those that were read as a whole.               *)
LEMMA LastIsOfThem ==
  ASSUME NEW results, InHand(results), NEW s \in SUBSET DOMAIN refresh.asked, s # {}
  PROVE  /\ Ownership!LastOf(results, s) \in s
         /\ (/\ results[Ownership!LastOf(results, s)].kind = "full"
             /\ Ownership!LastOf(results, s) # WinnerOf(results)) => WinnerOf(results) \notin s
<1> DEFINE right == {p \in s : results[p].kind # "error"}
           p == Ownership!LastOf(results, s)
           w == WinnerOf(results)
<1>1. DOMAIN refresh.asked \subseteq DOMAIN refresh.key /\ DOMAIN refresh.key \subseteq 1 .. MaxPath
      /\ copyChanges \in Nat
  BY InHandFacts
<1>2. \A q \in DOMAIN refresh.key :
        refresh.seen[q].mtime \in Nat /\ refresh.seen[q].mtime <= copyChanges
  BY InHandFacts
<1>3. right \in SUBSET (1 .. MaxPath) /\ s \in SUBSET (1 .. MaxPath)
  BY <1>1
<1>4. p = IF right = {} THEN Ownership!Max(s) ELSE Ownership!Best(refresh.seen, right)
  BY DEF Ownership!LastOf
<1>5. CASE right = {}
  <2>1. p \in s
    BY <1>3, <1>4, <1>5, MaxIsLast
  <2>2. results[p].kind = "error"
    BY <1>5, <2>1
  <2> QED
    BY <2>1, <2>2
<1>6. CASE right # {}
  <2>1. \A q \in right : refresh.seen[q].mtime \in Nat /\ refresh.seen[q].mtime <= copyChanges
    BY <1>1, <1>2
  <2>2. p = Ownership!Best(refresh.seen, right)
    BY <1>4, <1>6
  <2>3. \A q \in right : q \in s /\ results[q].kind # "error"
    OBVIOUS
  <2>4. \A q \in s : results[q].kind = "full" => q \in right
    OBVIOUS
  <2> HIDE DEF right, p
  <2>5. p \in right /\ \A q \in right \ {p} : Ownership!Before(refresh.seen, p, q)
    BY <1>1, <1>3, <1>6, <2>1, <2>2, BestIsFirst
  <2>6. ASSUME results[p].kind = "full", p # w, w \in s PROVE FALSE
    <3>1. p \in Wholes(results)
      BY <2>3, <2>5, <2>6 DEF Wholes
    <3>2. w \in Wholes(results) /\ Ownership!Before(refresh.seen, w, p)
      BY <2>6, <3>1, WinnerIsFirst
    <3>3. w \in right
      BY <2>4, <2>6, <3>2 DEF Wholes
    <3>4. Ownership!Before(refresh.seen, p, w)
      BY <2>5, <2>6, <3>3
    <3>5. /\ p \in 1 .. MaxPath /\ w \in 1 .. MaxPath
          /\ refresh.seen[p].mtime \in Nat /\ refresh.seen[w].mtime \in Nat
      BY <1>3, <2>1, <2>5, <3>3
    <3> HIDE DEF w
    <3> QED
      BY <3>2, <3>4, <3>5, BeforeIsStrict
  <2>7. p \in s
    BY <2>3, <2>5
  <2> QED
    BY <2>6, <2>7 DEF p
<1> QED
  BY <1>5, <1>6

(* One result after the other, whichever it is.                            *)
LEMMA AppliedHolds ==
  ASSUME NEW results, InHand(results), NEW st, NEW done, Kept(st, done),
         NEW p \in DOMAIN refresh.asked \ done,
         (results[p].kind = "full" /\ p # WinnerOf(results)) => WinnerOf(results) \notin done,
         NEW c, c = Ownership!Applied(results, p, st)
  PROVE  /\ Kept(c, done \cup {p})
         /\ Counted(results, st, done) => Counted(results, c, done \cup {p})
<1>1. DOMAIN results = DOMAIN refresh.asked
  BY DEF InHand
<1>2. WinnerOf(results)
        = Ownership!Best(refresh.seen, {q \in DOMAIN results : results[q].kind = "full"})
  BY <1>1 DEF WinnerOf, Wholes
<1>3. c = CASE results[p].kind = "error" -> Ownership!WithError(st, p, results)
            [] results[p].kind = "stale" -> Ownership!WithStale(st, p)
            [] results[p].kind = "append" -> Ownership!WithAppend(st, p, results[p].gen)
            [] results[p].kind = "full" ->
                 Ownership!WithGeneration(st, p, results[p].gen, WinnerOf(results))
  BY <1>2 DEF Ownership!Applied
<1>4. results[p].kind \in {"error", "stale", "append", "full"}
  BY InHandFacts
<1>5. CASE results[p].kind = "error"
  <2>1. c = Ownership!WithError(st, p, results)
    BY <1>3, <1>5
  <2> QED
    BY <1>5, <2>1, ErrorHolds
<1>6. CASE results[p].kind = "stale"
  <2>1. c = Ownership!WithStale(st, p)
    BY <1>3, <1>6
  <2> QED
    BY <1>6, <2>1, StaleHolds
<1>7. CASE results[p].kind = "append"
  <2>1. c = Ownership!WithAppend(st, p, results[p].gen)
    BY <1>3, <1>7
  <2> QED
    BY <1>7, <2>1, AppendHolds
<1>8. CASE results[p].kind = "full"
  <2>1. c = Ownership!WithGeneration(st, p, results[p].gen, WinnerOf(results))
    BY <1>3, <1>8
  <2>2. p # WinnerOf(results) => WinnerOf(results) \notin done
    BY <1>8
  <2> QED
    BY <1>8, <2>1, <2>2, GenerationHolds
<1> QED
  BY <1>4, <1>5, <1>6, <1>7, <1>8

(* Taking one file after the other out of a set of them comes to an end.   *)
LEMMA FewerFiles ==
  ASSUME NEW S \in SUBSET (1 .. MaxPath), NEW s \in SUBSET S
  PROVE  /\ Cardinality(s) \in Nat /\ Cardinality(s) <= Cardinality(S)
         /\ Cardinality(s) = 0 <=> s = {}
         /\ \A p \in s : Cardinality(s \ {p}) = Cardinality(s) - 1
<1>1. IsFiniteSet(1 .. MaxPath)
  <2>1. MaxPath \in Int
    BY OwnershipAssumption
  <2> QED
    BY <2>1, FS_Interval
<1>2. IsFiniteSet(S) /\ IsFiniteSet(s)
  BY <1>1, FS_Subset
<1> QED
  BY <1>2, FS_EmptySet, FS_CardinalityType, FS_Subset, FS_RemoveElement

Base == [row |-> filed, key |-> refresh.key, named |-> refresh.named]

(* What a commit makes of some of its results, in their order.             *)
Folded(results, f, s) ==
  IF s = {} THEN Base
  ELSE Ownership!Applied(results, Ownership!LastOf(results, s),
                         f[s \ {Ownership!LastOf(results, s)}])

(* Folding the results is a function on the sets of them.                  *)
LEMMA CommittedGoesOn ==
  ASSUME NEW results, InHand(results)
  PROVE  \E f : /\ Ownership!Committed(results) = f[DOMAIN refresh.asked]
                /\ \A s \in SUBSET DOMAIN refresh.asked : f[s] = Folded(results, f, s)
<1> DEFINE S == DOMAIN refresh.asked
           Upto(m) == {s \in SUBSET S : Cardinality(s) <= m}
           Exists(m) == \E f : f = [s \in Upto(m) |-> Folded(results, f, s)]
           Bad == {m \in Nat : ~Exists(m)}
<1>0. S \in SUBSET (1 .. MaxPath) /\ DOMAIN results = S
  BY InHandFacts DEF InHand
<1>f. \A s \in SUBSET S : /\ Cardinality(s) \in Nat /\ Cardinality(s) <= Cardinality(S)
                          /\ Cardinality(s) = 0 <=> s = {}
                          /\ \A p \in s : Cardinality(s \ {p}) = Cardinality(s) - 1
  <2> HIDE DEF S
  <2> QED
    BY <1>0, FewerFiles
<1>l. \A s \in SUBSET S : s # {} => Ownership!LastOf(results, s) \in s
  BY LastIsOfThem
<1> HIDE DEF S
<1>1. ~(0 \in Bad)
  <2> DEFINE g == [s \in Upto(0) |-> Base]
  <2>1. \A s \in Upto(0) : Folded(results, g, s) = Base
    BY <1>f DEF Folded
  <2>2. g = [s \in Upto(0) |-> Folded(results, g, s)]
    BY <2>1
  <2> HIDE DEF g
  <2> QED
    BY <2>2
<1>2. ASSUME NEW m \in Nat, m > 0, Exists(m - 1)
      PROVE  Exists(m)
  <2>1. PICK f : f = [s \in Upto(m - 1) |-> Folded(results, f, s)]
    BY <1>2
  <2> DEFINE g == [s \in Upto(m) |-> IF s \in Upto(m - 1) THEN f[s] ELSE Folded(results, f, s)]
  <2>2. ASSUME NEW s \in Upto(m)
        PROVE  g[s] = Folded(results, g, s)
    <3>1. CASE s = {}
      <4>1. s \in Upto(m - 1)
        BY <1>2, <1>f, <3>1
      <4>2. g[s] = f[s] /\ f[s] = Folded(results, f, s)
        BY <2>1, <4>1
      <4> QED
        BY <3>1, <4>2 DEF Folded
    <3>2. CASE s # {}
      <4> DEFINE p == Ownership!LastOf(results, s)
      <4>1. p \in s /\ s \in SUBSET S
        BY <1>l, <3>2
      <4>2. s \ {p} \in Upto(m - 1) /\ s \ {p} \in Upto(m)
        BY <1>2, <1>f, <4>1
      <4>3. g[s \ {p}] = f[s \ {p}]
        BY <4>2
      <4>4. Folded(results, f, s) = Folded(results, g, s)
        <5> HIDE DEF g
        <5> QED
          BY <3>2, <4>3 DEF Folded
      <4>5. g[s] = Folded(results, f, s)
        <5>1. s \in Upto(m - 1) => f[s] = Folded(results, f, s)
          BY <2>1
        <5> QED
          BY <5>1
      <4> QED
        BY <4>4, <4>5
    <3> QED
      BY <3>1, <3>2
  <2>3. g = [s \in Upto(m) |-> Folded(results, g, s)]
    BY <2>2
  <2> HIDE DEF g
  <2> QED
    BY <2>3
<1> HIDE DEF Exists
<1>3. Bad = {}
  <2> SUFFICES ASSUME Bad # {} PROVE FALSE
    OBVIOUS
  <2>1. Bad \subseteq Nat
    OBVIOUS
  <2>2. PICK m \in Bad : \A u \in Bad : m <= u
    <3> HIDE DEF Bad
    <3> QED
      BY <2>1, LeastNumber
  <2>3. m \in Nat /\ m # 0
    BY <1>1, <2>2
  <2>4. ~(m - 1 \in Bad)
    BY <2>2, <2>3
  <2>5. Exists(m - 1)
    BY <2>3, <2>4
  <2> QED
    BY <1>2, <2>2, <2>3, <2>5
<1>4. \E f : f = [s \in SUBSET S |-> Folded(results, f, s)]
  <2>1. Cardinality(S) \in Nat /\ Upto(Cardinality(S)) = SUBSET S
    BY <1>f
  <2>2. Exists(Cardinality(S))
    BY <1>3, <2>1
  <2> QED
    BY <2>1, <2>2 DEF Exists
<1> DEFINE after == CHOOSE f : f = [s \in SUBSET S |-> Folded(results, f, s)]
<1>5. after = [s \in SUBSET S |-> Folded(results, after, s)]
  BY <1>4
<1>6. Ownership!Committed(results) = after[S]
  BY <1>0 DEF Ownership!Committed, Ownership!MapThenFoldSet, Folded, Base
<1> HIDE DEF after
<1>7. \A s \in SUBSET S : after[s] = Folded(results, after, s)
  BY <1>5
<1> QED
  BY <1>6, <1>7 DEF S

(* All of the results: what the first transaction left is kept throughout. *)
LEMMA CommittedHolds ==
  ASSUME NEW results, InHand(results)
  PROVE  /\ Kept(Ownership!Committed(results), DOMAIN refresh.asked)
         /\ Ownership!Parsed(filed[SessionKey])
              => Ownership!Parsed(Ownership!Committed(results).row[SessionKey])
<1> DEFINE S == DOMAIN refresh.asked
<1>1. PICK f : /\ Ownership!Committed(results) = f[S]
               /\ \A s \in SUBSET S : f[s] = Folded(results, f, s)
  BY CommittedGoesOn
<1>2. Kept(Base, {})
  <2>1. /\ refresh # None /\ filed \in [Ownership!SourceKeys -> Ownership!Rows \cup {None}]
        /\ Ownership!RefreshTypeOK /\ Ownership!RowsAreTheirs /\ Ownership!OwnerKeepsKey
    BY DEF InHand, Ownership!OwnershipInv, Ownership!TypeOK
  <2>2. refresh.key \in [DOMAIN refresh.key -> Ownership!SourceKeys]
        /\ refresh.named \in SUBSET (1 .. MaxPath)
    BY <2>1 DEF Ownership!RefreshTypeOK
  <2>3. Base \in Filings /\ Base.row = filed /\ Base.key = refresh.key /\ Base.named = refresh.named
    BY <2>1, <2>2 DEF Base, Filings
  <2>4. /\ \A p \in 1 .. MaxPath : Base.row[p] # None => Base.row[p].path = p
        /\ \A q \in DOMAIN refresh.key :
             Base.key[q] \in {q, SessionKey} /\ Base.row[Base.key[q]] # None
    BY <2>1, <2>3 DEF Ownership!RowsAreTheirs
  <2>5. OwnerIsKept(Base, {})
    BY <2>1, <2>3 DEF Ownership!OwnerKeepsKey, OwnerIsKept
  <2> QED
    BY <2>3, <2>4, <2>5 DEF Kept
<1> DEFINE Good(s) == /\ Kept(f[s], s)
                      /\ Counted(results, Base, {}) => Counted(results, f[s], s)
<1>3. Good({})
  <2>1. f[{}] = Base
    BY <1>1 DEF Folded
  <2> QED
    BY <1>2, <2>1
<1>4. ASSUME NEW s \in SUBSET S, s # {}, Good(s \ {Ownership!LastOf(results, s)})
      PROVE  Good(s)
  <2> DEFINE p == Ownership!LastOf(results, s)
             done == s \ {p}
  <2>1. /\ p \in s
        /\ (results[p].kind = "full" /\ p # WinnerOf(results)) => WinnerOf(results) \notin s
    BY <1>4, LastIsOfThem
  <2>2. f[s] = Ownership!Applied(results, p, f[done])
    BY <1>1, <1>4 DEF Folded
  <2>3. Good(done)
    BY <1>4
  <2>4. p \in DOMAIN refresh.asked \ done /\ done \cup {p} = s
        /\ ((results[p].kind = "full" /\ p # WinnerOf(results)) => WinnerOf(results) \notin done)
    BY <1>4, <2>1
  <2> HIDE DEF p, done
  <2>5. /\ Kept(f[s], done \cup {p})
        /\ Counted(results, f[done], done) => Counted(results, f[s], done \cup {p})
    <3> DEFINE st == f[done]
               c == f[s]
    <3>1. c = Ownership!Applied(results, p, st) /\ Kept(st, done)
      BY <2>2, <2>3
    <3> HIDE DEF st, c
    <3>2. /\ Kept(c, done \cup {p})
          /\ Counted(results, st, done) => Counted(results, c, done \cup {p})
      BY <2>4, <3>1, AppliedHolds
    <3> QED
      BY <3>2 DEF st, c
  <2> QED
    BY <2>3, <2>4, <2>5
<1> HIDE DEF Good
<1>5. \A s \in SUBSET S : Good(s)
  <2> DEFINE Bad == {s \in SUBSET S : ~Good(s)}
             sizes == {Cardinality(s) : s \in Bad}
  <2> SUFFICES ASSUME Bad # {} PROVE FALSE
    OBVIOUS
  <2>0. S \in SUBSET (1 .. MaxPath)
    BY InHandFacts
  <2>1. \A s \in SUBSET S : /\ Cardinality(s) \in Nat
                            /\ \A p \in s : Cardinality(s \ {p}) = Cardinality(s) - 1
    <3> HIDE DEF S
    <3> QED
      BY <2>0, FewerFiles
  <2>2. sizes \subseteq Nat /\ sizes # {}
    BY <2>1
  <2>3. PICK n \in sizes : \A u \in sizes : n <= u
    <3> HIDE DEF sizes
    <3> QED
      BY <2>2, LeastNumber
  <2>4. PICK s \in Bad : Cardinality(s) = n
    BY <2>3
  <2>5. s # {} /\ s \in SUBSET S
    BY <1>3, <2>4
  <2>6. Ownership!LastOf(results, s) \in s
    BY <2>5, LastIsOfThem
  <2> DEFINE less == s \ {Ownership!LastOf(results, s)}
  <2>7. less \in SUBSET S /\ Cardinality(less) = n - 1 /\ n \in Nat
    BY <2>1, <2>4, <2>5, <2>6
  <2>8. less \notin Bad
    BY <2>3, <2>7
  <2>9. Good(less)
    BY <2>7, <2>8
  <2> QED
    BY <1>4, <2>4, <2>5, <2>9
<1>6. Good(S)
  BY <1>5
<1>7. ASSUME Ownership!Parsed(filed[SessionKey])
      PROVE  Ownership!Parsed(Ownership!Committed(results).row[SessionKey])
  <2>1. Counted(results, Base, {})
    BY <1>7 DEF Counted, Base
  <2>2. Counted(results, f[S], S)
    BY <1>6, <2>1 DEF Good
  <2> QED
    BY <1>1, <2>2 DEF Counted, Wholes
<1> QED
  BY <1>1, <1>6, <1>7 DEF Good

(* What the workers return is what a commit takes.                         *)
LEMMA ResultsAreAnswers ==
  ASSUME Ownership!OwnershipInv, refresh # None, NEW p \in DOMAIN refresh.asked, NEW failing,
         NEW a \in Ownership!Results(p, refresh.asked[p], failing)
  PROVE  a \in Answers
<1> DEFINE ask == refresh.asked[p]
           extent == refresh.seen[p].size
<1>1. /\ refresh.seen \in [1 .. MaxPath -> Ownership!Stats \cup {None}]
      /\ p \in 1 .. MaxPath /\ refresh.seen[p] # None /\ ask \in Ownership!Requests
  <2>1. Ownership!RefreshTypeOK
    BY DEF Ownership!OwnershipInv, Ownership!TypeOK
  <2>2. PICK ps \in SUBSET (1 .. MaxPath) :
        /\ refresh.key \in [ps -> Ownership!SourceKeys]
        /\ \A q \in ps : refresh.seen[q] # None
        /\ \E qs \in SUBSET ps : refresh.asked \in [qs -> Ownership!Requests]
    BY <2>1 DEF Ownership!RefreshTypeOK
  <2> QED
    BY <2>1, <2>2 DEF Ownership!RefreshTypeOK
<1>2. extent \in 1 .. MaxCopySize
  <2>1. refresh.seen[p] \in Ownership!Stats
    BY <1>1
  <2> QED
    BY <2>1 DEF Ownership!Stats
<1>3. MaxCopySize \in Nat
  BY OwnershipAssumption
<1>4. copies \in [1 .. MaxPath -> Ownership!Stats \cup {None}]
  BY DEF Ownership!OwnershipInv, Ownership!TypeOK
<1>5. copies[p] # None => copies[p].ino \in Nat
  <2>1. copies[p] # None => copies[p] \in Ownership!Stats
    BY <1>1, <1>4
  <2> QED
    BY <2>1 DEF Ownership!Stats
<1>6. ask.kind \in {"full", "stale", "append"}
      /\ (ask.kind = "append" => ask.from \in Ownership!Gens)
  <2>1. \A x \in Ownership!Requests : x.kind \in {"full", "stale", "append"}
           /\ (x.kind = "append" => x.from \in Ownership!Gens)
    BY DEF Ownership!Requests
  <2> QED
    BY <1>1, <2>1
<1> DEFINE Upto(low) == IF deferred THEN (low + 1) .. extent ELSE {extent}
           full == {[kind |-> "full", gen |-> [ino |-> copies[p].ino, upto |-> n]] : n \in Upto(0)}
<1>7. \A low \in Nat : Upto(low) \subseteq 1 .. MaxCopySize
  BY <1>2, <1>3
<1>8. copies[p] # None => full \subseteq Answers
  <2> SUFFICES ASSUME copies[p] # None, NEW n \in Upto(0)
               PROVE  [kind |-> "full", gen |-> [ino |-> copies[p].ino, upto |-> n]] \in Answers
    OBVIOUS
  <2>1. n \in 1 .. MaxCopySize
    BY <1>7
  <2>2. [ino |-> copies[p].ino, upto |-> n] \in Ownership!Gens
    BY <1>5, <2>1 DEF Ownership!Gens
  <2> QED
    BY <2>2 DEF Answers
<1>9. [kind |-> "stale"] \in Answers /\ [kind |-> "error"] \in Answers
  BY DEF Answers
<1>10. CASE ask.kind = "stale"
  <2>1. a = [kind |-> "stale"]
    BY <1>10 DEF Ownership!Results
  <2> QED
    BY <1>9, <2>1
<1>11. CASE ask.kind # "stale" /\ (p \in failing \/ copies[p] = None)
  <2>1. a = [kind |-> "error"]
    BY <1>11 DEF Ownership!Results
  <2> QED
    BY <1>9, <2>1
<1>12. CASE ask.kind = "full" /\ p \notin failing /\ copies[p] # None
  <2>1. a \in full
    BY <1>12 DEF Ownership!Results
  <2> QED
    BY <1>8, <1>12, <2>1
<1>13. CASE ask.kind = "append" /\ p \notin failing /\ copies[p] # None
  <2>1. a \in IF copies[p].ino # ask.from.ino
              THEN IF deferred THEN {[kind |-> "stale"]} ELSE full
              ELSE {[kind |-> "append", gen |-> [ino |-> copies[p].ino, upto |-> n]] :
                      n \in Upto(ask.from.upto)}
    BY <1>13 DEF Ownership!Results
  <2>2. ask.from.upto \in Nat
    BY <1>3, <1>6, <1>13 DEF Ownership!Gens
  <2>3. CASE copies[p].ino # ask.from.ino
    BY <1>8, <1>9, <1>13, <2>1, <2>3
  <2>4. CASE copies[p].ino = ask.from.ino
    <3>1. PICK n \in Upto(ask.from.upto) :
            a = [kind |-> "append", gen |-> [ino |-> copies[p].ino, upto |-> n]]
      BY <2>1, <2>4
    <3>2. n \in 1 .. MaxCopySize
      BY <1>7, <2>2
    <3>3. [ino |-> copies[p].ino, upto |-> n] \in Ownership!Gens
      BY <1>5, <1>13, <3>2 DEF Ownership!Gens
    <3> QED
      BY <3>1, <3>3 DEF Answers
  <2> QED
    BY <2>3, <2>4
<1> QED
  BY <1>6, <1>10, <1>11, <1>12, <1>13

(* The second transaction of a refresh.                                    *)
LEMMA CommitHolds ==
  ASSUME Ownership!OwnershipInv, Ownership!Commit
  PROVE  Ownership!OwnershipInv' /\ Ownership!KeepsCounted
<1>1. refresh # None /\ refresh' = None /\ copies' = copies /\ copyChanges' = copyChanges
  BY DEF Ownership!Commit
<1>2. PICK failing \in SUBSET DOMAIN refresh.asked :
        \E results \in {f \in [DOMAIN refresh.asked ->
             UNION {Ownership!Results(p, refresh.asked[p], failing) : p \in DOMAIN refresh.asked}] :
             \A p \in DOMAIN f : f[p] \in Ownership!Results(p, refresh.asked[p], failing)} :
          filed' = Ownership!Committed(results).row
  BY DEF Ownership!Commit
<1>3. PICK results \in {f \in [DOMAIN refresh.asked ->
             UNION {Ownership!Results(p, refresh.asked[p], failing) : p \in DOMAIN refresh.asked}] :
             \A p \in DOMAIN f : f[p] \in Ownership!Results(p, refresh.asked[p], failing)} :
          filed' = Ownership!Committed(results).row
  BY <1>2
<1>4. results \in [DOMAIN refresh.asked -> Answers]
  BY <1>1, <1>3, ResultsAreAnswers
<1>5. InHand(results)
  BY <1>1, <1>4 DEF InHand
<1>6. /\ Kept(Ownership!Committed(results), DOMAIN refresh.asked)
      /\ Ownership!Parsed(filed[SessionKey])
              => Ownership!Parsed(Ownership!Committed(results).row[SessionKey])
  BY <1>5, CommittedHolds
<1>7. /\ filed' \in [Ownership!SourceKeys -> Ownership!Rows \cup {None}]
      /\ \A p \in 1 .. MaxPath : filed'[p] # None => filed'[p].path = p
  BY <1>3, <1>6 DEF Kept, Filings
<1>8. Ownership!TypeOK'
  BY <1>1, <1>7 DEF Ownership!OwnershipInv, Ownership!TypeOK, Ownership!RefreshTypeOK,
     Ownership!SourceKeys, Ownership!Rows, Ownership!Gens, Ownership!Stats
<1>9. Ownership!DatedByChanges' /\ Ownership!RowsAreTheirs' /\ Ownership!OwnerKeepsKey'
  BY <1>1, <1>7 DEF Ownership!OwnershipInv, Ownership!DatedByChanges, Ownership!RowsAreTheirs,
     Ownership!OwnerKeepsKey, Ownership!Present
<1>10. Ownership!KeepsCounted
  BY <1>3, <1>6 DEF Ownership!KeepsCounted, Ownership!Parsed
<1> QED
  BY <1>8, <1>9, <1>10 DEF Ownership!OwnershipInv

(* The session's own row gives its key to one file, or a row that is known *)
(* to be read is put there.                                                *)
LEMMA PromotedHolds ==
  ASSUME Ownership!OwnershipInv, NEW promoted,
         promoted = Ownership!Promoted([p \in Ownership!Present |-> Ownership!Reconciled(p)])
  PROVE  /\ promoted.row \in [Ownership!SourceKeys -> Ownership!Rows \cup {None}]
         /\ OfTheirPath(promoted.row)
         /\ promoted.key \in [Ownership!Present -> Ownership!SourceKeys]
         /\ \A p \in Ownership!Present : promoted.key[p] \in {p, SessionKey}
         /\ promoted.named \in SUBSET (1 .. MaxPath)
         /\ Ownership!Parsed(filed[SessionKey]) => Ownership!Parsed(promoted.row[SessionKey])
         /\ (\E q \in Ownership!Present : promoted.key[q] = SessionKey) =>
              /\ promoted.row[SessionKey] # None
              /\ promoted.row[SessionKey].path \in Ownership!Present
              /\ promoted.key[promoted.row[SessionKey].path] = SessionKey
         /\ \/ /\ promoted.named = {}
               /\ \A p, q \in Ownership!Present :
                    (promoted.key[p] = SessionKey /\ promoted.key[q] = SessionKey) => p = q
            \/ /\ promoted.row[SessionKey] # None
               /\ promoted.row[SessionKey].path \in Ownership!Present
               /\ Ownership!Reusable(promoted.row[SessionKey], copies,
                                    promoted.row[SessionKey].path)
<1> DEFINE key == [p \in Ownership!Present |-> Ownership!Reconciled(p)]
           known == {p \in Ownership!Present : Ownership!Identified(filed[key[p]])}
           winner == Ownership!Best(copies, known)
           may == /\ known # {} /\ key[winner] # SessionKey
                  /\ Ownership!Reusable(filed[key[winner]], copies, winner)
<1>1. /\ SessionKey \notin 1 .. MaxPath
      /\ Ownership!SourceKeys = (1 .. MaxPath) \cup {SessionKey}
      /\ Ownership!Present \subseteq 1 .. MaxPath
      /\ \A p \in Ownership!Present : copies[p] # None
  BY OwnershipAssumption DEF Ownership!SourceKeys, Ownership!Present
<1>2. /\ copies \in [1 .. MaxPath -> Ownership!Stats \cup {None}] /\ copyChanges \in Nat
      /\ filed \in [Ownership!SourceKeys -> Ownership!Rows \cup {None}]
      /\ OfTheirPath(filed)
      /\ \A p \in Ownership!Present : copies[p].mtime <= copyChanges
  BY DEF Ownership!OwnershipInv, Ownership!TypeOK, Ownership!DatedByChanges,
     Ownership!RowsAreTheirs, OfTheirPath
<1>3. \A p \in Ownership!Present : copies[p].mtime \in Nat
  <2>1. \A p \in Ownership!Present : copies[p] \in Ownership!Stats
    BY <1>1, <1>2
  <2> QED
    BY <2>1 DEF Ownership!Stats
<1>4. \A p \in Ownership!Present :
        /\ Ownership!Reconciled(p) \in {p, SessionKey}
        /\ Ownership!Reconciled(p) = SessionKey =>
             filed[SessionKey] # None /\ filed[SessionKey].path = p
  BY <1>1 DEF Ownership!Reconciled
<1>5. /\ key \in [Ownership!Present -> Ownership!SourceKeys]
      /\ \A p \in Ownership!Present :
           /\ key[p] \in {p, SessionKey}
           /\ key[p] = SessionKey => filed[SessionKey] # None /\ filed[SessionKey].path = p
  BY <1>1, <1>4
<1>6. CASE ~may
  <2>1. promoted = [row |-> filed, key |-> key, named |-> {}]
    BY <1>6 DEF Ownership!Promoted
  <2> HIDE DEF key
  <2>2. promoted.row = filed /\ promoted.key = key /\ promoted.named = {}
    BY <2>1
  <2>3. \A p, q \in Ownership!Present : (key[p] = SessionKey /\ key[q] = SessionKey) => p = q
    BY <1>5
  <2>4. (\E q \in Ownership!Present : key[q] = SessionKey) =>
           /\ filed[SessionKey] # None
           /\ filed[SessionKey].path \in Ownership!Present
           /\ key[filed[SessionKey].path] = SessionKey
    BY <1>5
  <2> QED
    BY <1>2, <1>5, <2>2, <2>3, <2>4
<1>7. CASE may
  <2>1. promoted = [row |-> Ownership!Rekeyed(filed, key[winner], SessionKey, winner),
                    key |-> [key EXCEPT ![winner] = SessionKey], named |-> {winner}]
    BY <1>7 DEF Ownership!Promoted
  <2>2. winner \in known
    <3>1. known \in SUBSET (1 .. MaxPath)
      BY <1>1
    <3>2. \A p \in known : copies[p].mtime \in Nat /\ copies[p].mtime <= copyChanges
      BY <1>2, <1>3
    <3>3. known # {} /\ copyChanges \in Nat
      BY <1>2, <1>7
    <3> HIDE DEF known
    <3> QED
      BY <3>1, <3>2, <3>3, BestIsFirst
  <2>3. winner \in Ownership!Present /\ Ownership!Identified(filed[key[winner]])
    BY <2>2
  <2>4. key[winner] # SessionKey /\ Ownership!Reusable(filed[key[winner]], copies, winner)
    BY <1>7
  <2> HIDE DEF winner, known, may
  <2>5. key[winner] = winner /\ winner \in 1 .. MaxPath
    BY <1>1, <1>5, <2>3, <2>4
  <2> DEFINE old == filed[winner]
             new == [old EXCEPT !.path = winner]
             rows == [filed EXCEPT ![SessionKey] = new, ![winner] = None]
             keys == [key EXCEPT ![winner] = SessionKey]
  <2>6. old \in Ownership!Rows /\ old # None /\ old.path = winner
        /\ Ownership!Identified(old) /\ Ownership!Reusable(old, copies, winner)
    BY <1>1, <1>2, <2>3, <2>4, <2>5 DEF Ownership!Identified, Ownership!Parsed, OfTheirPath
  <2>7. new = old
    <3> HIDE DEF old
    <3> QED
      BY <2>6 DEF Ownership!Rows
  <2>8. promoted.row = rows /\ promoted.key = keys /\ promoted.named = {winner}
    <3>1. Ownership!Rekeyed(filed, key[winner], SessionKey, winner) = rows
      BY <1>1, <2>5, <2>6 DEF Ownership!Rekeyed
    <3> HIDE DEF rows, keys
    <3> QED
      BY <2>1, <3>1 DEF keys
  <2>9. \A a \in Ownership!SourceKeys :
          rows[a] = IF a = winner THEN None ELSE IF a = SessionKey THEN old ELSE filed[a]
    BY <1>1, <1>2, <2>5, <2>7
  <2> HIDE DEF old, new, key
  <2>10. rows \in [Ownership!SourceKeys -> Ownership!Rows \cup {None}]
         /\ keys \in [Ownership!Present -> Ownership!SourceKeys]
    BY <1>1, <1>2, <1>5, <2>3, <2>5, <2>6, <2>7
  <2>11. \A p \in Ownership!Present : keys[p] = IF p = winner THEN SessionKey ELSE key[p]
    BY <1>5
  <2> HIDE DEF rows, keys
  <2>12. OfTheirPath(rows) /\ rows[SessionKey] = old
    BY <1>1, <1>2, <2>5, <2>9 DEF OfTheirPath
  <2>13. \A p \in Ownership!Present : keys[p] \in {p, SessionKey}
    BY <1>5, <2>11
  <2>14. Ownership!Parsed(rows[SessionKey])
    BY <2>6, <2>12 DEF Ownership!Identified
  <2>15. /\ rows[SessionKey] # None /\ rows[SessionKey].path = winner
         /\ keys[winner] = SessionKey /\ Ownership!Reusable(rows[SessionKey], copies, winner)
    BY <2>3, <2>6, <2>11, <2>12
  <2> QED
    BY <2>3, <2>5, <2>8, <2>10, <2>12, <2>13, <2>14, <2>15
<1> QED
  BY <1>6, <1>7

(* Every file found has a row then, and a row that says something stays.   *)
LEMMA UpsertedHolds ==
  ASSUME Ownership!OwnershipInv, NEW rows \in [Ownership!SourceKeys -> Ownership!Rows \cup {None}],
         OfTheirPath(rows), NEW key \in [Ownership!Present -> Ownership!SourceKeys],
         \A p \in Ownership!Present : key[p] \in {p, SessionKey},
         NEW u, u = Ownership!Upserted(rows, key)
  PROVE  /\ u \in [Ownership!SourceKeys -> Ownership!Rows \cup {None}]
         /\ OfTheirPath(u)
         /\ \A p \in Ownership!Present : u[key[p]] # None
         /\ ~Ownership!Untouched(rows[SessionKey]) => u[SessionKey] = rows[SessionKey]
         /\ \/ u[SessionKey] = rows[SessionKey]
            \/ \E q \in Ownership!Present : key[q] = SessionKey /\ u[SessionKey].path = q
<1>1. /\ SessionKey \notin 1 .. MaxPath /\ SessionKey \in Ownership!SourceKeys
      /\ Ownership!SourceKeys = (1 .. MaxPath) \cup {SessionKey}
      /\ Ownership!Present \subseteq 1 .. MaxPath
  BY OwnershipAssumption DEF Ownership!SourceKeys, Ownership!Present
<1>2. \A p \in Ownership!Present : copies[p] \in Ownership!Stats
  BY DEF Ownership!OwnershipInv, Ownership!TypeOK, Ownership!Present
<1>3. \A p \in Ownership!Present : /\ Ownership!Pending(p) \in Ownership!Rows
                                   /\ Ownership!Pending(p) # None /\ Ownership!Pending(p).path = p
  <2> SUFFICES ASSUME NEW p \in Ownership!Present
               PROVE  /\ Ownership!Pending(p) \in Ownership!Rows
                      /\ Ownership!Pending(p) # None /\ Ownership!Pending(p).path = p
    OBVIOUS
  <2>1. copies[p].size \in Nat /\ copies[p].mtime \in Nat
    BY <1>2, OwnershipAssumption DEF Ownership!Stats
  <2>2. Ownership!Pending(p) \in Ownership!Rows
    BY <1>1, <2>1 DEF Ownership!Pending, Ownership!Rows
  <2> QED
    BY <2>2, OwnershipAssumption DEF Ownership!Pending
<1> DEFINE Of(k) == {p \in Ownership!Present : key[p] = k}
<1>4. \A k \in Ownership!SourceKeys :
        u[k] = IF Of(k) # {} /\ Ownership!Untouched(rows[k])
               THEN Ownership!Pending(Ownership!Max(Of(k))) ELSE rows[k]
  BY DEF Ownership!Upserted
<1>5. \A k \in Ownership!SourceKeys : Of(k) # {} => Ownership!Max(Of(k)) \in Of(k)
  <2> SUFFICES ASSUME NEW k \in Ownership!SourceKeys, Of(k) # {}
               PROVE  Ownership!Max(Of(k)) \in Of(k)
    OBVIOUS
  <2>1. Of(k) \in SUBSET (1 .. MaxPath)
    BY <1>1
  <2> HIDE DEF Of
  <2> QED
    BY <2>1, MaxIsLast
<1>6. \A k \in Ownership!SourceKeys :
        \/ u[k] = rows[k] /\ (Of(k) = {} \/ ~Ownership!Untouched(rows[k]))
        \/ \E q \in Of(k) : u[k] = Ownership!Pending(q)
  BY <1>4, <1>5
<1>7. u \in [Ownership!SourceKeys -> Ownership!Rows \cup {None}]
  <2>1. u = [k \in Ownership!SourceKeys |-> u[k]]
    BY DEF Ownership!Upserted
  <2>2. \A k \in Ownership!SourceKeys : u[k] \in Ownership!Rows \cup {None}
    BY <1>3, <1>6
  <2> QED
    BY <2>1, <2>2
<1>8. OfTheirPath(u)
  <2> SUFFICES ASSUME NEW k \in 1 .. MaxPath, u[k] # None PROVE u[k].path = k
    BY DEF OfTheirPath
  <2>1. CASE u[k] = rows[k]
    BY <2>1 DEF OfTheirPath
  <2>2. CASE \E q \in Of(k) : u[k] = Ownership!Pending(q)
    BY <1>1, <1>3, <2>2
  <2> QED
    BY <1>1, <1>6, <2>1, <2>2
<1>9. \A p \in Ownership!Present : u[key[p]] # None
  <2> SUFFICES ASSUME NEW p \in Ownership!Present PROVE u[key[p]] # None
    OBVIOUS
  <2>1. p \in Of(key[p]) /\ key[p] \in Ownership!SourceKeys
    OBVIOUS
  <2>2. CASE u[key[p]] = rows[key[p]] /\ ~Ownership!Untouched(rows[key[p]])
    BY <2>2 DEF Ownership!Untouched
  <2>3. CASE \E q \in Of(key[p]) : u[key[p]] = Ownership!Pending(q)
    BY <1>3, <2>3
  <2> QED
    BY <1>6, <2>1, <2>2, <2>3
<1>10. ~Ownership!Untouched(rows[SessionKey]) => u[SessionKey] = rows[SessionKey]
  BY <1>1, <1>4
<1>11. \/ u[SessionKey] = rows[SessionKey]
       \/ \E q \in Ownership!Present : key[q] = SessionKey /\ u[SessionKey].path = q
  BY <1>1, <1>3, <1>6
<1> QED
  BY <1>7, <1>8, <1>9, <1>10, <1>11

(* A row without its file is only marked.                                  *)
LEMMA MissedHolds ==
  ASSUME NEW rows \in [Ownership!SourceKeys -> Ownership!Rows \cup {None}], NEW key,
         NEW m, m = Ownership!Missed(rows, key)
  PROVE  /\ m \in [Ownership!SourceKeys -> Ownership!Rows \cup {None}]
         /\ \A k \in Ownership!SourceKeys :
              /\ m[k] = None <=> rows[k] = None
              /\ m[k] # None => m[k].path = rows[k].path /\ m[k].gen = rows[k].gen
         /\ \A p \in Ownership!Present : key[p] \in Ownership!SourceKeys => m[key[p]] = rows[key[p]]
<1>1. \A k \in Ownership!SourceKeys :
        m[k] = IF rows[k] # None /\ k \notin {key[p] : p \in Ownership!Present}
               THEN [rows[k] EXCEPT !.missing = TRUE] ELSE rows[k]
  BY DEF Ownership!Missed
<1>2. ASSUME NEW old \in Ownership!Rows, NEW new, new = [old EXCEPT !.missing = TRUE]
      PROVE  new \in Ownership!Rows /\ new # None /\ new.path = old.path /\ new.gen = old.gen
  <2>1. new = [path |-> old.path, size |-> old.size, mtime |-> old.mtime, missing |-> TRUE,
               error |-> old.error, gen |-> old.gen]
    BY <1>2 DEF Ownership!Rows
  <2>2. new \in Ownership!Rows
    BY <2>1 DEF Ownership!Rows
  <2> QED
    BY <2>1, <2>2, OwnershipAssumption
<1>3. \A k \in Ownership!SourceKeys :
        /\ m[k] \in Ownership!Rows \cup {None}
        /\ m[k] = None <=> rows[k] = None
        /\ m[k] # None => m[k].path = rows[k].path /\ m[k].gen = rows[k].gen
  <2> SUFFICES ASSUME NEW k \in Ownership!SourceKeys
               PROVE  /\ m[k] \in Ownership!Rows \cup {None}
                      /\ m[k] = None <=> rows[k] = None
                      /\ m[k] # None => m[k].path = rows[k].path /\ m[k].gen = rows[k].gen
    OBVIOUS
  <2>1. CASE m[k] = rows[k]
    BY <2>1
  <2>2. CASE rows[k] # None /\ m[k] = [rows[k] EXCEPT !.missing = TRUE]
    <3> DEFINE old == rows[k]
               new == m[k]
    <3>1. old \in Ownership!Rows /\ new = [old EXCEPT !.missing = TRUE]
      BY <2>2
    <3> HIDE DEF old, new
    <3>2. new \in Ownership!Rows /\ new # None /\ new.path = old.path /\ new.gen = old.gen
      BY <1>2, <3>1
    <3> QED
      BY <2>2, <3>2 DEF old, new
  <2> QED
    BY <1>1, <2>1, <2>2
<1>4. m = [k \in Ownership!SourceKeys |-> m[k]]
  BY DEF Ownership!Missed
<1>5. \A p \in Ownership!Present : key[p] \in Ownership!SourceKeys => m[key[p]] = rows[key[p]]
  BY <1>1
<1> QED
  BY <1>3, <1>4, <1>5

(* The first transaction of a refresh, and what the refresh then asks for. *)
LEMMA BeginHolds ==
  ASSUME Ownership!OwnershipInv, Ownership!Begin
  PROVE  Ownership!OwnershipInv' /\ Ownership!KeepsCounted
<1> DEFINE promoted == Ownership!Promoted([p \in Ownership!Present |-> Ownership!Reconciled(p)])
           key == promoted.key
           u == Ownership!Upserted(promoted.row, key)
           rows == Ownership!Missed(u, key)
           work == {p \in Ownership!Present : ~Ownership!Reusable(rows[key[p]], copies, p)}
           asked == [p \in work |-> Ownership!Asked(rows, key, p)]
<1>1. /\ refresh = None /\ filed' = rows /\ copies' = copies /\ copyChanges' = copyChanges
      /\ deferred' = deferred
      /\ \E ps \in Ownership!Admitted(asked) :
           refresh' = IF ps = {} THEN None
                      ELSE [seen |-> copies, key |-> key, named |-> promoted.named,
                            asked |-> [p \in ps |-> asked[p]]]
  BY DEF Ownership!Begin
<1>2. /\ promoted.row \in [Ownership!SourceKeys -> Ownership!Rows \cup {None}]
      /\ OfTheirPath(promoted.row)
      /\ key \in [Ownership!Present -> Ownership!SourceKeys]
      /\ \A p \in Ownership!Present : key[p] \in {p, SessionKey}
      /\ promoted.named \in SUBSET (1 .. MaxPath)
      /\ Ownership!Parsed(filed[SessionKey]) => Ownership!Parsed(promoted.row[SessionKey])
      /\ (\E q \in Ownership!Present : key[q] = SessionKey) =>
           /\ promoted.row[SessionKey] # None
           /\ promoted.row[SessionKey].path \in Ownership!Present
           /\ key[promoted.row[SessionKey].path] = SessionKey
      /\ \/ /\ promoted.named = {}
            /\ \A p, q \in Ownership!Present :
                 (key[p] = SessionKey /\ key[q] = SessionKey) => p = q
         \/ /\ promoted.row[SessionKey] # None
            /\ promoted.row[SessionKey].path \in Ownership!Present
            /\ Ownership!Reusable(promoted.row[SessionKey], copies, promoted.row[SessionKey].path)
  <2> HIDE DEF promoted
  <2>1. promoted = Ownership!Promoted([p \in Ownership!Present |-> Ownership!Reconciled(p)])
    BY DEF promoted
  <2> QED
    BY <2>1, PromotedHolds
<1> DEFINE before == promoted.row
           named == promoted.named
<1> HIDE DEF promoted
<1>u. u = Ownership!Upserted(before, key)
  OBVIOUS
<1>m. rows = Ownership!Missed(u, key)
  OBVIOUS
<1> HIDE DEF before, key, named, u, rows
<1>3. /\ before \in [Ownership!SourceKeys -> Ownership!Rows \cup {None}]
      /\ OfTheirPath(before)
      /\ key \in [Ownership!Present -> Ownership!SourceKeys]
      /\ \A p \in Ownership!Present : key[p] \in {p, SessionKey}
  BY <1>2 DEF before, key
<1>4. /\ u \in [Ownership!SourceKeys -> Ownership!Rows \cup {None}]
      /\ OfTheirPath(u)
      /\ \A p \in Ownership!Present : u[key[p]] # None
      /\ ~Ownership!Untouched(before[SessionKey]) => u[SessionKey] = before[SessionKey]
      /\ \/ u[SessionKey] = before[SessionKey]
         \/ \E q \in Ownership!Present : key[q] = SessionKey /\ u[SessionKey].path = q
  BY <1>3, <1>u, UpsertedHolds
<1>5. /\ rows \in [Ownership!SourceKeys -> Ownership!Rows \cup {None}]
      /\ \A k \in Ownership!SourceKeys :
           /\ rows[k] = None <=> u[k] = None
           /\ rows[k] # None => rows[k].path = u[k].path /\ rows[k].gen = u[k].gen
      /\ \A p \in Ownership!Present : key[p] \in Ownership!SourceKeys => rows[key[p]] = u[key[p]]
  BY <1>4, <1>m, MissedHolds
<1>6. /\ SessionKey \notin 1 .. MaxPath /\ SessionKey \in Ownership!SourceKeys
      /\ Ownership!SourceKeys = (1 .. MaxPath) \cup {SessionKey}
      /\ Ownership!Present \subseteq 1 .. MaxPath
      /\ \A p \in Ownership!Present : copies[p] # None
  BY OwnershipAssumption DEF Ownership!SourceKeys, Ownership!Present
<1>7. asked \in [work -> Ownership!Requests]
  <2> SUFFICES ASSUME NEW p \in work PROVE Ownership!Asked(rows, key, p) \in Ownership!Requests
    OBVIOUS
  <2>1. rows[key[p]] \in Ownership!Rows
    BY <1>3, <1>4, <1>5
  <2>2. rows[key[p]].gen # None => rows[key[p]].gen \in Ownership!Gens
    BY <2>1 DEF Ownership!Rows
  <2>3. CASE Ownership!Resumable(rows[key[p]], p)
    <3>1. Ownership!Asked(rows, key, p) = [kind |-> "append", from |-> rows[key[p]].gen]
      BY <2>3 DEF Ownership!Asked
    <3>2. rows[key[p]].gen # None
      BY <2>3 DEF Ownership!Resumable
    <3> QED
      BY <2>2, <3>1, <3>2 DEF Ownership!Requests
  <2>4. CASE ~Ownership!Resumable(rows[key[p]], p)
    BY <2>4 DEF Ownership!Asked, Ownership!Requests
  <2> QED
    BY <2>3, <2>4
<1> HIDE DEF asked
<1>8. Ownership!Admitted(asked) \subseteq SUBSET work
  <2>1. DOMAIN asked = work
    BY <1>7
  <2> QED
    BY <2>1 DEF Ownership!Admitted
<1>9. PICK ps \in SUBSET work :
        refresh' = IF ps = {} THEN None
                   ELSE [seen |-> copies, key |-> key, named |-> named,
                         asked |-> [p \in ps |-> asked[p]]]
  BY <1>1, <1>8 DEF key, named
<1>10. /\ copies \in [1 .. MaxPath -> Ownership!Stats \cup {None}] /\ copyChanges \in Nat
       /\ \A p \in Ownership!Present : copies[p].mtime <= copyChanges
  BY DEF Ownership!OwnershipInv, Ownership!TypeOK, Ownership!DatedByChanges
<1>11. refresh' # None =>
         /\ refresh'.seen = copies /\ refresh'.key = key /\ refresh'.named = named
         /\ refresh'.asked \in [ps -> Ownership!Requests]
  BY <1>7, <1>9
<1>12. ps \in SUBSET Ownership!Present /\ DOMAIN key = Ownership!Present
       /\ named \in SUBSET (1 .. MaxPath)
  BY <1>2, <1>3 DEF named
<1>13. Ownership!RefreshTypeOK'
  <2> SUFFICES ASSUME refresh' # None
               PROVE /\ refresh'.seen \in [1 .. MaxPath -> Ownership!Stats \cup {None}]
                     /\ \E qs \in SUBSET (1 .. MaxPath) :
                          /\ refresh'.key \in [qs -> Ownership!SourceKeys]
                          /\ \A p \in qs : refresh'.seen[p] # None
                          /\ \E os \in SUBSET qs : refresh'.asked \in [os -> Ownership!Requests]
                     /\ refresh'.named \subseteq 1 .. MaxPath
    BY DEF Ownership!RefreshTypeOK, Ownership!Stats, Ownership!Requests, Ownership!SourceKeys,
       Ownership!Gens
  <2>1. /\ refresh'.key \in [Ownership!Present -> Ownership!SourceKeys]
        /\ \A p \in Ownership!Present : refresh'.seen[p] # None
        /\ \E os \in SUBSET Ownership!Present : refresh'.asked \in [os -> Ownership!Requests]
    BY <1>3, <1>6, <1>11, <1>12
  <2>2. Ownership!Present \in SUBSET (1 .. MaxPath)
    BY <1>6
  <2> QED
    BY <1>10, <1>11, <1>12, <2>1, <2>2
<1>14. Ownership!TypeOK'
  BY <1>1, <1>5, <1>10, <1>13 DEF Ownership!TypeOK, Ownership!SourceKeys, Ownership!Rows,
     Ownership!Gens, Ownership!Stats
<1>15. Ownership!DatedByChanges'
  BY <1>1, <1>10, <1>11, <1>12 DEF Ownership!DatedByChanges, Ownership!Present
<1>16. Ownership!RowsAreTheirs'
  <2>1. \A p \in 1 .. MaxPath : rows[p] # None => rows[p].path = p
    BY <1>4, <1>5, <1>6 DEF OfTheirPath
  <2>2. \A p \in Ownership!Present : key[p] \in {p, SessionKey} /\ rows[key[p]] # None
    BY <1>3, <1>4, <1>5
  <2> QED
    BY <1>1, <1>11, <1>12, <2>1, <2>2 DEF Ownership!RowsAreTheirs
<1>17. Ownership!OwnerKeepsKey'
  <2> SUFFICES ASSUME refresh' # None, NEW q \in Ownership!Present, key[q] = SessionKey,
                      NEW p \in ps, rows[SessionKey].path = p
               PROVE  key[p] = SessionKey /\ p \notin named
    BY <1>1, <1>11, <1>12 DEF Ownership!OwnerKeepsKey
  <2>1. /\ before[SessionKey] # None
        /\ before[SessionKey].path \in Ownership!Present
        /\ key[before[SessionKey].path] = SessionKey
    BY <1>2 DEF before, key
  <2>2. rows[SessionKey] = u[SessionKey]
    BY <1>3, <1>5
  <2>3. CASE /\ named = {}
             /\ \A a, b \in Ownership!Present :
                  (key[a] = SessionKey /\ key[b] = SessionKey) => a = b
    <3>1. u[SessionKey].path = q
      BY <1>4, <2>1, <2>3
    <3> QED
      BY <2>2, <2>3, <3>1
  <2>4. CASE Ownership!Reusable(before[SessionKey], copies, before[SessionKey].path)
    <3>1. ~Ownership!Untouched(before[SessionKey])
      BY <2>1, <2>4 DEF Ownership!Reusable, Ownership!Untouched
    <3>2. u[SessionKey] = before[SessionKey]
      BY <1>4, <3>1
    <3>3. p = before[SessionKey].path /\ rows[key[p]] = before[SessionKey]
      BY <2>1, <2>2, <3>2
    <3>4. Ownership!Reusable(rows[key[p]], copies, p)
      BY <2>4, <3>3
    <3>5. p \in work
      OBVIOUS
    <3> QED
      BY <3>4, <3>5
  <2> QED
    BY <1>2, <2>3, <2>4 DEF before, key, named
<1>18. Ownership!KeepsCounted
  <2> SUFFICES ASSUME Ownership!Parsed(filed[SessionKey])
               PROVE  Ownership!Parsed(rows[SessionKey])
    BY <1>1 DEF Ownership!KeepsCounted, Ownership!Parsed
  <2>1. Ownership!Parsed(before[SessionKey])
    BY <1>2 DEF before
  <2>2. ~Ownership!Untouched(before[SessionKey])
    BY <2>1 DEF Ownership!Parsed, Ownership!Untouched
  <2>3. u[SessionKey] = before[SessionKey]
    BY <1>4, <2>2
  <2> QED
    BY <1>5, <1>6, <2>1, <2>3 DEF Ownership!Parsed
<1> QED
  BY <1>14, <1>15, <1>16, <1>17, <1>18 DEF Ownership!OwnershipInv

(* What Codex does to its files leaves the cache and a refresh alone.      *)
LEMMA ChangeHolds ==
  ASSUME Ownership!OwnershipInv, NEW f, Ownership!Change(f),
         f \in [1 .. MaxPath -> Ownership!Stats \cup {None}],
         \A p \in 1 .. MaxPath : f[p] # None => f[p].mtime <= copyChanges + 1
  PROVE  Ownership!OwnershipInv' /\ Ownership!KeepsCounted
<1>1. /\ copies' = f /\ copyChanges' = copyChanges + 1 /\ filed' = filed /\ refresh' = refresh
      /\ copyChanges \in Nat
  BY DEF Ownership!Change, Ownership!OwnershipInv, Ownership!TypeOK
<1>2. /\ filed \in [Ownership!SourceKeys -> Ownership!Rows \cup {None}]
      /\ Ownership!RefreshTypeOK /\ Ownership!DatedByChanges /\ Ownership!RowsAreTheirs
      /\ Ownership!OwnerKeepsKey
  BY DEF Ownership!OwnershipInv, Ownership!TypeOK
<1>3. Ownership!RefreshTypeOK'
  BY <1>1, <1>2 DEF Ownership!RefreshTypeOK, Ownership!Stats, Ownership!Requests,
     Ownership!SourceKeys, Ownership!Gens
<1>4. Ownership!TypeOK'
  BY <1>1, <1>2, <1>3 DEF Ownership!TypeOK, Ownership!SourceKeys, Ownership!Rows,
     Ownership!Gens, Ownership!Stats
<1>5. Ownership!DatedByChanges'
  <2>1. \A p \in Ownership!Present' : copies'[p].mtime <= copyChanges'
    BY <1>1 DEF Ownership!Present
  <2>2. refresh # None => \A p \in DOMAIN refresh.key :
          refresh.seen[p].mtime \in Nat /\ refresh.seen[p].mtime <= copyChanges
    <3> SUFFICES ASSUME refresh # None, NEW p \in DOMAIN refresh.key
                 PROVE  refresh.seen[p].mtime \in Nat /\ refresh.seen[p].mtime <= copyChanges
      OBVIOUS
    <3>1. refresh.seen[p] \in Ownership!Stats
      BY <1>2 DEF Ownership!RefreshTypeOK
    <3> QED
      BY <1>2, <3>1 DEF Ownership!DatedByChanges, Ownership!Stats
  <2> QED
    BY <1>1, <2>1, <2>2 DEF Ownership!DatedByChanges
<1>6. Ownership!RowsAreTheirs' /\ Ownership!OwnerKeepsKey'
  BY <1>1, <1>2 DEF Ownership!RowsAreTheirs, Ownership!OwnerKeepsKey
<1>7. Ownership!KeepsCounted
  BY <1>1 DEF Ownership!KeepsCounted, Ownership!Parsed
<1> QED
  BY <1>4, <1>5, <1>6, <1>7 DEF Ownership!OwnershipInv

(* The stat of a copy, and of a file that has grown.                       *)
LEMMA StatOfCopy ==
  ASSUME NEW old \in Ownership!Stats, NEW i, NEW t,
         NEW x, x = [old EXCEPT !.ino = i, !.mtime = t]
  PROVE  x = [ino |-> i, size |-> old.size, mtime |-> t]
BY DEF Ownership!Stats

LEMMA StatOfGrown ==
  ASSUME NEW old \in Ownership!Stats, NEW t,
         NEW m, m = [old EXCEPT !.size = @ + 1], NEW x, x = [m EXCEPT !.mtime = t]
  PROVE  x = [ino |-> old.ino, size |-> old.size + 1, mtime |-> t]
<1>1. m = [ino |-> old.ino, size |-> old.size + 1, mtime |-> old.mtime]
  BY DEF Ownership!Stats
<1> QED
  BY <1>1

(* A file is made, grows, moves, is copied or goes.                        *)
LEMMA FilesHold ==
  ASSUME Ownership!OwnershipInv, NEW p \in 1 .. MaxPath, NEW q \in 1 .. MaxPath,
         \/ Ownership!Create(p) \/ Ownership!Grow(p) \/ Ownership!Delete(p)
         \/ Ownership!Move(p, q) \/ Ownership!Copy(p, q)
  PROVE  Ownership!OwnershipInv' /\ Ownership!KeepsCounted
<1>1. /\ copies \in [1 .. MaxPath -> Ownership!Stats \cup {None}] /\ copyChanges \in Nat
      /\ MaxCopySize \in Nat \ {0}
      /\ None \notin Ownership!Stats
  BY OwnershipAssumption DEF Ownership!OwnershipInv, Ownership!TypeOK
<1>2. \A o \in 1 .. MaxPath : copies[o] # None =>
        /\ copies[o] \in Ownership!Stats /\ copies[o].mtime \in Nat
        /\ copies[o].mtime <= copyChanges
  <2>1. \A o \in 1 .. MaxPath : copies[o] # None => copies[o] \in Ownership!Stats
    BY <1>1
  <2> QED
    BY <2>1 DEF Ownership!Stats, Ownership!OwnershipInv, Ownership!DatedByChanges, Ownership!Present
<1> DEFINE Dated(x) == x \in Ownership!Stats /\ x.mtime <= copyChanges + 1
<1>3. ASSUME NEW x, Dated(x), NEW o \in 1 .. MaxPath,
             \/ Ownership!Change([copies EXCEPT ![o] = x])
             \/ \E d \in 1 .. MaxPath : Ownership!Change([copies EXCEPT ![d] = None, ![o] = x])
      PROVE  Ownership!OwnershipInv' /\ Ownership!KeepsCounted
  <2>1. PICK f \in [1 .. MaxPath -> Ownership!Stats \cup {None}] :
          /\ Ownership!Change(f)
          /\ \A a \in 1 .. MaxPath : f[a] \in {None, x, copies[a]}
    <3>1. CASE Ownership!Change([copies EXCEPT ![o] = x])
      <4> DEFINE f == [copies EXCEPT ![o] = x]
      <4>1. /\ f \in [1 .. MaxPath -> Ownership!Stats \cup {None}]
            /\ \A a \in 1 .. MaxPath : f[a] \in {None, x, copies[a]}
        BY <1>1, <1>3
      <4>2. Ownership!Change(f)
        BY <3>1
      <4> HIDE DEF f
      <4> QED
        BY <4>1, <4>2
    <3>2. CASE \E d \in 1 .. MaxPath : Ownership!Change([copies EXCEPT ![d] = None, ![o] = x])
      <4>0. PICK d \in 1 .. MaxPath : Ownership!Change([copies EXCEPT ![d] = None, ![o] = x])
        BY <3>2
      <4> DEFINE f == [copies EXCEPT ![d] = None, ![o] = x]
      <4>1. /\ f \in [1 .. MaxPath -> Ownership!Stats \cup {None}]
            /\ \A a \in 1 .. MaxPath : f[a] \in {None, x, copies[a]}
        BY <1>1, <1>3
      <4>2. Ownership!Change(f)
        BY <4>0
      <4> HIDE DEF f
      <4> QED
        BY <4>1, <4>2
    <3> QED
      BY <1>3, <3>1, <3>2
  <2>2. \A a \in 1 .. MaxPath : f[a] # None => f[a].mtime <= copyChanges + 1
    BY <1>1, <1>2, <1>3, <2>1
  <2> QED
    BY <2>1, <2>2, ChangeHolds
<1>4. CASE Ownership!Create(p)
  <2> DEFINE x == [ino |-> copyChanges + 1, size |-> 1, mtime |-> copyChanges + 1]
  <2>1. Dated(x)
    BY <1>1 DEF Ownership!Stats
  <2>2. Ownership!Change([copies EXCEPT ![p] = x])
    BY <1>4 DEF Ownership!Create
  <2> HIDE DEF x, Dated
  <2> QED
    BY <1>3, <2>1, <2>2
<1>5. CASE Ownership!Grow(p)
  <2> DEFINE old == copies[p]
             x == [ino |-> old.ino, size |-> old.size + 1, mtime |-> copyChanges + 1]
  <2>1. copies[p] # None /\ old.size < MaxCopySize
        /\ Ownership!Change([copies EXCEPT ![p].size = @ + 1, ![p].mtime = copyChanges + 1])
    BY <1>5 DEF Ownership!Grow
  <2>2. old \in Ownership!Stats
    BY <1>2, <2>1
  <2>3. Dated(x)
    BY <1>1, <2>1, <2>2 DEF Ownership!Stats
  <2>4. [copies EXCEPT ![p].size = @ + 1, ![p].mtime = copyChanges + 1] = [copies EXCEPT ![p] = x]
    <3> DEFINE y == [[old EXCEPT !.size = @ + 1] EXCEPT !.mtime = copyChanges + 1]
               f == [copies EXCEPT ![p].size = @ + 1, ![p].mtime = copyChanges + 1]
    <3>1. y = x
      <4> DEFINE m == [old EXCEPT !.size = @ + 1]
                 t == copyChanges + 1
      <4>1. y = [m EXCEPT !.mtime = t] /\ m = [old EXCEPT !.size = @ + 1]
        OBVIOUS
      <4>2. x = [ino |-> old.ino, size |-> old.size + 1, mtime |-> t]
        OBVIOUS
      <4> HIDE DEF old, y, m, t, x
      <4> QED
        BY <2>2, <4>1, <4>2, StatOfGrown
    <3>2. /\ f \in [1 .. MaxPath -> {f[a] : a \in 1 .. MaxPath}]
          /\ \A a \in 1 .. MaxPath : f[a] = IF a = p THEN y ELSE copies[a]
      BY <1>1
    <3> HIDE DEF f, x, y, old
    <3>3. f = [copies EXCEPT ![p] = x]
      BY <1>1, <3>1, <3>2
    <3> QED
      BY <3>3 DEF f
  <2>5. Ownership!Change([copies EXCEPT ![p] = x])
    BY <2>1, <2>4
  <2> HIDE DEF x, Dated
  <2> QED
    BY <1>3, <2>3, <2>5
<1>6. CASE Ownership!Delete(p)
  <2> DEFINE f == [copies EXCEPT ![p] = None]
  <2>1. Ownership!Change(f) /\ f \in [1 .. MaxPath -> Ownership!Stats \cup {None}]
    BY <1>1, <1>6 DEF Ownership!Delete
  <2>2. \A a \in 1 .. MaxPath : f[a] # None => f[a].mtime <= copyChanges + 1
    BY <1>1, <1>2
  <2> HIDE DEF f
  <2> QED
    BY <2>1, <2>2, ChangeHolds
<1>7. CASE Ownership!Move(p, q)
  <2>1. copies[p] # None /\ Ownership!Change([copies EXCEPT ![p] = None, ![q] = copies[p]])
    BY <1>7 DEF Ownership!Move
  <2>2. Dated(copies[p])
    BY <1>1, <1>2, <2>1
  <2> HIDE DEF Dated
  <2> QED
    BY <1>3, <2>1, <2>2
<1>8. CASE Ownership!Copy(p, q)
  <2>1. PICK t \in {copies[p].mtime, copyChanges + 1} :
          Ownership!Change([copies EXCEPT ![q] = [copies[p] EXCEPT !.ino = copyChanges + 1,
                                                                   !.mtime = t]])
    BY <1>8 DEF Ownership!Copy
  <2>2. copies[p] \in Ownership!Stats /\ t \in Nat /\ t <= copyChanges + 1
    BY <1>1, <1>2, <1>8 DEF Ownership!Copy
  <2> DEFINE old == copies[p]
             x == [old EXCEPT !.ino = copyChanges + 1, !.mtime = t]
  <2>3. Dated(x)
    <3> HIDE DEF old
    <3>1. old \in Ownership!Stats
      BY <2>2 DEF old
    <3> DEFINE i == copyChanges + 1
    <3>a. x = [old EXCEPT !.ino = i, !.mtime = t]
      OBVIOUS
    <3> HIDE DEF x, i
    <3>2. x = [ino |-> i, size |-> old.size, mtime |-> t]
      BY <3>1, <3>a, StatOfCopy
    <3>b. i \in Nat
      BY <1>1 DEF i
    <3>3. x \in Ownership!Stats
      BY <2>2, <3>1, <3>2, <3>b DEF Ownership!Stats
    <3>4. x.mtime = t
      BY <3>2
    <3> QED
      BY <2>2, <3>3, <3>4
  <2>4. Ownership!Change([copies EXCEPT ![q] = x])
    BY <2>1
  <2> HIDE DEF x, Dated
  <2> QED
    BY <1>3, <2>3, <2>4
<1> QED
  BY <1>4, <1>5, <1>6, <1>7, <1>8

(* A refresh that ends between its transactions leaves what it has filed.  *)
LEMMA InterruptHolds ==
  ASSUME Ownership!OwnershipInv,
         Ownership!Interrupt \/ UNCHANGED <<copies, filed, refresh, copyChanges>>
  PROVE  Ownership!OwnershipInv' /\ Ownership!KeepsCounted
<1>1. /\ copies' = copies /\ filed' = filed /\ copyChanges' = copyChanges
      /\ refresh' \in {refresh, None}
  BY DEF Ownership!Interrupt
<1>2. Ownership!TypeOK'
  BY <1>1 DEF Ownership!OwnershipInv, Ownership!TypeOK, Ownership!RefreshTypeOK,
     Ownership!SourceKeys, Ownership!Rows, Ownership!Gens, Ownership!Stats, Ownership!Requests
<1>3. Ownership!DatedByChanges' /\ Ownership!RowsAreTheirs' /\ Ownership!OwnerKeepsKey'
  BY <1>1 DEF Ownership!OwnershipInv, Ownership!DatedByChanges, Ownership!RowsAreTheirs,
     Ownership!OwnerKeepsKey, Ownership!Present
<1>4. Ownership!KeepsCounted
  BY <1>1 DEF Ownership!KeepsCounted, Ownership!Parsed
<1> QED
  BY <1>2, <1>3, <1>4 DEF Ownership!OwnershipInv

(* A source that is rebuilt is counted.                                    *)
LEMMA SourceIsRebuilt ==
  ASSUME Ownership!OwnershipInv, NEW k \in Ownership!SourceKeys, Ownership!Rebuild(k)
  PROVE  Ownership!OwnershipInv' /\ Ownership!KeepsCounted
<1> DEFINE p == filed[k].path
           new == [path |-> p, size |-> copies[p].size, mtime |-> copies[p].mtime,
                   missing |-> FALSE, error |-> FALSE,
                   gen |-> [ino |-> copies[p].ino, upto |-> copies[p].size]]
<1>1. /\ refresh = None /\ refresh' = None /\ copies' = copies /\ copyChanges' = copyChanges
      /\ filed[k] # None /\ p \in Ownership!Present /\ filed' = [filed EXCEPT ![k] = new]
  BY DEF Ownership!Rebuild
<1>2. /\ filed \in [Ownership!SourceKeys -> Ownership!Rows \cup {None}]
      /\ copies \in [1 .. MaxPath -> Ownership!Stats \cup {None}]
      /\ Ownership!RowsAreTheirs
  BY DEF Ownership!OwnershipInv, Ownership!TypeOK
<1>3. new \in Ownership!Rows /\ new # None /\ new.path = p /\ new.gen # None
  <2> HIDE DEF p
  <2>1. p \in 1 .. MaxPath /\ copies[p] \in Ownership!Stats
    BY <1>1, <1>2 DEF Ownership!Present
  <2>2. copies[p].size \in 1 .. MaxCopySize /\ copies[p].mtime \in Nat /\ copies[p].ino \in Nat
        /\ copies[p].size \in Nat
    BY <2>1, OwnershipAssumption DEF Ownership!Stats
  <2>3. [ino |-> copies[p].ino, upto |-> copies[p].size] \in Ownership!Gens
    BY <2>2 DEF Ownership!Gens
  <2>4. new \in Ownership!Rows
    BY <2>1, <2>2, <2>3 DEF Ownership!Rows
  <2>5. new.path = p /\ new.gen \in Ownership!Gens
    BY <2>3
  <2> HIDE DEF new
  <2> QED
    BY <2>4, <2>5, OwnershipAssumption
<1> HIDE DEF new
<1>4. filed' \in [Ownership!SourceKeys -> Ownership!Rows \cup {None}]
  BY <1>1, <1>2, <1>3
<1>5. \A q \in 1 .. MaxPath : filed'[q] # None => filed'[q].path = q
  BY <1>1, <1>2, <1>3 DEF Ownership!RowsAreTheirs, Ownership!SourceKeys
<1>6. Ownership!TypeOK'
  BY <1>1, <1>4 DEF Ownership!OwnershipInv, Ownership!TypeOK, Ownership!RefreshTypeOK,
     Ownership!SourceKeys, Ownership!Rows, Ownership!Gens, Ownership!Stats
<1>7. Ownership!DatedByChanges' /\ Ownership!RowsAreTheirs' /\ Ownership!OwnerKeepsKey'
  BY <1>1, <1>5 DEF Ownership!OwnershipInv, Ownership!DatedByChanges, Ownership!RowsAreTheirs,
     Ownership!OwnerKeepsKey, Ownership!Present
<1>8. Ownership!KeepsCounted
  BY <1>1, <1>2, <1>3 DEF Ownership!KeepsCounted, Ownership!Parsed, Ownership!SourceKeys
<1> QED
  BY <1>6, <1>7, <1>8 DEF Ownership!OwnershipInv

(* The invariant holds at first, and in every step; no step loses what     *)
(* is counted.                                                             *)
LEMMA OwnershipInit == Ownership!Init => Ownership!OwnershipInv
<1> SUFFICES ASSUME Ownership!Init PROVE Ownership!OwnershipInv
  OBVIOUS
<1>1. Ownership!TypeOK
  BY DEF Ownership!Init, Ownership!TypeOK, Ownership!RefreshTypeOK
<1>2. Ownership!DatedByChanges /\ Ownership!RowsAreTheirs /\ Ownership!OwnerKeepsKey
  BY DEF Ownership!Init, Ownership!DatedByChanges, Ownership!RowsAreTheirs,
     Ownership!OwnerKeepsKey, Ownership!Present, Ownership!SourceKeys
<1> QED
  BY <1>1, <1>2 DEF Ownership!OwnershipInv

(* Every step of Codex, of a refresh and of the queue keeps it.            *)
LEMMA OwnershipStep ==
  ASSUME Ownership!OwnershipInv, [Ownership!Next]_(Ownership!vars)
  PROVE  Ownership!OwnershipInv' /\ Ownership!KeepsCounted
<1>1. CASE \E p \in 1 .. MaxPath :
             Ownership!Create(p) \/ Ownership!Grow(p) \/ Ownership!Delete(p)
  BY <1>1, FilesHold
<1>2. CASE \E p, q \in 1 .. MaxPath : Ownership!Move(p, q) \/ Ownership!Copy(p, q)
  BY <1>2, FilesHold
<1>3. CASE Ownership!Begin
  BY <1>3, BeginHolds
<1>4. CASE Ownership!Commit
  BY <1>4, CommitHolds
<1>5. CASE Ownership!Interrupt \/ UNCHANGED <<copies, filed, refresh, copyChanges>>
  BY <1>5, InterruptHolds
<1>6. CASE \E k \in Ownership!SourceKeys : Ownership!Rebuild(k)
  BY <1>6, SourceIsRebuilt
<1> QED
  BY <1>1, <1>2, <1>3, <1>4, <1>5, <1>6 DEF Ownership!Next, Ownership!vars

-----------------------------------------------------------------------------
(* The parts in one specification                                          *)

(* The upgrade of a ledger keeps its invariant: who holds a lock is where  *)
(* the lock is needed, and the copy a migration is held to is no older     *)
(* than the baseline (ledger_maintenance.py, ledger_migration_backup.py).  *)
UpgradePart == part = "upgrade" => Upgrade!UpgradeInv

THEOREM UpgradeInvariant == MCSpec => []UpgradePart
<1>1. MCInit => UpgradePart
  BY UpgradeInvInit DEF MCInit, UpgradePart
<1>2. UpgradePart /\ [MCNext]_allVars => UpgradePart'
  <2> SUFFICES ASSUME UpgradePart, [MCNext]_allVars, part' = "upgrade"
               PROVE  Upgrade!UpgradeInv'
    BY DEF UpgradePart
  <2>1. part = "upgrade"
    BY DEF MCNext, allVars
  <2>2. [Upgrade!Next]_(Upgrade!vars)
    BY <2>1 DEF MCNext, allVars, ofUpgrade, Upgrade!vars, Upgrade!Database
  <2> QED
    BY <2>1, <2>2, UpgradeInvStep DEF UpgradePart
<1> QED
  BY <1>1, <1>2, PTL DEF MCSpec

(* One thread at a time upgrades a ledger, with every lock it needs, and   *)
(* among the threads that opened something one waits for nobody; a source  *)
(* is worked on once, and an active one has somebody to complete it: for   *)
(* any number of processes, threads, sources and captures.                 *)
THEOREM WorkIsOneAtATime == MCSpec => []OneAtATime
<1> DEFINE RebuildPart == part = "rebuild" => QueueInv
<1>1. MCInit => RebuildPart
  BY QueueInvInit DEF MCInit
<1>2. RebuildPart /\ [MCNext]_allVars => RebuildPart'
  <2> SUFFICES ASSUME RebuildPart, [MCNext]_allVars, part' = "rebuild"
               PROVE  QueueInv'
    OBVIOUS
  <2>1. part = "rebuild"
    BY DEF MCNext, allVars
  <2>2. [Next]_vars
    BY <2>1 DEF MCNext, allVars, ofTheRest, ofRebuild
  <2> QED
    BY <2>1, <2>2, QueueInvStep
<1>3. UpgradePart /\ RebuildPart => OneAtATime
  BY OneUpgradeHolds, NoWaitCycleHolds, ActiveWillBeCompleted DEF UpgradePart, OneAtATime
<1> HIDE DEF RebuildPart
<1> QED
  BY <1>1, <1>2, <1>3, UpgradeInvariant, PTL DEF MCSpec

(* Whatever an older writer commits meanwhile and wherever a process dies, *)
(* the step that upgrades a ledger has a verified copy of exactly what it  *)
(* replaces, and guards the ledger.                                        *)
THEOREM UpgradesAreBackedUp == MCSpec => UpgradeIsBackedUp
<1>1. UpgradePart /\ [MCNext]_allVars => [part = "upgrade" => Upgrade!BackedUp]_allVars
  <2> SUFFICES ASSUME UpgradePart, [MCNext]_allVars, part = "upgrade"
               PROVE  Upgrade!BackedUp
    OBVIOUS
  <2>1. [Upgrade!Next]_(Upgrade!vars)
    BY DEF MCNext, allVars, ofUpgrade, Upgrade!vars, Upgrade!Database
  <2> QED
    BY <2>1, BackedUpStep DEF UpgradePart
<1> QED
  BY <1>1, UpgradeInvariant, PTL DEF MCSpec, UpgradeIsBackedUp

(* What the cache tells of a file, and an analysis on its way, was true of *)
(* the writing it names (storage_content_analysis.py, storage_index.py).   *)
StoragePart == part = "storage" => Storage!StorageInv

THEOREM StorageInvariant == MCSpec => []StoragePart
<1>1. MCInit => StoragePart
  BY StorageInvInit DEF MCInit, StoragePart
<1>2. StoragePart /\ [MCNext]_allVars => StoragePart'
  <2> SUFFICES ASSUME StoragePart, [MCNext]_allVars, part' = "storage"
               PROVE  Storage!StorageInv'
    BY DEF StoragePart
  <2>1. part = "storage"
    BY DEF MCNext, allVars, ofTheRest
  <2>2. [Storage!Next]_(Storage!vars)
    BY <2>1 DEF MCNext, allVars, ofTheRest, ofStorage, Storage!vars
  <2> QED
    BY <2>1, <2>2, StorageInvStep DEF StoragePart
<1> QED
  BY <1>1, <1>2, PTL DEF MCSpec

(* Findings that the view shows as complete count the rows of the file as  *)
(* it is: for any tree of files and rows, and any sequence of snapshots,   *)
(* appended, torn and rewritten rows, moves and interrupted analyses.      *)
THEOREM CompleteFindingsAreExact == MCSpec => []CompleteIsExact
<1>1. StoragePart => CompleteIsExact
  BY CompleteHolds DEF StoragePart, CompleteIsExact, Storage!StorageInv
<1> QED
  BY <1>1, StorageInvariant, PTL

(* An analysis keeps the findings of the whole tree that was selected or   *)
(* none.                                                                   *)
THEOREM FindingsAreKeptWhole == MCSpec => AllOrNothing
<1>1. StoragePart /\ [MCNext]_allVars => [part = "storage" => Storage!StoresAllOrNothing]_allVars
  <2> SUFFICES ASSUME StoragePart, [MCNext]_allVars, part = "storage"
               PROVE  Storage!StoresAllOrNothing
    OBVIOUS
  <2>1. [Storage!Next]_(Storage!vars)
    BY DEF MCNext, allVars, ofTheRest, ofStorage, Storage!vars
  <2> QED
    BY <2>1, AllOrNothingStep DEF StoragePart
<1> QED
  BY <1>1, StorageInvariant, PTL DEF MCSpec, AllOrNothing

(* A run of the migration has merged, task by task, histories that go on   *)
(* from the ledger's, and what it read of a cache that is still as it was  *)
(* when the run was asked for (migrate_legacy_caches).                     *)
MigrationPart == part = "migration" => Migration!MigrationInv

THEOREM MigrationInvariant == MCSpec => []MigrationPart
<1>1. MCInit => MigrationPart
  BY MigrationInvInit DEF MCInit, MigrationPart
<1>2. MigrationPart /\ [MCNext]_allVars => MigrationPart'
  <2> SUFFICES ASSUME MigrationPart, [MCNext]_allVars, part' = "migration"
               PROVE  Migration!MigrationInv'
    BY DEF MigrationPart
  <2>1. part = "migration"
    BY DEF MCNext, allVars
  <2>2. [Migration!Next]_(Migration!vars)
    BY <2>1 DEF MCNext, allVars, ofMigration, Migration!vars
  <2> QED
    BY <2>1, <2>2, MigrationInvStep DEF MigrationPart
<1> QED
  BY <1>1, <1>2, PTL DEF MCSpec

(* For any tasks, caches and histories, whatever older clients write       *)
(* meanwhile and wherever a run fails or dies: a history in the ledger is  *)
(* replaced only by one that goes on from it or by the user's choice, and  *)
(* a cache recorded as migrated is in the ledger                           *)
(* (compare_generation_history, _merge_cache, verified_legacy_cache).      *)
THEOREM MigrationKeepsHistories == MCSpec => MigrationIsFaithful
<1>1. MigrationPart /\ [MCNext]_allVars =>
        [part = "migration" =>
           /\ Migration!MigrationInv
           /\ Migration!KeepsHistory /\ Migration!CompletesWhatItMigrates]_allVars
  <2> SUFFICES ASSUME MigrationPart, [MCNext]_allVars, part = "migration"
               PROVE  /\ Migration!MigrationInv
                      /\ Migration!KeepsHistory /\ Migration!CompletesWhatItMigrates
    OBVIOUS
  <2>1. [Migration!Next]_(Migration!vars)
    BY DEF MCNext, allVars, ofMigration, Migration!vars
  <2> QED
    BY <2>1, HistoryStaysStep, MigratedStep DEF MigrationPart
<1> QED
  BY <1>1, MigrationInvariant, PTL DEF MCSpec, MigrationIsFaithful

(* Of a weak capture the ledger knows what its header says, or that it is not *)
(* known; who was passed over is ahead of those who were served               *)
(* (history_upgrade_discovery.py).                                            *)
DiscoveryPart == part = "discovery" => Discovery!DiscoveryInv

THEOREM DiscoveryInvariant == MCSpec => []DiscoveryPart
<1>1. MCInit => DiscoveryPart
  BY DiscoveryInvInit DEF MCInit, DiscoveryPart
<1>2. DiscoveryPart /\ [MCNext]_allVars => DiscoveryPart'
  <2> SUFFICES ASSUME DiscoveryPart, [MCNext]_allVars, part' = "discovery"
               PROVE  Discovery!DiscoveryInv'
    BY DEF DiscoveryPart
  <2>1. part = "discovery"
    BY DEF MCNext, allVars
  <2>2. [Discovery!Next]_(Discovery!vars)
    BY <2>1 DEF MCNext, allVars, ofDiscovery, Discovery!vars
  <2> QED
    BY <2>1, <2>2, DiscoveryInvStep DEF DiscoveryPart
<1> QED
  BY <1>1, <1>2, PTL DEF MCSpec

(* For any sources, families, header sizes and budget that covers any one     *)
(* header, whatever fails and changes: no source is passed over more often    *)
(* than there are others, and who waits waits for a protected source          *)
(* (discover_accounting_upgrades, _release_dependencies).                     *)
THEOREM RefreshesAreFair == MCSpec => []DiscoveryIsFair
<1>1. DiscoveryPart => DiscoveryIsFair
  BY NobodyStarvesHolds DEF DiscoveryPart, DiscoveryIsFair, Discovery!DiscoveryInv
<1> QED
  BY <1>1, DiscoveryInvariant, PTL

(* Whatever the headers say and fail to say, and however small the budget: *)
(* a file takes the place of an old capture only after the capture's       *)
(* header was read and inherits nothing, or the capture was rebuilt        *)
(* (discover_accounting_upgrades, defer_upgrade_dependency).               *)
THEOREM NoUnreadCaptureIsReplaced ==
  MCSpec => [][part = "discovery" => Discovery!ReplacesNothing]_allVars
<1>1. DiscoveryPart /\ [MCNext]_allVars
        => [part = "discovery" => Discovery!ReplacesNothing]_allVars
  <2> SUFFICES ASSUME DiscoveryPart, [MCNext]_allVars, part = "discovery"
               PROVE  Discovery!ReplacesNothing
    OBVIOUS
  <2>1. [Discovery!Next]_(Discovery!vars)
    BY DEF MCNext, allVars, ofDiscovery, Discovery!vars
  <2> QED
    BY <2>1, ReplacesNothingStep DEF DiscoveryPart
<1> QED
  BY <1>1, DiscoveryInvariant, PTL DEF MCSpec

(* A refresh knows whom it has given the session's key, and rows are of    *)
(* their paths (_reconcile_fallback_file_keys, replace_file_generation).   *)
OwnershipPart == part = "ownership" => Ownership!OwnershipInv

THEOREM OwnershipInvariant == MCSpec => []OwnershipPart
<1>1. MCInit => OwnershipPart
  BY OwnershipInit DEF MCInit, OwnershipPart
<1>2. OwnershipPart /\ [MCNext]_allVars => OwnershipPart'
  <2> SUFFICES ASSUME OwnershipPart, [MCNext]_allVars, part' = "ownership"
               PROVE  Ownership!OwnershipInv'
    BY DEF OwnershipPart
  <2>1. part = "ownership"
    BY DEF MCNext, allVars
  <2>2. [Ownership!Next]_(Ownership!vars)
    BY <2>1 DEF MCNext, allVars, ofOwnership, Ownership!vars
  <2> QED
    BY <2>1, <2>2, OwnershipStep DEF OwnershipPart
<1> QED
  BY <1>1, <1>2, PTL DEF MCSpec

(* For any paths in any directories, however the files of a session are    *)
(* moved, copied, dated, cut off and deleted while a refresh is on its way *)
(* and wherever a refresh fails: a session that is counted stays counted;  *)
(* and no file takes the place of a capture whose header was not read      *)
(* (promote_cached_session_owners, entry_for_successful_generation,        *)
(* discover_accounting_upgrades).                                          *)
THEOREM NothingIsLost == MCSpec => NothingCountedIsLost
<1>1. OwnershipPart /\ DiscoveryPart /\ [MCNext]_allVars =>
        [/\ part = "ownership" => Ownership!OwnershipInv /\ Ownership!KeepsCounted
         /\ part = "discovery" => Discovery!ReplacesNothing]_allVars
  <2> SUFFICES ASSUME OwnershipPart, DiscoveryPart, [MCNext]_allVars
               PROVE  /\ part = "ownership" => Ownership!OwnershipInv /\ Ownership!KeepsCounted
                      /\ part = "discovery" => Discovery!ReplacesNothing
    OBVIOUS
  <2>1. ASSUME part = "ownership"
        PROVE  Ownership!OwnershipInv /\ Ownership!KeepsCounted
    <3>1. [Ownership!Next]_(Ownership!vars)
      BY <2>1 DEF MCNext, allVars, ofOwnership, Ownership!vars
    <3> QED
      BY <2>1, <3>1, OwnershipStep DEF OwnershipPart
  <2>2. ASSUME part = "discovery"
        PROVE  Discovery!ReplacesNothing
    <3>1. [Discovery!Next]_(Discovery!vars)
      BY <2>2 DEF MCNext, allVars, ofDiscovery, Discovery!vars
    <3> QED
      BY <2>2, <3>1, ReplacesNothingStep DEF DiscoveryPart
  <2> QED
    BY <2>1, <2>2
<1> QED
  BY <1>1, OwnershipInvariant, DiscoveryInvariant, PTL DEF MCSpec, NothingCountedIsLost
=============================================================================
