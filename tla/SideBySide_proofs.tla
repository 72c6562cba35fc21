-------------------------- MODULE SideBySide_proofs --------------------------
(***************************************************************************)
(* Proofs about the components of SideBySide, each for any value of its    *)
(* constants: what it promises holds in every state the run can reach,     *)
(* with any number of jobs, invocations, requests, worlds, pairs, roots,   *)
(* steps or attempts. A section states a component's inductive invariant,  *)
(* shows that each of its actions keeps it, and ends in theorems about the *)
(* properties the run checks. What runs beside it leaves it alone (the     *)
(* lemmas named Frame).                                                    *)
(***************************************************************************)
EXTENDS SideBySide, FiniteSetTheorems, WellFoundedInduction, TLAPS

-----------------------------------------------------------------------------
(* Numbers and sequences.                                                  *)

\* Induction on the naturals, as a least element.
LEMMA LeastElement ==
  ASSUME NEW S, S \subseteq Nat, S # {}
  PROVE  \E x \in S : \A y \in S : x <= y
<1> DEFINE R == {ss \in Nat \X Nat : ss[1] < ss[2]}
<1>1. IsWellFoundedOn(R, Nat)
  BY NatLessThanWellFounded DEF OpToRel
<1>2. PICK x \in S : \A y \in S : <<y, x>> \notin R
  BY <1>1, WFMin
<1>3. \A y \in S : ~(y < x)
  BY <1>2
<1> QED BY <1>2, <1>3

LEMMA GreatestElement ==
  ASSUME NEW n \in Nat, NEW S, S \subseteq 1..n, S # {}
  PROVE  \E x \in S : \A y \in S : y <= x
<1> DEFINE T == {n - y : y \in S}
<1>1. T \subseteq Nat /\ T # {}
  <2>1. \A y \in S : n - y \in Nat
    OBVIOUS
  <2> QED BY <2>1
<1>2. PICK t \in T : \A u \in T : t <= u
  BY <1>1, LeastElement
<1>3. PICK x \in S : t = n - x
  BY <1>2
<1>4. \A y \in S : n - x <= n - y
  BY <1>2, <1>3
<1> QED BY <1>3, <1>4
\* What is in a sequence is what its entries are.
LEMMA Entry ==
  ASSUME NEW R, NEW made \in Seq(R), NEW a \in 1..Len(made)
  PROVE  made[a] \in R /\ Len(made) \in Nat /\ DOMAIN made = 1..Len(made)
OBVIOUS

-----------------------------------------------------------------------------
(* Training jobs.                                                          *)

USE TrainingAssumption

\* A job's thread, its child, what is recorded of it and what was told of it, by
\* where the lock is: a job under way was never told to have ended, so that no
\* write, failed write or crash takes an answer back.
Told(j) == \E s \in Terminal : <<j, s>> \in told
Holds(at, j) == lock = [step |-> at, job |-> j]

\* The step that holds the lock has done the part of it that is in memory.
LockSound(j) ==
  /\ Holds("start", j) =>
       jobs[j] = "queued" /\ disk[j] = "directory" /\ threads[j] = None
  /\ Holds("begin", j) => jobs[j] = "running" /\ threads[j] = "started"
  /\ Holds("finish", j) => jobs[j] \in Terminal /\ threads[j] = "trained"

\* A thread works for the active job, or is finishing it, and its child has
\* ended when it has trained.
ThreadSound(j) ==
  /\ threads[j] # None => jobs[j] \in Active \/ Holds("finish", j)
  /\ threads[j] = "trained" => j \notin children
  /\ jobs[j] \in Active =>
       j = active /\ (threads[j] # None \/ Holds("start", j) \/ j \in unsaved)

\* A job under way was told to nobody and is not recorded as ended; an ended
\* one is recorded as it ended, unless its manifest could not be written.
DiskSound(j) ==
  /\ jobs[j] \in Active \/ Holds("finish", j) =>
       ~Told(j) /\ disk[j] \in Active \cup {"directory"}
  /\ Told(j) \/ jobs[j] # None => disk[j] # None
  /\ jobs[j] \in Terminal /\ ~Holds("finish", j) /\ j \notin unsaved => disk[j] = jobs[j]

\* A completed job's child is gone and left what was verified.
CompleteSound(j) ==
  jobs[j] = "completed" \/ disk[j] = "completed" \/ <<j, "completed">> \in told =>
    Verified(j, left[j]) /\ j \notin children

\* What was told of a job whose manifests could be written.
AnswerSound(j) ==
  j \notin unsaved => \A s \in Terminal :
    <<j, s>> \in told => disk[j] = s /\ jobs[j] \in {s, None}

JobSound(j) == /\ LockSound(j) /\ ThreadSound(j) /\ DiskSound(j)
               /\ CompleteSound(j) /\ AnswerSound(j)

ServiceSound ==
  /\ lock # Free => Serving
  /\ ~Serving => \A j \in Jobs : threads[j] = None /\ jobs[j] \notin Active

IInv == TypeOK /\ ServiceSound /\ \A j \in Jobs : JobSound(j)

LEMMA InitSound == Init => IInv
<1> SUFFICES ASSUME Init PROVE IInv
  OBVIOUS
<1>1. TypeOK
  BY DEF Init, TypeOK, Free
<1>2. ServiceSound
  BY DEF Init, ServiceSound, Free, Serving, Active
<1>3. ASSUME NEW j \in Jobs PROVE JobSound(j)
  BY DEF Init, JobSound, LockSound, ThreadSound, DiskSound, CompleteSound, AnswerSound, Told,
         Holds, Free, Active, Terminal
<1>4. QED
  BY <1>1, <1>2, <1>3 DEF IInv

\* The invariant gives the checked property.
LEMMA Strengthens == IInv => JobsStand
<1> SUFFICES ASSUME IInv PROVE JobsStand
  OBVIOUS
<1>1. TypeOK
  BY DEF IInv
<1>2. ToldStands
  <2>1. ASSUME NEW j \in Jobs, NEW s \in Terminal, <<j, s>> \in told, j \notin unsaved
        PROVE  /\ disk[j] = s /\ jobs[j] \in {s, None}
               /\ \A t \in Terminal \ {s} : <<j, t>> \notin told
    BY <2>1 DEF IInv, JobSound, AnswerSound
  <2>2. ASSUME NEW j \in Jobs, <<j, "completed">> \in told PROVE Verified(j, left[j])
    BY <2>2 DEF IInv, JobSound, CompleteSound
  <2>3. QED
    BY <2>1, <2>2 DEF ToldStands
<1>3. OneJobAtATime
  <2>1. ASSUME NEW j \in Jobs
        PROVE  /\ jobs[j] \in Active => j = active
               /\ threads[j] # None
                    => jobs[j] \in Active \/ lock = [step |-> "finish", job |-> j]
    BY <2>1 DEF IInv, JobSound, ThreadSound, Holds
  <2>2. ASSUME Conflicts, lock = Free, active \notin unsaved PROVE threads[active] # None
    <3>1. active \in Jobs /\ jobs[active] \in Active
      BY <1>1, <2>2 DEF Conflicts, TypeOK
    <3>2. ~Holds("start", active)
      BY <2>2 DEF Holds, Free
    <3>3. QED
      BY <2>2, <3>1, <3>2 DEF IInv, JobSound, ThreadSound
  <2>3. QED
    BY <2>1, <2>2 DEF OneJobAtATime
<1>4. QED
  BY <1>1, <1>2, <1>3 DEF JobsStand

LEMMA StartSound == ASSUME IInv, NEW k \in Jobs, Start(k) PROVE IInv'
<1>1. /\ manager = "open" /\ lock = Free /\ lock' = [step |-> "start", job |-> k]
      /\ ~Conflicts /\ disk[k] = None /\ jobs[k] = None /\ active' = k
      /\ disk' = [disk EXCEPT ![k] = "directory"] /\ jobs' = [jobs EXCEPT ![k] = "queued"]
      /\ UNCHANGED <<manager, boots, threads, left, children, told, unsaved>>
  BY DEF Start, Takes
<1>2. TypeOK'
  BY <1>1 DEF IInv, TypeOK, Active
<1>3. ServiceSound'
  BY <1>1 DEF IInv, ServiceSound, Serving
<1>4. ASSUME NEW j \in Jobs PROVE JobSound(j)'
  <2>1. ~Holds("start", j) /\ ~Holds("begin", j) /\ ~Holds("finish", j)
    BY <1>1 DEF Holds, Free
  <2>2. JobSound(j) /\ JobSound(k) /\ TypeOK
    BY DEF IInv
  <2>3. CASE j = k
    <3>1. threads[k] = None /\ ~Told(k)
      BY <1>1, <2>1, <2>2, <2>3 DEF JobSound, ThreadSound, DiskSound, Active
    <3>2. jobs'[k] = "queued" /\ disk'[k] = "directory" /\ Holds("start", k)'
      BY <1>1, <2>2 DEF TypeOK, Holds
    <3>3. ~Told(k)' /\ ~Holds("begin", k)' /\ ~Holds("finish", k)'
      BY <1>1, <3>1 DEF Told, Holds
    <3>4. QED
      BY <1>1, <2>2, <2>3, <3>1, <3>2, <3>3 DEF JobSound, LockSound, ThreadSound, DiskSound,
         CompleteSound, AnswerSound, Told, Active, Terminal
  <2>4. CASE j # k
    <3>1. jobs[j] \notin Active
      BY <1>1, <2>2 DEF JobSound, ThreadSound, Conflicts
    <3>2. jobs'[j] = jobs[j] /\ disk'[j] = disk[j]
      BY <1>1, <2>2, <2>4 DEF TypeOK
    <3>3. ~Holds("start", j)' /\ ~Holds("begin", j)' /\ ~Holds("finish", j)'
      BY <1>1, <2>4 DEF Holds
    <3>4. QED
      BY <1>1, <2>1, <2>2, <3>1, <3>2, <3>3 DEF JobSound, LockSound, ThreadSound, DiskSound,
         CompleteSound, AnswerSound, Told
  <2>5. QED
    BY <2>3, <2>4
<1>5. QED
  BY <1>2, <1>3, <1>4 DEF IInv

LEMMA BeginSound == ASSUME IInv, NEW k \in Jobs, Begin(k) PROVE IInv'
<1>1. /\ Serving /\ threads[k] = "started" /\ lock = Free
      /\ lock' = [step |-> "begin", job |-> k] /\ jobs' = [jobs EXCEPT ![k] = "running"]
      /\ UNCHANGED <<manager, boots, active, threads, left, children, disk, told, unsaved>>
  BY DEF Begin, Takes
<1>2. TypeOK'
  BY <1>1 DEF IInv, TypeOK, Active
<1>3. ServiceSound'
  BY <1>1 DEF IInv, ServiceSound, Serving
<1>4. ASSUME NEW j \in Jobs PROVE JobSound(j)'
  <2>1. ~Holds("start", j) /\ ~Holds("begin", j) /\ ~Holds("finish", j)
    BY <1>1 DEF Holds, Free
  <2>2. JobSound(j) /\ TypeOK
    BY DEF IInv
  <2>3. ~Holds("start", j)' /\ ~Holds("finish", j)' /\ (Holds("begin", j)' <=> j = k)
    BY <1>1 DEF Holds
  <2>4. CASE j = k
    <3>1. jobs[k] \in Active /\ jobs'[k] = "running"
      BY <1>1, <2>1, <2>2, <2>4 DEF JobSound, ThreadSound, TypeOK
    <3>2. QED
      BY <1>1, <2>1, <2>2, <2>3, <2>4, <3>1 DEF JobSound, LockSound, ThreadSound, DiskSound,
         CompleteSound, AnswerSound, Told, Active, Terminal
  <2>5. CASE j # k
    <3>1. jobs'[j] = jobs[j]
      BY <1>1, <2>2, <2>5 DEF TypeOK
    <3>2. QED
      BY <1>1, <2>1, <2>2, <2>3, <2>5, <3>1 DEF JobSound, LockSound, ThreadSound, DiskSound,
         CompleteSound, AnswerSound, Told
  <2>6. QED
    BY <2>4, <2>5
<1>5. QED
  BY <1>2, <1>3, <1>4 DEF IInv

LEMMA FinishSound == ASSUME IInv, NEW k \in Jobs, Finish(k) PROVE IInv'
<1>1. /\ Serving /\ threads[k] = "trained" /\ lock = Free
      /\ lock' = [step |-> "finish", job |-> k]
      /\ jobs' = [jobs EXCEPT ![k] = IF Verified(k, left[k]) THEN "completed" ELSE "failed"]
      /\ UNCHANGED <<manager, boots, active, threads, left, children, disk, told, unsaved>>
  BY DEF Finish, Takes
<1>2. TypeOK'
  BY <1>1 DEF IInv, TypeOK, Terminal
<1>3. ServiceSound'
  BY <1>1 DEF IInv, ServiceSound, Serving
<1>4. ASSUME NEW j \in Jobs PROVE JobSound(j)'
  <2>1. ~Holds("start", j) /\ ~Holds("begin", j) /\ ~Holds("finish", j)
    BY <1>1 DEF Holds, Free
  <2>2. JobSound(j) /\ TypeOK
    BY DEF IInv
  <2>3. ~Holds("start", j)' /\ ~Holds("begin", j)' /\ (Holds("finish", j)' <=> j = k)
    BY <1>1 DEF Holds
  <2>4. CASE j = k
    <3>1. /\ jobs[k] \in Active /\ jobs'[k] \in Terminal
          /\ jobs'[k] = "completed" => Verified(k, left[k])
      BY <1>1, <2>1, <2>2, <2>4 DEF JobSound, ThreadSound, TypeOK, Terminal
    <3>2. QED
      BY <1>1, <2>1, <2>2, <2>3, <2>4, <3>1 DEF JobSound, LockSound, ThreadSound, DiskSound,
         CompleteSound, AnswerSound, Told, Active, Terminal
  <2>5. CASE j # k
    <3>1. jobs'[j] = jobs[j]
      BY <1>1, <2>2, <2>5 DEF TypeOK
    <3>2. QED
      BY <1>1, <2>1, <2>2, <2>3, <2>5, <3>1 DEF JobSound, LockSound, ThreadSound, DiskSound,
         CompleteSound, AnswerSound, Told
  <2>6. QED
    BY <2>4, <2>5
<1>5. QED
  BY <1>2, <1>3, <1>4 DEF IInv

\* The step that holds the lock, and its job.
LEMMA Holder ==
  ASSUME IInv, lock # Free
  PROVE  /\ lock.job \in Jobs
         /\ Holds("start", lock.job) \/ Holds("begin", lock.job) \/ Holds("finish", lock.job)
         /\ \A j \in Jobs : \A at : Holds(at, j) => j = lock.job /\ at = lock.step
<1>1. lock \in [step : {"start", "begin", "finish"}, job : Jobs]
  BY DEF IInv, TypeOK
<1>2. lock = [step |-> lock.step, job |-> lock.job]
        /\ lock.step \in {"start", "begin", "finish"}
      /\ lock.job \in Jobs
  BY <1>1 DEF Free
<1>3. Holds("start", lock.job) \/ Holds("begin", lock.job) \/ Holds("finish", lock.job)
  BY <1>2 DEF Holds
<1>4. ASSUME NEW j \in Jobs, NEW at, Holds(at, j) PROVE j = lock.job /\ at = lock.step
  BY <1>4 DEF Holds
<1>5. QED
  BY <1>2, <1>3, <1>4

\* With the lock free, no step holds it.
LEMMA NoHolder == \A j \in Jobs, at \in {"start", "begin", "finish"} :
                    lock = Free => ~Holds(at, j)
BY DEF Holds, Free

LEMMA PersistSound == IInv /\ Persist => IInv'
<1> SUFFICES ASSUME IInv, Persist PROVE IInv'
  OBVIOUS
<1> DEFINE k == lock.job
<1>1. /\ Serving /\ lock # Free /\ disk' = [disk EXCEPT ![k] = jobs[k]] /\ lock' = Free
      /\ threads' = [threads EXCEPT ![k] =
           [start |-> "started", begin |-> "training", finish |-> None][lock.step]]
      /\ children' = IF lock.step = "begin" THEN children \cup {k} ELSE children
      /\ UNCHANGED <<manager, boots, jobs, active, left, told, unsaved>>
  BY DEF Persist, Persisted
<1>2. /\ k \in Jobs
      /\ Holds("start", k) \/ Holds("begin", k) \/ Holds("finish", k)
      /\ \A j \in Jobs : \A at : Holds(at, j) => j = k /\ at = lock.step
  BY <1>1, Holder
<1>3. JobSound(k) /\ TypeOK
  BY <1>2 DEF IInv
<1>4. jobs[k] \in Active \cup Terminal
  BY <1>2, <1>3 DEF JobSound, LockSound, Active
<1>5. \/ Holds("start", k) /\ threads' = [threads EXCEPT ![k] = "started"]
           /\ children' = children
      \/ Holds("begin", k) /\ threads' = [threads EXCEPT ![k] = "training"]
           /\ children' = children \cup {k}
      \/ Holds("finish", k) /\ threads' = [threads EXCEPT ![k] = None] /\ children' = children
  <2>1. CASE Holds("start", k)
    <3>1. lock.step = "start"
      BY <1>2, <2>1
    <3>2. QED
      BY <1>1, <2>1, <3>1
  <2>2. CASE Holds("begin", k)
    <3>1. lock.step = "begin"
      BY <1>2, <2>2
    <3>2. QED
      BY <1>1, <2>2, <3>1
  <2>3. CASE Holds("finish", k)
    <3>1. lock.step = "finish"
      BY <1>2, <2>3
    <3>2. QED
      BY <1>1, <2>3, <3>1
  <2>4. QED
    BY <1>2, <2>1, <2>2, <2>3
<1>6. TypeOK'
  BY <1>1, <1>2, <1>3, <1>4, <1>5 DEF TypeOK
<1>7. ServiceSound'
  BY <1>1 DEF IInv, ServiceSound, Serving
<1>8. ASSUME NEW j \in Jobs PROVE JobSound(j)'
  <2>1. ~Holds("start", j)' /\ ~Holds("begin", j)' /\ ~Holds("finish", j)'
    BY <1>1 DEF Holds, Free
  <2>2. CASE j = k
    <3>1. disk'[k] = jobs[k]
      BY <1>1, <1>2, <1>3 DEF TypeOK
    <3>2. CASE Holds("start", k)
      <4>1. threads'[k] = "started" /\ children' = children
        BY <1>2, <1>3, <1>5, <3>2 DEF TypeOK
      <4>2. QED
        BY <1>1, <1>3, <2>1, <2>2, <3>1, <3>2, <4>1 DEF JobSound, LockSound, ThreadSound,
           DiskSound, CompleteSound, AnswerSound, Told, Active, Terminal
    <3>3. CASE Holds("begin", k)
      <4>1. threads'[k] = "training" /\ children' = children \cup {k}
        BY <1>2, <1>3, <1>5, <3>3 DEF TypeOK
      <4>2. ~Told(k)
        BY <1>3, <3>3 DEF JobSound, LockSound, DiskSound, Active
      <4>3. QED
        BY <1>1, <1>3, <2>1, <2>2, <3>1, <3>3, <4>1, <4>2 DEF JobSound, LockSound, ThreadSound,
           DiskSound, CompleteSound, AnswerSound, Told, Active, Terminal
    <3>4. CASE Holds("finish", k)
      <4>1. threads'[k] = None /\ children' = children
        BY <1>2, <1>3, <1>5, <3>4 DEF TypeOK
      <4>2. QED
        BY <1>1, <1>3, <2>1, <2>2, <3>1, <3>4, <4>1 DEF JobSound, LockSound, ThreadSound,
           DiskSound, CompleteSound, AnswerSound, Told, Active, Terminal
    <3>5. QED
      BY <1>2, <3>2, <3>3, <3>4
  <2>3. CASE j # k
    <3>1. /\ disk'[j] = disk[j] /\ threads'[j] = threads[j]
          /\ j \in children' <=> j \in children
      BY <1>1, <1>2, <1>3, <1>5, <2>3 DEF TypeOK
    <3>2. JobSound(j) /\ ~Holds("start", j) /\ ~Holds("begin", j) /\ ~Holds("finish", j)
      BY <1>2, <2>3 DEF IInv
    <3>3. QED
      BY <1>1, <2>1, <3>1, <3>2 DEF JobSound, LockSound, ThreadSound, DiskSound,
         CompleteSound, AnswerSound, Told
  <2>4. QED
    BY <2>2, <2>3
<1>9. QED
  BY <1>6, <1>7, <1>8 DEF IInv

LEMMA PersistFailsSound == IInv /\ PersistFails => IInv'
<1> SUFFICES ASSUME IInv, PersistFails PROVE IInv'
  OBVIOUS
<1> DEFINE k == lock.job
<1>1. /\ Serving /\ lock # Free /\ lock' = Free
      /\ UNCHANGED <<manager, boots, left, children, told>>
  BY DEF PersistFails
<1>2. /\ k \in Jobs
      /\ Holds("start", k) \/ Holds("begin", k) \/ Holds("finish", k)
      /\ \A j \in Jobs : \A at : Holds(at, j) => j = k /\ at = lock.step
  BY <1>1, Holder
<1>3. JobSound(k) /\ TypeOK
  BY <1>2 DEF IInv
<1>4. \/ /\ Holds("start", k) /\ jobs' = [jobs EXCEPT ![k] = None] /\ active' = None
         /\ disk' = [disk EXCEPT ![k] = None] /\ UNCHANGED <<threads, unsaved>>
      \/ /\ Holds("begin", k) \/ Holds("finish", k)
         /\ threads' = [threads EXCEPT ![k] = None] /\ unsaved' = unsaved \cup {k}
         /\ UNCHANGED <<jobs, active, disk>>
  BY <1>2 DEF PersistFails
<1>5. TypeOK'
  BY <1>1, <1>2, <1>3, <1>4 DEF TypeOK
<1>6. ServiceSound'
  BY <1>1 DEF IInv, ServiceSound, Serving
<1>7. ASSUME NEW j \in Jobs PROVE JobSound(j)'
  <2>1. ~Holds("start", j)' /\ ~Holds("begin", j)' /\ ~Holds("finish", j)'
    BY <1>1 DEF Holds, Free
  <2>2. JobSound(j) /\ (j # k
          => ~Holds("start", j) /\ ~Holds("begin", j) /\ ~Holds("finish", j))
    BY <1>2 DEF IInv
  <2>3. CASE Holds("start", k)
    <3>1. /\ jobs' = [jobs EXCEPT ![k] = None] /\ active' = None
          /\ disk' = [disk EXCEPT ![k] = None] /\ UNCHANGED <<threads, unsaved>>
      BY <1>2, <1>4, <2>3
    <3>2. CASE j = k
      <4>1. /\ jobs'[k] = None /\ disk'[k] = None /\ threads'[k] = None /\ ~Told(k)
            /\ jobs[k] \notin Terminal
        BY <1>2, <1>3, <2>3, <3>1 DEF TypeOK, JobSound, LockSound, DiskSound, Active, Terminal
      <4>2. QED
        BY <1>1, <1>3, <2>1, <3>1, <3>2, <4>1 DEF JobSound, LockSound, ThreadSound, DiskSound,
           CompleteSound, AnswerSound, Told, Active, Terminal
    <3>3. CASE j # k
      <4>1. jobs'[j] = jobs[j] /\ disk'[j] = disk[j]
        BY <1>2, <1>3, <3>1, <3>3 DEF TypeOK
      <4>2. jobs[k] \in Active
        BY <1>3, <2>3 DEF JobSound, LockSound, Active
      <4>3. jobs[j] \notin Active
        BY <1>3, <2>2, <3>3, <4>2 DEF JobSound, ThreadSound
      <4>4. QED
        BY <1>1, <2>1, <2>2, <3>1, <3>3, <4>1, <4>3 DEF JobSound, LockSound, ThreadSound,
           DiskSound, CompleteSound, AnswerSound, Told
    <3>4. QED
      BY <3>2, <3>3
  <2>4. CASE Holds("begin", k) \/ Holds("finish", k)
    <3>1. /\ threads' = [threads EXCEPT ![k] = None] /\ unsaved' = unsaved \cup {k}
          /\ UNCHANGED <<jobs, active, disk>>
      BY <1>2, <1>4, <2>4 DEF Holds
    <3>2. CASE j = k
      <4>1. threads'[k] = None
        BY <1>2, <1>3, <3>1 DEF TypeOK
      <4>2. QED
        BY <1>1, <2>1, <2>2, <3>1, <3>2, <4>1 DEF JobSound, LockSound, ThreadSound, DiskSound,
           CompleteSound, AnswerSound, Told
    <3>3. CASE j # k
      <4>1. threads'[j] = threads[j] /\ (j \in unsaved' <=> j \in unsaved)
        BY <1>2, <1>3, <3>1, <3>3 DEF TypeOK
      <4>2. QED
        BY <1>1, <2>1, <2>2, <3>1, <3>3, <4>1 DEF JobSound, LockSound, ThreadSound, DiskSound,
           CompleteSound, AnswerSound, Told
    <3>4. QED
      BY <3>2, <3>3
  <2>5. QED
    BY <1>2, <2>3, <2>4
<1>8. QED
  BY <1>5, <1>6, <1>7 DEF IInv

LEMMA ChildEndsSound ==
  ASSUME IInv, NEW k \in Jobs, NEW o \in Outputs, ChildEnds(k, o) PROVE IInv'
<1>1. /\ k \in children /\ children' = children \ {k} /\ left' = [left EXCEPT ![k] = o]
      /\ threads' = IF threads[k] = "training" THEN [threads EXCEPT ![k] = "trained"] ELSE threads
      /\ UNCHANGED <<manager, boots, lock, jobs, active, disk, told, unsaved>>
  BY DEF ChildEnds
<1>2. TypeOK
  BY DEF IInv
<1>3. TypeOK'
  BY <1>1, <1>2 DEF TypeOK
<1>4. ServiceSound'
  BY <1>1, <1>2 DEF IInv, ServiceSound, Serving, TypeOK
<1>5. ASSUME NEW j \in Jobs PROVE JobSound(j)'
  <2>1. JobSound(j) /\ (\A at : Holds(at, j)' <=> Holds(at, j))
    BY <1>1 DEF IInv, Holds
  <2>2. CASE j = k
    <3>1. ~(jobs[k] = "completed" \/ disk[k] = "completed" \/ <<k, "completed">> \in told)
      BY <1>1, <2>1, <2>2 DEF JobSound, CompleteSound
    <3>2. threads'[k] = IF threads[k] = "training" THEN "trained" ELSE threads[k]
      BY <1>1, <1>2 DEF TypeOK
    <3>3. QED
      BY <1>1, <2>1, <2>2, <3>1, <3>2 DEF JobSound, LockSound, ThreadSound, DiskSound,
         CompleteSound, AnswerSound, Told
  <2>3. CASE j # k
    <3>1. /\ threads'[j] = threads[j] /\ left'[j] = left[j]
          /\ j \in children' <=> j \in children
      BY <1>1, <1>2, <2>3 DEF TypeOK
    <3>2. QED
      BY <1>1, <2>1, <3>1 DEF JobSound, LockSound, ThreadSound, DiskSound,
         CompleteSound, AnswerSound, Told, Verified
  <2>4. QED
    BY <2>2, <2>3
<1>6. QED
  BY <1>3, <1>4, <1>5 DEF IInv

LEMMA TellSound == ASSUME IInv, NEW k \in Jobs, Tell(k) PROVE IInv'
<1>1. /\ lock = Free /\ jobs[k] \in Terminal /\ told' = told \cup {<<k, jobs[k]>>}
      /\ UNCHANGED <<manager, boots, lock, jobs, active, threads, left, children, disk, unsaved>>
  BY DEF Tell
<1>2. TypeOK'
  BY <1>1 DEF IInv, TypeOK
<1>3. ServiceSound'
  BY <1>1 DEF IInv, ServiceSound, Serving
<1>4. ASSUME NEW j \in Jobs PROVE JobSound(j)'
  <2>1. JobSound(j) /\ (\A at : Holds(at, j)' <=> Holds(at, j)) /\ ~Holds("finish", j)
    BY <1>1, NoHolder DEF IInv, Holds
  <2>2. CASE j = k
    <3>1. jobs[k] \notin Active /\ jobs[k] # None
      BY <1>1 DEF Active, Terminal
    <3>2. disk[k] # None
      BY <2>1, <2>2, <3>1 DEF JobSound, DiskSound
    <3>3. QED
      BY <1>1, <2>1, <2>2, <3>1, <3>2 DEF JobSound, LockSound, ThreadSound, DiskSound,
         CompleteSound, AnswerSound, Told
  <2>3. CASE j # k
    BY <1>1, <2>1, <2>3 DEF JobSound, LockSound, ThreadSound, DiskSound, CompleteSound,
       AnswerSound, Told
  <2>4. QED
    BY <2>2, <2>3
<1>5. QED
  BY <1>2, <1>3, <1>4 DEF IInv

LEMMA DiesSound == IInv /\ Dies => IInv'
<1> SUFFICES ASSUME IInv, Dies PROVE IInv'
  OBVIOUS
<1>1. /\ manager' = "down" /\ lock' = Free /\ jobs' = [j \in Jobs |-> None] /\ active' = None
      /\ threads' = [j \in Jobs |-> None]
           /\ UNCHANGED <<boots, left, children, disk, told, unsaved>>
  BY DEF Dies
<1>2. TypeOK'
  BY <1>1 DEF IInv, TypeOK
<1>3. ServiceSound'
  BY <1>1 DEF ServiceSound, Serving, Active
<1>4. ASSUME NEW j \in Jobs PROVE JobSound(j)'
  <2>1. JobSound(j) /\ jobs'[j] = None /\ threads'[j] = None
    BY <1>1 DEF IInv
  <2>2. ~Holds("start", j)' /\ ~Holds("begin", j)' /\ ~Holds("finish", j)'
    BY <1>1 DEF Holds, Free
  <2>3. QED
    BY <1>1, <2>1, <2>2 DEF JobSound, LockSound, ThreadSound, DiskSound, CompleteSound,
       AnswerSound, Told, Active, Terminal
<1>5. QED
  BY <1>2, <1>3, <1>4 DEF IInv

LEMMA RestoreSound == ASSUME IInv, NEW k \in Jobs, Restore(k) PROVE IInv'
<1>1. /\ manager = "restoring" /\ jobs[k] = None /\ disk[k] \in Active \cup Terminal
      /\ jobs' = [jobs EXCEPT ![k] = IF disk[k] \in Active THEN "failed" ELSE disk[k]]
      /\ disk' = [disk EXCEPT ![k] = IF disk[k] \in Active THEN "failed" ELSE disk[k]]
      /\ UNCHANGED <<manager, boots, lock, active, threads, left, children, told, unsaved>>
  BY DEF Restore, Interrupted
<1>2. TypeOK /\ lock = Free
  BY <1>1 DEF IInv, ServiceSound, Serving
<1>3. TypeOK'
  BY <1>1, <1>2 DEF TypeOK, Terminal
<1>4. ServiceSound'
  BY <1>1, <1>2 DEF IInv, ServiceSound, Serving, TypeOK, Active, Terminal
<1>5. ASSUME NEW j \in Jobs PROVE JobSound(j)'
  <2>1. JobSound(j) /\ threads[j] = None
    BY <1>1 DEF IInv, ServiceSound, Serving
  <2>2. /\ ~Holds("start", j) /\ ~Holds("begin", j) /\ ~Holds("finish", j)
        /\ ~Holds("start", j)' /\ ~Holds("begin", j)' /\ ~Holds("finish", j)'
    BY <1>1, <1>2 DEF Holds, Free
  <2>3. CASE j = k
    <3>1. /\ jobs'[k] = disk'[k] /\ disk'[k] \in Terminal
          /\ disk[k] \in Terminal => disk'[k] = disk[k]
          /\ disk'[k] = "completed" => disk[k] = "completed"
      BY <1>1, <1>2 DEF TypeOK, Active, Terminal
    <3>2. QED
      BY <1>1, <2>1, <2>2, <2>3, <3>1 DEF JobSound, LockSound, ThreadSound, DiskSound,
         CompleteSound, AnswerSound, Told, Active, Terminal
  <2>4. CASE j # k
    <3>1. jobs'[j] = jobs[j] /\ disk'[j] = disk[j]
      BY <1>1, <1>2, <2>4 DEF TypeOK
    <3>2. QED
      BY <1>1, <2>1, <2>2, <3>1 DEF JobSound, LockSound, ThreadSound, DiskSound,
         CompleteSound, AnswerSound, Told
  <2>5. QED
    BY <2>3, <2>4
<1>6. QED
  BY <1>3, <1>4, <1>5 DEF IInv

\* Steps of the service itself.
LEMMA ServiceStepSound ==
  ASSUME IInv, manager' \in {"restoring", "open", "closed"}, boots' \in 0..MaxBoots,
         lock = Free \/ Serving', ~Serving' => ~Serving,
         UNCHANGED <<lock, jobs, active, threads, left, children, disk, told, unsaved>>
  PROVE  IInv'
<1>1. TypeOK'
  BY DEF IInv, TypeOK
<1>2. ServiceSound'
  BY DEF IInv, ServiceSound, Serving
<1>3. ASSUME NEW j \in Jobs PROVE JobSound(j)'
  <2>1. JobSound(j)
    BY DEF IInv
  <2>2. QED
    BY <2>1 DEF JobSound, LockSound, ThreadSound, DiskSound, CompleteSound, AnswerSound, Told,
       Holds, Verified
<1>4. QED
  BY <1>1, <1>2, <1>3 DEF IInv

LEMMA StutterSound == IInv /\ UNCHANGED trainingVars => IInv'
<1> SUFFICES ASSUME IInv, UNCHANGED trainingVars PROVE IInv'
  OBVIOUS
<1>1. TypeOK' /\ ServiceSound'
  BY DEF IInv, TypeOK, ServiceSound, Serving, trainingVars
<1>2. ASSUME NEW j \in Jobs PROVE JobSound(j)'
  BY DEF IInv, JobSound, LockSound, ThreadSound, DiskSound, CompleteSound, AnswerSound, Told,
     Holds, Verified, trainingVars
<1>3. QED
  BY <1>1, <1>2 DEF IInv

LEMMA NextSound == IInv /\ [Next]_trainingVars => IInv'
<1> SUFFICES ASSUME IInv, [Next]_trainingVars PROVE IInv'
  OBVIOUS
<1>1. CASE Persist
  BY <1>1, PersistSound
<1>2. CASE PersistFails
  BY <1>2, PersistFailsSound
<1>3. CASE Shutdown
  <2>1. manager' = "closed" /\ lock = Free /\ boots \in 0..MaxBoots
    BY <1>3 DEF Shutdown, IInv, TypeOK
  <2>2. QED
    BY <1>3, <2>1, ServiceStepSound DEF Shutdown, Serving
<1>4. CASE Exit \/ Crash
  BY <1>4, DiesSound DEF Exit, Crash
<1>5. CASE Boot
  <2>1. manager = "down" /\ manager' = "restoring" /\ boots' \in 0..MaxBoots
    BY <1>5 DEF Boot, IInv, TypeOK
  <2>2. ~Serving /\ ~Serving' /\ lock = Free
    BY <2>1 DEF Serving, IInv, ServiceSound
  <2>3. QED
    BY <1>5, <2>1, <2>2, ServiceStepSound DEF Boot
<1>6. CASE Open
  <2>1. manager' = "open" /\ Serving' /\ boots \in 0..MaxBoots
    BY <1>6 DEF Open, IInv, TypeOK, Serving
  <2>2. QED
    BY <1>6, <2>1, ServiceStepSound DEF Open
<1>7. ASSUME NEW j \in Jobs,
             Start(j) \/ Begin(j) \/ Finish(j) \/ Tell(j) \/ Restore(j)
               \/ \E o \in Outputs : ChildEnds(j, o)
      PROVE  IInv'
  BY <1>7, StartSound, BeginSound, FinishSound, TellSound, RestoreSound, ChildEndsSound
<1>8. CASE UNCHANGED trainingVars
  BY <1>8, StutterSound
<1>9. QED
  BY <1>1, <1>2, <1>3, <1>4, <1>5, <1>6, <1>7, <1>8 DEF Next

LEMMA InductiveInvariant == Spec => []IInv
BY InitSound, NextSound, PTL DEF Spec

\* Whatever is started, fails to be written, dies or is restored, what clients
\* are told of a training job stands, and a process runs one job at a time
\* (training/jobs.py:358).
THEOREM JobsAlwaysStand == Spec => []JobsStand
BY InductiveInvariant, Strengthens, PTL

HIDE TrainingAssumption

-----------------------------------------------------------------------------
(* Access to the held-out worlds.                                          *)

\* Where an invocation of the review may be once it verified the development
\* evidence, and once the receipt is its own.
Reviewing == {"verified", "unconsumed", "consumed", "loaded", "ready", "evaluated", "done"}
Granted == {"consumed", "loaded", "ready", "evaluated", "done"}
ReviewRecord(i) == DOMAIN reviewed[i] = {"at", "pinned", "lock", "worlds", "candidate"}
\* An invocation claims what the trusted files earned, consumed the one receipt and
\* evaluates the reviewed checkpoint.
ReviewSound(i) ==
  /\ reviewed[i].at \in Reviewing => HeldOut!Earned(root["evidence"])
  /\ reviewed[i].at \in Granted => receipt = i
  /\ reviewed[i].at \in {"ready", "evaluated", "done"} =>
       reviewed[i].candidate = root["checkpoint"]
  /\ reviewed[i].at \in {"evaluated", "done"} => i \in looked

AccessSound ==
  /\ DOMAIN reviewed = Invocations
  /\ \A i \in Invocations : ReviewRecord(i) /\ ReviewSound(i)
  /\ looked \subseteq Invocations
  /\ HeldOut!AccessEarnedOnce

LEMMA HeldOutFrame ==
  [SideNext]_sideVars =>
     \/ subject = "heldout" /\ HeldOut!Next /\ UNCHANGED subject
     \/ UNCHANGED <<subject, heldoutVars>>
BY DEF SideNext, sideVars, TrainingStep, GateStep, DeliveryStep, SupervisorStep, HeldOutStep,
   SandboxStep, ControllerStep, HttpStep, PathsStep

LEMMA HeldOutStarts == HeldOut!Init => AccessSound
BY DEF HeldOut!Init, HeldOut!Waiting, AccessSound, ReviewRecord, ReviewSound, Reviewing,
   Granted, HeldOut!AccessEarnedOnce, HeldOut!OutputOfReviewed

LEMMA ReviewEarned ==
  ASSUME NEW i \in Invocations, HeldOut!VerifyDevelopment(i)
    PROVE HeldOut!Earned(root["evidence"])
<1> DEFINE e == trustedFiles["evidence"]
           selection == trustedFiles["lock"]
<1>1. /\ e = root["evidence"] /\ trustedFiles["checkpoint"] = root["checkpoint"]
      /\ HeldOut!DevelopmentVerified(selection, trustedFiles) /\ e.eligible
  BY DEF HeldOut!VerifyDevelopment
<1>2. /\ HeldOut!PairsAgree(selection, e) /\ HeldOut!SelectionAgrees(selection, e)
      /\ root["checkpoint"].policy = e.policy
  BY <1>1 DEF HeldOut!DevelopmentVerified
<1>3. e.count >= MinimumWorlds
  BY <1>2 DEF HeldOut!PairsAgree
<1>4. \A k \in 1..e.count : e.candidate[k].policy = root["checkpoint"].policy
                           /\ e.seeds[k] >= MinimumSeed
  BY <1>2 DEF HeldOut!PairsAgree
<1>5. HeldOut!Promotable(e.baseline, e.candidate)
  BY <1>1, <1>2 DEF HeldOut!SelectionAgrees
<1> QED BY <1>1, <1>3, <1>4, <1>5 DEF HeldOut!Earned, HeldOut!Promotable

\* A step of one invocation moves it alone, to where its claims hold.
LEMMA ReviewMoves ==
  ASSUME AccessSound, NEW i \in Invocations, root' = root,
         DOMAIN reviewed' = Invocations, ReviewRecord(i)', ReviewSound(i)',
         \A j \in Invocations \ {i} : reviewed'[j] = reviewed[j],
         receipt' = receipt \/ receipt = None, looked \subseteq looked'
  PROVE  \A j \in Invocations : ReviewRecord(j)' /\ ReviewSound(j)'
<1>1. ASSUME NEW j \in Invocations, j # i PROVE ReviewRecord(j)' /\ ReviewSound(j)'
  BY <1>1, HeldOutAssumption DEF AccessSound, ReviewSound, ReviewRecord, Granted, Reviewing,
     HeldOut!Earned
<1> QED BY <1>1

LEMMA ReviewStep ==
  ASSUME AccessSound, NEW i \in Invocations,
         \/ HeldOut!Verify(i) \/ HeldOut!VerifyDevelopment(i) \/ HeldOut!FindNoOutput(i)
         \/ HeldOut!Consume(i) \/ HeldOut!LoadWorlds(i) \/ HeldOut!LoadCandidate(i)
         \/ HeldOut!Evaluate(i) \/ HeldOut!WriteOutput(i) \/ HeldOut!Ends(i)
  PROVE  AccessSound'
<1> USE DEF AccessSound, ReviewRecord, ReviewSound, Reviewing, Granted,
        HeldOut!AccessEarnedOnce, HeldOut!OutputOfReviewed, HeldOut!Goes
<1>m. ASSUME root' = root, DOMAIN reviewed' = Invocations, ReviewRecord(i)', ReviewSound(i)',
             \A j \in Invocations \ {i} : reviewed'[j] = reviewed[j],
             receipt' = receipt \/ receipt = None, looked \subseteq looked',
             looked' \subseteq Invocations, HeldOut!AccessEarnedOnce'
      PROVE  AccessSound'
  BY <1>m, ReviewMoves
<1>e. ASSUME root' = root
        PROVE HeldOut!Earned(root["evidence"])' = HeldOut!Earned(root["evidence"])
  BY <1>e DEF HeldOut!Earned
<1>1. CASE HeldOut!Verify(i)
  BY <1>1, <1>m, <1>e DEF HeldOut!Verify
<1>2. CASE HeldOut!VerifyDevelopment(i)
  BY <1>2, <1>m, <1>e, ReviewEarned DEF HeldOut!VerifyDevelopment
<1>3. CASE HeldOut!FindNoOutput(i)
  BY <1>3, <1>m, <1>e DEF HeldOut!FindNoOutput
<1>4. CASE HeldOut!Consume(i)
  BY <1>4, <1>m, <1>e, HeldOutAssumption DEF HeldOut!Consume, HeldOut!Linkable
<1>5. CASE HeldOut!LoadWorlds(i)
  BY <1>5, <1>m, <1>e DEF HeldOut!LoadWorlds
<1>6. CASE HeldOut!LoadCandidate(i)
  BY <1>6, <1>m, <1>e DEF HeldOut!LoadCandidate, HeldOut!SameCandidate
<1>7. CASE HeldOut!Evaluate(i)
  BY <1>7, <1>m, <1>e DEF HeldOut!Evaluate
<1>8. CASE HeldOut!WriteOutput(i)
  BY <1>8, <1>m, <1>e DEF HeldOut!WriteOutput
<1>9. CASE HeldOut!Ends(i)
  BY <1>9, <1>m, <1>e DEF HeldOut!Ends
<1> QED BY <1>1, <1>2, <1>3, <1>4, <1>5, <1>6, <1>7, <1>8, <1>9

LEMMA AccessFrame ==
  ASSUME AccessSound, UNCHANGED <<root, reviewed, receipt, output, looked>> PROVE AccessSound'
BY DEF AccessSound, ReviewRecord, ReviewSound, HeldOut!AccessEarnedOnce,
   HeldOut!OutputOfReviewed, HeldOut!Earned

LEMMA AccessStep == AccessSound /\ HeldOut!Next => AccessSound'
<1> SUFFICES ASSUME AccessSound, HeldOut!Next PROVE AccessSound'
  OBVIOUS
<1>1. ASSUME NEW e \in Evaluations,
             HeldOut!RunDevelopment(e) \/ HeldOut!FindNoEvidence(e) \/ HeldOut!WriteEvidence(e)
      PROVE  AccessSound'
  BY <1>1, AccessFrame DEF HeldOut!RunDevelopment, HeldOut!FindNoEvidence, HeldOut!WriteEvidence
<1>2. ASSUME NEW outcome \in TrainedPolicies, HeldOut!Train(outcome) PROVE AccessSound'
  BY <1>2, AccessFrame DEF HeldOut!Train
<1> QED BY <1>1, <1>2, ReviewStep DEF HeldOut!Next

\* However invocations of the review interleave with each other, with training and
\* with development runs, the held-out worlds are looked at by one invocation and
\* after it earned that (evaluation/heldout_trust.py:205).
THEOREM AccessAlwaysEarned == SideSpec => []AccessEarnedOnce
<1> DEFINE Inv == subject = "heldout" => AccessSound
<1>1. SideInit => Inv
  BY HeldOutStarts DEF SideInit, HeldOutInit
<1>2. Inv /\ [SideNext]_sideVars => Inv'
  BY HeldOutFrame, AccessStep, AccessFrame DEF heldoutVars
<1>3. Inv => AccessEarnedOnce
  BY DEF AccessEarnedOnce, AccessSound
<1> QED BY <1>1, <1>2, <1>3, PTL DEF SideSpec

-----------------------------------------------------------------------------
(* HTTP requests.                                                          *)

LEMMA HttpFrame ==
  [SideNext]_sideVars =>
     \/ subject = "http" /\ Http!Next /\ UNCHANGED subject
     \/ UNCHANGED <<subject, httpVars>>
BY DEF SideNext, sideVars, TrainingStep, GateStep, DeliveryStep, SupervisorStep, HeldOutStep,
   SandboxStep, ControllerStep, HttpStep, PathsStep

Stations == {"headers", "body", "json", "credential", "model", "service", "callback", "call"}

\* What has been read and decided by where the request is.
RequestSound ==
  /\ DOMAIN request = {"at", "route", "read", "principal", "valid"}
  /\ request.at \in Stations
  /\ request.read \in Nat
  /\ request.at # "headers" => request.route \in Http!Routes
  /\ request.at \in {"json", "credential", "model", "service", "callback", "call"} =>
       request.read <= Limit
  /\ request.at \in {"headers", "body", "json", "credential"} => request.principal = None
  /\ request.at \in {"json", "credential", "model", "service"} =>
       request.route # Http!CallbackRoute
  /\ request.at = "callback" => request.route = Http!CallbackRoute
  /\ request.at \in {"credential", "model"} => request.valid \in {"not valid", "valid"}
  /\ request.at \in {"service", "call"} => request.valid = "valid"
  /\ request.at \in {"model", "service"} => request.principal = request.route.scope
  /\ request.at = "call" =>
       request.principal = IF request.route = Http!CallbackRoute THEN "callback"
                           ELSE request.route.scope

ChangesSound ==
  /\ RequestSound
  /\ changes \in {0, 1}
  /\ answer = None => changes = 0
  /\ changes = 1 => request.at = "call"
  /\ Http!ChangesEarned

LEMMA RouteFields ==
  ASSUME NEW name, NEW scope, NEW needs, NEW maps, NEW success, NEW missing
  PROVE  LET route == Http!Route(name, scope, needs, maps, success, missing)
         IN  route.maps = maps /\ route.success = success
BY DEF Http!Route

\* What a route may answer for an error of the backend's.
Refusals == {401, 403, 404, 409, 422, 502, 503}
Statuses(route) == route.success \in Nat /\ \A s \in route.maps : s \in Refusals

LEMMA RefusalsRefuse == \A s \in Refusals : s \in Nat /\ s \notin 200..299
BY DEF Refusals

LEMMA StatusesOfRead == \A name, missing : Statuses(Http!Read(name, missing))
BY DEF Statuses, Http!Read, Http!Route

LEMMA StatusesOfChange ==
  \A name, scope : /\ Statuses(Http!Change(name, scope, 200))
                   /\ Statuses(Http!Change(name, scope, 201))
BY DEF Statuses, Http!Change, Http!Route

\* No route maps an error to a success.
LEMMA NothingMappedToSuccess == \A route \in Http!Routes : Statuses(route)
<1>1. \A route \in Http!HealthRoutes : Statuses(route)
  BY StatusesOfRead, Zenon DEF Http!HealthRoutes
<1>2. \A route \in Http!EpisodeRoutes : Statuses(route)
  BY StatusesOfRead, Zenon DEF Http!EpisodeRoutes
<1>3. \A route \in Http!NoteRoutes : Statuses(route)
  <2>1. Statuses(Http!Route("update note", "episodes:write", "backend", {}, 200, TRUE))
    BY DEF Statuses, Refusals, Http!Route
  <2> QED BY <2>1, StatusesOfChange, Zenon DEF Http!NoteRoutes
<1>4. \A route \in Http!TelemetryRoutes : Statuses(route)
  BY StatusesOfRead, Zenon DEF Http!TelemetryRoutes
<1>5. \A route \in Http!LiveOptions : Statuses(route)
  BY StatusesOfRead, Zenon DEF Http!LiveOptions
<1>6. \A route \in Http!LiveStart : Statuses(route)
  <2>1. Statuses(Http!Route("start live", "episodes:write", "live", {422, 409, 503}, 202, FALSE))
    BY DEF Statuses, Refusals, Http!Route
  <2> QED BY <2>1, Zenon DEF Http!LiveStart
<1>7. \A route \in Http!LiveRoutes : Statuses(route)
  <2>1. Statuses(Http!Route("live status", None, "live", {404}, 200, FALSE))
    BY DEF Statuses, Refusals, Http!Route
  <2>2. Statuses(Http!Route("cancel live", "episodes:write", "live", {404}, 202, FALSE))
    BY DEF Statuses, Refusals, Http!Route
  <2> QED BY <2>1, <2>2, Zenon DEF Http!LiveRoutes
<1>8. \A route \in Http!TrainingRoutes : Statuses(route)
  <2>1. Statuses(Http!Route("start training", "training:write", "training", {409, 503}, 202, FALSE))
    BY DEF Statuses, Refusals, Http!Route
  <2>2. Statuses(Http!Route("training jobs", None, "training", {}, 200, FALSE))
    BY DEF Statuses, Refusals, Http!Route
  <2>3. Statuses(Http!Route("training job", None, "training", {404}, 200, FALSE))
    BY DEF Statuses, Refusals, Http!Route
  <2> QED BY <2>1, <2>2, <2>3, Zenon DEF Http!TrainingRoutes
<1>9. \A route \in Http!VideoRoutes : Statuses(route)
  <2>1. Statuses(Http!Route("video stream", None, "live", {404}, 200, FALSE))
    BY DEF Statuses, Refusals, Http!Route
  <2>2. Statuses(Http!Route("video frame", None, "live", {404}, 200, TRUE))
    BY DEF Statuses, Refusals, Http!Route
  <2> QED BY <2>1, <2>2, Zenon DEF Http!VideoRoutes
<1>10. \A route \in Http!ApprovalRoutes : Statuses(route)
  <2> DEFINE a == Http!Change("decide approval", "approvals:write", 200)
  <2>1. Statuses(a)
    BY DEF Statuses, Http!Change, Http!Route
  <2>2. \A route \in Http!ApprovalRoutes : route \in {a}
          \/ route = Http!Read("pending approvals", FALSE)
    BY DEF Http!ApprovalRoutes
  <2> HIDE DEF a
  <2> QED BY <2>1, <2>2, StatusesOfRead
<1>11. \A route \in Http!WorkflowRoutes : Statuses(route)
  <2> DEFINE a == Http!Change("review workflow", "workflows:write", 201)
             b == Http!Change("execute workflow", "workflows:write", 200)
             c == Http!Change("resume workflow", "workflows:write", 200)
  <2>1. Statuses(a) /\ Statuses(b) /\ Statuses(c)
    BY DEF Statuses, Http!Change, Http!Route
  <2>2. \A route \in Http!WorkflowRoutes : route \in {a, b, c}
          \/ route = Http!Read("workflow", TRUE)
    BY DEF Http!WorkflowRoutes
  <2> HIDE DEF a, b, c
  <2> QED BY <2>1, <2>2, StatusesOfRead
<1>12. \A route \in Http!CorrectionRoutes : Statuses(route)
  <2> DEFINE a == Http!Change("submit correction", "corrections:write", 201)
             b == Http!Change("decide correction", "corrections:write", 200)
  <2>1. Statuses(a) /\ Statuses(b)
    BY DEF Statuses, Http!Change, Http!Route
  <2>2. \A route \in Http!CorrectionRoutes : route \in {a, b}
    BY DEF Http!CorrectionRoutes
  <2> HIDE DEF a, b
  <2> QED BY <2>1, <2>2
<1>13. \A route \in Http!PolicyRoutes : Statuses(route)
  BY StatusesOfRead, Zenon DEF Http!PolicyRoutes
<1>14. Statuses(Http!CallbackRoute)
  BY DEF Statuses, Refusals, Http!Route, Http!CallbackRoute
<1> QED
  BY <1>1, <1>2, <1>3, <1>4, <1>5, <1>6, <1>7, <1>8, <1>9, <1>10, <1>11, <1>12, <1>13, <1>14
     DEF Http!Routes

LEMMA HttpStarts == Http!Init => ChangesSound
BY HttpAssumption DEF Http!Init, ChangesSound, RequestSound, Stations, Http!ChangesEarned

\* Until it is answered, a request has changed nothing.
LEMMA Reads ==
  ASSUME ChangesSound, answer = None, RequestSound', UNCHANGED <<changes, answer>>
  PROVE  ChangesSound'
BY DEF ChangesSound, Http!ChangesEarned

\* An answer of the interface's own, or none, and the request stays as it was read.
LEMMA Refuses ==
  ASSUME ChangesSound, answer = None, NEW status \in Nat \cup {None},
         NEW by \in {"http", "client"}, Http!Answers(status, by)
  PROVE  ChangesSound'
<1>1. answer' # None /\ answer'.by # "backend"
  BY HttpAssumption DEF Http!Answers
<1>2. request' = request /\ changes' = changes /\ changes = 0
  BY DEF Http!Answers, ChangesSound
<1>3. RequestSound'
  BY <1>2 DEF ChangesSound, RequestSound
<1> QED BY <1>1, <1>2, <1>3 DEF ChangesSound, Http!ChangesEarned

LEMMA Refused ==
  ASSUME ChangesSound, answer = None
  PROVE  /\ Http!Answers(400, "http") => ChangesSound'
         /\ Http!Answers(401, "http") => ChangesSound'
         /\ Http!Answers(403, "http") => ChangesSound'
         /\ Http!Answers(413, "http") => ChangesSound'
         /\ Http!Answers(415, "http") => ChangesSound'
         /\ Http!Answers(422, "http") => ChangesSound'
         /\ Http!Answers(503, "http") => ChangesSound'
<1>1. Http!Answers(400, "http") => ChangesSound'
  <2>1. 400 \in Nat \cup {None}
    OBVIOUS
  <2> QED BY <2>1, Refuses
<1>2. Http!Answers(401, "http") => ChangesSound'
  <2>1. 401 \in Nat \cup {None}
    OBVIOUS
  <2> QED BY <2>1, Refuses
<1>3. Http!Answers(403, "http") => ChangesSound'
  <2>1. 403 \in Nat \cup {None}
    OBVIOUS
  <2> QED BY <2>1, Refuses
<1>4. Http!Answers(413, "http") => ChangesSound'
  <2>1. 413 \in Nat \cup {None}
    OBVIOUS
  <2> QED BY <2>1, Refuses
<1>5. Http!Answers(415, "http") => ChangesSound'
  <2>1. 415 \in Nat \cup {None}
    OBVIOUS
  <2> QED BY <2>1, Refuses
<1>6. Http!Answers(422, "http") => ChangesSound'
  <2>1. 422 \in Nat \cup {None}
    OBVIOUS
  <2> QED BY <2>1, Refuses
<1>7. Http!Answers(503, "http") => ChangesSound'
  <2>1. 503 \in Nat \cup {None}
    OBVIOUS
  <2> QED BY <2>1, Refuses
<1> QED BY <1>1, <1>2, <1>3, <1>4, <1>5, <1>6, <1>7

\* The backend's answer to a request that reached it.
LEMMA Returns ==
  ASSUME ChangesSound, Http!At("call"), NEW status \in Nat, UNCHANGED <<runtime, request>>,
         answer' = [status |-> status, by |-> "backend"],
         changes' \in {0, 1}, changes' = 1 => Http!Changing(request.route),
         status \in 200..299 /\ Http!Changing(request.route) => changes' = 1
  PROVE  ChangesSound'
<1>1. answer' # None /\ answer'.by = "backend" /\ answer'.status = status
  BY HttpAssumption
<1>2. request' = request /\ request.at = "call" /\ RequestSound
  BY DEF Http!At, ChangesSound
<1>3. RequestSound'
  BY <1>2 DEF RequestSound
<1>4. Http!Changing(request.route)' = Http!Changing(request.route)
  BY <1>2 DEF Http!Changing
<1>5. /\ request.read <= Limit /\ request.valid = "valid"
      /\ request.principal = IF request.route = Http!CallbackRoute THEN "callback"
                             ELSE request.route.scope
  BY <1>2 DEF RequestSound
<1>6. Http!ChangesEarned'
  BY <1>1, <1>2, <1>4, <1>5 DEF Http!ChangesEarned, Http!CallbackRoute
<1> QED BY <1>1, <1>2, <1>3, <1>6 DEF ChangesSound

LEMMA ReadMoves ==
  ASSUME ChangesSound, Http!Next, answer = None, request.at # "call"
  PROVE  ChangesSound'
<1> USE DEF Http!At, Http!Goes, Http!Continues
<1>s. RequestSound /\ answer = None
  BY DEF ChangesSound
<1>1. ASSUME NEW route \in Http!Routes, NEW declared \in Http!Declared,
             Http!ReadHeaders(route, declared)
      PROVE  ChangesSound'
  <2>1. RequestSound'
    BY <1>1, <1>s DEF Http!ReadHeaders, RequestSound, Stations
  <2> QED BY <1>1, <2>1, Reads DEF Http!ReadHeaders
<1>2. ASSUME NEW size \in Chunks, NEW more \in BOOLEAN, Http!ReadChunk(size, more)
      PROVE  ChangesSound'
  <2>1. CASE Http!TooLarge(request.read + size)
    BY <1>2, <2>1, Refuses DEF Http!ReadChunk
  <2>2. CASE ~Http!TooLarge(request.read + size)
    <3>0. request.read \in Nat /\ size \in Nat /\ Limit \in Nat
      BY <1>s, HttpAssumption DEF RequestSound
    <3>1. request.read + size \in Nat /\ request.read + size <= Limit
      BY <2>2, <3>0 DEF Http!TooLarge
    <3>3. /\ request.at = "body" /\ request.route \in Http!Routes /\ request.principal = None
          /\ DOMAIN request = {"at", "route", "read", "principal", "valid"}
      BY <1>2, <1>s DEF Http!ReadChunk, RequestSound
    <3>4. request' = [request EXCEPT !.read = @ + size,
                      !.at = IF more THEN "body"
                             ELSE IF request.route = Http!CallbackRoute THEN "callback"
                             ELSE "json"]
      BY <1>2, <2>2 DEF Http!ReadChunk
    <3>5. /\ DOMAIN request' = {"at", "route", "read", "principal", "valid"}
          /\ request'.read = request.read + size /\ request'.route = request.route
          /\ request'.principal = None
          /\ request'.at = IF more THEN "body"
                           ELSE IF request.route = Http!CallbackRoute THEN "callback"
                           ELSE "json"
      BY <3>3, <3>4
    <3>2. RequestSound'
      <4>1. CASE request'.at = "body"
        BY <3>1, <3>3, <3>5, <4>1 DEF RequestSound, Stations
      <4>2. CASE request'.at = "callback" /\ request.route = Http!CallbackRoute
        BY <3>1, <3>3, <3>5, <4>2 DEF RequestSound, Stations
      <4>3. CASE request'.at = "json" /\ request.route # Http!CallbackRoute
        BY <3>1, <3>3, <3>5, <4>3 DEF RequestSound, Stations
      <4> QED BY <3>5, <4>1, <4>2, <4>3
    <3> QED BY <1>2, <2>2, <3>2, Reads DEF Http!ReadChunk
  <2> QED BY <2>1, <2>2
<1>3. CASE Http!Disconnect
  BY <1>3, Refuses DEF Http!Disconnect
<1>4. ASSUME NEW declared \in Http!Declared, Http!RefuseHeaders(declared)
      PROVE  ChangesSound'
  BY <1>4, Refuses DEF Http!RefuseHeaders
<1>5. ASSUME NEW valid \in {"not json", "not valid", "valid"}, Http!DecodeBody(valid)
      PROVE  ChangesSound'
  <2>1. CASE valid = "not json"
    <3>1. Http!Answers(422, "http")
      BY <1>5, <2>1 DEF Http!DecodeBody
    <3> QED BY <3>1, <1>s, Refused
  <2>2. CASE valid # "not json"
    <3>0. /\ request.at = "json" /\ valid \in {"not valid", "valid"}
          /\ request' = [request EXCEPT !.valid = valid,
                          !.at = IF request.route.scope = None THEN "model" ELSE "credential"]
          /\ Http!Continues
      BY <1>5, <2>2 DEF Http!DecodeBody
    <3>2. /\ request'.at \in {"model", "credential"}
          /\ request'.at = "model" <=> request.route.scope = None
          /\ request'.valid = valid /\ DOMAIN request' = DOMAIN request
          /\ request'.route = request.route /\ request'.read = request.read
          /\ request'.principal = request.principal
      BY <3>0, <1>s DEF RequestSound
    <3>3. /\ request.read \in Nat /\ request.read <= Limit /\ request.principal = None
          /\ request.route # Http!CallbackRoute /\ request.route \in Http!Routes
      BY <3>0, <1>s DEF RequestSound
    <3>4. request'.at = "model" => request'.principal = request'.route.scope
      BY <3>2, <3>3
    <3>1. RequestSound'
      BY <3>0, <3>2, <3>3, <3>4, <1>s DEF RequestSound, Stations
    <3> QED BY <1>5, <2>2, <3>1, Reads DEF Http!DecodeBody
  <2> QED BY <2>1, <2>2
<1>6. ASSUME NEW scope \in Scopes \cup {None}, Http!Authorize(scope)
      PROVE  ChangesSound'
  <2>1. CASE ~runtime.credentials \/ scope = None \/ ~Http!InScope(scope)
    BY <1>6, <2>1, Refuses DEF Http!Authorize
  <2>2. CASE ~(~runtime.credentials \/ scope = None \/ ~Http!InScope(scope))
    <3>0. /\ request.at = "credential" /\ scope = request.route.scope
          /\ request' = [request EXCEPT !.principal = scope, !.at = "model"]
      BY <1>6, <2>2 DEF Http!Authorize, Http!InScope
    <3>1. RequestSound'
      BY <3>0, <1>s DEF RequestSound, Stations
    <3> QED BY <1>6, <2>2, <3>1, Reads DEF Http!Authorize
  <2> QED BY <2>1, <2>2
<1>7. CASE Http!ValidateModel
  <2>1. CASE request.valid = "not valid"
    <3>1. Http!Answers(422, "http")
      BY <1>7, <2>1 DEF Http!ValidateModel
    <3> QED BY <3>1, <1>s, Refused
  <2>2. CASE request.valid # "not valid"
    <3>0. /\ request.at = "model" /\ request.valid = "valid"
          /\ request' = [request EXCEPT !.at = "service"]
      BY <1>7, <2>2, <1>s DEF Http!ValidateModel, RequestSound
    <3>1. RequestSound'
      BY <3>0, <1>s DEF RequestSound, Stations
    <3> QED BY <1>7, <2>2, <3>1, Reads DEF Http!ValidateModel
  <2> QED BY <2>1, <2>2
<1>8. CASE Http!FindService
  <2>1. CASE ~Http!Configured(request.route.needs)
    BY <1>8, <2>1, Refuses DEF Http!FindService
  <2>2. CASE Http!Configured(request.route.needs)
    <3>0. /\ request.at = "service" /\ request' = [request EXCEPT !.at = "call"]
          /\ DOMAIN request = {"at", "route", "read", "principal", "valid"}
          /\ request.read \in Nat /\ request.read <= Limit /\ request.route \in Http!Routes
          /\ request.route # Http!CallbackRoute /\ request.valid = "valid"
          /\ request.principal = request.route.scope
      BY <1>8, <2>2, <1>s DEF Http!FindService, RequestSound
    <3>2. /\ request'.at = "call" /\ request'.route = request.route
          /\ request'.read = request.read /\ request'.principal = request.principal
          /\ request'.valid = request.valid /\ DOMAIN request' = DOMAIN request
      BY <3>0
    <3>1. RequestSound'
      BY <3>0, <3>2 DEF RequestSound, Stations
    <3> QED BY <1>8, <2>2, <3>1, Reads DEF Http!FindService
  <2> QED BY <2>1, <2>2
<1>9. ASSUME NEW token \in BOOLEAN, NEW typed \in BOOLEAN,
             NEW shape \in {"not json", "not valid", "valid"}, Http!Callback(token, typed, shape)
      PROVE  ChangesSound'
  <2> HIDE DEF Http!Continues, Http!Goes
  <2>1. CASE ~runtime.callback
    <3>1. Http!Answers(503, "http")
      BY <1>9, <2>1 DEF Http!Callback
    <3> QED BY <3>1, <1>s, Refused
  <2>2. CASE runtime.callback /\ ~token
    <3>1. Http!Answers(401, "http")
      BY <1>9, <2>2 DEF Http!Callback
    <3> QED BY <3>1, <1>s, Refused
  <2>3. CASE runtime.callback /\ token /\ ~typed
    <3>1. Http!Answers(415, "http")
      BY <1>9, <2>3 DEF Http!Callback
    <3> QED BY <3>1, <1>s, Refused
  <2>4. CASE runtime.callback /\ token /\ typed /\ request.read = 0
    <3>1. Http!Answers(422, "http")
      BY <1>9, <2>4 DEF Http!Callback
    <3> QED BY <3>1, <1>s, Refused
  <2>5. CASE runtime.callback /\ token /\ typed /\ request.read # 0 /\ shape = "not json"
    <3>1. Http!Answers(400, "http")
      BY <1>9, <2>5 DEF Http!Callback
    <3> QED BY <3>1, <1>s, Refused
  <2>6. CASE runtime.callback /\ token /\ typed /\ request.read # 0 /\ shape = "not valid"
    <3>1. Http!Answers(422, "http")
      BY <1>9, <2>6 DEF Http!Callback
    <3> QED BY <3>1, <1>s, Refused
  <2>7. CASE runtime.callback /\ token /\ typed /\ request.read # 0 /\ shape = "valid"
    <3>1. /\ request.at = "callback"
          /\ request' = [request EXCEPT !.at = "call", !.valid = shape,
                          !.principal = "callback"]
          /\ Http!Continues
      BY <1>9, <2>7 DEF Http!Callback
    <3>2. RequestSound'
      BY <2>7, <3>1, <1>s DEF RequestSound, Stations
    <3> QED BY <1>s, <3>1, <3>2, Reads DEF Http!Continues
  <2> QED BY <1>9, <2>1, <2>2, <2>3, <2>4, <2>5, <2>6, <2>7
<1> QED
  BY <1>1, <1>2, <1>3, <1>4, <1>5, <1>6, <1>7, <1>8, <1>9
  DEF Http!Next, Http!Succeed, Http!FindNothing, Http!RaiseMapped, Http!RaiseBackendError,
      Http!RaiseUnexpected, Http!Raise

LEMMA CallMoves ==
  ASSUME ChangesSound, Http!Next, request.at = "call"
  PROVE  ChangesSound'
<1>s. RequestSound /\ request.route \in Http!Routes /\ Statuses(request.route)
  BY NothingMappedToSuccess DEF ChangesSound, RequestSound
<1>0. Http!At("call") => changes = 0
  BY DEF Http!At, ChangesSound
<1>1. CASE Http!Succeed
  <2>1. request.route.success \in Nat /\ Http!At("call")
    BY <1>1, <1>s DEF Http!Succeed, Statuses
  <2> QED BY <1>1, <1>0, <2>1, Returns DEF Http!Succeed
<1>2. CASE Http!FindNothing
  BY <1>2, <1>0, Returns DEF Http!FindNothing, Http!Answers
<1>3. ASSUME NEW statuses, \A s \in statuses : s \in Refusals \cup {500}, Http!Raise(statuses)
      PROVE  ChangesSound'
  <2>1. PICK status \in statuses, effect \in Http!Effects :
          answer' = [status |-> status, by |-> "backend"] /\ changes' = changes + effect
    BY <1>3 DEF Http!Raise
  <2>2. effect \in {0, 1} /\ (effect = 1 => Http!Changing(request.route))
    BY <2>1 DEF Http!Effects
  <2>3. status \in Nat /\ status \notin 200..299
    BY <1>3, RefusalsRefuse
  <2>4. Http!At("call") /\ UNCHANGED <<runtime, request>>
    BY <1>3 DEF Http!Raise
  <2> QED BY <1>0, <2>1, <2>2, <2>3, <2>4, Returns
<1>4. CASE Http!RaiseMapped
  BY <1>4, <1>3, <1>s DEF Http!RaiseMapped, Statuses
<1>5. CASE Http!RaiseBackendError
  BY <1>5, <1>3 DEF Http!RaiseBackendError, Refusals
<1>6. CASE Http!RaiseUnexpected
  BY <1>6, <1>3 DEF Http!RaiseUnexpected
<1> QED
  BY <1>1, <1>2, <1>4, <1>5, <1>6
  DEF Http!Next, Http!ReadHeaders, Http!ReadChunk, Http!Disconnect, Http!RefuseHeaders,
      Http!DecodeBody, Http!Authorize, Http!ValidateModel, Http!FindService, Http!Callback,
      Http!At

LEMMA HttpMoves == ChangesSound /\ Http!Next => ChangesSound'
<1>1. Http!Next => answer = None
  BY DEF Http!Next, Http!ReadHeaders, Http!ReadChunk, Http!Disconnect, Http!RefuseHeaders,
      Http!DecodeBody, Http!Authorize, Http!ValidateModel, Http!FindService, Http!Callback,
      Http!Succeed, Http!FindNothing, Http!RaiseMapped, Http!RaiseBackendError,
      Http!RaiseUnexpected, Http!Raise, Http!At
<1> QED BY <1>1, ReadMoves, CallMoves

LEMMA ChangesFrame == ChangesSound /\ UNCHANGED httpVars => ChangesSound'
<1> SUFFICES ASSUME ChangesSound, UNCHANGED httpVars PROVE ChangesSound'
  OBVIOUS
<1>1. request' = request /\ changes' = changes /\ answer' = answer
  BY DEF httpVars
<1>2. RequestSound'
  BY <1>1 DEF ChangesSound, RequestSound
<1>3. Http!ChangesEarned'
  BY <1>1 DEF ChangesSound, Http!ChangesEarned, Http!Changing, Http!CallbackRoute
<1> QED BY <1>1, <1>2, <1>3 DEF ChangesSound

\* Whatever is sent, nothing of the backend changes but by one call of an authorised
\* and valid request, and the answer tells of it (api/app.py:168).
THEOREM ChangesAlwaysEarned == SideSpec => []ChangesEarned
<1> DEFINE Inv == subject = "http" => ChangesSound
<1>1. SideInit => Inv
  BY HttpStarts DEF SideInit, HttpInit
<1>2. Inv /\ [SideNext]_sideVars => Inv'
  BY HttpFrame, HttpMoves, ChangesFrame DEF httpVars
<1>3. Inv => ChangesEarned
  BY DEF ChangesEarned, ChangesSound
<1> QED BY <1>1, <1>2, <1>3, PTL DEF SideSpec

-----------------------------------------------------------------------------
(* Delivery runs.                                                          *)

LEMMA DeliveryFrame ==
  [SideNext]_sideVars =>
     \/ subject = "delivery" /\ Delivery!Next /\ UNCHANGED subject
     \/ UNCHANGED <<subject, deliveryVars>>
BY DEF SideNext, sideVars, TrainingStep, GateStep, DeliveryStep, SupervisorStep, HeldOutStep,
   SandboxStep, ControllerStep, HttpStep, PathsStep

PairCount == Cardinality(Pairs)

\* What the tracker holds bounds every situation it observed.
Bounds(m, sampled) ==
  /\ m.collisions = 0 => m.active = {} /\ \A s \in sampled : s.contacts = {}
  /\ \A s \in sampled : /\ m.clearance <= s.clearance /\ s.tilt <= m.tilt
                        /\ s.slipped => m.slipped

\* The tracker counts at most each pair at each step.
Tracked(m, steps) ==
  /\ m \in [collisions : Nat, active : SUBSET Pairs, clearance : -1..1, tilt : -1..1,
            slipped : BOOLEAN]
  /\ m.collisions <= steps * PairCount

\* What a success says of the situations it was measured on.
Measured(r, s, sampled, fell) ==
  /\ s.distance <= 0 /\ s.speed <= 0 /\ ~fell
  /\ \A t \in sampled \cup {s} :
       t.contacts = {} /\ t.clearance >= 0 /\ t.tilt < 0 /\ ~t.slipped

RunSound ==
  /\ now \in Delivery!Situation
  /\ time \in 0..MaxSteps
  /\ Tracked(metrics, time) /\ Bounds(metrics, happened.sampled)
  /\ falls \in 0..time /\ wasFallen \in BOOLEAN
  /\ reachedAt \in 0..time \cup {None}
  /\ happened \in [sampled : SUBSET Situations, fell : BOOLEAN]
  /\ falls = 0 => ~happened.fell /\ ~wasFallen
  /\ result # None =>
       /\ result \in Delivery!Results
       /\ Delivery!Canonical(result) /\ Delivery!DevelopmentCanonical(result)
       /\ result.success => Measured(result, now, happened.sampled, happened.fell)
  /\ accepted \in {TRUE, None}

\* An instance has the operators of the library modules of its own.
LEMMA DeliveryCardinality == \A S : Delivery!Cardinality(S) = Cardinality(S)
BY DEF Cardinality, Delivery!Cardinality

LEMMA CountNat == PairCount \in Nat
BY DeliveryAssumption, FS_CardinalityType DEF PairCount

LEMMA Grown ==
  ASSUME NEW a \in Nat, NEW b \in Nat, a <= b PROVE a * PairCount <= b * PairCount
BY CountNat

\* Sampling
LEMMA Observes ==
  ASSUME NEW m, NEW steps \in Nat, Tracked(m, steps), NEW s \in Delivery!Situation,
         NEW sampled \in SUBSET Delivery!Situation, Bounds(m, sampled)
  PROVE  /\ Tracked(Delivery!Observe(m, s), steps + 1)
         /\ Bounds(Delivery!Observe(m, s), sampled \cup {s})
         /\ Delivery!Observe(m, s).active = s.contacts
         /\ Delivery!Observe(m, s).collisions = m.collisions + Cardinality(s.contacts \ m.active)
<1> DEFINE new == s.contacts \ m.active
           o == Delivery!Observe(m, s)
<1>1. IsFiniteSet(s.contacts) /\ IsFiniteSet(new) /\ new \subseteq Pairs
  BY DeliveryAssumption, FS_Subset DEF Delivery!Situation
<1>2. Cardinality(new) \in Nat /\ Cardinality(new) <= PairCount
  BY <1>1, DeliveryAssumption, FS_Subset, FS_CardinalityType DEF PairCount
<1>3. Cardinality(new) = 0 => s.contacts \subseteq m.active
  BY <1>1, FS_EmptySet
<1>4. /\ o.collisions = m.collisions + Cardinality(new) /\ o.active = s.contacts
      /\ o.clearance = Delivery!Least(m.clearance, s.clearance)
      /\ o.tilt = Delivery!Most(m.tilt, s.tilt)
  <2>1. o = [collisions |-> m.collisions + Cardinality(new), active |-> s.contacts,
             clearance |-> Delivery!Least(m.clearance, s.clearance),
             tilt |-> Delivery!Most(m.tilt, s.tilt), slipped |-> (m.slipped \/ s.slipped)]
    BY DeliveryCardinality, Zenon DEF Delivery!Observe
  <2> HIDE DEF o, new
  <2> QED BY <2>1
<1>10. o.slipped = (m.slipped \/ s.slipped)
  BY Zenon DEF Delivery!Observe
<1>5. /\ s.clearance \in -1..1 /\ s.tilt \in -1..1 /\ s.slipped \in BOOLEAN
      /\ s.contacts \subseteq Pairs
  BY DEF Delivery!Situation, Delivery!Level
<1>6. /\ m.collisions \in Nat /\ m.active \subseteq Pairs /\ m.clearance \in -1..1
      /\ m.tilt \in -1..1 /\ m.slipped \in BOOLEAN /\ m.collisions <= steps * PairCount
  BY DEF Tracked
<1>7. (steps + 1) * PairCount = steps * PairCount + PairCount
  BY CountNat
<1>8. Tracked(o, steps + 1)
  <2>1. o.collisions \in Nat /\ o.collisions <= (steps + 1) * PairCount
    BY <1>2, <1>4, <1>6, <1>7, CountNat
  <2>2. o \in [collisions : Nat, active : SUBSET Pairs, clearance : -1..1, tilt : -1..1,
               slipped : BOOLEAN]
    <3>1. o.clearance \in -1..1 /\ o.tilt \in -1..1
      BY <1>4, <1>5, <1>6 DEF Delivery!Least, Delivery!Most
    <3>2. o.slipped \in BOOLEAN /\ o.active \in SUBSET Pairs
      BY <1>4, <1>5, <1>10
    <3>3. o = [collisions |-> o.collisions, active |-> o.active, clearance |-> o.clearance,
               tilt |-> o.tilt, slipped |-> o.slipped]
      BY DEF Delivery!Observe
    <3> HIDE DEF o
    <3> QED BY <2>1, <3>1, <3>2, <3>3
  <2> QED BY <2>1, <2>2 DEF Tracked
<1>9. Bounds(o, sampled \cup {s})
  <2>1. ASSUME o.collisions = 0
        PROVE  o.active = {} /\ \A t \in sampled \cup {s} : t.contacts = {}
    <3>1. m.collisions = 0 /\ Cardinality(new) = 0
      BY <2>1, <1>2, <1>4, <1>6
    <3> QED BY <3>1, <1>3, <1>4 DEF Bounds
  <2>2. ASSUME NEW t \in sampled \cup {s}
        PROVE  /\ o.clearance <= t.clearance /\ t.tilt <= o.tilt
               /\ t.slipped => o.slipped
    <3>1. /\ o.clearance <= m.clearance /\ o.clearance <= s.clearance
          /\ o.tilt >= m.tilt /\ o.tilt >= s.tilt
      BY <1>4, <1>5, <1>6 DEF Delivery!Least, Delivery!Most
    <3>2. /\ t.clearance \in -1..1 /\ t.tilt \in -1..1
          /\ o.clearance \in -1..1 /\ o.tilt \in -1..1
      BY <1>4, <1>5, <1>6 DEF Delivery!Situation, Delivery!Level, Delivery!Least, Delivery!Most
    <3>3. CASE t = s
      BY <3>1, <3>3, <1>10
    <3>4. CASE t \in sampled
      BY <3>1, <3>2, <3>4, <1>6, <1>10 DEF Bounds
    <3> QED BY <3>3, <3>4
  <2> QED BY <2>1, <2>2 DEF Bounds
<1> QED BY <1>4, <1>8, <1>9

\* The result of a run, from a tracker that bounds what it observed.
LEMMA ResultMeasured ==
  ASSUME NEW s \in Delivery!Situation, NEW m, NEW sampled \in SUBSET Delivery!Situation,
         NEW steps \in 0..MaxSteps, NEW reached \in 0..steps \cup {None},
         NEW fallen \in 0..steps, NEW fell \in BOOLEAN, fallen = 0 => ~fell,
         Tracked(m, steps), Bounds(m, sampled),
         m.collisions + Cardinality(s.contacts \ m.active) <= steps * PairCount
  PROVE  LET r == Delivery!ResultOf(s, m, reached, fallen, steps)
         IN  /\ r \in Delivery!Results
             /\ Delivery!Canonical(r) /\ Delivery!DevelopmentCanonical(r)
             /\ r.success => Measured(r, s, sampled, fell)
<1> DEFINE last == Delivery!Observe(m, s)
           outcome == [time |-> reached, stopped |-> s.speed <= 0, distance |-> s.distance,
                       facing |-> s.facing, falls |-> fallen, collisions |-> last.collisions,
                       clearance |-> last.clearance, tilt |-> last.tilt,
                       slipped |-> last.slipped]
           reasons == Delivery!SafeDelivery(outcome)
           r == Delivery!ResultOf(s, m, reached, fallen, steps)
<1>0. steps \in Nat /\ MaxSteps \in Nat /\ reached \in Nat \cup {None} /\ fallen \in Nat
  BY DeliveryAssumption
<1>1. /\ Tracked(last, steps + 1) /\ Bounds(last, sampled \cup {s})
      /\ last.collisions = m.collisions + Cardinality(s.contacts \ m.active)
  BY <1>0, Observes
<1>2. /\ last.collisions \in Nat /\ last.clearance \in -1..1 /\ last.tilt \in -1..1
      /\ last.slipped \in BOOLEAN
  BY <1>1 DEF Tracked
<1>3. last.collisions <= MaxSteps * PairCount
  BY <1>0, <1>1, <1>2, Grown, CountNat
<1>4. /\ s.distance \in -1..1 /\ s.speed \in -1..1 /\ s.facing \in -1..1 \cup {None}
  BY DEF Delivery!Situation, Delivery!Level
<1>5. r = [success |-> reasons = {}, reasons |-> reasons, time |-> reached, duration |-> steps,
           distance |-> s.distance, facing |-> s.facing, speed |-> s.speed, falls |-> fallen,
           collisions |-> last.collisions, clearance |-> last.clearance, tilt |-> last.tilt,
           slipped |-> last.slipped]
  BY DEF Delivery!ResultOf
<1> HIDE DEF r, last
<1>6. /\ r.time = reached /\ r.duration = steps /\ r.distance = s.distance
      /\ r.facing = s.facing /\ r.speed = s.speed /\ r.falls = fallen
      /\ r.collisions = last.collisions /\ r.clearance = last.clearance
      /\ r.tilt = last.tilt
  BY <1>5
<1>7. r.slipped = last.slipped
  BY <1>5
<1>8. r.reasons = reasons
  BY <1>5
<1>9. r.success <=> reasons = {}
  BY <1>5
<1>10. reasons = Delivery!Rederived(r)
  <2>1. /\ outcome.time = r.time /\ outcome.distance = r.distance
        /\ outcome.facing = r.facing /\ outcome.falls = r.falls
        /\ outcome.collisions = r.collisions /\ outcome.clearance = r.clearance
        /\ outcome.tilt = r.tilt
    BY <1>6
  <2>2. outcome.slipped = r.slipped
    BY <1>7
  <2>3. ~outcome.stopped <=> r.speed > 0
    <3>1. outcome.stopped <=> s.speed <= 0
      BY Zenon
    <3> QED BY <3>1, <1>4, <1>6
  <2> HIDE DEF outcome
  <2> QED BY <2>1, <2>2, <2>3 DEF Delivery!SafeDelivery, Delivery!Rederived
<1>11. reasons \subseteq Delivery!Reasons
  BY DEF Delivery!SafeDelivery, Delivery!Reasons
<1>12. r \in Delivery!Results
  <2>1. r.success \in BOOLEAN /\ r.slipped \in BOOLEAN
    BY <1>2, <1>5, <1>7
  <2>2. /\ r.time \in 0..MaxSteps \cup {None} /\ r.duration \in 0..MaxSteps
        /\ r.falls \in 0..MaxSteps /\ r.collisions \in 0..MaxSteps * PairCount
        /\ r.distance \in -1..1 /\ r.speed \in -1..1 /\ r.facing \in -1..1 \cup {None}
        /\ r.clearance \in -1..1 /\ r.tilt \in -1..1
    BY <1>0, <1>2, <1>3, <1>4, <1>6, CountNat
  <2>3. r.reasons \subseteq Delivery!Reasons
    BY <1>8, <1>11
  <2>4. r = [success |-> r.success, reasons |-> r.reasons, time |-> r.time,
             duration |-> r.duration, distance |-> r.distance, facing |-> r.facing,
             speed |-> r.speed, falls |-> r.falls, collisions |-> r.collisions,
             clearance |-> r.clearance, tilt |-> r.tilt, slipped |-> r.slipped]
    BY <1>5
  <2>5. -1..1 = Delivery!Level
    BY DEF Delivery!Level
  <2> QED BY <2>1, <2>2, <2>3, <2>4, <2>5, DeliveryCardinality DEF Delivery!Results, PairCount
<1>13. Delivery!Canonical(r) /\ Delivery!DevelopmentCanonical(r)
  BY <1>0, <1>6, <1>8, <1>9, <1>10 DEF Delivery!Canonical, Delivery!DevelopmentCanonical
<1>14. ASSUME r.success PROVE Measured(r, s, sampled, fell)
  <2>1. Delivery!Rederived(r) = {}
    BY <1>9, <1>10, <1>14
  <2>2. /\ ~(r.speed > 0) /\ ~(r.distance > 0) /\ ~(r.falls > 0) /\ ~(r.collisions > 0)
        /\ ~(r.clearance < 0) /\ ~(r.tilt >= 0) /\ ~r.slipped
    BY <2>1 DEF Delivery!Rederived
  <2>3. /\ s.distance <= 0 /\ s.speed <= 0 /\ fallen = 0 /\ last.collisions = 0
        /\ last.clearance >= 0 /\ last.tilt < 0 /\ ~last.slipped
    BY <2>2, <1>0, <1>2, <1>4, <1>6, <1>7
  <2>4. ASSUME NEW t \in sampled \cup {s}
        PROVE  t.contacts = {} /\ t.clearance >= 0 /\ t.tilt < 0 /\ ~t.slipped
    <3>1. t.clearance \in -1..1 /\ t.tilt \in -1..1
      BY DEF Delivery!Situation, Delivery!Level
    <3>2. /\ t.contacts = {} /\ last.clearance <= t.clearance /\ t.tilt <= last.tilt
          /\ t.slipped => last.slipped
      BY <1>1, <2>3 DEF Bounds
    <3> QED BY <2>3, <3>1, <3>2, <1>2
  <2> QED BY <2>3, <2>4 DEF Measured
<1> QED BY <1>12, <1>13, <1>14 DEF r

LEMMA RunStarts == Delivery!Init => RunSound
<1> SUFFICES ASSUME Delivery!Init PROVE RunSound
  OBVIOUS
<1> DEFINE m == Delivery!Unobserved
<1>1. now \in Situations /\ now \in Delivery!Situation /\ now.contacts = {}
  BY DeliveryAssumption DEF Delivery!Init, Delivery!Situation, Delivery!Level
<1>2. Tracked(m, 0) /\ Bounds(m, {})
  BY CountNat DEF Delivery!Unobserved, Tracked, Bounds
<1>a. metrics = Delivery!Observe(m, now) /\ 0 \in Nat /\ {} \in SUBSET Delivery!Situation
  BY DEF Delivery!Init
<1>b. /\ Tracked(Delivery!Observe(m, now), 0 + 1)
      /\ Bounds(Delivery!Observe(m, now), {} \cup {now})
      /\ Delivery!Observe(m, now).collisions
           = m.collisions + Cardinality(now.contacts \ m.active)
  <2> HIDE DEF m
  <2> QED BY <1>1, <1>2, <1>a, Observes, Zenon
<1>3. /\ Tracked(metrics, 1) /\ Bounds(metrics, {} \cup {now})
      /\ metrics.collisions = m.collisions + Cardinality(now.contacts \ m.active)
  <2> HIDE DEF m
  <2> QED BY <1>a, <1>b
<1>4. metrics.collisions = 0
  BY <1>1, <1>3, FS_EmptySet DEF Delivery!Unobserved
<1>5. Tracked(metrics, 0) /\ Bounds(metrics, happened.sampled)
  BY <1>3, <1>4, CountNat DEF Tracked, Delivery!Init
<1>6. /\ happened = [sampled |-> {now}, fell |-> FALSE] /\ time = 0 /\ falls = 0
      /\ wasFallen = FALSE /\ reachedAt = None /\ result = None /\ accepted = None
  BY DEF Delivery!Init
<1>7. happened \in [sampled : SUBSET Situations, fell : BOOLEAN] /\ ~happened.fell
  BY <1>1, <1>6
<1>8. /\ time \in 0..MaxSteps /\ falls \in 0..time /\ reachedAt \in 0..time \cup {None}
  BY <1>6, DeliveryAssumption
<1>10. wasFallen \in BOOLEAN /\ accepted \in {TRUE, None}
  BY <1>6
<1>9. Tracked(metrics, time)
  BY <1>5, <1>6
<1> QED BY <1>1, <1>5, <1>6, <1>7, <1>8, <1>9, <1>10 DEF RunSound

LEMMA RunSteps == RunSound /\ Delivery!Step => RunSound'
<1> SUFFICES ASSUME RunSound, Delivery!Step PROVE RunSound'
  OBVIOUS
<1>1. PICK s \in Situations :
        /\ now' = s
        /\ metrics' = IF time % SampleEvery = 0 THEN Delivery!Observe(metrics, s) ELSE metrics
        /\ happened' = [sampled |-> IF time % SampleEvery = 0 THEN happened.sampled \cup {s}
                                    ELSE happened.sampled,
                        fell |-> happened.fell \/ s.fallen]
        /\ falls' = IF s.fallen /\ ~wasFallen THEN falls + 1 ELSE falls
        /\ wasFallen' = s.fallen
  BY DEF Delivery!Step
<1>2. s \in Delivery!Situation
  BY DeliveryAssumption DEF Delivery!Situation, Delivery!Level
<1>3. time \in Nat /\ time < MaxSteps /\ time' = time + 1 /\ result = None
  BY DEF RunSound, Delivery!Step
<1>4. time + 1 \in Nat /\ time' \in 0..MaxSteps
  BY <1>3, DeliveryAssumption
<1>5. /\ Tracked(metrics, time) /\ Bounds(metrics, happened.sampled)
      /\ happened.sampled \in SUBSET Situations /\ happened.fell \in BOOLEAN
  BY DEF RunSound
<1>s. Situations \subseteq Delivery!Situation
  BY DeliveryAssumption DEF Delivery!Situation, Delivery!Level
<1>6. /\ Tracked(metrics', time + 1) /\ Bounds(metrics', happened'.sampled)
      /\ happened'.sampled \in SUBSET Situations
      /\ metrics'.collisions + Cardinality(s.contacts \ metrics'.active)
           <= (time + 1) * PairCount
  <2>1. CASE time % SampleEvery = 0
    <3>1. metrics' = Delivery!Observe(metrics, s)
            /\ happened'.sampled = happened.sampled \cup {s}
      BY <1>1, <2>1
    <3>2. /\ Tracked(metrics', time + 1) /\ Bounds(metrics', happened'.sampled)
          /\ metrics'.active = s.contacts
      <4> DEFINE o == Delivery!Observe(metrics, s)
      <4>1. /\ Tracked(o, time + 1) /\ Bounds(o, happened.sampled \cup {s})
            /\ o.active = s.contacts
        BY <1>2, <1>3, <1>5, <1>s, Observes
      <4> QED BY <3>1, <4>1
    <3>3. Cardinality(s.contacts \ metrics'.active) = 0
      BY <3>2, FS_EmptySet
    <3> QED BY <1>2, <1>5, <3>1, <3>2, <3>3 DEF Tracked
  <2>2. CASE time % SampleEvery # 0
    <3>1. metrics' = metrics /\ happened'.sampled = happened.sampled
      BY <1>1, <2>2
    <3>2. metrics.collisions \in Nat /\ metrics.collisions <= time * PairCount
      BY <1>5 DEF Tracked
    <3>3. (time + 1) * PairCount = time * PairCount + PairCount
      BY <1>3, CountNat
    <3>4. /\ Cardinality(s.contacts \ metrics.active) \in Nat
          /\ Cardinality(s.contacts \ metrics.active) <= PairCount
      <4>1. s.contacts \ metrics.active \subseteq Pairs
        BY <1>2 DEF Delivery!Situation
      <4> QED BY <4>1, DeliveryAssumption, FS_Subset, FS_CardinalityType DEF PairCount
    <3>5. Tracked(metrics', time + 1)
      BY <1>3, <1>5, <3>1, <3>2, <3>3, CountNat DEF Tracked
    <3> QED BY <1>3, <1>5, <3>1, <3>2, <3>3, <3>4, <3>5, CountNat
  <2> QED BY <2>1, <2>2
<1>7. happened'.fell \in BOOLEAN /\ (happened'.fell <=> happened.fell \/ s.fallen)
  <2>1. s.fallen \in BOOLEAN
    BY <1>2 DEF Delivery!Situation
  <2> QED BY <1>1, <1>5, <2>1
<1>8. happened' \in [sampled : SUBSET Situations, fell : BOOLEAN]
  <2>1. happened' = [sampled |-> happened'.sampled, fell |-> happened'.fell]
    BY <1>1
  <2> QED BY <1>6, <1>7, <2>1
<1>9. /\ falls' \in 0..(time + 1) /\ wasFallen' \in BOOLEAN
      /\ falls' = 0 => ~happened'.fell /\ ~wasFallen'
  <2>1. falls \in 0..time /\ wasFallen \in BOOLEAN /\ (falls = 0
          => ~happened.fell /\ ~wasFallen)
    BY DEF RunSound
  <2>2. wasFallen' \in BOOLEAN /\ wasFallen' = s.fallen
    BY <1>1, <1>2 DEF Delivery!Situation
  <2>3. CASE s.fallen /\ ~wasFallen
    BY <1>1, <1>3, <2>1, <2>2, <2>3
  <2>4. CASE ~(s.fallen /\ ~wasFallen)
    BY <1>1, <1>3, <1>7, <2>1, <2>2, <2>4
  <2> QED BY <2>3, <2>4
<1>10. reachedAt' \in 0..(time + 1) \cup {None}
  <2>1. reachedAt \in 0..time \cup {None}
    BY DEF RunSound
  <2>2. reachedAt' = reachedAt \/ reachedAt' = time + 1
    BY DEF Delivery!Step
  <2> QED BY <1>3, <2>1, <2>2
<1>11. ASSUME result' # None
       PROVE  /\ result' \in Delivery!Results
              /\ Delivery!Canonical(result)' /\ Delivery!DevelopmentCanonical(result)'
              /\ result'.success => Measured(result', now', happened'.sampled, happened'.fell)
  <2>1. result' = Delivery!ResultOf(s, metrics', reachedAt', falls', time + 1)
    BY <1>1, <1>11 DEF Delivery!Step
  <2>3. /\ time + 1 \in 0..MaxSteps /\ happened'.sampled \in SUBSET Delivery!Situation
        /\ reachedAt' \in 0..(time + 1) \cup {None} /\ falls' \in 0..(time + 1)
        /\ happened'.fell \in BOOLEAN /\ (falls' = 0 => ~happened'.fell)
        /\ Tracked(metrics', time + 1) /\ Bounds(metrics', happened'.sampled)
        /\ metrics'.collisions + Cardinality(s.contacts \ metrics'.active)
             <= (time + 1) * PairCount
    BY <1>3, <1>4, <1>6, <1>7, <1>9, <1>10, <1>s
  <2>2. /\ result' \in Delivery!Results
        /\ Delivery!Canonical(result') /\ Delivery!DevelopmentCanonical(result')
        /\ result'.success => Measured(result', s, happened'.sampled, happened'.fell)
    BY <1>2, <2>1, <2>3, ResultMeasured
  <2> QED BY <1>1, <2>2 DEF Delivery!Canonical, Delivery!DevelopmentCanonical,
     Delivery!Rederived
<1>12. accepted' \in {TRUE, None}
  BY DEF RunSound, Delivery!Step
<1>13. now' \in Delivery!Situation
  BY <1>1, <1>2
<1> QED
  BY <1>3, <1>4, <1>6, <1>8, <1>9, <1>10, <1>11, <1>12, <1>13
  DEF RunSound, Tracked, Bounds, Measured

LEMMA RunKept ==
  ASSUME RunSound,
         UNCHANGED <<now, time, metrics, falls, wasFallen, reachedAt, result, happened>>,
         accepted' \in {TRUE, None}
  PROVE  RunSound'
<1>1. Tracked(metrics', time') /\ Bounds(metrics', happened'.sampled)
  BY DEF RunSound
<1>2. ASSUME result' # None
      PROVE  /\ result' \in Delivery!Results
             /\ Delivery!Canonical(result') /\ Delivery!DevelopmentCanonical(result')
             /\ result'.success => Measured(result', now', happened'.sampled, happened'.fell)
  BY <1>2 DEF RunSound
<1> QED BY <1>1, <1>2 DEF RunSound

LEMMA RunChecked == RunSound /\ Delivery!Check => RunSound'
<1> SUFFICES ASSUME RunSound, Delivery!Check PROVE RunSound'
  OBVIOUS
<1>1. accepted' = TRUE
  BY DEF Delivery!Check, RunSound, Delivery!Canonical, Delivery!DevelopmentCanonical
<1>2. UNCHANGED <<now, time, metrics, falls, wasFallen, reachedAt, result, happened>>
  BY DEF Delivery!Check
<1> QED BY <1>1, <1>2, RunKept DEF RunSound

LEMMA RunFrame == RunSound /\ UNCHANGED deliveryVars => RunSound'
BY RunKept DEF deliveryVars, RunSound

LEMMA RunGives == RunSound => Delivery!TypeOK /\ Delivery!SuccessIsMeasured
<1> SUFFICES ASSUME RunSound PROVE Delivery!TypeOK /\ Delivery!SuccessIsMeasured
  OBVIOUS
<1>1. time \in Nat /\ MaxSteps \in Nat /\ time <= MaxSteps
  BY DeliveryAssumption DEF RunSound
<1>2. metrics \in Delivery!Metrics
  <2>1. metrics.collisions \in Nat /\ metrics.collisions <= MaxSteps * PairCount
    BY <1>1, Grown, CountNat DEF RunSound, Tracked
  <2> QED BY <2>1, CountNat, DeliveryCardinality DEF RunSound, Tracked, Delivery!Metrics,
     Delivery!Level, PairCount
<1>3. Delivery!TypeOK
  <2>1. /\ falls \in 0..MaxSteps /\ reachedAt \in 0..MaxSteps \cup {None}
    BY <1>1 DEF RunSound
  <2>2. accepted \in BOOLEAN \cup {None}
    BY DEF RunSound
  <2>3. result \in Delivery!Results \cup {None}
    BY DEF RunSound
  <2>4. /\ now \in Delivery!Situation /\ time \in 0..MaxSteps /\ wasFallen \in BOOLEAN
        /\ happened \in [sampled : SUBSET Situations, fell : BOOLEAN]
    BY DEF RunSound
  <2> QED BY <1>2, <2>1, <2>2, <2>3, <2>4 DEF Delivery!TypeOK
<1>4. Delivery!SuccessIsMeasured
  BY DeliveryAssumption DEF RunSound, Delivery!SuccessIsMeasured, Measured
<1> QED BY <1>3, <1>4

\* Over any number of steps, a result that is accepted as a success was measured:
\* every sampled situation kept the clearance, the tilt and the contacts, and the
\* run ended at the door without a fall (evaluation/runner.py:96).
THEOREM SuccessAlwaysMeasured == SideSpec => []SuccessIsMeasured
<1> DEFINE Inv == subject = "delivery" => RunSound
<1>1. SideInit => Inv
  BY RunStarts DEF SideInit, DeliveryInit
<1>2. Inv /\ [SideNext]_sideVars => Inv'
  BY DeliveryFrame, RunSteps, RunChecked, RunFrame DEF Delivery!Next
<1>3. Inv => SuccessIsMeasured
  BY RunGives DEF SuccessIsMeasured
<1> QED BY <1>1, <1>2, <1>3, PTL DEF SideSpec

-----------------------------------------------------------------------------
(* The command supervisor.                                                 *)

LEMMA SupervisorFrame ==
  [SideNext]_sideVars =>
     \/ subject = "command" /\ Supervisor!Next /\ UNCHANGED subject
     \/ UNCHANGED <<subject, commandVars>>
BY DEF SideNext, sideVars, TrainingStep, GateStep, DeliveryStep, SupervisorStep, HeldOutStep,
   SandboxStep, ControllerStep, HttpStep, PathsStep

\* How far a speed is from zero after some ticks of a ramp from one of the asked ones.
Ramped(s, asked, ticksDone, deceleration) ==
  \E from \in asked \cup {0} :
    Supervisor!Magnitude(s) <= Supervisor!Magnitude(from) - ticksDone * deceleration \/ s = 0

\* How far the ramp is since the stop was asked, and what is asked next.
RampSound ==
  /\ command.forward \in Int /\ command.turning \in Int /\ stopping \in Nat
  /\ Ramped(command.forward, Forwards, stopping, ForwardDeceleration)
  /\ Ramped(command.turning, Turnings, stopping, TurnDeceleration)
  /\ pending.stop \/ (pending.forward \in Forwards /\ pending.turning \in Turnings)

LEMMA RampNumbers ==
  /\ Forwards \subseteq Int /\ Turnings \subseteq Int /\ Forwards # {} /\ Turnings # {}
  /\ ForwardDeceleration \in Nat \ {0} /\ TurnDeceleration \in Nat \ {0}
BY RampAssumption

LEMMA MagnitudeNatural ==
  \A s \in Int : /\ Supervisor!Magnitude(s) \in Nat
                 /\ Supervisor!Magnitude(s) = 0 <=> s = 0
                 /\ Supervisor!Magnitude(s) >= s /\ Supervisor!Magnitude(s) >= -s
                 /\ Supervisor!Magnitude(s) = s \/ Supervisor!Magnitude(s) = -s
BY DEF Supervisor!Magnitude

\* One tick takes off the deceleration, or what is left.
LEMMA OneTick ==
  ASSUME NEW s \in Int, NEW d \in Nat \ {0}
  PROVE  LET next == Supervisor!ApproachZero(s, d)
         IN  /\ next \in Int
             /\ next = 0 \/ Supervisor!Magnitude(next) = Supervisor!Magnitude(s) - d
             /\ Supervisor!Magnitude(next) >= Supervisor!Magnitude(s) - d
             /\ Supervisor!Magnitude(next) <= Supervisor!Magnitude(s)
             /\ next = 0 \/ (next > 0 /\ s > 0) \/ (next < 0 /\ s < 0)
BY DEF Supervisor!ApproachZero, Supervisor!Magnitude

LEMMA SameSign ==
  ASSUME NEW s \in Int, NEW t \in Int, t = 0 \/ (t > 0 /\ s > 0) \/ (t < 0 /\ s < 0)
  PROVE  t * s >= 0
<1>1. CASE t = 0
  BY <1>1
<1>2. CASE t > 0 /\ s > 0
  BY <1>2
<1>3. CASE t < 0 /\ s < 0
  BY <1>3
<1> QED BY <1>1, <1>2, <1>3

LEMMA RampShortens ==
  ASSUME NEW s \in Int, NEW asked, asked \subseteq Int, NEW n \in Nat, NEW d \in Nat \ {0},
         Ramped(s, asked, n, d)
  PROVE  Ramped(Supervisor!ApproachZero(s, d), asked, n + 1, d)
<1> DEFINE next == Supervisor!ApproachZero(s, d)
<1>1. PICK from \in asked \cup {0} :
        Supervisor!Magnitude(s) <= Supervisor!Magnitude(from) - n * d \/ s = 0
  BY DEF Ramped
<1>2. (n + 1) * d = n * d + d /\ n * d \in Nat
  OBVIOUS
<1>3. CASE next = 0
  BY <1>3 DEF Ramped
<1>4. CASE next # 0
  <2>1. Supervisor!Magnitude(next) = Supervisor!Magnitude(s) - d /\ s # 0
    BY <1>4, OneTick
  <2>2. Supervisor!Magnitude(s) \in Nat /\ Supervisor!Magnitude(from) \in Nat
    BY MagnitudeNatural
  <2>3. Supervisor!Magnitude(next) <= Supervisor!Magnitude(from) - (n + 1) * d
    BY <1>1, <1>2, <2>1, <2>2
  <2> QED BY <2>3 DEF Ramped
<1> QED BY <1>3, <1>4

\* The number of ticks that stop from any speed exists.
Fits(n) ==
  \A f \in Forwards, t \in Turnings :
    n * ForwardDeceleration >= Supervisor!Magnitude(f)
      /\ n * TurnDeceleration >= Supervisor!Magnitude(t)

LEMMA RampEnds == Supervisor!RampTicks \in Nat /\ Fits(Supervisor!RampTicks)
<1> DEFINE Good == {n \in 0..20 : Fits(n)}
<1>1. 20 \in Good
  <2>1. 20 * ForwardDeceleration >= 20 /\ 20 * TurnDeceleration >= 20
    BY RampNumbers
  <2>2. \A s \in -20..20 : Supervisor!Magnitude(s) \in 0..20
    BY DEF Supervisor!Magnitude
  <2> QED BY <2>1, <2>2, RampAssumption, RampNumbers DEF Fits
<1>2. PICK n \in Good : \A m \in Good : n <= m
  <2>1. Good \subseteq Nat /\ Good # {}
    BY <1>1
  <2> QED BY <2>1, LeastElement
<1>3. n \in 0..20 /\ Fits(n) /\ \A m \in 0..(n - 1) : ~Fits(m)
  BY <1>2
<1>4. Supervisor!RampTicks = CHOOSE k \in 0..20 : Fits(k) /\ \A m \in 0..(k - 1) : ~Fits(m)
  BY DEF Supervisor!RampTicks, Fits
<1>5. Supervisor!RampTicks \in 0..20 /\ Fits(Supervisor!RampTicks)
  BY <1>3, <1>4
<1> QED BY <1>5

LEMMA RampOver ==
  ASSUME NEW s \in Int, NEW asked, asked \subseteq Int, NEW n \in Nat, NEW m \in Nat, m >= n,
         NEW d \in Nat \ {0}, \A f \in asked : n * d >= Supervisor!Magnitude(f), Ramped(s, asked, m, d)
  PROVE  s = 0
<1>1. PICK from \in asked \cup {0} :
        Supervisor!Magnitude(s) <= Supervisor!Magnitude(from) - m * d \/ s = 0
  BY DEF Ramped
<1>2. m * d >= n * d /\ m * d \in Nat /\ n * d \in Nat
  OBVIOUS
<1>3. Supervisor!Magnitude(s) \in Nat /\ Supervisor!Magnitude(from) \in Nat
  BY MagnitudeNatural
<1>4. m * d >= Supervisor!Magnitude(from)
  <2>1. CASE from \in asked
    BY <1>2, <1>3, <2>1
  <2>2. CASE from = 0
    BY <1>2, <2>2, MagnitudeNatural
  <2> QED BY <2>1, <2>2
<1>5. Supervisor!Magnitude(s) = 0 \/ s = 0
  BY <1>1, <1>2, <1>3, <1>4
<1> QED BY <1>5, MagnitudeNatural

LEMMA RampStarts == Supervisor!Init => RampSound
<1> SUFFICES ASSUME Supervisor!Init PROVE RampSound
  OBVIOUS
<1>1. /\ pending = [forward |-> 0, turning |-> 0, stop |-> TRUE]
      /\ command = [forward |-> 0, turning |-> 0, stop |-> TRUE] /\ stopping = 0
  BY DEF Supervisor!Init, Supervisor!Standstill
<1>2. pending.stop
  BY <1>1
<1>3. command.forward = 0 /\ command.turning = 0
  BY <1>1
<1> QED BY <1>1, <1>2, <1>3 DEF RampSound, Ramped

\* A supervisor tick while a stop is asked for.
LEMMA StopTick ==
  ASSUME RampSound, NEW asking, asking.stop,
         command' = Supervisor!Supervised(asking, command), stopping' = stopping + 1
  PROVE  /\ Ramped(command'.forward, Forwards, stopping', ForwardDeceleration)
         /\ Ramped(command'.turning, Turnings, stopping', TurnDeceleration)
         /\ command'.forward = Supervisor!ApproachZero(command.forward, ForwardDeceleration)
         /\ command'.turning = Supervisor!ApproachZero(command.turning, TurnDeceleration)
         /\ command' = [forward |-> command'.forward, turning |-> command'.turning,
                        stop |-> command'.forward = 0 /\ command'.turning = 0]
         /\ command'.stop = (command'.forward = 0 /\ command'.turning = 0)
<1> DEFINE f == Supervisor!ApproachZero(command.forward, ForwardDeceleration)
           t == Supervisor!ApproachZero(command.turning, TurnDeceleration)
<1>1. command' = [forward |-> f, turning |-> t, stop |-> f = 0 /\ t = 0]
  BY DEF Supervisor!Supervised
<1> HIDE DEF f, t
<1>2. command'.forward = f /\ command'.turning = t
  BY <1>1
<1>3. Ramped(f, Forwards, stopping + 1, ForwardDeceleration)
  BY RampShortens, RampNumbers DEF RampSound, f
<1>4. Ramped(t, Turnings, stopping + 1, TurnDeceleration)
  BY RampShortens, RampNumbers DEF RampSound, t
<1>5. command' = [forward |-> command'.forward, turning |-> command'.turning,
                  stop |-> command'.forward = 0 /\ command'.turning = 0]
  BY <1>1, <1>2
<1>6. command'.stop = (f = 0 /\ t = 0)
  BY <1>1
<1>7. command'.stop = (command'.forward = 0 /\ command'.turning = 0)
  BY <1>2, <1>6
<1> QED BY <1>2, <1>3, <1>4, <1>5, <1>7 DEF f, t

\* Of a speed that goes a tick towards zero.
LEMMA Gently ==
  ASSUME NEW s \in Int, NEW d \in Nat \ {0}
  PROVE  LET next == Supervisor!ApproachZero(s, d)
         IN  /\ next \in Int
             /\ Supervisor!Magnitude(next) >= Supervisor!Magnitude(s) - d
             /\ next * s >= 0
             /\ Supervisor!Magnitude(next) <= Supervisor!Magnitude(s)
BY OneTick, SameSign

LEMMA StopsRamped ==
  ASSUME RampSound, NEW asking, asking.stop,
         command' = Supervisor!Supervised(asking, command), stopping' = stopping + 1
  PROVE  Supervisor!RampStep
<1>1. /\ Ramped(command'.forward, Forwards, stopping', ForwardDeceleration)
      /\ Ramped(command'.turning, Turnings, stopping', TurnDeceleration)
      /\ command'.forward = Supervisor!ApproachZero(command.forward, ForwardDeceleration)
      /\ command'.turning = Supervisor!ApproachZero(command.turning, TurnDeceleration)
      /\ command' = [forward |-> command'.forward, turning |-> command'.turning,
                     stop |-> command'.forward = 0 /\ command'.turning = 0]
      /\ command'.stop = (command'.forward = 0 /\ command'.turning = 0)
  BY StopTick
<1>2. command.forward \in Int /\ command.turning \in Int /\ stopping \in Nat
  BY DEF RampSound
<1>3. /\ command'.forward \in Int
      /\ Supervisor!Magnitude(command'.forward) >= Supervisor!Magnitude(command.forward) - ForwardDeceleration
      /\ command'.forward * command.forward >= 0
      /\ Supervisor!Magnitude(command'.forward) <= Supervisor!Magnitude(command.forward)
  BY <1>1, <1>2, Gently, RampNumbers
<1>4. /\ command'.turning \in Int
      /\ Supervisor!Magnitude(command'.turning) >= Supervisor!Magnitude(command.turning) - TurnDeceleration
      /\ command'.turning * command.turning >= 0
      /\ Supervisor!Magnitude(command'.turning) <= Supervisor!Magnitude(command.turning)
  BY <1>1, <1>2, Gently, RampNumbers
<1>5. ASSUME stopping' >= Supervisor!RampTicks
      PROVE  command'.forward = 0 /\ command'.turning = 0
  <2>1. stopping' \in Nat
    BY <1>2
  <2>2. /\ \A f \in Forwards : Supervisor!RampTicks * ForwardDeceleration >= Supervisor!Magnitude(f)
        /\ \A t \in Turnings : Supervisor!RampTicks * TurnDeceleration >= Supervisor!Magnitude(t)
    <3>1. PICK f0 \in Forwards, t0 \in Turnings : TRUE
      BY RampNumbers
    <3>2. Fits(Supervisor!RampTicks)
      BY RampEnds
    <3>3. \A f \in Forwards : Supervisor!RampTicks * ForwardDeceleration >= Supervisor!Magnitude(f)
      BY <3>1, <3>2 DEF Fits
    <3>4. \A t \in Turnings : Supervisor!RampTicks * TurnDeceleration >= Supervisor!Magnitude(t)
      BY <3>1, <3>2 DEF Fits
    <3> QED BY <3>3, <3>4
  <2> QED BY <1>1, <1>3, <1>4, <1>5, <2>1, <2>2, RampOver, RampEnds, RampNumbers
<1>7. ASSUME stopping' >= Supervisor!RampTicks PROVE command' = Supervisor!Standstill
  BY <1>1, <1>5, <1>7 DEF Supervisor!Standstill
<1>8. command'.stop => command'.forward = 0 /\ command'.turning = 0
  BY <1>1
<1> QED BY <1>3, <1>4, <1>7, <1>8 DEF Supervisor!RampStep

LEMMA RampStays ==
  ASSUME RampSound, Supervisor!Next
  PROVE  RampSound' /\ Supervisor!RampStep
<1>1. PICK decided \in (IF Supervisor!Due(PolicyEvery) THEN Supervisor!Decisions ELSE {pending}) :
        /\ pending' = decided
        /\ IF Supervisor!Due(SuperviseEvery)
           THEN /\ command' = Supervisor!Supervised(decided, command)
                /\ stopping' = IF decided.stop THEN stopping + 1 ELSE 0
           ELSE UNCHANGED <<command, stopping>>
  BY DEF Supervisor!Next, Supervisor!Advance
<1>2. pending'.stop \/ (pending'.forward \in Forwards /\ pending'.turning \in Turnings)
  <2>1. CASE Supervisor!Due(PolicyEvery)
    BY <1>1, <2>1 DEF Supervisor!Decisions
  <2>2. CASE ~Supervisor!Due(PolicyEvery)
    <3>1. pending' = pending
      BY <1>1, <2>2
    <3> QED BY <3>1 DEF RampSound
  <2> QED BY <2>1, <2>2
<1>3. CASE ~Supervisor!Due(SuperviseEvery)
  BY <1>1, <1>2, <1>3 DEF RampSound, Supervisor!RampStep
<1>4. CASE Supervisor!Due(SuperviseEvery) /\ ~decided.stop
  <2>1. command' = decided /\ stopping' = 0
    BY <1>1, <1>4 DEF Supervisor!Supervised
  <2>2. command'.forward \in Forwards /\ command'.turning \in Turnings
    BY <1>1, <1>2, <1>4, <2>1
  <2>3. command'.forward \in Int /\ command'.turning \in Int
    BY <2>2, RampNumbers
  <2>4. /\ Supervisor!Magnitude(command'.forward) <= Supervisor!Magnitude(command'.forward) - 0 * ForwardDeceleration
        /\ Supervisor!Magnitude(command'.turning) <= Supervisor!Magnitude(command'.turning) - 0 * TurnDeceleration
    BY <2>3, RampNumbers, MagnitudeNatural
  <2>5. /\ Ramped(command'.forward, Forwards, stopping', ForwardDeceleration)
        /\ Ramped(command'.turning, Turnings, stopping', TurnDeceleration)
    BY <2>1, <2>2, <2>4 DEF Ramped
  <2> QED BY <1>2, <2>1, <2>3, <2>5 DEF RampSound, Supervisor!RampStep
<1>5. CASE Supervisor!Due(SuperviseEvery) /\ decided.stop
  <2>1. command' = Supervisor!Supervised(decided, command) /\ stopping' = stopping + 1
    BY <1>1, <1>5
  <2>2. Supervisor!RampStep
    BY <1>5, <2>1, StopsRamped
  <2>3. /\ Ramped(command'.forward, Forwards, stopping', ForwardDeceleration)
        /\ Ramped(command'.turning, Turnings, stopping', TurnDeceleration)
        /\ command'.forward = Supervisor!ApproachZero(command.forward, ForwardDeceleration)
        /\ command'.turning = Supervisor!ApproachZero(command.turning, TurnDeceleration)
    BY <1>5, <2>1, StopTick
  <2>4. command'.forward \in Int /\ command'.turning \in Int /\ stopping' \in Nat
    <3>1. command.forward \in Int /\ command.turning \in Int /\ stopping \in Nat
      BY DEF RampSound
    <3>2. /\ Supervisor!ApproachZero(command.forward, ForwardDeceleration) \in Int
          /\ Supervisor!ApproachZero(command.turning, TurnDeceleration) \in Int
      BY <3>1, Gently, RampNumbers
    <3>3. stopping' \in Nat
      BY <2>1, <3>1
    <3> QED BY <2>3, <3>2, <3>3
  <2> QED BY <1>2, <2>2, <2>3, <2>4 DEF RampSound
<1> QED BY <1>3, <1>4, <1>5

LEMMA NoRamp == RampSound /\ UNCHANGED commandVars => RampSound'
BY DEF RampSound, commandVars

LEMMA RampAlways == SideSpec => [](subject = "command" => RampSound)
<1> DEFINE Inv == subject = "command" => RampSound
<1>1. SideInit => Inv
  BY RampStarts DEF SideInit, SupervisorInit
<1>2. Inv /\ [SideNext]_sideVars => Inv'
  <2> SUFFICES ASSUME Inv, [SideNext]_sideVars, subject' = "command" PROVE RampSound'
    OBVIOUS
  <2>1. subject = "command" /\ (Supervisor!Next \/ UNCHANGED commandVars)
    BY SupervisorFrame
  <2> QED BY <2>1, RampStays, NoRamp
<1> QED BY <1>1, <1>2, PTL DEF SideSpec

\* From any commanded speeds, a stop that was asked takes the speeds to zero on the
\* ramp, in the number of ticks it has, without turning back
\* (simulation/runtime.py:83).
THEOREM AlwaysStopsOnTheRamp == SideSpec => StopsOnTheRamp
<1>1. (subject = "command" => RampSound) /\ [SideNext]_sideVars
        => [subject = "command" => Supervisor!RampStep]_commandVars
  BY SupervisorFrame, RampStays
<1> QED BY <1>1, RampAlways, PTL DEF SideSpec, StopsOnTheRamp

-----------------------------------------------------------------------------
(* Deployment in the sandbox.                                              *)

LEMMA SandboxFrame ==
  [SideNext]_sideVars =>
     \/ subject = "deployment" /\ Sandbox!Next /\ UNCHANGED subject
     \/ UNCHANGED <<subject, deploymentVars>>
BY DEF SideNext, sideVars, TrainingStep, GateStep, DeliveryStep, SupervisorStep, HeldOutStep,
   SandboxStep, ControllerStep, HttpStep, PathsStep

Stages == {"idle", "stopping", "recovering", "installing", "exporting", "copying",
           "launching", "recording"}
Trees == [Sandbox!Roots -> 0..MaxVersions]
Snapshots == [files : Trees, manifest : BOOLEAN]

\* The supervisor's command, and the snapshots on the volume.
CommandTyped ==
  /\ Sandbox!TypeOK
  /\ volume \in Seq(Snapshots)
  /\ ticks \in 0..MaxTicks
  /\ DOMAIN supervisor = {"at", "what", "next", "from", "found", "marked", "alone"}
  /\ supervisor.at \in Stages
  /\ supervisor.next \in Nat \ {0}
  /\ supervisor.marked \in BOOLEAN /\ supervisor.alone \in BOOLEAN
  /\ supervisor.at \in {"idle", "stopping", "recovering"} => supervisor.next = 1
  /\ supervisor.at = "recovering" => supervisor.what = "start"
  /\ supervisor.at = "installing" => supervisor.from \in Sandbox!Complete
  /\ supervisor.at = "copying" => Len(volume) > 0

\* A recorded start is the API's, or no process has it any more.
IdentitySound ==
  /\ \A p \in Pids : processes[p] # None => processes[p].started <= ticks
  /\ record # None => /\ record.started <= ticks
                      /\ Sandbox!SameProcess(record) => processes[record.pid].api
  /\ supervisor.at = "recording" =>
       /\ supervisor.from \in Pids
       /\ processes[supervisor.from] # None => processes[supervisor.from].api
  /\ Sandbox!OnlyTheApiIsStopped

\* The roots installed are the snapshot's and the others empty.
Installed(k, files) ==
  \A r \in Sandbox!Roots :
    tree[r] = IF \E i \in 1..k : RootOrder[i] = r THEN files[r] ELSE 0

\* A supervisor alone restores all of the newest snapshot, or keeps what it found.
RestoringSound ==
  supervisor.alone /\ supervisor.at \in {"recovering", "installing", "exporting"} =>
    /\ Sandbox!LiveApi = {}
    /\ supervisor.at = "recovering" => supervisor.found = tree /\ supervisor.marked = marker
    /\ supervisor.at = "installing" =>
         /\ supervisor.from = Sandbox!Newest
         /\ Installed(supervisor.next - 1, volume[supervisor.from].files)
    /\ Sandbox!NeverHalfRestored

SandboxSound == CommandTyped /\ IdentitySound /\ RestoringSound

LEMMA NewestComplete ==
  ASSUME volume \in Seq(Snapshots), Sandbox!Complete # {}
  PROVE  Sandbox!Newest \in Sandbox!Complete
<1>1. Len(volume) \in Nat /\ Sandbox!Complete \subseteq 1..Len(volume)
  BY DEF Sandbox!Complete
<1>2. \E i \in Sandbox!Complete : \A j \in Sandbox!Complete : j <= i
  BY <1>1, GreatestElement
<1> QED BY <1>2 DEF Sandbox!Newest

LEMMA RootsOrdered ==
  /\ Len(RootOrder) \in Nat
  /\ Sandbox!Roots = {RootOrder[i] : i \in 1..Len(RootOrder)}
  /\ Sandbox!Nothing \in Trees
  /\ MaxVersions \in Nat /\ MaxTicks \in Nat
BY DeploymentAssumption DEF Sandbox!Roots, Sandbox!Nothing, Trees

LEMMA IdleCommand ==
  LET s == Sandbox!Idle
  IN  /\ DOMAIN s = {"at", "what", "next", "from", "found", "marked", "alone"}
      /\ s.at = "idle" /\ s.next = 1 /\ s.marked = FALSE /\ s.alone = FALSE
BY DEF Sandbox!Idle

LEMMA SandboxStarts == Sandbox!Init => SandboxSound
<1> SUFFICES ASSUME Sandbox!Init PROVE SandboxSound
  OBVIOUS
<1>1. CommandTyped
  <2>1. /\ tree = Sandbox!Nothing /\ marker = FALSE /\ volume = <<>> /\ ticks = 0
        /\ processes = [p \in Pids |-> None] /\ record = None
    BY DEF Sandbox!Init
  <2>2. tree \in [Sandbox!Roots -> 0..MaxVersions]
    BY <2>1, RootsOrdered DEF Trees
  <2>3. volume \in Seq(Snapshots) /\ DOMAIN volume = {}
    BY <2>1
  <2>4. Sandbox!TypeOK
    BY <2>1, <2>2, <2>3 DEF Sandbox!TypeOK
  <2>5. supervisor = Sandbox!Idle
    BY DEF Sandbox!Init
  <2>6. /\ DOMAIN supervisor = {"at", "what", "next", "from", "found", "marked", "alone"}
        /\ supervisor.at = "idle" /\ supervisor.next = 1
    BY <2>5, IdleCommand
  <2>7. ticks \in 0..MaxTicks
    BY <2>1, RootsOrdered
  <2>8. supervisor.marked \in BOOLEAN /\ supervisor.alone \in BOOLEAN
    BY <2>5, IdleCommand
  <2>9. supervisor.at \in Stages /\ supervisor.next \in Nat \ {0}
    BY <2>6 DEF Stages
  <2> QED BY <2>3, <2>4, <2>6, <2>7, <2>8, <2>9 DEF CommandTyped
<1>2. IdentitySound
  BY IdleCommand DEF Sandbox!Init, IdentitySound, Sandbox!OnlyTheApiIsStopped
<1>3. RestoringSound
  BY IdleCommand DEF Sandbox!Init, RestoringSound
<1> QED BY <1>1, <1>2, <1>3 DEF SandboxSound

\* The types: what the supervisor, and the processes beside it, leave.
LEMMA TreesTyped ==
  ASSUME CommandTyped
  PROVE  /\ tree \in Trees /\ marker \in BOOLEAN /\ Len(volume) \in Nat
         /\ \A i \in 1..Len(volume) : volume[i].files \in Trees
         /\ Sandbox!Complete \subseteq 1..Len(volume)
BY DEF CommandTyped, Sandbox!TypeOK, Trees, Snapshots, Sandbox!Complete

\* A step that changes neither the volume, nor the processes, nor the record.
LEMMA CommandMoves ==
  ASSUME CommandTyped, UNCHANGED <<volume, processes, ticks, record>>,
         tree' \in Trees, marker' \in BOOLEAN,
         DOMAIN supervisor' = DOMAIN supervisor, supervisor'.at \in Stages,
         supervisor'.next \in Nat \ {0},
         supervisor'.marked \in BOOLEAN, supervisor'.alone \in BOOLEAN,
         supervisor'.at \in {"idle", "stopping", "recovering"} => supervisor'.next = 1,
         supervisor'.at = "recovering" => supervisor'.what = "start",
         supervisor'.at = "installing" => supervisor'.from \in Sandbox!Complete,
         supervisor'.at = "copying" => Len(volume) > 0
  PROVE  CommandTyped'
<1>1. Sandbox!TypeOK'
  BY DEF CommandTyped, Sandbox!TypeOK, Trees
<1>2. Sandbox!Complete' = Sandbox!Complete
  BY DEF Sandbox!Complete
<1> QED BY <1>1, <1>2 DEF CommandTyped

\* A command that ends leaves nothing but what it wrote.
LEMMA CommandEnds ==
  ASSUME CommandTyped, UNCHANGED <<volume, processes, ticks, record>>,
         tree' \in Trees, marker' \in BOOLEAN, supervisor' = Sandbox!Idle
  PROVE  CommandTyped'
<1>1. /\ DOMAIN supervisor' = {"at", "what", "next", "from", "found", "marked", "alone"}
      /\ supervisor'.at = "idle" /\ supervisor'.next = 1
  BY IdleCommand
<1>2. DOMAIN supervisor' = DOMAIN supervisor
  BY <1>1 DEF CommandTyped
<1>3. supervisor'.marked \in BOOLEAN /\ supervisor'.alone \in BOOLEAN
  BY IdleCommand
<1>4. supervisor'.at \in Stages /\ supervisor'.next \in Nat \ {0}
  BY <1>1 DEF Stages
<1> QED BY <1>1, <1>2, <1>3, <1>4, CommandMoves

LEMMA StopTyped == CommandTyped /\ Sandbox!StopProcess => CommandTyped'
<1> SUFFICES ASSUME CommandTyped, Sandbox!StopProcess PROVE CommandTyped'
  OBVIOUS
<1>1. /\ supervisor.at = "stopping" /\ supervisor.next = 1
      /\ UNCHANGED <<tree, marker, volume, ticks>> /\ record' = None
  BY DEF Sandbox!StopProcess, Sandbox!At, CommandTyped
<1>2. processes' \in [Pids -> [started : 1..MaxTicks, api : BOOLEAN] \cup {None}]
  BY DEF Sandbox!StopProcess, CommandTyped, Sandbox!TypeOK
<1>3. Sandbox!TypeOK'
  BY <1>1, <1>2 DEF CommandTyped, Sandbox!TypeOK
<1>4. /\ DOMAIN supervisor' = DOMAIN supervisor
      /\ supervisor'.at = IF supervisor.what = "start" THEN "recovering" ELSE "exporting"
      /\ supervisor'.what = supervisor.what /\ supervisor'.next = supervisor.next
      /\ supervisor'.marked = marker
  BY DEF Sandbox!StopProcess, CommandTyped
<1>5. supervisor'.alone \in BOOLEAN
  BY DEF Sandbox!StopProcess, CommandTyped
<1> QED BY <1>1, <1>3, <1>4, <1>5, TreesTyped DEF CommandTyped, Stages

LEMMA RecoverTyped == CommandTyped /\ Sandbox!Recover => CommandTyped'
<1> SUFFICES ASSUME CommandTyped, Sandbox!Recover PROVE CommandTyped'
  OBVIOUS
<1>1. tree' \in Trees
  BY TreesTyped, RootsOrdered DEF Sandbox!Recover, Sandbox!TreeFound, Sandbox!Cleared
<1>2. CASE Sandbox!TreeFound # Sandbox!Nothing \/ Sandbox!Complete = {}
  BY <1>1, <1>2, CommandMoves DEF Sandbox!Recover, CommandTyped, Stages
<1>3. CASE ~(Sandbox!TreeFound # Sandbox!Nothing \/ Sandbox!Complete = {})
  <2>1. Sandbox!Newest \in Sandbox!Complete
    BY <1>3, NewestComplete DEF CommandTyped
  <2> QED BY <1>1, <1>3, <2>1, CommandMoves DEF Sandbox!Recover, CommandTyped, Stages
<1> QED BY <1>2, <1>3

LEMMA InstallTyped == CommandTyped /\ Sandbox!Install => CommandTyped'
<1> SUFFICES ASSUME CommandTyped, Sandbox!Install PROVE CommandTyped'
  OBVIOUS
<1>0. supervisor.at = "installing" /\ supervisor.from \in Sandbox!Complete
  BY DEF Sandbox!Install, Sandbox!At, CommandTyped
<1>1. CASE supervisor.next > Len(RootOrder)
  <2>1. /\ supervisor' = [supervisor EXCEPT !.at = "exporting", !.next = 1]
        /\ marker' = FALSE /\ UNCHANGED <<tree, volume, processes, ticks, record>>
    BY <1>1 DEF Sandbox!Install
  <2>2. /\ DOMAIN supervisor' = DOMAIN supervisor
        /\ supervisor'.at = "exporting" /\ supervisor'.next = 1
        /\ supervisor'.marked = supervisor.marked /\ supervisor'.alone = supervisor.alone
    BY <2>1 DEF CommandTyped
  <2>3. supervisor'.marked \in BOOLEAN /\ supervisor'.alone \in BOOLEAN
    BY <2>2 DEF CommandTyped
  <2>4. tree' \in Trees /\ marker' \in BOOLEAN
    BY <2>1, TreesTyped
  <2>5. supervisor'.at \in Stages /\ supervisor'.next \in Nat \ {0}
    BY <2>2 DEF Stages
  <2> QED BY <2>1, <2>2, <2>3, <2>4, <2>5, CommandMoves
<1>2. CASE ~(supervisor.next > Len(RootOrder))
  <2> DEFINE place == RootOrder[supervisor.next]
             staged == volume[supervisor.from].files[place]
  <2>1. place \in Sandbox!Roots
    BY <1>2, RootsOrdered DEF CommandTyped
  <2>2. staged \in 0..MaxVersions
    BY <1>0, <2>1, TreesTyped DEF Trees
  <2>3. /\ tree' = [tree EXCEPT ![place] = IF staged = 0 THEN @ ELSE staged]
        /\ supervisor' = [supervisor EXCEPT !.next = @ + 1] /\ marker' = marker
        /\ UNCHANGED <<volume, processes, ticks, record>>
    BY <1>2 DEF Sandbox!Install
  <2>4. tree' \in Trees
    BY <2>1, <2>2, <2>3, TreesTyped DEF Trees
  <2> QED BY <1>0, <2>3, <2>4, TreesTyped, CommandMoves DEF CommandTyped, Stages
<1> QED BY <1>1, <1>2

\* The snapshot directory that is being filled.
LEMMA VolumeTyped ==
  ASSUME CommandTyped, UNCHANGED <<tree, marker, processes, ticks, record>>,
         volume' \in Seq(Snapshots), Len(volume') >= Len(volume),
         DOMAIN supervisor' = DOMAIN supervisor, supervisor'.at \in Stages \ {"recovering", "installing"},
         supervisor'.next \in Nat \ {0},
         supervisor'.marked \in BOOLEAN, supervisor'.alone \in BOOLEAN,
         supervisor'.at \in {"idle", "stopping"} => supervisor'.next = 1,
         supervisor'.at = "copying" => Len(volume') > 0
  PROVE  CommandTyped'
<1>1. \A i \in DOMAIN volume' : volume'[i].files \in Trees
  <2> TAKE i \in DOMAIN volume'
  <2>1. volume'[i] \in Snapshots
    OBVIOUS
  <2> QED BY <2>1 DEF Snapshots
<1>2. Sandbox!TypeOK'
  BY <1>1 DEF CommandTyped, Sandbox!TypeOK, Trees
<1> QED BY <1>2 DEF CommandTyped

LEMMA OpenTyped == CommandTyped /\ Sandbox!OpenSnapshot => CommandTyped'
<1> SUFFICES ASSUME CommandTyped, Sandbox!OpenSnapshot PROVE CommandTyped'
  OBVIOUS
<1>1. CASE tree = Sandbox!Nothing
  <2>1. CASE Sandbox!After = "idle"
    BY <1>1, <2>1, TreesTyped, CommandEnds DEF Sandbox!OpenSnapshot
  <2>2. CASE Sandbox!After # "idle"
    BY <1>1, <2>2, TreesTyped, CommandMoves
       DEF Sandbox!OpenSnapshot, Sandbox!After, CommandTyped, Stages
  <2> QED BY <2>1, <2>2
<1>2. CASE tree # Sandbox!Nothing
  <2> DEFINE opened == [files |-> Sandbox!Nothing, manifest |-> FALSE]
  <2>1. opened \in Snapshots
    BY RootsOrdered DEF Snapshots
  <2>2. volume' = Append(volume, opened)
          /\ supervisor' = [supervisor EXCEPT !.at = "copying", !.next = 1]
    BY <1>2 DEF Sandbox!OpenSnapshot
  <2>3. volume' \in Seq(Snapshots) /\ Len(volume') = Len(volume) + 1
    BY <2>1, <2>2 DEF CommandTyped
  <2> QED BY <2>2, <2>3, TreesTyped, VolumeTyped DEF Sandbox!OpenSnapshot, CommandTyped, Stages
<1> QED BY <1>1, <1>2

LEMMA CopyTyped == CommandTyped /\ Sandbox!CopyFiles => CommandTyped'
<1> SUFFICES ASSUME CommandTyped, Sandbox!CopyFiles PROVE CommandTyped'
  OBVIOUS
<1> DEFINE place == RootOrder[supervisor.next]
           last == Len(volume)
<1>1. place \in Sandbox!Roots /\ last \in 1..Len(volume)
  BY RootsOrdered, TreesTyped DEF Sandbox!CopyFiles, Sandbox!At, CommandTyped
<1>2. /\ volume' = [volume EXCEPT ![last].files[place] = tree[place]]
      /\ supervisor' = [supervisor EXCEPT !.next = @ + 1] /\ supervisor.at = "copying"
  BY DEF Sandbox!CopyFiles, Sandbox!At
<1>3. [volume[last] EXCEPT !.files[place] = tree[place]] \in Snapshots
  <2>1. volume[last] \in Snapshots
    BY <1>1 DEF CommandTyped
  <2>2. tree[place] \in 0..MaxVersions
    BY <1>1, TreesTyped DEF Trees
  <2> QED BY <1>1, <2>1, <2>2 DEF Snapshots, Trees
<1>4. volume' \in Seq(Snapshots) /\ Len(volume') = Len(volume)
  BY <1>1, <1>2, <1>3 DEF CommandTyped
<1> QED BY <1>2, <1>4, TreesTyped, VolumeTyped DEF Sandbox!CopyFiles, CommandTyped, Stages

LEMMA ManifestField ==
  ASSUME NEW s \in Snapshots, NEW b \in BOOLEAN
  PROVE  [s EXCEPT !.manifest = b] \in Snapshots
BY DEF Snapshots

LEMMA ManifestTyped == CommandTyped /\ Sandbox!WriteManifest => CommandTyped'
<1> SUFFICES ASSUME CommandTyped, Sandbox!WriteManifest PROVE CommandTyped'
  OBVIOUS
<1>1. Len(volume) \in 1..Len(volume)
  BY TreesTyped DEF Sandbox!WriteManifest, Sandbox!At, CommandTyped
<1>2. volume' \in Seq(Snapshots) /\ Len(volume') = Len(volume)
  <2>1. volume[Len(volume)] \in Snapshots
    BY <1>1 DEF CommandTyped
  <2>2. [volume[Len(volume)] EXCEPT !.manifest = TRUE] \in Snapshots
    BY <2>1, ManifestField
  <2> QED BY <1>1, <2>2 DEF Sandbox!WriteManifest, CommandTyped
<1>3. UNCHANGED <<tree, marker, processes, ticks, record>>
  BY DEF Sandbox!WriteManifest
<1>4. CASE Sandbox!After = "idle"
  <2>1. supervisor' = Sandbox!Idle
    BY <1>4 DEF Sandbox!WriteManifest
  <2>2. /\ DOMAIN supervisor' = DOMAIN supervisor
        /\ supervisor'.at = "idle" /\ supervisor'.next = 1
    BY <2>1, IdleCommand DEF CommandTyped
  <2>3. supervisor'.marked \in BOOLEAN /\ supervisor'.alone \in BOOLEAN
    BY <2>1, IdleCommand
  <2> QED BY <1>2, <1>3, <2>2, <2>3, TreesTyped, VolumeTyped DEF Stages
<1>5. CASE Sandbox!After # "idle"
  <2>1. supervisor' = [supervisor EXCEPT !.at = "launching"]
    BY <1>5 DEF Sandbox!WriteManifest, Sandbox!After
  <2>2. /\ DOMAIN supervisor' = DOMAIN supervisor
        /\ supervisor'.at = "launching" /\ supervisor'.next \in Nat \ {0}
    BY <2>1 DEF CommandTyped
  <2>3. supervisor'.marked \in BOOLEAN /\ supervisor'.alone \in BOOLEAN
    BY <2>1 DEF CommandTyped
  <2> QED BY <1>2, <1>3, <2>2, <2>3, TreesTyped, VolumeTyped DEF Stages
<1> QED BY <1>4, <1>5

\* A step of the processes beside the supervisor, or one that starts a process.
LEMMA ProcessesMove ==
  ASSUME CommandTyped, UNCHANGED <<tree, marker, volume>>,
         processes' \in [Pids -> [started : 1..MaxTicks, api : BOOLEAN] \cup {None}],
         record' \in [pid : Pids, started : 1..MaxTicks] \cup {None},
         ticks' \in 0..MaxTicks,
         DOMAIN supervisor' = DOMAIN supervisor,
         supervisor'.at \in Stages \ {"installing", "copying"} \/ UNCHANGED supervisor,
         supervisor'.next \in Nat \ {0},
         supervisor'.marked \in BOOLEAN, supervisor'.alone \in BOOLEAN,
         supervisor'.at \in {"idle", "stopping", "recovering"} => supervisor'.next = 1,
         supervisor'.at = "recovering" => supervisor'.what = "start"
  PROVE  CommandTyped'
<1>1. Sandbox!TypeOK'
  BY DEF CommandTyped, Sandbox!TypeOK
<1>2. Sandbox!Complete' = Sandbox!Complete
  BY DEF Sandbox!Complete
<1>3. supervisor'.at \in Stages /\ (supervisor'.at = "copying" => Len(volume) > 0)
  BY DEF CommandTyped
<1> QED BY <1>1, <1>2, <1>3 DEF CommandTyped

LEMMA BeginTyped ==
  ASSUME NEW what \in {"start", "stop"}, CommandTyped, Sandbox!Begin(what)
  PROVE  CommandTyped'
<1>1. supervisor' = [Sandbox!Idle EXCEPT !.at = "stopping", !.what = what]
  BY DEF Sandbox!Begin
<1>2. /\ DOMAIN supervisor' = DOMAIN supervisor
      /\ supervisor'.at = "stopping" /\ supervisor'.next = 1
  BY <1>1, IdleCommand DEF CommandTyped, Sandbox!Idle
<1>3. supervisor'.marked \in BOOLEAN /\ supervisor'.alone \in BOOLEAN
  BY <1>1 DEF Sandbox!Idle
<1>4. supervisor'.at \in Stages
  BY <1>2 DEF Stages
<1> QED BY <1>2, <1>3, <1>4, TreesTyped, CommandMoves DEF Sandbox!Begin

LEMMA FailureTyped == CommandTyped /\ Sandbox!RecoveryFails => CommandTyped'
<1>1. Sandbox!RecoveryFails => Sandbox!Cleared = Sandbox!Nothing
  BY DEF Sandbox!Cleared
<1> QED BY <1>1, RootsOrdered, CommandEnds DEF Sandbox!RecoveryFails

LEMMA CrashTyped == CommandTyped /\ Sandbox!Crash => CommandTyped'
BY TreesTyped, CommandEnds DEF Sandbox!Crash

LEMMA WriteTyped ==
  ASSUME NEW p \in Pids, NEW place \in Sandbox!Roots, CommandTyped, Sandbox!Write(p, place)
  PROVE  CommandTyped'
<1>1. tree' \in Trees
  <2>1. tree[place] + 1 \in 0..MaxVersions
    BY TreesTyped, RootsOrdered DEF Sandbox!Write, Trees
  <2> QED BY <2>1, TreesTyped DEF Sandbox!Write, Trees
<1>2. UNCHANGED <<volume, processes, ticks, record, supervisor, marker>>
  BY DEF Sandbox!Write
<1>3. supervisor.at = "installing" => supervisor.from \in Sandbox!Complete
  BY DEF CommandTyped
<1> QED BY <1>1, <1>2, <1>3, TreesTyped, CommandMoves DEF CommandTyped

LEMMA LaunchTyped == CommandTyped /\ Sandbox!Launch => CommandTyped'
<1> SUFFICES ASSUME CommandTyped, Sandbox!Launch PROVE CommandTyped'
  OBVIOUS
<1>1. PICK p \in Pids :
        /\ processes[p] = None
        /\ processes' = [processes EXCEPT ![p] = [started |-> ticks + 1, api |-> TRUE]]
        /\ supervisor' = [supervisor EXCEPT !.at = "recording", !.from = p]
  BY DEF Sandbox!Launch
<1>2. ticks' \in 0..MaxTicks /\ ticks + 1 \in 1..MaxTicks
  BY RootsOrdered DEF CommandTyped, Sandbox!Launch
<1>3. [started |-> ticks + 1, api |-> TRUE] \in [started : 1..MaxTicks, api : BOOLEAN]
  BY <1>2
<1>4. processes' \in [Pids -> [started : 1..MaxTicks, api : BOOLEAN] \cup {None}]
  BY <1>1, <1>3 DEF CommandTyped, Sandbox!TypeOK
<1>5. /\ DOMAIN supervisor' = DOMAIN supervisor
      /\ supervisor'.at = "recording" /\ supervisor'.next \in Nat \ {0}
  BY <1>1 DEF CommandTyped
<1>6. supervisor'.marked \in BOOLEAN /\ supervisor'.alone \in BOOLEAN
  BY <1>1 DEF CommandTyped
<1>7. record' \in [pid : Pids, started : 1..MaxTicks] \cup {None}
      /\ UNCHANGED <<tree, marker, volume>>
  BY DEF CommandTyped, Sandbox!TypeOK, Sandbox!Launch
<1>8. supervisor'.at \in Stages \ {"installing", "copying"}
  BY <1>5 DEF Stages
<1> QED BY <1>2, <1>4, <1>5, <1>6, <1>7, <1>8, ProcessesMove

\* What a process step leaves of the supervisor's own state.
LEMMA SupervisorTyped ==
  ASSUME CommandTyped, UNCHANGED supervisor
  PROVE  /\ DOMAIN supervisor' = DOMAIN supervisor
         /\ supervisor'.next \in Nat \ {0}
         /\ supervisor'.marked \in BOOLEAN /\ supervisor'.alone \in BOOLEAN
         /\ supervisor'.at \in {"idle", "stopping", "recovering"} => supervisor'.next = 1
         /\ supervisor'.at = "recovering" => supervisor'.what = "start"
BY DEF CommandTyped

LEMMA IdentityTyped ==
  CommandTyped /\ IdentitySound /\ Sandbox!RecordIdentity => CommandTyped'
<1> SUFFICES ASSUME CommandTyped, IdentitySound, Sandbox!RecordIdentity PROVE CommandTyped'
  OBVIOUS
<1>1. supervisor.from \in Pids
  BY DEF IdentitySound, Sandbox!RecordIdentity, Sandbox!At
<1>2. processes[supervisor.from] # None => processes[supervisor.from].started \in 1..MaxTicks
  BY <1>1 DEF CommandTyped, Sandbox!TypeOK
<1>3. record' \in [pid : Pids, started : 1..MaxTicks] \cup {None}
  BY <1>1, <1>2 DEF CommandTyped, Sandbox!TypeOK, Sandbox!RecordIdentity
<1>4. /\ DOMAIN supervisor' = {"at", "what", "next", "from", "found", "marked", "alone"}
      /\ supervisor'.at = "idle" /\ supervisor'.next = 1
  BY IdleCommand DEF Sandbox!RecordIdentity
<1>5. supervisor'.marked \in BOOLEAN /\ supervisor'.alone \in BOOLEAN
  BY IdleCommand DEF Sandbox!RecordIdentity
<1>6. DOMAIN supervisor' = DOMAIN supervisor
  BY <1>4 DEF CommandTyped
<1>7. supervisor'.at \in Stages \ {"installing", "copying"}
  BY <1>4 DEF Stages
<1>8. /\ UNCHANGED <<tree, marker, volume>> /\ ticks' \in 0..MaxTicks
      /\ processes' \in [Pids -> [started : 1..MaxTicks, api : BOOLEAN] \cup {None}]
  BY DEF CommandTyped, Sandbox!TypeOK, Sandbox!RecordIdentity
<1> QED BY <1>3, <1>4, <1>5, <1>6, <1>7, <1>8, ProcessesMove

LEMMA EndTyped ==
  ASSUME NEW p \in Pids, CommandTyped, Sandbox!ProcessEnds(p)
  PROVE  CommandTyped'
<1>1. processes' \in [Pids -> [started : 1..MaxTicks, api : BOOLEAN] \cup {None}]
  BY DEF CommandTyped, Sandbox!TypeOK, Sandbox!ProcessEnds
<1>2. /\ UNCHANGED <<tree, marker, volume, supervisor>> /\ ticks' \in 0..MaxTicks
      /\ record' \in [pid : Pids, started : 1..MaxTicks] \cup {None}
  BY DEF CommandTyped, Sandbox!TypeOK, Sandbox!ProcessEnds
<1> QED BY <1>1, <1>2, SupervisorTyped, ProcessesMove

LEMMA OtherTyped ==
  ASSUME NEW p \in Pids, CommandTyped, Sandbox!OtherProcess(p)
  PROVE  CommandTyped'
<1>1. ticks' \in 0..MaxTicks /\ ticks + 1 \in 1..MaxTicks
  BY RootsOrdered DEF CommandTyped, Sandbox!OtherProcess
<1>2. [started |-> ticks + 1, api |-> FALSE] \in [started : 1..MaxTicks, api : BOOLEAN]
  BY <1>1
<1>3. processes' \in [Pids -> [started : 1..MaxTicks, api : BOOLEAN] \cup {None}]
  BY <1>2 DEF CommandTyped, Sandbox!TypeOK, Sandbox!OtherProcess
<1>4. /\ UNCHANGED <<tree, marker, volume, supervisor>>
      /\ record' \in [pid : Pids, started : 1..MaxTicks] \cup {None}
  BY DEF CommandTyped, Sandbox!TypeOK, Sandbox!OtherProcess
<1> QED BY <1>1, <1>3, <1>4, SupervisorTyped, ProcessesMove

LEMMA LossTyped == CommandTyped /\ Sandbox!LoseSandbox => CommandTyped'
<1> SUFFICES ASSUME CommandTyped, Sandbox!LoseSandbox PROVE CommandTyped'
  OBVIOUS
<1>1. /\ tree' = Sandbox!Nothing /\ marker' = FALSE /\ record' = None
      /\ processes' = [p \in Pids |-> None] /\ supervisor' = Sandbox!Idle
      /\ UNCHANGED <<volume, ticks>>
  BY DEF Sandbox!LoseSandbox
<1>2. tree' \in Trees /\ marker' \in BOOLEAN
  BY <1>1, RootsOrdered
<1>3. Sandbox!TypeOK'
  BY <1>1, <1>2 DEF CommandTyped, Sandbox!TypeOK, Trees
<1>4. /\ DOMAIN supervisor' = {"at", "what", "next", "from", "found", "marked", "alone"}
      /\ supervisor'.at = "idle" /\ supervisor'.next = 1
  BY <1>1, IdleCommand
<1>5. supervisor'.marked \in BOOLEAN /\ supervisor'.alone \in BOOLEAN
  BY <1>1, IdleCommand
<1>6. supervisor'.at \in Stages /\ supervisor'.next \in Nat \ {0}
  BY <1>4 DEF Stages
<1> QED BY <1>1, <1>3, <1>4, <1>5, <1>6 DEF CommandTyped

LEMMA CommandStays ==
  ASSUME CommandTyped, IdentitySound, [Sandbox!Next]_deploymentVars
  PROVE  CommandTyped'
<1>1. CASE UNCHANGED deploymentVars
  <2>1. UNCHANGED <<tree, marker, volume, processes, ticks, record, supervisor>>
    BY <1>1 DEF deploymentVars
  <2>2. supervisor.at = "installing" => supervisor.from \in Sandbox!Complete
    BY DEF CommandTyped
  <2> QED BY <2>1, <2>2, TreesTyped, CommandMoves DEF CommandTyped
<1>2. CASE Sandbox!Next
  BY <1>2, BeginTyped, StopTyped, RecoverTyped, InstallTyped, FailureTyped, OpenTyped,
     CopyTyped,
     ManifestTyped, LaunchTyped, IdentityTyped, CrashTyped, LossTyped, WriteTyped, EndTyped,
     OtherTyped DEF Sandbox!Next
<1> QED BY <1>1, <1>2

\* Who is signalled.
LEMMA TicksTyped ==
  ASSUME CommandTyped
  PROVE  /\ ticks \in 0..MaxTicks /\ MaxTicks \in Nat
         /\ processes \in [Pids -> [started : 1..MaxTicks, api : BOOLEAN] \cup {None}]
         /\ record \in [pid : Pids, started : 1..MaxTicks] \cup {None}
BY RootsOrdered DEF CommandTyped, Sandbox!TypeOK

LEMMA NobodyStarts ==
  ASSUME CommandTyped, IdentitySound, UNCHANGED <<processes, ticks, record, stopped>>,
         supervisor'.at # "recording" \/ UNCHANGED supervisor
  PROVE  IdentitySound'
BY DEF IdentitySound, Sandbox!SameProcess, Sandbox!OnlyTheApiIsStopped

LEMMA StopIdentified ==
  ASSUME CommandTyped, IdentitySound, Sandbox!StopProcess
  PROVE  IdentitySound'
<1>1. supervisor'.at # "recording"
  BY DEF Sandbox!StopProcess, CommandTyped
<1>2. record' = None /\ ticks' = ticks
  BY DEF Sandbox!StopProcess
<1>3. \A p \in Pids : processes'[p] # None => processes'[p] = processes[p]
  BY TicksTyped DEF Sandbox!StopProcess
<1>4. \A p \in Pids : processes'[p] # None => processes'[p].started <= ticks'
  BY <1>2, <1>3 DEF IdentitySound
<1>5. Sandbox!OnlyTheApiIsStopped'
  BY DEF Sandbox!StopProcess, IdentitySound, Sandbox!OnlyTheApiIsStopped, Sandbox!SameProcess
<1> QED BY <1>1, <1>2, <1>4, <1>5 DEF IdentitySound

LEMMA LaunchIdentified ==
  ASSUME CommandTyped, IdentitySound, Sandbox!Launch
  PROVE  IdentitySound'
<1>1. PICK p \in Pids :
        /\ processes[p] = None
        /\ processes' = [processes EXCEPT ![p] = [started |-> ticks + 1, api |-> TRUE]]
        /\ supervisor' = [supervisor EXCEPT !.at = "recording", !.from = p]
  BY DEF Sandbox!Launch
<1>2. /\ processes'[p] = [started |-> ticks + 1, api |-> TRUE]
      /\ \A q \in Pids \ {p} : processes'[q] = processes[q]
  BY <1>1, TicksTyped
<1>3. processes'[p].started = ticks + 1 /\ processes'[p].api
  BY <1>2
<1>4. supervisor'.at = "recording" /\ supervisor'.from = p
  BY <1>1 DEF CommandTyped
<1>5. ticks' = ticks + 1 /\ record' = record /\ stopped' = stopped
  BY DEF Sandbox!Launch
<1>6. \A q \in Pids : processes'[q] # None => processes'[q].started <= ticks'
  <2> TAKE q \in Pids
  <2>1. CASE q = p
    BY <2>1, <1>3, <1>5, TicksTyped
  <2>2. CASE q # p
    <3>1. processes[q] # None
            => processes[q].started \in 1..MaxTicks /\ processes[q].started <= ticks
      BY TicksTyped DEF IdentitySound
    <3> QED BY <3>1, <2>2, <1>2, <1>5, TicksTyped
  <2> QED BY <2>1, <2>2
<1>7. record' # None => /\ record'.started <= ticks'
                        /\ Sandbox!SameProcess(record)' => processes'[record'.pid].api
  <2> SUFFICES ASSUME record # None
               PROVE  /\ record.started <= ticks'
                      /\ processes'[record.pid] # None
                           /\ processes'[record.pid].started = record.started
                           => processes'[record.pid].api
    BY <1>5 DEF Sandbox!SameProcess
  <2>1. record.pid \in Pids /\ record.started \in 1..MaxTicks /\ record.started <= ticks
    BY TicksTyped DEF IdentitySound
  <2>2. record.started <= ticks' /\ record.started # ticks + 1
    BY <2>1, <1>5, TicksTyped
  <2>3. CASE record.pid = p
    BY <2>2, <2>3, <1>3
  <2>4. CASE record.pid # p
    BY <2>1, <2>2, <2>4, <1>2 DEF IdentitySound, Sandbox!SameProcess
  <2> QED BY <2>3, <2>4
<1>8. Sandbox!OnlyTheApiIsStopped'
  BY <1>5 DEF IdentitySound, Sandbox!OnlyTheApiIsStopped
<1> QED BY <1>3, <1>4, <1>6, <1>7, <1>8 DEF IdentitySound

LEMMA RecordIdentified ==
  ASSUME CommandTyped, IdentitySound, Sandbox!RecordIdentity
  PROVE  IdentitySound'
<1>1. /\ supervisor.at = "recording" /\ supervisor' = Sandbox!Idle
      /\ UNCHANGED <<processes, ticks, stopped>>
  BY DEF Sandbox!RecordIdentity, Sandbox!At
<1>2. supervisor.from \in Pids
  BY <1>1 DEF IdentitySound
<1>3. supervisor'.at # "recording"
  BY <1>1, IdleCommand
<1>4. CASE processes[supervisor.from] = None
  BY <1>1, <1>3, <1>4, NobodyStarts DEF Sandbox!RecordIdentity
<1>5. CASE processes[supervisor.from] # None
  <2>1. record' = [pid |-> supervisor.from, started |-> processes[supervisor.from].started]
    BY <1>5 DEF Sandbox!RecordIdentity
  <2>2. record'.pid = supervisor.from /\ record'.started = processes[supervisor.from].started
    BY <2>1
  <2>3. processes[supervisor.from].api /\ processes[supervisor.from].started <= ticks
    BY <1>1, <1>2, <1>5 DEF IdentitySound
  <2>4. /\ record'.started <= ticks'
        /\ Sandbox!SameProcess(record)' => processes'[record'.pid].api
    BY <1>1, <2>2, <2>3
  <2>5. Sandbox!OnlyTheApiIsStopped'
    BY <1>1 DEF IdentitySound, Sandbox!OnlyTheApiIsStopped
  <2>6. \A q \in Pids : processes'[q] # None => processes'[q].started <= ticks'
    BY <1>1 DEF IdentitySound
  <2> QED BY <1>3, <2>4, <2>5, <2>6 DEF IdentitySound
<1> QED BY <1>4, <1>5

LEMMA EndIdentified ==
  ASSUME NEW p \in Pids, CommandTyped, IdentitySound, Sandbox!ProcessEnds(p)
  PROVE  IdentitySound'
<1>1. /\ processes' = [processes EXCEPT ![p] = None]
      /\ UNCHANGED <<ticks, record, supervisor, stopped>>
  BY DEF Sandbox!ProcessEnds
<1>2. \A q \in Pids : processes'[q] # None => processes'[q] = processes[q]
  BY <1>1, TicksTyped
<1>3. \A q \in Pids : processes'[q] # None => processes'[q].started <= ticks'
  BY <1>1, <1>2 DEF IdentitySound
<1>4. record' # None => record'.pid \in Pids
  BY <1>1, TicksTyped
<1>5. record' # None => /\ record'.started <= ticks'
                        /\ Sandbox!SameProcess(record)' => processes'[record'.pid].api
  BY <1>1, <1>2, <1>4 DEF IdentitySound, Sandbox!SameProcess
<1> QED BY <1>1, <1>2, <1>3, <1>5 DEF IdentitySound, Sandbox!OnlyTheApiIsStopped

LEMMA OtherIdentified ==
  ASSUME NEW p \in Pids, CommandTyped, IdentitySound, Sandbox!OtherProcess(p)
  PROVE  IdentitySound'
<1>1. /\ processes' = [processes EXCEPT ![p] = [started |-> ticks + 1, api |-> FALSE]]
      /\ ticks' = ticks + 1 /\ UNCHANGED <<record, supervisor, stopped>>
      /\ ~(supervisor.at = "recording" /\ supervisor.from = p)
  BY DEF Sandbox!OtherProcess, Sandbox!At
<1>2. /\ processes'[p] = [started |-> ticks + 1, api |-> FALSE]
      /\ \A q \in Pids \ {p} : processes'[q] = processes[q]
  BY <1>1, TicksTyped
<1>3. processes'[p].started = ticks + 1
  BY <1>2
<1>6. \A q \in Pids : processes'[q] # None => processes'[q].started <= ticks'
  <2> TAKE q \in Pids
  <2>1. CASE q = p
    BY <2>1, <1>1, <1>3, TicksTyped
  <2>2. CASE q # p
    <3>1. processes[q] # None
            => processes[q].started \in 1..MaxTicks /\ processes[q].started <= ticks
      BY TicksTyped DEF IdentitySound
    <3> QED BY <3>1, <2>2, <1>1, <1>2, TicksTyped
  <2> QED BY <2>1, <2>2
<1>7. record' # None => /\ record'.started <= ticks'
                        /\ Sandbox!SameProcess(record)' => processes'[record'.pid].api
  <2> SUFFICES ASSUME record # None
               PROVE  /\ record.started <= ticks'
                      /\ processes'[record.pid] # None
                           /\ processes'[record.pid].started = record.started
                           => processes'[record.pid].api
    BY <1>1 DEF Sandbox!SameProcess
  <2>1. record.pid \in Pids /\ record.started \in 1..MaxTicks /\ record.started <= ticks
    BY TicksTyped DEF IdentitySound
  <2>2. record.started <= ticks' /\ record.started # ticks + 1
    BY <2>1, <1>1, TicksTyped
  <2>3. CASE record.pid = p
    BY <2>2, <2>3, <1>3
  <2>4. CASE record.pid # p
    BY <2>1, <2>2, <2>4, <1>2 DEF IdentitySound, Sandbox!SameProcess
  <2> QED BY <2>3, <2>4
<1>8. supervisor'.at = "recording" =>
        /\ supervisor'.from \in Pids
        /\ processes'[supervisor'.from] # None => processes'[supervisor'.from].api
  BY <1>1, <1>2 DEF IdentitySound
<1> QED BY <1>1, <1>6, <1>7, <1>8 DEF IdentitySound, Sandbox!OnlyTheApiIsStopped

LEMMA LossIdentified ==
  ASSUME CommandTyped, IdentitySound, Sandbox!LoseSandbox
  PROVE  IdentitySound'
<1>1. /\ processes' = [p \in Pids |-> None] /\ record' = None /\ supervisor' = Sandbox!Idle
      /\ UNCHANGED <<ticks, stopped>>
  BY DEF Sandbox!LoseSandbox
<1>2. supervisor'.at # "recording"
  BY <1>1, IdleCommand
<1> QED BY <1>1, <1>2 DEF IdentitySound, Sandbox!OnlyTheApiIsStopped

LEMMA QuietMoves ==
  ASSUME CommandTyped,
         \/ \E what \in {"start", "stop"} : Sandbox!Begin(what)
         \/ Sandbox!Recover \/ Sandbox!Install \/ Sandbox!RecoveryFails
         \/ Sandbox!OpenSnapshot \/ Sandbox!CopyFiles \/ Sandbox!WriteManifest \/ Sandbox!Crash
         \/ \E p \in Pids, place \in Sandbox!Roots : Sandbox!Write(p, place)
  PROVE  /\ UNCHANGED <<processes, ticks, record, stopped>>
         /\ supervisor'.at # "recording" \/ UNCHANGED supervisor
<1>1. CASE \E what \in {"start", "stop"} : Sandbox!Begin(what)
  BY <1>1 DEF Sandbox!Begin, Sandbox!Idle
<1>2. CASE Sandbox!Recover \/ Sandbox!Install
  BY <1>2 DEF Sandbox!Recover, Sandbox!Install, Sandbox!At, CommandTyped
<1>3. CASE Sandbox!RecoveryFails \/ Sandbox!Crash
  BY <1>3, IdleCommand DEF Sandbox!RecoveryFails, Sandbox!Crash
<1>4. CASE Sandbox!OpenSnapshot
  BY <1>4, IdleCommand DEF Sandbox!OpenSnapshot, Sandbox!After, CommandTyped
<1>5. CASE Sandbox!CopyFiles
  BY <1>5 DEF Sandbox!CopyFiles, Sandbox!At, CommandTyped
<1>6. CASE Sandbox!WriteManifest
  BY <1>6, IdleCommand DEF Sandbox!WriteManifest, Sandbox!After, CommandTyped
<1>7. CASE \E p \in Pids, place \in Sandbox!Roots : Sandbox!Write(p, place)
  BY <1>7 DEF Sandbox!Write
<1> QED BY <1>1, <1>2, <1>3, <1>4, <1>5, <1>6, <1>7

LEMMA IdentityStays ==
  ASSUME CommandTyped, IdentitySound, [Sandbox!Next]_deploymentVars
  PROVE  IdentitySound'
<1>1. CASE UNCHANGED deploymentVars
  BY <1>1, NobodyStarts DEF deploymentVars
<1>2. CASE Sandbox!Next
  BY <1>2, QuietMoves, NobodyStarts, StopIdentified, LaunchIdentified, RecordIdentified,
     EndIdentified, OtherIdentified, LossIdentified DEF Sandbox!Next
<1> QED BY <1>1, <1>2

\* What a recovery puts back.
LEMMA NothingRunsBeside ==
  ASSUME CommandTyped, RestoringSound, UNCHANGED <<tree, marker, volume, supervisor>>,
         \A p \in Pids : processes'[p] # None /\ processes'[p].api
                           => processes[p] # None /\ processes[p].api
  PROVE  RestoringSound'
<1>1. Sandbox!LiveApi = {} => Sandbox!LiveApi' = {}
  BY DEF Sandbox!LiveApi
<1>2. Sandbox!NeverHalfRestored' = Sandbox!NeverHalfRestored /\ Sandbox!Newest' = Sandbox!Newest
  BY DEF Sandbox!NeverHalfRestored, Sandbox!At, Sandbox!Newest, Sandbox!Complete
<1> QED BY <1>1, <1>2 DEF RestoringSound, Installed

LEMMA StopRestoring ==
  ASSUME CommandTyped, Sandbox!StopProcess
  PROVE  RestoringSound'
<1>1. /\ supervisor' = [supervisor EXCEPT
              !.found = tree, !.marked = marker, !.alone = (Sandbox!LiveApi' = {}),
              !.at = IF supervisor.what = "start" THEN "recovering" ELSE "exporting"]
      /\ UNCHANGED <<tree, marker, volume>>
  BY DEF Sandbox!StopProcess
<1>2. supervisor'.alone = (Sandbox!LiveApi' = {})
  BY <1>1 DEF CommandTyped
<1>3. /\ supervisor'.found = tree /\ supervisor'.marked = marker
           /\ supervisor'.what = supervisor.what
      /\ supervisor'.at = IF supervisor.what = "start" THEN "recovering" ELSE "exporting"
  BY <1>1 DEF CommandTyped
<1>4. supervisor'.alone => Sandbox!LiveApi' = {}
  BY <1>2
<1>5. supervisor'.at = "recovering" => supervisor'.found = tree' /\ supervisor'.marked = marker'
  BY <1>1, <1>3
<1>6. supervisor'.at # "installing"
  BY <1>3
<1>7. Sandbox!NeverHalfRestored'
  BY <1>3 DEF Sandbox!NeverHalfRestored, Sandbox!At
<1> QED BY <1>4, <1>5, <1>6, <1>7 DEF RestoringSound

LEMMA RecoverRestoring ==
  ASSUME CommandTyped, RestoringSound, Sandbox!Recover
  PROVE  RestoringSound'
<1>0. /\ supervisor.at = "recovering" /\ tree' = Sandbox!TreeFound
      /\ UNCHANGED <<volume, processes>> /\ supervisor.next = 1
  BY DEF Sandbox!Recover, Sandbox!At, CommandTyped
<1> SUFFICES ASSUME supervisor'.alone PROVE RestoringSound'
  BY DEF RestoringSound
<1>1. supervisor.alone
  BY DEF Sandbox!Recover, CommandTyped
<1>2. Sandbox!LiveApi = {} /\ supervisor.found = tree /\ supervisor.marked = marker
  BY <1>0, <1>1 DEF RestoringSound
<1>3. Sandbox!LiveApi' = {}
  BY <1>0, <1>2 DEF Sandbox!LiveApi
<1>4. Sandbox!Complete' = Sandbox!Complete /\ Sandbox!Newest' = Sandbox!Newest
  BY <1>0 DEF Sandbox!Complete, Sandbox!Newest
<1>5. CASE Sandbox!TreeFound # Sandbox!Nothing \/ Sandbox!Complete = {}
  <2>1. /\ supervisor'.at = "exporting"
        /\ supervisor'.found = tree /\ supervisor'.marked = marker
    BY <1>2, <1>5 DEF Sandbox!Recover, CommandTyped
  <2>2. CASE Sandbox!TreeFound = Sandbox!Nothing
    <3>1. Sandbox!Complete' = {} /\ tree' = Sandbox!Nothing
      BY <1>0, <1>4, <1>5, <2>2
    <3> QED BY <1>3, <2>1, <3>1 DEF RestoringSound, Sandbox!NeverHalfRestored
  <2>3. CASE Sandbox!TreeFound # Sandbox!Nothing
    <3>1. marker = FALSE /\ tree' = tree /\ tree # Sandbox!Nothing
      BY <1>0, <2>3, TreesTyped DEF Sandbox!TreeFound, Sandbox!Cleared
    <3>2. ~supervisor'.marked
      BY <2>1, <3>1
    <3>3. Sandbox!Holds(tree', supervisor'.found)
      BY <2>1, <3>1, TreesTyped, RootsOrdered DEF Sandbox!Holds, Trees
    <3>4. supervisor'.found # Sandbox!Nothing
      BY <2>1, <3>1
    <3>5. Sandbox!NeverHalfRestored'
      BY <3>2, <3>3, <3>4 DEF Sandbox!NeverHalfRestored
    <3> QED BY <1>3, <2>1, <3>5 DEF RestoringSound
  <2> QED BY <2>2, <2>3
<1>6. CASE ~(Sandbox!TreeFound # Sandbox!Nothing \/ Sandbox!Complete = {})
  <2>1. supervisor' = [supervisor EXCEPT !.at = "installing", !.from = Sandbox!Newest]
    BY <1>6 DEF Sandbox!Recover
  <2>2. supervisor'.at = "installing" /\ supervisor'.from = Sandbox!Newest'
          /\ supervisor'.next = 1
    BY <1>0, <1>4, <2>1 DEF CommandTyped
  <2>3. (Installed(supervisor.next - 1, volume[supervisor.from].files))'
    <3>1. \A r \in Sandbox!Roots : tree'[r] = 0
      BY <1>0, <1>6 DEF Sandbox!Nothing
    <3>2. \A r \in Sandbox!Roots : ~\E i \in 1..(supervisor'.next - 1) : RootOrder[i] = r
      BY <2>2
    <3> QED BY <3>1, <3>2 DEF Installed
  <2>4. Sandbox!NeverHalfRestored'
    BY <2>2 DEF Sandbox!NeverHalfRestored, Sandbox!At
  <2> QED BY <1>3, <2>2, <2>3, <2>4 DEF RestoringSound
<1> QED BY <1>5, <1>6

LEMMA InstallRestoring ==
  ASSUME CommandTyped, RestoringSound, Sandbox!Install
  PROVE  RestoringSound'
<1>0. /\ supervisor.at = "installing" /\ UNCHANGED <<volume, processes>>
      /\ supervisor.next \in Nat \ {0} /\ supervisor.from \in Sandbox!Complete
  BY DEF Sandbox!Install, Sandbox!At, CommandTyped
<1> SUFFICES ASSUME supervisor'.alone PROVE RestoringSound'
  BY DEF RestoringSound
<1>1. supervisor.alone
  BY DEF Sandbox!Install, CommandTyped
<1>2. /\ Sandbox!LiveApi = {} /\ supervisor.from = Sandbox!Newest
      /\ Installed(supervisor.next - 1, volume[supervisor.from].files)
  BY <1>0, <1>1 DEF RestoringSound
<1>3. Sandbox!LiveApi' = {}
  BY <1>0, <1>2 DEF Sandbox!LiveApi
<1>4. Sandbox!Complete' = Sandbox!Complete /\ Sandbox!Newest' = Sandbox!Newest
  BY <1>0 DEF Sandbox!Complete, Sandbox!Newest
<1> DEFINE files == volume[supervisor.from].files
<1>5. files \in Trees
  BY <1>0, TreesTyped
<1>6. CASE supervisor.next > Len(RootOrder)
  <2>1. supervisor'.at = "exporting" /\ UNCHANGED tree
    BY <1>6 DEF Sandbox!Install, CommandTyped
  <2>2. \A r \in Sandbox!Roots : tree[r] = files[r]
    <3> TAKE r \in Sandbox!Roots
    <3>1. PICK i \in 1..Len(RootOrder) : RootOrder[i] = r
      BY RootsOrdered
    <3>2. i \in 1..(supervisor.next - 1)
      BY <1>0, <1>6, <3>1, RootsOrdered
    <3> QED BY <1>2, <3>1, <3>2 DEF Installed
  <2>3. tree = files
    BY <2>2, <1>5, TreesTyped DEF Trees
  <2>4. Sandbox!NeverHalfRestored'
    BY <1>0, <1>2, <1>4, <2>1, <2>3 DEF Sandbox!NeverHalfRestored
  <2> QED BY <1>3, <2>1, <2>4 DEF RestoringSound
<1>7. CASE ~(supervisor.next > Len(RootOrder))
  <2> DEFINE k == supervisor.next
             place == RootOrder[k]
  <2>1. k \in 1..Len(RootOrder) /\ place \in Sandbox!Roots
    BY <1>0, <1>7, RootsOrdered
  <2>2. /\ files[place] = 0 \/ tree[place] = 0
        /\ tree' = [tree EXCEPT ![place] = IF files[place] = 0 THEN @ ELSE files[place]]
        /\ supervisor' = [supervisor EXCEPT !.next = @ + 1]
    BY <1>7 DEF Sandbox!Install
  <2>3. supervisor'.at = "installing" /\ supervisor'.next = k + 1
          /\ supervisor'.from = supervisor.from
    BY <1>0, <2>2 DEF CommandTyped
  <2>4. \A r \in Sandbox!Roots :
          tree'[r] = IF \E i \in 1..k : RootOrder[i] = r THEN files[r] ELSE 0
    <3> HIDE DEF files
    <3> TAKE r \in Sandbox!Roots
    <3>1. tree[r] = IF \E i \in 1..(k - 1) : RootOrder[i] = r THEN files[r] ELSE 0
      BY <1>2 DEF Installed, files
    <3>2. CASE r = place
      <4>1. tree'[r] = IF files[r] = 0 THEN tree[r] ELSE files[r]
        BY <2>2, <3>2, TreesTyped DEF Trees
      <4>2. tree'[r] = files[r]
        BY <4>1, <3>1
      <4>3. \E i \in 1..k : RootOrder[i] = r
        BY <2>1, <3>2
      <4> QED BY <4>2, <4>3
    <3>3. CASE r # place
      <4>1. tree'[r] = tree[r]
        BY <2>2, <3>3, TreesTyped DEF Trees
      <4>2. (\E i \in 1..k : RootOrder[i] = r) <=> \E i \in 1..(k - 1) : RootOrder[i] = r
        BY <2>1, <3>3, RootsOrdered
      <4> QED BY <3>1, <4>1, <4>2
    <3> QED BY <3>2, <3>3
  <2>5. supervisor'.next - 1 = k /\ volume'[supervisor'.from].files = files
    BY <1>0, <2>3
  <2>6. (Installed(supervisor.next - 1, volume[supervisor.from].files))'
    BY <2>4, <2>5 DEF Installed
  <2>7. Sandbox!NeverHalfRestored'
    BY <2>3 DEF Sandbox!NeverHalfRestored, Sandbox!At
  <2> QED BY <1>2, <1>3, <1>4, <2>3, <2>6, <2>7 DEF RestoringSound
<1> QED BY <1>6, <1>7

LEMMA CommandElsewhere ==
  ASSUME CommandTyped,
         \/ \E what \in {"start", "stop"} : Sandbox!Begin(what)
         \/ Sandbox!RecoveryFails \/ Sandbox!OpenSnapshot \/ Sandbox!CopyFiles
         \/ Sandbox!WriteManifest \/ Sandbox!Launch \/ Sandbox!RecordIdentity
         \/ Sandbox!Crash \/ Sandbox!LoseSandbox
  PROVE  supervisor'.at \notin {"recovering", "installing", "exporting"}
<1>1. CASE \E what \in {"start", "stop"} : Sandbox!Begin(what)
  BY <1>1 DEF Sandbox!Begin, Sandbox!Idle
<1>2. CASE Sandbox!RecoveryFails \/ Sandbox!Crash \/ Sandbox!LoseSandbox
        \/ Sandbox!RecordIdentity
  BY <1>2, IdleCommand
     DEF Sandbox!RecoveryFails, Sandbox!Crash, Sandbox!LoseSandbox, Sandbox!RecordIdentity
<1>3. CASE Sandbox!OpenSnapshot
  BY <1>3, IdleCommand DEF Sandbox!OpenSnapshot, Sandbox!After, CommandTyped
<1>4. CASE Sandbox!CopyFiles
  BY <1>4 DEF Sandbox!CopyFiles, Sandbox!At, CommandTyped
<1>5. CASE Sandbox!WriteManifest
  BY <1>5, IdleCommand DEF Sandbox!WriteManifest, Sandbox!After, CommandTyped
<1>6. CASE Sandbox!Launch
  BY <1>6 DEF Sandbox!Launch, CommandTyped
<1> QED BY <1>1, <1>2, <1>3, <1>4, <1>5, <1>6

LEMMA RestoringStays ==
  ASSUME CommandTyped, RestoringSound, [Sandbox!Next]_deploymentVars
  PROVE  RestoringSound'
<1>1. CASE UNCHANGED deploymentVars
  BY <1>1, NothingRunsBeside DEF deploymentVars
<1>2. ASSUME NEW p \in Pids, Sandbox!ProcessEnds(p) \/ Sandbox!OtherProcess(p)
      PROVE  RestoringSound'
  <2>1. \A q \in Pids : processes'[q] # None /\ processes'[q].api
                          => processes[q] # None /\ processes[q].api
    BY <1>2, TicksTyped DEF Sandbox!ProcessEnds, Sandbox!OtherProcess
  <2> QED BY <1>2, <2>1, NothingRunsBeside DEF Sandbox!ProcessEnds, Sandbox!OtherProcess
<1>3. ASSUME NEW p \in Pids, NEW place \in Sandbox!Roots, Sandbox!Write(p, place)
      PROVE  RestoringSound'
  BY <1>3 DEF Sandbox!Write, RestoringSound, Sandbox!LiveApi
<1>4. CASE \/ \E what \in {"start", "stop"} : Sandbox!Begin(what)
           \/ Sandbox!RecoveryFails \/ Sandbox!OpenSnapshot \/ Sandbox!CopyFiles
           \/ Sandbox!WriteManifest \/ Sandbox!Launch \/ Sandbox!RecordIdentity
           \/ Sandbox!Crash \/ Sandbox!LoseSandbox
  BY <1>4, CommandElsewhere DEF RestoringSound
<1> QED BY <1>1, <1>2, <1>3, <1>4, StopRestoring, RecoverRestoring,
   InstallRestoring DEF Sandbox!Next

LEMMA SandboxStays == SandboxSound /\ [Sandbox!Next]_deploymentVars => SandboxSound'
BY CommandStays, IdentityStays, RestoringStays DEF SandboxSound

\* NeverHalfRestored also speaks of an export reached at any other time.
LEMMA RestoredOrKept == SandboxSound => Sandbox!TypeOK /\ Sandbox!NeverHalfRestored
BY DEF SandboxSound, CommandTyped, RestoringSound, Sandbox!NeverHalfRestored, Sandbox!At

LEMMA SandboxAlways == SideSpec => [](subject = "deployment" => SandboxSound)
<1> DEFINE Inv == subject = "deployment" => SandboxSound
<1>1. SideInit => Inv
  BY SandboxStarts DEF SideInit, SandboxInit
<1>2. Inv /\ [SideNext]_sideVars => Inv'
  <2> SUFFICES ASSUME Inv, [SideNext]_sideVars, subject' = "deployment" PROVE SandboxSound'
    OBVIOUS
  <2>1. subject = "deployment" /\ [Sandbox!Next]_deploymentVars
    BY SandboxFrame
  <2> QED BY <2>1, SandboxStays
<1> QED BY <1>1, <1>2, PTL DEF SideSpec

\* Whoever runs beside it, crashes or loses the sandbox, a supervisor that is alone
\* leaves all of the newest complete snapshot or what it found, never a part
\* (ops/deployment/daytona_state.py:117).
THEOREM NeverHalfRestoredAlways == SideSpec => []NeverHalfRestored
<1>1. (subject = "deployment" => SandboxSound) => NeverHalfRestored
  BY RestoredOrKept DEF NeverHalfRestored
<1> QED BY <1>1, SandboxAlways, PTL

\* A process is stopped only if it is the API that was recorded, also when its id was
\* used again (ops/deployment/daytona_process.py:41).
THEOREM OnlyTheApiAlwaysStopped == SideSpec => []OnlyTheApiIsStopped
<1>1. (subject = "deployment" => SandboxSound) => OnlyTheApiIsStopped
  BY DEF OnlyTheApiIsStopped, SandboxSound, IdentitySound
<1> QED BY <1>1, SandboxAlways, PTL

-----------------------------------------------------------------------------
(* Controller runs.                                                        *)

LEMMA ControllerFrame ==
  [SideNext]_sideVars =>
     \/ subject = "controller" /\ Controller!Next /\ UNCHANGED subject
     \/ UNCHANGED <<subject, controllerVars>>
BY DEF SideNext, sideVars, TrainingStep, GateStep, DeliveryStep, SupervisorStep, HeldOutStep,
   SandboxStep, ControllerStep, HttpStep, PathsStep

\* How an attempt is recorded.
Ends == {"running", "interrupted", "failed", "training_complete"}

\* Attempts are bounded, and those with checkpoints have a last one.
AttemptsSound(made) ==
  /\ made \in Seq([steps : SUBSET Steps, done : BOOLEAN])
  /\ Len(made) <= MaxAttempts
  /\ \A a \in 1..Len(made) : made[a].steps # {} =>
       \E s \in made[a].steps : \A t \in made[a].steps : t <= s

\* A checkpoint that passed, of an attempt that ended, with every later one failed.
SelectedSound(c, made, measured) ==
  /\ c \in Controller!Checkpoints /\ c[1] \in 1..Len(made)
  /\ made[c[1]].done /\ measured[c] = {}
  /\ \A s \in made[c[1]].steps : s > c[2] => measured[<<c[1], s>>] # {}

\* A contract, of the attempts made and the qualities measured.
ContractSound(written, made, measured) ==
  /\ DOMAIN written = {"status", "attempts", "selected", "exported"}
  /\ written.attempts \in Seq(Ends) /\ Len(written.attempts) <= Len(made)
  /\ written.selected \in 1..Len(written.attempts) \cup {None}
  /\ written.exported \in Controller!Checkpoints \cup {None}
  /\ \A a \in 1..Len(written.attempts) : written.attempts[a] = "training_complete" =>
       made[a].steps # {} /\ made[a].done
  /\ written.status = "qualified_checkpoint_selected" =>
       SelectedSound(written.exported, made, measured)

\* The job under way, by the step it is at.
WorkSound ==
  /\ DOMAIN job = {"at", "kind", "contract", "checkpoint"}
  /\ job.at = "recovering" => ContractSound(contract, attempts, quality)
  /\ job.at \in {"recovering", "attempting", "beginning", "training"} => job.kind = "train"
  /\ job.at \in {"attempting", "beginning", "training", "exporting", "copying", "recording"} =>
       ContractSound(job.contract, attempts, quality)
  /\ job.at = "attempting" => \A a \in 1..Len(job.contract.attempts) : ~Controller!Completed(a)
  /\ job.at = "beginning" => Len(attempts) = Len(job.contract.attempts) + 1
  /\ job.at = "training" => Len(attempts) = Len(job.contract.attempts) /\ Len(attempts) > 0
  /\ job.at \in {"exporting", "copying", "recording", "summing up"} =>
       job.checkpoint \in Controller!Checkpoints
  /\ job.at = "exporting" => job.kind \in {"train", "export", "select"}
  /\ job.at = "copying" => job.kind = "select"
  /\ job.at \in {"exporting", "copying", "recording", "summing up"} /\ job.kind = "select" =>
       /\ SelectedSound(job.checkpoint, attempts, quality)
       /\ job.at # "exporting" => onnx = job.checkpoint

ManifestSound ==
  manifest # None /\ manifest.qualified => mode = "full" /\ quality[manifest.controller] = {}

QualifiedSound ==
  /\ mode \in {"smoke", "full"}
  /\ AttemptsSound(attempts)
  /\ contract = None \/ ContractSound(contract, attempts, quality)
  /\ onnx \in Controller!Checkpoints \cup {None}
       /\ evidence \in Controller!Checkpoints \cup {None}
  /\ WorkSound
  /\ ManifestSound

LEMMA ControllerNumbers == Steps \subseteq Nat /\ MaxAttempts \in Nat /\ None \notin Nat
BY ControllerAssumption

LEMMA QualifiedImplies ==
  QualifiedSound => Controller!TypeOK /\ Controller!ControllerEarned
<1> SUFFICES ASSUME QualifiedSound PROVE Controller!TypeOK /\ Controller!ControllerEarned
  OBVIOUS
<1>1. Controller!TypeOK
  BY DEF QualifiedSound, Controller!TypeOK, AttemptsSound, ContractSound
<1>2. ASSUME contract # None, contract.status = "qualified_checkpoint_selected"
      PROVE  LET c == contract.exported
             IN  /\ quality[c] = {} /\ attempts[c[1]].done
                 /\ \A s \in Controller!Later(c) : quality[<<c[1], s>>] # {}
  BY <1>2 DEF QualifiedSound, ContractSound, SelectedSound, Controller!Later
<1> QED BY <1>1, <1>2 DEF QualifiedSound, ManifestSound, Controller!ControllerEarned

LEMMA IdleJob ==
  /\ DOMAIN Controller!Idle = {"at", "kind", "contract", "checkpoint"}
  /\ Controller!Idle.at = "idle"
BY DEF Controller!Idle

LEMMA IdleSound == ASSUME job = Controller!Idle PROVE WorkSound
BY IdleJob DEF WorkSound
LEMMA IdleSoundNext == ASSUME job' = Controller!Idle PROVE WorkSound'
BY IdleJob DEF WorkSound

LEMMA ControllerStarts == Controller!Init => QualifiedSound
<1> SUFFICES ASSUME Controller!Init PROVE QualifiedSound
  OBVIOUS
<1>1. AttemptsSound(attempts)
  BY ControllerNumbers DEF Controller!Init, AttemptsSound
<1> QED BY <1>1, IdleSound DEF Controller!Init, QualifiedSound, ManifestSound

\* The attempts only grow, and one that ended stays as it is.
LEMMA AttemptsGrow ==
  ASSUME NEW made, NEW grown, NEW measured, AttemptsSound(made), AttemptsSound(grown),
         Len(made) <= Len(grown),
         \A a \in 1..Len(made) : made[a].done => grown[a] = made[a]
  PROVE  \A written : \* A contract, of the attempts made and the qualities measured.
ContractSound(written, made, measured)
  => \* A contract, of the attempts made and the qualities measured.
ContractSound(written, grown, measured)
<1> SUFFICES ASSUME NEW written, \* A contract, of the attempts made and the qualities measured.
ContractSound(written, made, measured)
             PROVE  \* A contract, of the attempts made and the qualities measured.
ContractSound(written, grown, measured)
  OBVIOUS
<1>0. Len(made) \in Nat /\ Len(grown) \in Nat
  BY DEF AttemptsSound
<1>1. Len(written.attempts) \in Nat /\ Len(written.attempts) <= Len(grown)
  BY <1>0 DEF ContractSound
<1>2. \A a \in 1..Len(written.attempts) : written.attempts[a] = "training_complete" =>
        grown[a].steps # {} /\ grown[a].done
  BY <1>0, <1>1 DEF ContractSound
<1>3. written.status = "qualified_checkpoint_selected" =>
        SelectedSound(written.exported, grown, measured)
  BY <1>0 DEF ContractSound, SelectedSound
<1> QED BY <1>1, <1>2, <1>3 DEF ContractSound

\* The latest checkpoint of an attempt is a checkpoint.
LEMMA LatestSound ==
  ASSUME AttemptsSound(attempts), NEW a \in 1..Len(attempts), attempts[a].steps # {}
  PROVE  Controller!LatestIn(a) \in Controller!Checkpoints
<1>0. attempts[a].steps \subseteq Steps /\ a \in 1..MaxAttempts
  <2>1. attempts[a] \in [steps : SUBSET Steps, done : BOOLEAN] /\ Len(attempts) \in Nat
    BY Entry DEF AttemptsSound
  <2>2. Len(attempts) <= MaxAttempts
    BY DEF AttemptsSound
  <2> QED BY <2>1, <2>2, ControllerNumbers
<1>1. \E s \in attempts[a].steps : \A t \in attempts[a].steps : t <= s
  BY DEF AttemptsSound
<1> DEFINE last == CHOOSE s \in attempts[a].steps : \A t \in attempts[a].steps : t <= s
<1>2. last \in Steps
  BY <1>0, <1>1
<1>3. Controller!LatestIn(a) = <<a, last>>
  BY DEF Controller!LatestIn
<1> HIDE DEF last
<1> QED BY <1>0, <1>2, <1>3 DEF Controller!Checkpoints

LEMMA LastSound ==
  ASSUME NEW n \in Nat, NEW S, S \subseteq 1..n, S # {}
  PROVE  Controller!LastOf(S) \in S
BY GreatestElement DEF Controller!LastOf

\* The steps that leave the attempts alone.
LEMMA TrainingSound == QualifiedSound /\ Controller!RunTraining => QualifiedSound'
<1> SUFFICES ASSUME QualifiedSound, Controller!RunTraining PROVE QualifiedSound'
  OBVIOUS
<1>1. UNCHANGED <<mode, quality, attempts, onnx, evidence, manifest>>
  BY DEF Controller!RunTraining
<1>2. ContractSound(contract', attempts, quality)
  <2>1. ContractSound(Controller!NewContract, attempts, quality)
    <3>1. Len(attempts) \in Nat
      BY DEF QualifiedSound, AttemptsSound
    <3> QED BY <3>1 DEF ContractSound, Controller!NewContract
  <2> QED BY <2>1 DEF QualifiedSound, Controller!RunTraining
<1>3. WorkSound'
  <2>1. job' = [Controller!Idle EXCEPT !.at = "recovering", !.kind = "train"]
    BY DEF Controller!RunTraining
  <2>2. DOMAIN job' = {"at", "kind", "contract", "checkpoint"} /\ job'.at = "recovering"
          /\ job'.kind = "train"
    BY <2>1 DEF Controller!Idle
  <2> QED BY <1>1, <1>2, <2>2 DEF WorkSound
<1> QED BY <1>1, <1>2, <1>3 DEF QualifiedSound, ManifestSound

\* What recovery writes is as sound as what it reads.
LEMMA RecoveredSound ==
  ASSUME AttemptsSound(attempts), ContractSound(contract, attempts, quality)
  PROVE  /\ ContractSound(Controller!Recovered(contract), attempts, quality)
         /\ Len(Controller!Recovered(contract).attempts) = Len(contract.attempts)
<1> DEFINE found == Controller!Recovered(contract)
<1>1. /\ DOMAIN found = {"status", "attempts", "selected", "exported"}
      /\ found.exported = contract.exported
      /\ found.attempts = [a \in DOMAIN contract.attempts |-> Controller!StatusRecovered(contract, a)]
      /\ found.status \in {"training_complete", contract.status}
  BY DEF Controller!Recovered, ContractSound
<1>2. Len(contract.attempts) \in Nat /\ DOMAIN contract.attempts = 1..Len(contract.attempts)
  BY DEF ContractSound
<1>3. \A a \in 1..Len(contract.attempts) :
        /\ Controller!StatusRecovered(contract, a) \in Ends
        /\ Controller!StatusRecovered(contract, a) = "training_complete" =>
             attempts[a].steps # {} /\ attempts[a].done
  <2> TAKE a \in 1..Len(contract.attempts)
  <2>1. contract.attempts[a] \in Ends
    BY DEF ContractSound
  <2>2. CASE Controller!Completed(a)
    BY <2>2 DEF Controller!StatusRecovered, Controller!Completed, Controller!Has, Ends
  <2>3. CASE ~Controller!Completed(a) /\ contract.attempts[a] = "running"
    BY <2>3 DEF Controller!StatusRecovered, Ends
  <2>4. CASE ~Controller!Completed(a) /\ contract.attempts[a] # "running"
    BY <2>1, <2>4 DEF Controller!StatusRecovered, ContractSound
  <2> QED BY <2>2, <2>3, <2>4
<1>4. found.attempts \in Seq(Ends) /\ Len(found.attempts) = Len(contract.attempts)
  BY <1>1, <1>2, <1>3
<1>5. \A a \in 1..Len(found.attempts) : found.attempts[a] = "training_complete" =>
        attempts[a].steps # {} /\ attempts[a].done
  BY <1>1, <1>2, <1>3, <1>4
<1>6. found.status = "qualified_checkpoint_selected" =>
        SelectedSound(found.exported, attempts, quality)
  BY <1>1 DEF ContractSound
<1>7. Len(found.attempts) <= Len(attempts)
        /\ found.exported \in Controller!Checkpoints \cup {None}
  BY <1>1, <1>4 DEF ContractSound
<1>8. found.selected \in 1..Len(found.attempts) \cup {None}
  <2>1. Controller!Complete(contract) \subseteq 1..Len(contract.attempts)
    BY <1>2 DEF Controller!Complete
  <2>2. found.selected = IF Controller!Complete(contract) # {}
                         THEN Controller!LastOf(Controller!Complete(contract))
                         ELSE contract.selected
    BY DEF Controller!Recovered, ContractSound
  <2>3. Controller!Complete(contract) # {} =>
          Controller!LastOf(Controller!Complete(contract)) \in Controller!Complete(contract)
    BY <1>2, <2>1, LastSound
  <2> QED BY <1>4, <2>1, <2>2, <2>3 DEF ContractSound
<1> QED BY <1>1, <1>4, <1>5, <1>6, <1>7, <1>8 DEF ContractSound

LEMMA RecoverSound == QualifiedSound /\ Controller!RecoverAttempts => QualifiedSound'
<1> SUFFICES ASSUME QualifiedSound, Controller!RecoverAttempts PROVE QualifiedSound'
  OBVIOUS
<1>1. UNCHANGED <<mode, quality, attempts, onnx, evidence, manifest>> /\ job.at = "recovering"
  BY DEF Controller!RecoverAttempts, Controller!At
<1>2. AttemptsSound(attempts) /\ ContractSound(contract, attempts, quality)
        /\ job.kind = "train"
  BY <1>1 DEF QualifiedSound, WorkSound
<1> DEFINE found == Controller!Recovered(contract)
<1>3. ContractSound(found, attempts, quality) /\ Len(found.attempts) = Len(contract.attempts)
  BY <1>2, RecoveredSound
<1>4. ContractSound(contract', attempts, quality)
  BY <1>2, <1>3 DEF Controller!RecoverAttempts
<1>5. WorkSound'
  <2> HIDE DEF found
  <2>1. CASE Controller!Complete(contract) # {}
    <3>1. job' = [job EXCEPT !.at = "exporting", !.contract = found,
                    !.checkpoint = Controller!LatestIn(Controller!LastOf(Controller!Complete(contract)))]
      BY <2>1 DEF Controller!RecoverAttempts, found
    <3>2. Controller!Complete(contract) \subseteq 1..Len(contract.attempts)
            /\ Len(contract.attempts) \in Nat
      BY <1>2 DEF Controller!Complete, ContractSound
    <3>3. Controller!LastOf(Controller!Complete(contract)) \in Controller!Complete(contract)
      BY <2>1, <3>2, LastSound
    <3>4. Controller!LatestIn(Controller!LastOf(Controller!Complete(contract))) \in Controller!Checkpoints
      <4>1. \A a \in Controller!Complete(contract) : a \in 1..Len(attempts)
              /\ attempts[a].steps # {}
        BY <1>2 DEF Controller!Complete, Controller!Completed, Controller!Has, AttemptsSound
      <4> QED BY <1>2, <3>3, <4>1, LatestSound
    <3>5. /\ DOMAIN job' = {"at", "kind", "contract", "checkpoint"} /\ job'.at = "exporting"
          /\ job'.contract = found /\ job'.kind = "train"
          /\ job'.checkpoint \in Controller!Checkpoints
      BY <1>2, <3>1, <3>4 DEF QualifiedSound, WorkSound
    <3> QED BY <1>1, <1>3, <3>5 DEF WorkSound
  <2>2. CASE Controller!Complete(contract) = {}
    <3>1. job' = [job EXCEPT !.at = "attempting", !.contract = found]
      BY <2>2 DEF Controller!RecoverAttempts, found
    <3>2. /\ DOMAIN job' = {"at", "kind", "contract", "checkpoint"} /\ job'.at = "attempting"
          /\ job'.contract = found /\ job'.kind = "train"
      BY <1>2, <3>1 DEF QualifiedSound, WorkSound
    <3>3. \A a \in 1..Len(found.attempts) : ~Controller!Completed(a)
      BY <1>2, <1>3, <2>2 DEF Controller!Complete, ContractSound
    <3>4. \A a \in 1..Len(job'.contract.attempts) : ~Controller!Completed(a)'
      BY <1>1, <3>2, <3>3 DEF Controller!Completed, Controller!Has
    <3> QED BY <1>1, <1>3, <3>2, <3>4 DEF WorkSound
  <2> QED BY <2>1, <2>2
<1> QED BY <1>1, <1>4, <1>5 DEF QualifiedSound, ManifestSound

LEMMA MakeSound == QualifiedSound /\ Controller!MakeAttempt => QualifiedSound'
<1> SUFFICES ASSUME QualifiedSound, Controller!MakeAttempt PROVE QualifiedSound'
  OBVIOUS
<1>1. UNCHANGED <<mode, quality, contract, onnx, evidence, manifest>> /\ job.at = "attempting"
  BY DEF Controller!MakeAttempt, Controller!At
<1>2. /\ AttemptsSound(attempts) /\ ContractSound(job.contract, attempts, quality)
      /\ job.kind = "train" /\ DOMAIN job = {"at", "kind", "contract", "checkpoint"}
  BY <1>1 DEF QualifiedSound, WorkSound
<1>3. CASE Len(attempts) > Len(job.contract.attempts)
  <2>1. job' = Controller!Idle /\ attempts' = attempts
    BY <1>3 DEF Controller!MakeAttempt
  <2> QED BY <1>1, <2>1, IdleSoundNext DEF QualifiedSound, ManifestSound
<1>4. CASE ~(Len(attempts) > Len(job.contract.attempts))
  <2> DEFINE fresh == [steps |-> {}, done |-> FALSE]
  <2>1. /\ Len(attempts) < MaxAttempts /\ attempts' = Append(attempts, fresh)
        /\ job' = [job EXCEPT !.at = "beginning"]
    BY <1>4 DEF Controller!MakeAttempt, Controller!Goes
  <2>2. fresh \in [steps : SUBSET Steps, done : BOOLEAN] /\ fresh.steps = {}
    OBVIOUS
  <2>3. attempts \in Seq([steps : SUBSET Steps, done : BOOLEAN]) /\ Len(attempts) \in Nat
    BY <1>2 DEF AttemptsSound
  <2>4. /\ attempts' \in Seq([steps : SUBSET Steps, done : BOOLEAN])
        /\ Len(attempts') = Len(attempts) + 1
        /\ \A a \in 1..Len(attempts) : attempts'[a] = attempts[a]
        /\ attempts'[Len(attempts) + 1] = fresh
    <3> HIDE DEF fresh
    <3> QED BY <2>1, <2>2, <2>3
  <2>5. AttemptsSound(attempts')
    <3>1. Len(attempts') <= MaxAttempts
      BY <2>1, <2>3, <2>4, ControllerNumbers
    <3>2. ASSUME NEW a \in 1..Len(attempts'), attempts'[a].steps # {}
          PROVE  \E s \in attempts'[a].steps : \A t \in attempts'[a].steps : t <= s
      <4>1. a \in 1..Len(attempts)
        BY <2>2, <2>3, <2>4, <3>2
      <4> QED BY <1>2, <2>4, <3>2, <4>1 DEF AttemptsSound
    <3> QED BY <2>4, <3>1, <3>2 DEF AttemptsSound
  <2>6. \A written : \* A contract, of the attempts made and the qualities measured.
ContractSound(written, attempts, quality)
  => \* A contract, of the attempts made and the qualities measured.
ContractSound(written, attempts', quality)
    BY <1>2, <2>3, <2>4, <2>5, AttemptsGrow
  <2>7. contract' = None \/ ContractSound(contract', attempts', quality')
    BY <1>1, <2>6 DEF QualifiedSound
  <2>8. Len(job.contract.attempts) = Len(attempts)
    BY <1>2, <1>4, <2>3 DEF ContractSound
  <2>9. /\ DOMAIN job' = {"at", "kind", "contract", "checkpoint"} /\ job'.at = "beginning"
        /\ job'.kind = "train" /\ job'.contract = job.contract
    BY <1>2, <2>1
  <2>10. WorkSound'
    BY <1>1, <1>2, <2>4, <2>6, <2>8, <2>9 DEF WorkSound
  <2> QED BY <1>1, <2>5, <2>7, <2>10 DEF QualifiedSound, ManifestSound
<1> QED BY <1>3, <1>4

LEMMA MakeOnlyWhenNone ==
  QualifiedSound /\ Controller!MakeAttempt => Controller!AttemptStep
<1> SUFFICES ASSUME QualifiedSound, Controller!MakeAttempt, Len(attempts') > Len(attempts)
             PROVE  \A a \in DOMAIN attempts : ~Controller!Completed(a)
  BY DEF Controller!AttemptStep
<1>1. job.at = "attempting" /\ ~(Len(attempts) > Len(job.contract.attempts))
  <2>1. Len(attempts) \in Nat
    BY DEF QualifiedSound, AttemptsSound
  <2> QED BY <2>1 DEF Controller!MakeAttempt, Controller!At
<1>2. /\ ContractSound(job.contract, attempts, quality) /\ Len(attempts) \in Nat
      /\ DOMAIN attempts = 1..Len(attempts)
      /\ \A a \in 1..Len(job.contract.attempts) : ~Controller!Completed(a)
  BY <1>1 DEF QualifiedSound, WorkSound, AttemptsSound
<1>3. Len(job.contract.attempts) = Len(attempts)
  BY <1>1, <1>2 DEF ContractSound
<1> QED BY <1>2, <1>3

LEMMA AttemptBegins == QualifiedSound /\ Controller!BeginAttempt => QualifiedSound'
<1> SUFFICES ASSUME QualifiedSound, Controller!BeginAttempt PROVE QualifiedSound'
  OBVIOUS
<1>1. UNCHANGED <<mode, quality, attempts, onnx, evidence, manifest>> /\ job.at = "beginning"
  BY DEF Controller!BeginAttempt, Controller!At
<1>2. /\ AttemptsSound(attempts) /\ ContractSound(job.contract, attempts, quality)
      /\ job.kind = "train" /\ DOMAIN job = {"at", "kind", "contract", "checkpoint"}
      /\ Len(attempts) = Len(job.contract.attempts) + 1
  BY <1>1 DEF QualifiedSound, WorkSound
<1> DEFINE begun == [job.contract EXCEPT !.attempts = Append(@, "running"), !.status = "running"]
<1>3. contract' = begun /\ job' = [job EXCEPT !.at = "training", !.contract = contract']
  BY DEF Controller!BeginAttempt
<1>4. /\ DOMAIN begun = {"status", "attempts", "selected", "exported"}
      /\ begun.attempts = Append(job.contract.attempts, "running") /\ begun.status = "running"
      /\ begun.exported = job.contract.exported /\ begun.selected = job.contract.selected
  BY <1>2 DEF ContractSound
<1>5. /\ begun.attempts \in Seq(Ends) /\ Len(begun.attempts) = Len(attempts)
      /\ \A a \in 1..Len(job.contract.attempts) : begun.attempts[a] = job.contract.attempts[a]
      /\ begun.attempts[Len(attempts)] = "running"
  BY <1>2, <1>4 DEF ContractSound, Ends
<1>6. ContractSound(begun, attempts, quality)
  <2>1. /\ Len(begun.attempts) <= Len(attempts)
             /\ begun.exported \in Controller!Checkpoints \cup {None}
        /\ begun.selected \in 1..Len(begun.attempts) \cup {None}
    BY <1>2, <1>4, <1>5 DEF ContractSound
  <2>2. ASSUME NEW a \in 1..Len(begun.attempts), begun.attempts[a] = "training_complete"
        PROVE  attempts[a].steps # {} /\ attempts[a].done
    <3>1. a \in 1..Len(job.contract.attempts)
      BY <1>2, <1>5, <2>2 DEF ContractSound
    <3> QED BY <1>2, <1>5, <2>2, <3>1 DEF ContractSound
  <2> QED BY <1>4, <1>5, <2>1, <2>2 DEF ContractSound
<1> HIDE DEF begun
<1>7. /\ DOMAIN job' = {"at", "kind", "contract", "checkpoint"} /\ job'.at = "training"
      /\ job'.contract = begun /\ job'.kind = "train"
  BY <1>2, <1>3
<1>8. Len(attempts) > 0
  BY <1>2 DEF ContractSound
<1>9. WorkSound'
  BY <1>1, <1>5, <1>6, <1>7, <1>8 DEF WorkSound
<1> QED BY <1>1, <1>3, <1>6, <1>9 DEF QualifiedSound, ManifestSound

\* A training that writes to the attempt that is under way.
LEMMA WritesSound ==
  ASSUME QualifiedSound, job.at = "training", AttemptsSound(attempts'),
         UNCHANGED <<mode, quality, contract, onnx, evidence, manifest, job>>,
         Len(attempts') = Len(attempts),
         \A a \in 1..Len(attempts) : attempts[a].done => attempts'[a] = attempts[a]
  PROVE  QualifiedSound'
<1>1. \A written : \* A contract, of the attempts made and the qualities measured.
ContractSound(written, attempts, quality)
  => \* A contract, of the attempts made and the qualities measured.
ContractSound(written, attempts', quality)
  <2>1. AttemptsSound(attempts) /\ Len(attempts) \in Nat
    BY DEF QualifiedSound, AttemptsSound
  <2> QED BY <2>1, AttemptsGrow
<1>2. contract' = None \/ ContractSound(contract', attempts', quality')
  BY <1>1 DEF QualifiedSound
<1>3. WorkSound'
  <2>1. job'.at = "training"
    OBVIOUS
  <2>2. /\ DOMAIN job = {"at", "kind", "contract", "checkpoint"} /\ job.kind = "train"
        /\ ContractSound(job.contract, attempts, quality)
        /\ Len(attempts) = Len(job.contract.attempts) /\ Len(attempts) > 0
    BY DEF QualifiedSound, WorkSound
  <2> QED BY <1>1, <2>1, <2>2 DEF WorkSound
<1> QED BY <1>2, <1>3 DEF QualifiedSound, ManifestSound

LEMMA UnderWay ==
  ASSUME QualifiedSound, job.at = "training"
  PROVE  /\ AttemptsSound(attempts) /\ Len(attempts) \in Nat
    /\ Controller!Attempt \in 1..Len(attempts)
         /\ Controller!Attempt = Len(attempts)
         /\ attempts \in Seq([steps : SUBSET Steps, done : BOOLEAN])
         /\ attempts[Controller!Attempt] \in [steps : SUBSET Steps, done : BOOLEAN]
<1>1. AttemptsSound(attempts) /\ Len(attempts) > 0
  BY DEF QualifiedSound, WorkSound
<1>2. attempts \in Seq([steps : SUBSET Steps, done : BOOLEAN]) /\ Len(attempts) \in Nat
  BY <1>1 DEF AttemptsSound
<1>3. Controller!Attempt = Len(attempts) /\ Len(attempts) \in 1..Len(attempts)
  BY <1>1, <1>2 DEF Controller!Attempt
<1>4. attempts[Len(attempts)] \in [steps : SUBSET Steps, done : BOOLEAN]
  BY <1>2, <1>3, Entry
<1> QED BY <1>1, <1>2, <1>3, <1>4

\* One entry of the attempts is written.
LEMMA OneWritten ==
  ASSUME QualifiedSound, job.at = "training", ~attempts[Controller!Attempt].done,
         UNCHANGED <<mode, quality, contract, onnx, evidence, manifest, job>>,
         NEW entry \in [steps : SUBSET Steps, done : BOOLEAN],
         entry.steps # {} => \E s \in entry.steps : \A t \in entry.steps : t <= s,
         attempts' = [attempts EXCEPT ![Controller!Attempt] = entry]
  PROVE  QualifiedSound'
<1>1. /\ attempts' \in Seq([steps : SUBSET Steps, done : BOOLEAN])
      /\ Len(attempts') = Len(attempts)
      /\ \A a \in 1..Len(attempts) : attempts'[a] = IF a = Controller!Attempt THEN entry ELSE attempts[a]
  BY UnderWay
<1>2. AttemptsSound(attempts')
  <2>1. Len(attempts') <= MaxAttempts
    BY <1>1, UnderWay DEF AttemptsSound
  <2>2. ASSUME NEW a \in 1..Len(attempts'), attempts'[a].steps # {}
        PROVE  \E s \in attempts'[a].steps : \A t \in attempts'[a].steps : t <= s
    <3>1. CASE a = Controller!Attempt
      BY <1>1, <2>2, <3>1
    <3>2. CASE a # Controller!Attempt
      BY <1>1, <2>2, <3>2, UnderWay DEF AttemptsSound
    <3> QED BY <3>1, <3>2
  <2> QED BY <1>1, <2>1, <2>2 DEF AttemptsSound
<1> QED BY <1>1, <1>2, UnderWay, WritesSound

LEMMA SaveSound ==
  ASSUME QualifiedSound, NEW s \in Steps, Controller!SaveCheckpoint(s)
  PROVE  QualifiedSound'
<1> DEFINE a == Controller!Attempt
           entry == [attempts[a] EXCEPT !.steps = @ \cup {s}]
<1>1. /\ job.at = "training" /\ ~attempts[a].done /\ \A t \in attempts[a].steps : t < s
      /\ UNCHANGED <<mode, quality, contract, onnx, evidence, manifest, job>>
      /\ attempts' = [attempts EXCEPT ![a].steps = @ \cup {s}]
  BY DEF Controller!SaveCheckpoint, Controller!At
<1>2. attempts[a] \in [steps : SUBSET Steps, done : BOOLEAN] /\ s \in Nat
  BY <1>1, UnderWay, ControllerNumbers
<1>3. entry \in [steps : SUBSET Steps, done : BOOLEAN]
        /\ entry.steps = attempts[a].steps \cup {s}
  BY <1>2
<1>4. \E u \in entry.steps : \A t \in entry.steps : t <= u
  <2>1. \A t \in attempts[a].steps : t \in Nat
    BY <1>2, ControllerNumbers
  <2>2. \A t \in entry.steps : t <= s
    <3> HIDE DEF entry
    <3> QED BY <1>1, <1>2, <1>3, <2>1
  <2> QED BY <1>3, <2>2
<1>5. attempts' = [attempts EXCEPT ![a] = entry]
  BY <1>1
<1> HIDE DEF entry
<1> QED BY <1>1, <1>3, <1>4, <1>5, OneWritten

LEMMA LogSound == QualifiedSound /\ Controller!EndLog => QualifiedSound'
<1> SUFFICES ASSUME QualifiedSound, Controller!EndLog PROVE QualifiedSound'
  OBVIOUS
<1> DEFINE a == Controller!Attempt
           entry == [attempts[a] EXCEPT !.done = TRUE]
<1>1. /\ job.at = "training" /\ ~attempts[a].done
      /\ UNCHANGED <<mode, quality, contract, onnx, evidence, manifest, job>>
      /\ attempts' = [attempts EXCEPT ![a].done = TRUE]
  BY DEF Controller!EndLog, Controller!At
<1>2. attempts[a] \in [steps : SUBSET Steps, done : BOOLEAN] /\ a \in 1..Len(attempts)
      /\ AttemptsSound(attempts)
  BY <1>1, UnderWay
<1>3. entry \in [steps : SUBSET Steps, done : BOOLEAN]
  BY <1>2
<1>4. entry.steps = attempts[a].steps
  BY <1>2
<1>5. entry.steps # {} => \E s \in entry.steps : \A t \in entry.steps : t <= s
  BY <1>2, <1>4 DEF AttemptsSound
<1>6. attempts' = [attempts EXCEPT ![a] = entry]
  BY <1>1
<1> HIDE DEF entry
<1> QED BY <1>1, <1>3, <1>5, <1>6, OneWritten

LEMMA OneMore == ASSUME NEW k \in Nat, k >= 1 PROVE 1..k = 1..(k - 1) \cup {k}
OBVIOUS

\* Of numbered things there is a last one among those that are largest.
LEMMA LargestLast ==
  ASSUME NEW n \in Nat, NEW S, S \subseteq 1..n, S # {},
         NEW f \in [S -> Nat]
  PROVE  \E a \in S : \A b \in S : f[b] < f[a] \/ (f[b] = f[a] /\ b <= a)
<1> DEFINE Best(a, k) == \A b \in S \cap 1..k : f[b] < f[a] \/ (f[b] = f[a] /\ b <= a)
           Settled(k) == S \cap 1..k = {} \/ \E a \in S \cap 1..k : Best(a, k)
           Unsettled == {k \in 0..n : ~Settled(k)}
<1>1. Unsettled = {}
  <2> SUFFICES ASSUME Unsettled # {} PROVE FALSE
    OBVIOUS
  <2>1. Unsettled \subseteq Nat
    OBVIOUS
  <2>2. PICK k \in Unsettled : \A j \in Unsettled : k <= j
    BY <2>1, LeastElement
  <2>3. k \in 0..n /\ ~Settled(k)
    BY <2>2
  <2>4. k # 0
    BY <2>3
  <2>5. k - 1 \in 0..n /\ k - 1 \notin Unsettled
    <3>1. k - 1 \in 0..n /\ ~(k <= k - 1)
      BY <2>3, <2>4
    <3> HIDE DEF Unsettled
    <3> QED BY <2>2, <3>1
  <2>6. Settled(k - 1)
    BY <2>5
  <2>7. S \cap 1..k = (S \cap 1..(k - 1)) \cup (S \cap {k})
    <3>1. k \in Nat /\ k >= 1
      BY <2>3, <2>4
    <3>2. 1..k = 1..(k - 1) \cup {k}
      BY <3>1, OneMore
    <3> QED BY <3>2
  <2>8. CASE k \notin S
    <3>1. S \cap 1..k = S \cap 1..(k - 1)
      BY <2>7, <2>8
    <3> QED BY <2>3, <2>6, <3>1
  <2>9. CASE k \in S
    <3>1. CASE S \cap 1..(k - 1) = {}
      <4>1. S \cap 1..k = {k}
        BY <2>7, <2>9, <3>1
      <4>2. Best(k, k)
        BY <2>3, <4>1
      <4> QED BY <2>3, <4>1, <4>2
    <3>2. CASE S \cap 1..(k - 1) # {}
      <4>1. PICK a \in S \cap 1..(k - 1) : Best(a, k - 1)
        BY <2>6, <3>2
      <4>2. f[a] \in Nat /\ f[k] \in Nat /\ a \in Nat /\ a < k /\ k \in Nat
        BY <2>3, <2>9, <4>1
      <4>3. CASE f[k] < f[a]
        <5>1. Best(a, k)
          BY <2>7, <4>1, <4>3
        <5> QED BY <2>3, <2>7, <4>1, <5>1
      <4>4. CASE ~(f[k] < f[a])
        <5>1. Best(k, k)
          <6> SUFFICES ASSUME NEW b \in S \cap 1..k PROVE f[b] < f[k] \/ (f[b] = f[k] /\ b <= k)
            OBVIOUS
          <6>1. CASE b = k
            BY <6>1, <4>2
          <6>2. CASE b \in S \cap 1..(k - 1)
            <7>1. f[b] < f[a] \/ f[b] = f[a]
              BY <4>1, <6>2
            <7>2. f[b] \in Nat /\ b <= k
              BY <2>3
            <7> QED BY <4>2, <4>4, <7>1, <7>2
          <6> QED BY <2>7, <6>1, <6>2
        <5>2. k \in S \cap 1..k
          BY <2>3, <2>4, <2>9
        <5> QED BY <2>3, <5>1, <5>2
      <4> QED BY <4>3, <4>4
    <3> QED BY <3>1, <3>2
  <2> QED BY <2>8, <2>9
<1>2. Settled(n)
  <2>1. n \in 0..n
    OBVIOUS
  <2> HIDE DEF Settled
  <2> QED BY <1>1, <2>1
<1>3. S \cap 1..n = S
  OBVIOUS
<1> QED BY <1>2, <1>3

LEMMA LatestOfRun ==
  ASSUME AttemptsSound(attempts), \E a \in DOMAIN attempts : Controller!Has(a)
  PROVE  Controller!Latest \in Controller!Checkpoints
<1> DEFINE S == {b \in DOMAIN attempts : Controller!Has(b)}
           f == [b \in S |-> Controller!LatestIn(b)[2]]
<1>1. Len(attempts) \in Nat /\ S \subseteq 1..Len(attempts) /\ S # {}
  BY DEF AttemptsSound
<1>2. \A a \in S : Controller!LatestIn(a) \in Controller!Checkpoints
        /\ Controller!LatestIn(a)[1] = a
  BY <1>1, LatestSound DEF Controller!Has, Controller!LatestIn
<1>3. f \in [S -> Nat]
  BY <1>2, ControllerNumbers DEF Controller!Checkpoints
<1>4. PICK a \in S : \A b \in S : f[b] < f[a] \/ (f[b] = f[a] /\ b <= a)
  <2> HIDE DEF S, f
  <2> QED BY <1>1, <1>3, LargestLast
<1>5. \E c \in {Controller!LatestIn(b) : b \in S} :
        \A b \in S : Controller!LatestIn(b)[2] < c[2] \/ (Controller!LatestIn(b)[2] = c[2]
          /\ b <= c[1])
  BY <1>2, <1>4
<1>6. Controller!Latest \in {Controller!LatestIn(b) : b \in S}
  BY <1>5 DEF Controller!Latest
<1> QED BY <1>2, <1>6

LEMMA AttemptEnds == QualifiedSound /\ Controller!FinishAttempt => QualifiedSound'
<1> SUFFICES ASSUME QualifiedSound, Controller!FinishAttempt PROVE QualifiedSound'
  OBVIOUS
<1> DEFINE a == Controller!Attempt
           ended == [job.contract EXCEPT !.attempts[a] = "training_complete",
                       !.status = "training_complete", !.selected = a]
<1>1. /\ UNCHANGED <<mode, quality, attempts, onnx, evidence, manifest>>
      /\ job.at = "training" /\ Controller!Completed(a)
      /\ contract' = ended
      /\ job' = [job EXCEPT !.at = "exporting", !.contract = contract',
                   !.checkpoint = Controller!LatestIn(a)]
  BY DEF Controller!FinishAttempt, Controller!At
<1>2. /\ ContractSound(job.contract, attempts, quality)
      /\ job.kind = "train" /\ DOMAIN job = {"at", "kind", "contract", "checkpoint"}
      /\ Len(attempts) = Len(job.contract.attempts)
  BY <1>1 DEF QualifiedSound, WorkSound
<1>3. AttemptsSound(attempts) /\ a \in 1..Len(attempts) /\ attempts[a].steps # {}
        /\ attempts[a].done
  BY <1>1, UnderWay DEF Controller!Completed, Controller!Has
<1>4. /\ DOMAIN ended = {"status", "attempts", "selected", "exported"}
      /\ ended.attempts = [job.contract.attempts EXCEPT ![a] = "training_complete"]
      /\ ended.status = "training_complete" /\ ended.exported = job.contract.exported
      /\ ended.selected = a
  BY <1>2 DEF ContractSound
<1>5. /\ ended.attempts \in Seq(Ends) /\ Len(ended.attempts) = Len(attempts)
      /\ \A b \in 1..Len(attempts) :
           ended.attempts[b] = IF b = a THEN "training_complete" ELSE job.contract.attempts[b]
  BY <1>2, <1>3, <1>4 DEF ContractSound, Ends
<1>6. ContractSound(ended, attempts, quality)
  <2>1. /\ Len(ended.attempts) <= Len(attempts)
             /\ ended.exported \in Controller!Checkpoints \cup {None}
        /\ ended.selected \in 1..Len(ended.attempts) \cup {None}
    BY <1>2, <1>3, <1>4, <1>5 DEF ContractSound
  <2>2. \A b \in 1..Len(ended.attempts) : ended.attempts[b] = "training_complete" =>
          attempts[b].steps # {} /\ attempts[b].done
    BY <1>2, <1>3, <1>5 DEF ContractSound
  <2> QED BY <1>4, <1>5, <2>1, <2>2 DEF ContractSound
<1> HIDE DEF ended
<1>7. /\ DOMAIN job' = {"at", "kind", "contract", "checkpoint"} /\ job'.at = "exporting"
      /\ job'.contract = ended /\ job'.kind = "train"
      /\ job'.checkpoint \in Controller!Checkpoints
  BY <1>1, <1>2, <1>3, LatestSound
<1>8. WorkSound'
  BY <1>1, <1>6, <1>7 DEF WorkSound
<1> QED BY <1>1, <1>6, <1>8 DEF QualifiedSound, ManifestSound

LEMMA FailSound ==
  ASSUME QualifiedSound, NEW status \in {"failed", "interrupted"}, Controller!FailAttempt(status)
  PROVE  QualifiedSound'
<1> DEFINE a == Controller!Attempt
           ended == [job.contract EXCEPT !.attempts[a] = status, !.status = status]
<1>1. /\ UNCHANGED <<mode, quality, attempts, onnx, evidence, manifest>>
      /\ job.at = "training" /\ contract' = ended /\ job' = Controller!Idle
  BY DEF Controller!FailAttempt, Controller!At
<1>2. ContractSound(job.contract, attempts, quality)
        /\ Len(attempts) = Len(job.contract.attempts)
  BY <1>1 DEF QualifiedSound, WorkSound
<1>3. a \in 1..Len(attempts)
  BY <1>1, UnderWay
<1>4. /\ DOMAIN ended = {"status", "attempts", "selected", "exported"}
      /\ ended.attempts = [job.contract.attempts EXCEPT ![a] = status]
      /\ ended.status = status /\ ended.exported = job.contract.exported
      /\ ended.selected = job.contract.selected
  BY <1>2 DEF ContractSound
<1>5. /\ ended.attempts \in Seq(Ends) /\ Len(ended.attempts) = Len(attempts)
      /\ \A b \in 1..Len(attempts) :
           ended.attempts[b] = IF b = a THEN status ELSE job.contract.attempts[b]
  BY <1>2, <1>3, <1>4 DEF ContractSound, Ends
<1>6. ContractSound(ended, attempts, quality)
  <2>1. /\ Len(ended.attempts) <= Len(attempts)
             /\ ended.exported \in Controller!Checkpoints \cup {None}
        /\ ended.selected \in 1..Len(ended.attempts) \cup {None}
    BY <1>2, <1>3, <1>4, <1>5 DEF ContractSound
  <2>2. \A b \in 1..Len(ended.attempts) : ended.attempts[b] = "training_complete" =>
          attempts[b].steps # {} /\ attempts[b].done
    BY <1>2, <1>3, <1>5 DEF ContractSound
  <2> QED BY <1>4, <1>5, <2>1, <2>2 DEF ContractSound
<1> HIDE DEF ended
<1> QED BY <1>1, <1>6, IdleSoundNext DEF QualifiedSound, ManifestSound

LEMMA ExportSound == QualifiedSound /\ Controller!ExportRun => QualifiedSound'
<1> SUFFICES ASSUME QualifiedSound, Controller!ExportRun PROVE QualifiedSound'
  OBVIOUS
<1>1. /\ UNCHANGED <<mode, quality, contract, attempts, onnx, evidence, manifest>>
      /\ contract # None
      /\ contract.exported # None \/ \E a \in DOMAIN attempts : Controller!Has(a)
      /\ job' = [at |-> "exporting", kind |-> "export", contract |-> contract,
                 checkpoint |-> IF contract.exported # None THEN contract.exported
                                ELSE Controller!Latest]
  BY DEF Controller!ExportRun
<1>2. AttemptsSound(attempts) /\ ContractSound(contract, attempts, quality)
  BY <1>1 DEF QualifiedSound
<1>3. /\ DOMAIN job' = {"at", "kind", "contract", "checkpoint"} /\ job'.at = "exporting"
      /\ job'.kind = "export" /\ job'.contract = contract
      /\ job'.checkpoint = IF contract.exported # None THEN contract.exported ELSE Controller!Latest
  BY <1>1
<1>4. job'.checkpoint \in Controller!Checkpoints
  BY <1>1, <1>2, <1>3, LatestOfRun DEF ContractSound
<1>5. WorkSound'
  BY <1>1, <1>2, <1>3, <1>4 DEF WorkSound
<1> QED BY <1>1, <1>2, <1>5 DEF QualifiedSound, ManifestSound

LEMMA CheckpointSound == QualifiedSound /\ Controller!ExportCheckpoint => QualifiedSound'
<1> SUFFICES ASSUME QualifiedSound, Controller!ExportCheckpoint PROVE QualifiedSound'
  OBVIOUS
<1> DEFINE to == CASE job.kind = "train" -> "recording"
                   [] job.kind = "export" -> "summing up"
                   [] job.kind = "select" -> "copying"
<1>1. /\ UNCHANGED <<mode, quality, contract, attempts, evidence, manifest>>
      /\ job.at = "exporting" /\ onnx' = job.checkpoint /\ job' = [job EXCEPT !.at = to]
  BY DEF Controller!ExportCheckpoint, Controller!At, Controller!Goes
<1>2. /\ DOMAIN job = {"at", "kind", "contract", "checkpoint"}
      /\ ContractSound(job.contract, attempts, quality)
           /\ job.checkpoint \in Controller!Checkpoints
      /\ job.kind \in {"train", "export", "select"}
      /\ job.kind = "select" => SelectedSound(job.checkpoint, attempts, quality)
  BY <1>1 DEF QualifiedSound, WorkSound
<1>3. /\ job.kind = "train" => to = "recording"
      /\ job.kind = "export" => to = "summing up"
      /\ job.kind = "select" => to = "copying"
  OBVIOUS
<1> HIDE DEF to
<1>4. /\ DOMAIN job' = {"at", "kind", "contract", "checkpoint"} /\ job'.at = to
      /\ job'.kind = job.kind /\ job'.contract = job.contract
           /\ job'.checkpoint = job.checkpoint
  BY <1>1, <1>2
<1>5. WorkSound'
  BY <1>1, <1>2, <1>3, <1>4 DEF WorkSound
<1> QED BY <1>1, <1>2, <1>5 DEF QualifiedSound, ManifestSound

LEMMA RecordSound == QualifiedSound /\ Controller!RecordExport => QualifiedSound'
<1> SUFFICES ASSUME QualifiedSound, Controller!RecordExport PROVE QualifiedSound'
  OBVIOUS
<1> DEFINE verdict_ == IF job.kind = "select" THEN "qualified_checkpoint_selected"
                       ELSE "exported_unqualified"
<1>1. /\ UNCHANGED <<mode, quality, attempts, onnx, evidence, manifest>>
      /\ job.at = "recording" /\ job' = [job EXCEPT !.at = "summing up"]
      /\ contract' = [job.contract EXCEPT !.exported = job.checkpoint, !.status = verdict_]
  BY DEF Controller!RecordExport, Controller!At, Controller!Goes
<1>2. /\ DOMAIN job = {"at", "kind", "contract", "checkpoint"}
      /\ ContractSound(job.contract, attempts, quality)
           /\ job.checkpoint \in Controller!Checkpoints
      /\ job.kind = "select" =>
           SelectedSound(job.checkpoint, attempts, quality) /\ onnx = job.checkpoint
  BY <1>1 DEF QualifiedSound, WorkSound
<1>3. verdict_ = "qualified_checkpoint_selected" => job.kind = "select"
  OBVIOUS
<1> HIDE DEF verdict_
<1>4. /\ DOMAIN contract' = {"status", "attempts", "selected", "exported"}
      /\ contract'.attempts = job.contract.attempts
           /\ contract'.selected = job.contract.selected
      /\ contract'.status = verdict_ /\ contract'.exported = job.checkpoint
  BY <1>1, <1>2 DEF ContractSound
<1>5. ContractSound(contract', attempts, quality)
  BY <1>2, <1>3, <1>4 DEF ContractSound
<1>6. /\ DOMAIN job' = {"at", "kind", "contract", "checkpoint"} /\ job'.at = "summing up"
      /\ job'.kind = job.kind /\ job'.checkpoint = job.checkpoint
  BY <1>1, <1>2
<1>7. WorkSound'
  BY <1>1, <1>2, <1>6 DEF WorkSound
<1> QED BY <1>1, <1>5, <1>7 DEF QualifiedSound, ManifestSound

LEMMA Passed ==
  ASSUME NEW c, Controller!Qualifies(c), mode \in {"smoke", "full"}
  PROVE  mode = "full" /\ quality[c] = {}
BY DEF Controller!Qualifies, Controller!Failures, Controller!OfMode

LEMMA SummarySound == QualifiedSound /\ Controller!WriteManifest => QualifiedSound'
<1> SUFFICES ASSUME QualifiedSound, Controller!WriteManifest PROVE QualifiedSound'
  OBVIOUS
<1> DEFINE earned == job.kind = "select" /\ Controller!Qualifies(job.checkpoint)
<1>1. /\ UNCHANGED <<mode, quality, contract, attempts, onnx, evidence>>
      /\ job.at = "summing up" /\ job' = Controller!Idle
      /\ manifest' = [controller |-> onnx, qualified |-> earned]
  BY DEF Controller!WriteManifest, Controller!At
<1>2. manifest'.qualified => earned
  BY <1>1
<1>3. earned => mode = "full" /\ quality[job.checkpoint] = {} /\ onnx = job.checkpoint
  BY <1>1, Passed DEF QualifiedSound, WorkSound
<1>4. manifest'.controller = onnx
  BY <1>1
<1>5. ManifestSound'
  BY <1>1, <1>2, <1>3, <1>4 DEF ManifestSound
<1> QED BY <1>1, <1>5, IdleSoundNext DEF QualifiedSound

LEMMA QualifySound == QualifiedSound /\ Controller!QualifyRun => QualifiedSound'
<1> SUFFICES ASSUME QualifiedSound, Controller!QualifyRun PROVE QualifiedSound'
  OBVIOUS
<1> DEFINE earned == Controller!Qualifies(evidence)
<1>1. /\ UNCHANGED <<mode, quality, contract, attempts, onnx, evidence, job>> /\ evidence = onnx
      /\ manifest' = [controller |-> onnx, qualified |-> earned]
  BY DEF Controller!QualifyRun, Controller!Bound
<1>2. manifest'.qualified => earned
  BY <1>1
<1>3. earned => mode = "full" /\ quality[evidence] = {}
  BY Passed DEF QualifiedSound
<1>4. manifest'.controller = onnx
  BY <1>1
<1>5. ManifestSound'
  BY <1>1, <1>2, <1>3, <1>4 DEF ManifestSound
<1>6. WorkSound'
  BY <1>1 DEF QualifiedSound, WorkSound, Controller!Completed, Controller!Has
<1> QED BY <1>1, <1>5, <1>6 DEF QualifiedSound

LEMMA MeasureSound == QualifiedSound /\ Controller!MeasureController => QualifiedSound'
<1> SUFFICES ASSUME QualifiedSound, Controller!MeasureController PROVE QualifiedSound'
  OBVIOUS
<1>1. UNCHANGED <<mode, quality, contract, attempts, onnx, manifest, job>> /\ evidence' = onnx
  BY DEF Controller!MeasureController
<1>2. WorkSound'
  BY <1>1 DEF QualifiedSound, WorkSound, Controller!Completed, Controller!Has
<1> QED BY <1>1, <1>2 DEF QualifiedSound, ManifestSound

LEMMA CopySound == QualifiedSound /\ Controller!CopyEvidence => QualifiedSound'
<1> SUFFICES ASSUME QualifiedSound, Controller!CopyEvidence PROVE QualifiedSound'
  OBVIOUS
<1>1. /\ UNCHANGED <<mode, quality, contract, attempts, onnx, manifest>>
      /\ job.at = "copying" /\ evidence' = job.checkpoint
           /\ job' = [job EXCEPT !.at = "recording"]
  BY DEF Controller!CopyEvidence, Controller!At, Controller!Goes
<1>2. /\ DOMAIN job = {"at", "kind", "contract", "checkpoint"} /\ job.kind = "select"
      /\ ContractSound(job.contract, attempts, quality)
           /\ job.checkpoint \in Controller!Checkpoints
      /\ SelectedSound(job.checkpoint, attempts, quality) /\ onnx = job.checkpoint
  BY <1>1 DEF QualifiedSound, WorkSound
<1>3. /\ DOMAIN job' = {"at", "kind", "contract", "checkpoint"} /\ job'.at = "recording"
      /\ job'.kind = job.kind /\ job'.contract = job.contract
           /\ job'.checkpoint = job.checkpoint
  BY <1>1, <1>2
<1>4. WorkSound'
  BY <1>1, <1>2, <1>3 DEF WorkSound
<1> QED BY <1>1, <1>2, <1>4 DEF QualifiedSound, ManifestSound

LEMMA SelectSound ==
  ASSUME QualifiedSound, NEW c \in Controller!Checkpoints, NEW provided \in SUBSET Steps,
         Controller!SelectCheckpoint(c, provided)
  PROVE  QualifiedSound'
<1>1. /\ UNCHANGED <<mode, quality, contract, attempts, onnx, evidence, manifest>>
      /\ contract # None /\ mode = "full" /\ contract.attempts[c[1]] = "training_complete"
      /\ c[2] \in attempts[c[1]].steps /\ Controller!Qualifies(c)
      /\ \A s \in provided : s > c[2] /\ ~Controller!Qualifies(<<c[1], s>>)
      /\ provided = Controller!Later(c)
      /\ job' = [at |-> "exporting", kind |-> "select", contract |-> contract, checkpoint |-> c]
      /\ contract.selected = c[1]
  BY DEF Controller!SelectCheckpoint, Controller!AllLater
<1>2. AttemptsSound(attempts) /\ ContractSound(contract, attempts, quality)
  BY <1>1 DEF QualifiedSound
<1>3. c[1] \in 1..Len(attempts) /\ attempts[c[1]].done
  <2>1. c[1] # None
    BY ControllerNumbers DEF Controller!Checkpoints
  <2>2. c[1] \in 1..Len(contract.attempts) /\ Len(contract.attempts) <= Len(attempts)
    BY <1>1, <1>2, <2>1 DEF ContractSound
  <2>3. Len(contract.attempts) \in Nat /\ Len(attempts) \in Nat
    BY <1>2 DEF ContractSound, AttemptsSound
  <2> QED BY <1>1, <1>2, <2>2, <2>3 DEF ContractSound
<1>4. SelectedSound(c, attempts, quality)
  <2>1. quality[c] = {}
    BY <1>1, Passed
  <2>2. \A s \in attempts[c[1]].steps : s > c[2] => ~Controller!Qualifies(<<c[1], s>>)
    BY <1>1 DEF Controller!Later
  <2>3. \A s \in attempts[c[1]].steps : s > c[2] => quality[<<c[1], s>>] # {}
    BY <1>1, <2>2 DEF Controller!Qualifies, Controller!Failures, Controller!OfMode
  <2> QED BY <1>3, <2>1, <2>3 DEF SelectedSound
<1>5. /\ DOMAIN job' = {"at", "kind", "contract", "checkpoint"} /\ job'.at = "exporting"
      /\ job'.kind = "select" /\ job'.contract = contract /\ job'.checkpoint = c
  BY <1>1
<1>6. WorkSound'
  BY <1>1, <1>2, <1>4, <1>5 DEF WorkSound
<1> QED BY <1>1, <1>2, <1>6 DEF QualifiedSound, ManifestSound

LEMMA ControllerCrash == QualifiedSound /\ Controller!Crash => QualifiedSound'
BY IdleSoundNext DEF Controller!Crash, QualifiedSound, ManifestSound

LEMMA NothingQualified == QualifiedSound /\ UNCHANGED controllerVars => QualifiedSound'
<1> SUFFICES ASSUME QualifiedSound, UNCHANGED controllerVars PROVE QualifiedSound'
  OBVIOUS
<1>1. UNCHANGED <<mode, quality, contract, attempts, onnx, evidence, manifest, job>>
  BY DEF controllerVars
<1>2. WorkSound'
  BY <1>1 DEF QualifiedSound, WorkSound, Controller!Completed, Controller!Has
<1> QED BY <1>1, <1>2 DEF QualifiedSound, ManifestSound

LEMMA ControllerStays == QualifiedSound /\ [Controller!Next]_controllerVars => QualifiedSound'
BY NothingQualified, TrainingSound, RecoverSound, MakeSound, AttemptBegins, SaveSound,
   LogSound, AttemptEnds,
   FailSound, ExportSound, CheckpointSound, RecordSound, SummarySound, MeasureSound,
   QualifySound,
   SelectSound, CopySound, ControllerCrash DEF Controller!Next

\* Only MakeAttempt makes one.
LEMMA AttemptEarned == QualifiedSound /\ Controller!Next => Controller!AttemptStep
<1> SUFFICES ASSUME QualifiedSound, Controller!Next PROVE Controller!AttemptStep
  OBVIOUS
<1>0. Len(attempts) \in Nat
  BY DEF QualifiedSound, AttemptsSound
<1>1. CASE Controller!MakeAttempt
  BY <1>1, MakeOnlyWhenNone
<1>2. CASE (\E s \in Steps : Controller!SaveCheckpoint(s)) \/ Controller!EndLog
  <2>1. Len(attempts') = Len(attempts)
    BY <1>2, UnderWay DEF Controller!SaveCheckpoint, Controller!EndLog, Controller!At
  <2> QED BY <1>0, <2>1 DEF Controller!AttemptStep
<1>3. CASE ~Controller!MakeAttempt
        /\ ~((\E s \in Steps : Controller!SaveCheckpoint(s)) \/ Controller!EndLog)
  <2>1. UNCHANGED attempts
    BY <1>3 DEF Controller!Next, Controller!RunTraining, Controller!RecoverAttempts,
       Controller!BeginAttempt, Controller!FinishAttempt, Controller!FailAttempt,
       Controller!ExportRun, Controller!ExportCheckpoint, Controller!RecordExport,
       Controller!WriteManifest, Controller!MeasureController, Controller!QualifyRun,
       Controller!SelectCheckpoint, Controller!CopyEvidence, Controller!Crash
  <2> QED BY <1>0, <2>1 DEF Controller!AttemptStep
<1> QED BY <1>1, <1>2, <1>3

LEMMA ControllerAlways == SideSpec => [](subject = "controller" => QualifiedSound)
<1> DEFINE Inv == subject = "controller" => QualifiedSound
<1>1. SideInit => Inv
  BY ControllerStarts DEF SideInit, ControllerInit
<1>2. Inv /\ [SideNext]_sideVars => Inv'
  <2> SUFFICES ASSUME Inv, [SideNext]_sideVars, subject' = "controller" PROVE QualifiedSound'
    OBVIOUS
  <2>1. subject = "controller" /\ [Controller!Next]_controllerVars
    BY ControllerFrame
  <2> QED BY <2>1, ControllerStays
<1> QED BY <1>1, <1>2, PTL DEF SideSpec

\* Through any crashes and retries, the contract, the exported controller and the
\* manifest claim a checkpoint only if its attempt ended, it was measured to pass and
\* every later one of the attempt failed (ops/controller/contract.py:254).
THEOREM ControllerAlwaysEarned == SideSpec => []ControllerEarned
<1>1. (subject = "controller" => QualifiedSound) => ControllerEarned
  BY QualifiedImplies DEF ControllerEarned
<1> QED BY <1>1, ControllerAlways, PTL

\* An attempt that completed is never trained again or replaced
\* (ops/controller/remote_job.py:274).
THEOREM CompleteNeverTrainedAgain == SideSpec => TrainedOnce
<1>1. (subject = "controller" => QualifiedSound) /\ [SideNext]_sideVars
        => [subject = "controller" => Controller!AttemptStep]_controllerVars
  BY ControllerFrame, AttemptEarned
<1> QED BY <1>1, ControllerAlways, PTL DEF SideSpec, TrainedOnce

-----------------------------------------------------------------------------
(* The promotion gate.                                                     *)

LEMMA GateFrame ==
  [SideNext]_sideVars =>
     \/ subject = "gate" /\ Gate!Next /\ UNCHANGED subject
     \/ UNCHANGED <<subject, gateVars>>
BY DEF SideNext, sideVars, TrainingStep, GateStep, DeliveryStep, SupervisorStep, HeldOutStep,
   SandboxStep, ControllerStep, HttpStep, PathsStep

\* The artifact's decision is the gate's, and the review's verdict its own formula's.
GateSound ==
  /\ Gate!TypeOK
  /\ decision # "none" =>
       (decision = "promotable" <=> Gate!Promotable(pair.baseline, pair.candidate))
  /\ imported # "none" => decision # "none"
  /\ verdict # "none" => decision # "none"
  /\ verdict = "promote" => Gate!PassesPromotionGate(Gate!GateMetrics(pair))
  /\ verdict = "hold" => ~ Gate!PassesPromotionGate(Gate!GateMetrics(pair))

LEMMA PairTyped ==
  ASSUME pair \in [baseline : Gate!Measures, candidate : Gate!Measures]
  PROVE  /\ pair.baseline.successes \in 0..20 /\ pair.candidate.successes \in 0..20
         /\ pair.baseline.collisions \in Nat /\ pair.candidate.collisions \in Nat
         /\ pair.baseline \in Gate!Measures /\ pair.candidate \in Gate!Measures
BY GateAssumption DEF Gate!Measures

\* Both implementations of the gate read the same counts the same way.
LEMMA OneGate ==
  ASSUME pair \in [baseline : Gate!Measures, candidate : Gate!Measures]
  PROVE  Gate!PassesPromotionGate(Gate!GateMetrics(pair))
           <=> Gate!Promotable(pair.baseline, pair.candidate)
<1> DEFINE b == pair.baseline
           c == pair.candidate
           m == Gate!GateMetrics(pair)
<1>1. /\ Gate!Summary(b).successes = Gate!Rate[b.successes]
      /\ Gate!Summary(b).collisions = b.collisions /\ Gate!Summary(b).falls = b.falls
      /\ Gate!Summary(b).clearance = b.clearance /\ Gate!Summary(b).efficiency = b.efficiency
      /\ Gate!Summary(c).successes = Gate!Rate[c.successes]
      /\ Gate!Summary(c).collisions = c.collisions /\ Gate!Summary(c).falls = c.falls
      /\ Gate!Summary(c).clearance = c.clearance /\ Gate!Summary(c).efficiency = c.efficiency
  BY PairTyped DEF Gate!Summary, Gate!Measures
<1>2. /\ m.success = Gate!Rate[c.successes] /\ m.collisions = c.collisions
      /\ m.falls = c.falls /\ m.clearance = c.clearance
      /\ m.delta = Gate!Minus(Gate!Rate[c.successes], Gate!Rate[b.successes])
      /\ m.regression = Gate!RegressionWithin(b, c)
      /\ m.fewer = IF b.collisions = 0 THEN FALSE
                   ELSE 2 * (b.collisions - c.collisions) >= b.collisions
  BY DEF Gate!GateMetrics
<1>3. b.collisions \in Nat /\ c.collisions \in Nat
  BY PairTyped
<1>4. m.fewer <=> Gate!FewerCollisions(b, c)
  <2>1. m.fewer <=> b.collisions # 0 /\ 2 * (b.collisions - c.collisions) >= b.collisions
    BY <1>2
  <2>2. Gate!FewerCollisions(b, c)
          <=> b.collisions > 0 /\ 2 * c.collisions <= b.collisions
    BY DEF Gate!FewerCollisions
  <2>3. \A x, y \in Nat : (x # 0 /\ 2 * (x - y) >= x) <=> (x > 0 /\ 2 * y <= x)
    OBVIOUS
  <2> HIDE DEF m
  <2> QED BY <1>3, <2>1, <2>2, <2>3
<1>5. m.regression <=> Gate!RegressionWithin(b, c)
  BY <1>2
<1> HIDE DEF m
<1> DEFINE Counted == /\ ~ Gate!Below(Gate!Rate[c.successes], Gate!Rate[16])
                      /\ c.falls = 0 /\ c.collisions <= 2 /\ c.clearance >= 25
           Gained == ~ Gate!Below(Gate!Minus(Gate!Rate[c.successes], Gate!Rate[b.successes]),
                                  Gate!Rate[4])
<1>6. Gate!Promotable(b, c) <=>
        /\ Counted
        /\ Gained \/ Gate!FewerCollisions(b, c)
        /\ Gate!RegressionWithin(b, c)
  <2>1. Gate!Promotable(b, c) <=>
          /\ ~ Gate!Below(Gate!Summary(c).successes, Gate!Rate[16])
          /\ Gate!Summary(c).falls = 0
          /\ Gate!Summary(c).collisions <= 2
          /\ Gate!Summary(c).clearance >= 25
          /\ \/ ~ Gate!Below(Gate!Minus(Gate!Summary(c).successes, Gate!Summary(b).successes),
                             Gate!Rate[4])
             \/ Gate!FewerCollisions(b, c)
          /\ Gate!RegressionWithin(b, c)
    BY DEF Gate!Promotable
  <2> QED BY <1>1, <2>1, Zenon
<1>7. Gate!PassesPromotionGate(m) <=> Counted /\ (Gained \/ m.fewer) /\ m.regression
  BY <1>2, Zenon DEF Gate!PassesPromotionGate
<1> HIDE DEF Counted, Gained
<1> QED BY <1>4, <1>5, <1>6, <1>7, Zenon DEF m

\* Rounding never lets a count through: a rate not below another has not the lower count.
LEMMA RatesCount ==
  ASSUME NEW s \in 0..20, NEW t \in 0..20
  PROVE  /\ ~ Gate!Below(Gate!Rate[s], Gate!Rate[t]) => s >= t
         /\ \A u \in 0..20 :
              ~ Gate!Below(Gate!Minus(Gate!Rate[s], Gate!Rate[u]), Gate!Rate[t]) => s - u >= t
<1>1. \A k \in 0..20 : Gate!Rate[k].k = k
  BY DEF Gate!Rate, Gate!Worlds
<1>2. \A x, y : Gate!Minus(x, y).k = x.k - y.k
  BY DEF Gate!Minus
<1>3. \A x, y : ~ Gate!Below(x, y) => ~(x.k < y.k)
  BY DEF Gate!Below
<1>4. ASSUME ~ Gate!Below(Gate!Rate[s], Gate!Rate[t]) PROVE s >= t
  <2>1. ~(Gate!Rate[s].k < Gate!Rate[t].k)
    BY <1>3, <1>4
  <2>2. Gate!Rate[s].k = s /\ Gate!Rate[t].k = t
    BY <1>1
  <2> QED BY <2>1, <2>2
<1>5. ASSUME NEW u \in 0..20,
             ~ Gate!Below(Gate!Minus(Gate!Rate[s], Gate!Rate[u]), Gate!Rate[t])
      PROVE  s - u >= t
  <2>1. ~(Gate!Minus(Gate!Rate[s], Gate!Rate[u]).k < Gate!Rate[t].k)
    BY <1>3, <1>5
  <2>2. Gate!Rate[s].k = s /\ Gate!Rate[t].k = t /\ Gate!Rate[u].k = u
    BY <1>1
  <2>3. ~(s - u < t)
    BY <1>2, <2>1, <2>2
  <2> QED BY <2>3
<1> QED BY <1>4, <1>5

LEMMA PromotableIsDocumented ==
  ASSUME pair \in [baseline : Gate!Measures, candidate : Gate!Measures],
         Gate!Promotable(pair.baseline, pair.candidate)
  PROVE  Gate!Documented(pair.baseline, pair.candidate)
<1> DEFINE b == pair.baseline
           c == pair.candidate
<1>1. /\ Gate!Summary(b).successes = Gate!Rate[b.successes]
      /\ Gate!Summary(b).collisions = b.collisions /\ Gate!Summary(b).efficiency = b.efficiency
      /\ Gate!Summary(c).successes = Gate!Rate[c.successes]
      /\ Gate!Summary(c).collisions = c.collisions /\ Gate!Summary(c).falls = c.falls
      /\ Gate!Summary(c).clearance = c.clearance /\ Gate!Summary(c).efficiency = c.efficiency
  BY PairTyped DEF Gate!Summary, Gate!Measures
<1>2. /\ ~ Gate!Below(Gate!Rate[c.successes], Gate!Rate[16])
      /\ c.falls = 0 /\ c.collisions <= 2 /\ c.clearance >= 25
      /\ \/ ~ Gate!Below(Gate!Minus(Gate!Rate[c.successes], Gate!Rate[b.successes]), Gate!Rate[4])
         \/ Gate!FewerCollisions(b, c)
      /\ Gate!RegressionWithin(b, c)
  BY <1>1 DEF Gate!Promotable, Gate!FewerCollisions, Gate!RegressionWithin
<1>3. b.successes \in 0..20 /\ c.successes \in 0..20 /\ c.collisions \in Nat
  BY PairTyped
<1>4. c.successes >= 16
  <2>1. 16 \in 0..20
    OBVIOUS
  <2>2. ~ Gate!Below(Gate!Rate[c.successes], Gate!Rate[16])
    BY <1>2
  <2> QED BY <1>3, <2>1, <2>2, RatesCount
<1>5. Gate!TwentyPointsMore(b, c) \/ Gate!FewerCollisions(b, c)
  <2> SUFFICES ASSUME ~ Gate!FewerCollisions(b, c) PROVE c.successes - b.successes >= 4
    BY DEF Gate!TwentyPointsMore
  <2>1. 4 \in 0..20
    OBVIOUS
  <2>2. ~ Gate!Below(Gate!Minus(Gate!Rate[c.successes], Gate!Rate[b.successes]), Gate!Rate[4])
    BY <1>2
  <2> QED BY <1>3, <2>1, <2>2, RatesCount
<1>6. 5 * c.successes >= 4 * Gate!Worlds /\ 10 * c.collisions <= Gate!Worlds
  BY <1>2, <1>3, <1>4 DEF Gate!Worlds
<1> QED BY <1>2, <1>5, <1>6 DEF Gate!Documented

LEMMA GateBegins == ASSUME Gate!Init PROVE GateSound
<1>1. pair \in [baseline : Gate!Measures, candidate : Gate!Measures]
  BY GateAssumption DEF Gate!Init, Gate!Measures
<1> QED BY <1>1 DEF Gate!Init, GateSound, Gate!TypeOK

LEMMA GateKept == ASSUME GateSound, Gate!Next PROVE GateSound'
<1>1. CASE Gate!Decide
  BY <1>1 DEF GateSound, Gate!TypeOK, Gate!Decide
<1>2. CASE Gate!Import
  BY <1>2 DEF GateSound, Gate!TypeOK, Gate!Import
<1>3. CASE Gate!Review
  <2>1. decision # "none"
    BY <1>3 DEF GateSound, Gate!TypeOK, Gate!Review
  <2>2. /\ UNCHANGED <<pair, decision, imported>>
        /\ verdict' = IF Gate!PassesPromotionGate(Gate!GateMetrics(pair)) THEN "promote" ELSE "hold"
    BY <1>3 DEF Gate!Review
  <2>3. Gate!TypeOK'
    BY <2>2 DEF GateSound, Gate!TypeOK
  <2>4. /\ verdict' = "promote" => Gate!PassesPromotionGate(Gate!GateMetrics(pair))
        /\ verdict' = "hold" => ~ Gate!PassesPromotionGate(Gate!GateMetrics(pair))
    BY <2>2
  <2>5. pair' = pair /\ decision' = decision
    BY <2>2
  <2> QED BY <2>1, <2>3, <2>4, <2>5 DEF GateSound
<1> QED BY <1>1, <1>2, <1>3 DEF Gate!Next

\* For any counts over the twenty worlds, a review promotes exactly what the artifact
\* calls promotable, though it measures it again with another formula, and rounding
\* never lets through what the documented gate refuses (promotion.py:98).
THEOREM VerdictsAlwaysAgree == SideSpec => []VerdictsAgree
<1> DEFINE Inv == subject = "gate" => GateSound
<1>1. SideInit => Inv
  BY GateBegins DEF SideInit, GateInit
<1>2. Inv /\ [SideNext]_sideVars => Inv'
  <2> SUFFICES ASSUME Inv, [SideNext]_sideVars, subject' = "gate" PROVE GateSound'
    OBVIOUS
  <2>1. CASE subject = "gate" /\ Gate!Next /\ UNCHANGED subject
    BY <2>1, GateKept
  <2>2. CASE UNCHANGED <<subject, gateVars>>
    <3>1. GateSound /\ UNCHANGED <<pair, decision, imported, verdict>>
      BY <2>2 DEF gateVars
    <3> QED BY <3>1 DEF GateSound, Gate!TypeOK
  <2> QED BY <2>1, <2>2, GateFrame
<1>3. Inv => VerdictsAgree
  <2> SUFFICES ASSUME GateSound PROVE Gate!TypeOK /\ Gate!VerdictsAgree
    BY DEF VerdictsAgree
  <2>1. pair \in [baseline : Gate!Measures, candidate : Gate!Measures]
        /\ verdict \in {"none", "promote", "hold"}
    BY DEF GateSound, Gate!TypeOK
  <2>2. Gate!PassesPromotionGate(Gate!GateMetrics(pair))
          <=> Gate!Promotable(pair.baseline, pair.candidate)
    BY <2>1, OneGate
  <2>3. Gate!Promotable(pair.baseline, pair.candidate)
          => Gate!Documented(pair.baseline, pair.candidate)
    BY <2>1, PromotableIsDocumented
  <2> QED BY <2>1, <2>2, <2>3 DEF GateSound, Gate!VerdictsAgree
<1> QED BY <1>1, <1>2, <1>3, PTL DEF SideSpec

-----------------------------------------------------------------------------
(* World generation.                                                       *)

\* Moves on the grid.
Apart(a, b) == IF a >= b THEN a - b ELSE b - a

LEMMA MaxOfTwo ==
  ASSUME NEW a \in Int, NEW b \in Int
  PROVE  Paths!Max({a, b}) = IF a >= b THEN a ELSE b
<1> DEFINE largest == Paths!Max({a, b})
<1>1. \E x \in {a, b} : \A y \in {a, b} : x >= y
  OBVIOUS
<1>2. largest \in {a, b} /\ \A y \in {a, b} : largest >= y
  BY <1>1 DEF Paths!Max
<1>3. (largest = a \/ largest = b) /\ largest >= a /\ largest >= b
  BY <1>2
<1> HIDE DEF largest
<1>4. largest = IF a >= b THEN a ELSE b
  BY <1>3
<1> QED BY <1>4 DEF largest

LEMMA ManhattanIs ==
  ASSUME NEW c \in Int \X Int, NEW d \in Int \X Int
  PROVE  /\ Paths!Manhattan(c, d) = Apart(c[1], d[1]) + Apart(c[2], d[2])
         /\ Paths!Manhattan(c, d) \in Nat
<1>1. c[1] \in Int /\ c[2] \in Int /\ d[1] \in Int /\ d[2] \in Int
  OBVIOUS
<1>2. \A a, b \in Int : Paths!Max({a - b, b - a}) = Apart(a, b) /\ Apart(a, b) \in Nat
  <2> TAKE a \in Int, b \in Int
  <2>1. Paths!Max({a - b, b - a}) = IF a - b >= b - a THEN a - b ELSE b - a
    BY MaxOfTwo
  <2> QED BY <2>1 DEF Apart
<1>3. Paths!Manhattan(c, d) = Apart(c[1], d[1]) + Apart(c[2], d[2])
  BY <1>1, <1>2 DEF Paths!Manhattan
<1>4. Apart(c[1], d[1]) \in Nat /\ Apart(c[2], d[2]) \in Nat
  BY <1>1, <1>2
<1> QED BY <1>3, <1>4

LEMMA Moves ==
  ASSUME NEW c \in Int \X Int, NEW n \in Paths!Neighbours(c)
  PROVE  n \in Int \X Int /\ n # c
BY DEF Paths!Neighbours

\* A move takes the estimate up or down by one.
LEMMA Estimates ==
  ASSUME NEW c \in Int \X Int, NEW n \in Paths!Neighbours(c), NEW d \in Int \X Int
  PROVE  /\ Paths!Manhattan(c, c) = 0 /\ Paths!Manhattan(c, n) = 1
         /\ Paths!Manhattan(d, n) <= Paths!Manhattan(d, c) + 1
<1>1. n \in Int \X Int
  BY Moves
<1>2. \/ n[1] = c[1] + 1 /\ n[2] = c[2]
      \/ n[1] = c[1] /\ n[2] = c[2] + 1
      \/ n[1] = c[1] - 1 /\ n[2] = c[2]
      \/ n[1] = c[1] /\ n[2] = c[2] - 1
  BY DEF Paths!Neighbours
<1>3. /\ c[1] \in Int /\ c[2] \in Int /\ d[1] \in Int /\ d[2] \in Int
      /\ n[1] \in Int /\ n[2] \in Int
  BY <1>1
<1>4. /\ Paths!Manhattan(c, c) = Apart(c[1], c[1]) + Apart(c[2], c[2])
      /\ Paths!Manhattan(c, n) = Apart(c[1], n[1]) + Apart(c[2], n[2])
      /\ Paths!Manhattan(d, n) = Apart(d[1], n[1]) + Apart(d[2], n[2])
      /\ Paths!Manhattan(d, c) = Apart(d[1], c[1]) + Apart(d[2], c[2])
  BY <1>1, ManhattanIs
<1>5. \A a, b \in Int : /\ Apart(a, a) = 0 /\ Apart(a, a + 1) = 1 /\ Apart(a, a - 1) = 1
                        /\ Apart(a, b + 1) <= Apart(a, b) + 1
                        /\ Apart(a, b - 1) <= Apart(a, b) + 1
                        /\ Apart(a, b) \in Int
  BY DEF Apart
<1> HIDE DEF Apart
<1>6. Paths!Manhattan(c, c) = 0
  BY <1>3, <1>4, <1>5
<1>7. Paths!Manhattan(c, n) = 1
  <2>1. (Apart(c[1], n[1]) = 1 /\ n[2] = c[2]) \/ (n[1] = c[1] /\ Apart(c[2], n[2]) = 1)
    BY <1>2, <1>3, <1>5
  <2>2. Apart(c[1], c[1]) = 0 /\ Apart(c[2], c[2]) = 0
    BY <1>3, <1>5
  <2> QED BY <1>4, <2>1, <2>2
<1>8. \/ Apart(d[1], n[1]) <= Apart(d[1], c[1]) + 1 /\ n[2] = c[2]
      \/ Apart(d[2], n[2]) <= Apart(d[2], c[2]) + 1 /\ n[1] = c[1]
  BY <1>2, <1>3, <1>5
<1>9. /\ Apart(d[1], n[1]) \in Int /\ Apart(d[1], c[1]) \in Int
      /\ Apart(d[2], n[2]) \in Int /\ Apart(d[2], c[2]) \in Int
  BY <1>3, <1>5
<1>10. Paths!Manhattan(d, n) <= Paths!Manhattan(d, c) + 1
  BY <1>4, <1>8, <1>9
<1> QED BY <1>6, <1>7, <1>10

\* The least entry of the heap.
LEMMA LeastBy ==
  ASSUME NEW S, S # {}, NEW h, \A x \in S : h[x] \in Nat
  PROVE  \E x \in S : \A y \in S : h[x] <= h[y]
<1> DEFINE values == {h[x] : x \in S}
<1>1. values \subseteq Nat /\ values # {}
  OBVIOUS
<1>2. PICK least \in values : \A v \in values : least <= v
  BY <1>1, LeastElement
<1>3. PICK x \in S : least = h[x]
  BY <1>2
<1> QED BY <1>2, <1>3

LEMMA LeastEntry ==
  ASSUME NEW heap, heap # {}, heap \subseteq Nat \X Nat \X (Nat \X Nat)
  PROVE  \E a \in heap : \A b \in heap \ {a} : Paths!Precedes(a, b)
<1> DEFINE second == {e \in heap : \A b \in heap : e[1] <= b[1]}
           third == {e \in second : \A b \in second : e[2] <= b[2]}
           fourth == {e \in third : \A b \in third : e[3][1] <= b[3][1]}
           last == {e \in fourth : \A b \in fourth : e[3][2] <= b[3][2]}
<1>0. \A e \in heap : /\ e[1] \in Nat /\ e[2] \in Nat /\ e[3][1] \in Nat /\ e[3][2] \in Nat
                      /\ e = <<e[1], e[2], <<e[3][1], e[3][2]>> >>
  OBVIOUS
<1>1. second # {} /\ second \subseteq heap
  <2>1. PICK e \in heap : \A b \in heap : [x \in heap |-> x[1]][e] <= [x \in heap |-> x[1]][b]
    BY <1>0, LeastBy
  <2>2. e \in second
    BY <2>1
  <2> QED BY <2>2
<1>2. third # {} /\ third \subseteq second
  <2> HIDE DEF second
  <2>1. PICK e \in second :
          \A b \in second : [x \in second |-> x[2]][e] <= [x \in second |-> x[2]][b]
    BY <1>0, <1>1, LeastBy
  <2>2. e \in third
    BY <2>1
  <2> QED BY <2>2
<1>3. fourth # {} /\ fourth \subseteq third
  <2> HIDE DEF second, third
  <2>1. PICK e \in third :
          \A b \in third : [x \in third |-> x[3][1]][e] <= [x \in third |-> x[3][1]][b]
    BY <1>0, <1>1, <1>2, LeastBy
  <2>2. e \in fourth
    BY <2>1
  <2> QED BY <2>2
<1>4. last # {} /\ last \subseteq fourth
  <2> HIDE DEF second, third, fourth
  <2>1. PICK e \in fourth :
          \A b \in fourth : [x \in fourth |-> x[3][2]][e] <= [x \in fourth |-> x[3][2]][b]
    BY <1>0, <1>1, <1>2, <1>3, LeastBy
  <2>2. e \in last
    BY <2>1
  <2> QED BY <2>2
<1>5. PICK a \in last : TRUE
  BY <1>4
<1>6. a \in heap /\ a \in second /\ a \in third /\ a \in fourth
  BY <1>1, <1>2, <1>3, <1>4, <1>5
<1>7. ASSUME NEW b \in heap \ {a} PROVE Paths!Precedes(a, b)
  <2> DEFINE key(e) == <<e[1], e[2], e[3][1], e[3][2]>>
  <2>0. /\ a[1] \in Nat /\ a[2] \in Nat /\ a[3][1] \in Nat /\ a[3][2] \in Nat
        /\ b[1] \in Nat /\ b[2] \in Nat /\ b[3][1] \in Nat /\ b[3][2] \in Nat
        /\ a = <<a[1], a[2], <<a[3][1], a[3][2]>> >>
        /\ b = <<b[1], b[2], <<b[3][1], b[3][2]>> >>
    BY <1>0, <1>6
  <2>1. CASE b \notin second
    <3>1. a[1] < b[1]
      <4>1. PICK e \in heap : ~(b[1] <= e[1])
        BY <2>1
      <4>2. a[1] <= e[1] /\ e[1] \in Nat
        BY <1>0, <1>6
      <4> QED BY <2>0, <4>1, <4>2
    <3> QED BY <3>1 DEF Paths!Precedes
  <2>2. CASE b \in second \ third
    <3>1. a[1] = b[1]
      BY <1>6, <2>0, <2>2
    <3>2. a[2] < b[2]
      <4>1. PICK e \in second : ~(b[2] <= e[2])
        BY <2>2
      <4>2. a[2] <= e[2] /\ e[2] \in Nat
        BY <1>0, <1>6
      <4> QED BY <2>0, <4>1, <4>2
    <3> QED BY <3>1, <3>2 DEF Paths!Precedes
  <2>3. CASE b \in third \ fourth
    <3>0. b \in second
      BY <2>3
    <3>1. a[1] = b[1] /\ a[2] = b[2]
      BY <1>6, <2>0, <2>3, <3>0
    <3>2. a[3][1] < b[3][1]
      <4>1. PICK e \in third : ~(b[3][1] <= e[3][1])
        BY <2>3
      <4>2. a[3][1] <= e[3][1] /\ e[3][1] \in Nat
        BY <1>0, <1>6
      <4> QED BY <2>0, <4>1, <4>2
    <3> QED BY <3>1, <3>2 DEF Paths!Precedes
  <2>4. CASE b \in fourth
    <3>0. b \in second /\ b \in third
      BY <2>4
    <3>1. a[1] = b[1] /\ a[2] = b[2] /\ a[3][1] = b[3][1]
      BY <1>6, <2>0, <2>4, <3>0
    <3>2. a[3][2] <= b[3][2] /\ a[3][2] # b[3][2]
      BY <1>5, <2>0, <2>4, <3>1
    <3> QED BY <2>0, <3>1, <3>2 DEF Paths!Precedes
  <2> QED BY <2>1, <2>2, <2>3, <2>4
<1> QED BY <1>6, <1>7

\* What precedes has no greater priority.
LEMMA PriorityFirst ==
  ASSUME NEW a \in Nat \X Nat \X (Nat \X Nat), NEW b \in Nat \X Nat \X (Nat \X Nat),
         Paths!Precedes(a, b)
  PROVE  a[1] <= b[1]
<1>1. a[1] \in Nat /\ b[1] \in Nat
  OBVIOUS
<1>2. PICK i \in 1..4 :
        /\ <<a[1], a[2], a[3][1], a[3][2]>>[i] < <<b[1], b[2], b[3][1], b[3][2]>>[i]
        /\ \A j \in 1 .. i - 1 : <<a[1], a[2], a[3][1], a[3][2]>>[j]
                                  = <<b[1], b[2], b[3][1], b[3][2]>>[j]
  BY DEF Paths!Precedes
<1>3. CASE i = 1
  BY <1>1, <1>2, <1>3
<1>4. CASE i # 1
  <2>1. 1 \in 1 .. i - 1
    BY <1>4
  <2> QED BY <1>1, <1>2, <2>1
<1> QED BY <1>3, <1>4
\* What the search keeps of the cells it has reached: each has a cost, that of a
\* walk back to the start by came_from or more (CostsSound); the heap's entries cost
\* what their cell did once (HeapSound); and a cell that has no current entry was
\* expanded at its cost, so that none of its neighbours costs more than a move
\* further (ExpandedSound), where a cell without entry is not the destination.
Key(cost, c, goal) == <<cost + Paths!Manhattan(c, goal), cost, c>>
CostsSound(free, s, costs, from) ==
  /\ s \in DOMAIN costs /\ DOMAIN costs \subseteq free /\ DOMAIN from = DOMAIN costs
  /\ costs \in [DOMAIN costs -> Nat]
  /\ costs[s] = 0 /\ from[s] = None
  /\ \A c \in DOMAIN costs \ {s} :
       /\ from[c] \in DOMAIN costs /\ c \in Paths!Neighbours(from[c])
       /\ costs[from[c]] + 1 <= costs[c]
HeapSound(goal, costs, heap) ==
  \A e \in heap : /\ e[3] \in DOMAIN costs /\ e[2] \in Nat /\ costs[e[3]] <= e[2]
                  /\ e = Key(e[2], e[3], goal)
Expanded(free, costs, c) ==
  \A n \in Paths!Neighbours(c) : n \in free => n \in DOMAIN costs /\ costs[n] <= costs[c] + 1
ExpandedSound(free, goal, costs, heap) ==
  \A c \in DOMAIN costs :
    Key(costs[c], c, goal) \in heap \/ (c # goal /\ Expanded(free, costs, c))
Bounded(costs) == \E most \in Nat : \A c \in DOMAIN costs : costs[c] <= most
Searched(free, s, goal, costs, from, heap) ==
  /\ CostsSound(free, s, costs, from) /\ HeapSound(goal, costs, heap)
  /\ ExpandedSound(free, goal, costs, heap) /\ Bounded(costs)

LEMMA SearchBegins ==
  ASSUME NEW free, free \subseteq Int \X Int, NEW s \in free, NEW goal \in Int \X Int
  PROVE  Searched(free, s, goal, [c \in {s} |-> 0], [c \in {s} |-> None],
                  {<<Paths!Manhattan(s, goal), 0, s>>})
<1> DEFINE costs == [c \in {s} |-> 0]
           from == [c \in {s} |-> None]
           first == <<Paths!Manhattan(s, goal), 0, s>>
<1>1. DOMAIN costs = {s} /\ DOMAIN from = {s} /\ costs[s] = 0 /\ from[s] = None
      /\ costs \in [{s} -> Nat]
  OBVIOUS
<1>2. Paths!Manhattan(s, goal) \in Nat
  BY ManhattanIs
<1>3. first = Key(0, s, goal) /\ first[2] = 0 /\ first[3] = s
  BY <1>2 DEF Key
<1> HIDE DEF costs, from, first
<1>4. CostsSound(free, s, costs, from)
  BY <1>1 DEF CostsSound
<1>5. HeapSound(goal, costs, {first})
  BY <1>1, <1>3 DEF HeapSound
<1>6. ExpandedSound(free, goal, costs, {first})
  BY <1>1, <1>3 DEF ExpandedSound
<1>7. Bounded(costs)
  BY <1>1 DEF Bounded
<1>8. Searched(free, s, goal, costs, from, {first})
  BY <1>4, <1>5, <1>6, <1>7 DEF Searched
<1> QED BY <1>8 DEF costs, from, first

BetterOf(free, costs, entry) ==
  IF entry[2] # costs[entry[3]] THEN {}
  ELSE {n \in Paths!Neighbours(entry[3]) :
          n \in free /\ (n \notin DOMAIN costs \/ entry[2] + 1 < costs[n])}
After(h, better, value) ==
  [n \in better \cup DOMAIN h |-> IF n \in better THEN value ELSE h[n]]
HeapAfter(heap, entry, better, goal) ==
  (heap \ {entry}) \cup {Key(entry[2] + 1, n, goal) : n \in better}
MovesOf(better, free, cell) ==
  \A n \in better : n \in free /\ n \in Paths!Neighbours(cell)

LEMMA SearchGoesOn ==
  ASSUME NEW free, free \subseteq Int \X Int, NEW s \in free, NEW goal \in Int \X Int,
         NEW costs, NEW from, NEW heap, Searched(free, s, goal, costs, from, heap),
         NEW popped \in heap, popped[3] # goal,
         NEW better, better = BetterOf(free, costs, popped)
  PROVE  /\ Searched(free, s, goal, After(costs, better, popped[2] + 1),
                     After(from, better, popped[3]), HeapAfter(heap, popped, better, goal))
         /\ MovesOf(better, free, popped[3])
<1> DEFINE cell == popped[3]
           cost == popped[2] + 1
           costs2 == After(costs, better, cost)
           from2 == After(from, better, cell)
           heap2 == HeapAfter(heap, popped, better, goal)
<1>1. /\ CostsSound(free, s, costs, from) /\ HeapSound(goal, costs, heap)
      /\ ExpandedSound(free, goal, costs, heap) /\ Bounded(costs)
  BY DEF Searched
<1>2. /\ s \in DOMAIN costs /\ DOMAIN costs \subseteq free /\ DOMAIN from = DOMAIN costs
      /\ \A c \in DOMAIN costs : costs[c] \in Nat
      /\ costs[s] = 0 /\ from[s] = None
  BY <1>1 DEF CostsSound
<1>3. /\ cell \in DOMAIN costs /\ popped[2] \in Nat /\ costs[cell] <= popped[2]
      /\ popped = Key(popped[2], cell, goal) /\ cost \in Nat /\ cost >= 1
  BY <1>1 DEF HeapSound
<1>4. \A n \in better : /\ n \in Paths!Neighbours(cell) /\ n \in free
                        /\ popped[2] = costs[cell]
                        /\ n \in DOMAIN costs => cost < costs[n]
  BY DEF BetterOf
<1>5. cell \notin better /\ s \notin better
  <2>1. cell \notin better
    BY <1>2, <1>3, <1>4, Moves
  <2>2. s \notin better
    BY <1>2, <1>3, <1>4
  <2> QED BY <2>1, <2>2
<1>6. /\ DOMAIN costs2 = better \cup DOMAIN costs /\ DOMAIN from2 = DOMAIN costs2
      /\ \A n \in better : costs2[n] = cost /\ from2[n] = cell
      /\ \A c \in DOMAIN costs : c \notin better => costs2[c] = costs[c] /\ from2[c] = from[c]
      /\ costs2 \in [DOMAIN costs2 -> Nat]
  BY <1>2, <1>3 DEF After
<1>7. /\ \A n \in better : Key(cost, n, goal) \in heap2
      /\ \A e \in heap : e # popped => e \in heap2
      /\ \A e \in heap2 : e \in heap \/ \E n \in better : e = Key(cost, n, goal)
  BY DEF HeapAfter
<1>8. popped[2] = costs[cell] =>
        \A n \in Paths!Neighbours(cell) :
          n \in free /\ n \notin better => n \in DOMAIN costs /\ costs[n] <= cost
  <2> SUFFICES ASSUME popped[2] = costs[cell], NEW n \in Paths!Neighbours(cell), n \in free,
                      n \notin better
               PROVE  n \in DOMAIN costs /\ costs[n] <= cost
    OBVIOUS
  <2>1. n \in DOMAIN costs /\ ~(cost < costs[n])
    BY DEF BetterOf
  <2> QED BY <1>2, <1>3, <2>1
<1> HIDE DEF cell, cost, costs2, from2, heap2
<1>9. \A c \in DOMAIN costs : c \in DOMAIN costs2 /\ costs2[c] <= costs[c] /\ costs2[c] \in Nat
  <2> SUFFICES ASSUME NEW c \in DOMAIN costs
               PROVE  c \in DOMAIN costs2 /\ costs2[c] <= costs[c] /\ costs2[c] \in Nat
    OBVIOUS
  <2>1. CASE c \in better
    BY <1>2, <1>3, <1>4, <1>6, <2>1
  <2>2. CASE c \notin better
    BY <1>2, <1>6, <2>2
  <2> QED BY <2>1, <2>2
<1>10. CostsSound(free, s, costs2, from2)
  <2>1. s \in DOMAIN costs2 /\ DOMAIN costs2 \subseteq free
    BY <1>2, <1>4, <1>6
  <2>2. costs2[s] = 0 /\ from2[s] = None
    BY <1>2, <1>5, <1>6
  <2>3. ASSUME NEW c \in DOMAIN costs2 \ {s}
        PROVE  /\ from2[c] \in DOMAIN costs2 /\ c \in Paths!Neighbours(from2[c])
               /\ costs2[from2[c]] + 1 <= costs2[c]
    <3>1. CASE c \in better
      <4>1. from2[c] = cell /\ costs2[c] = cost /\ c \in Paths!Neighbours(cell)
        BY <1>4, <1>6, <3>1
      <4>2. costs2[cell] = costs[cell] /\ cell \in DOMAIN costs2 /\ costs[cell] = popped[2]
        BY <1>3, <1>4, <1>5, <1>6, <3>1
      <4> QED BY <1>3, <4>1, <4>2 DEF cost
    <3>2. CASE c \notin better
      <4>1. c \in DOMAIN costs /\ costs2[c] = costs[c] /\ from2[c] = from[c]
        BY <1>6, <3>2
      <4>2. /\ from[c] \in DOMAIN costs /\ c \in Paths!Neighbours(from[c])
            /\ costs[from[c]] + 1 <= costs[c]
        BY <1>1, <4>1 DEF CostsSound
      <4>3. /\ from[c] \in DOMAIN costs2 /\ costs2[from[c]] <= costs[from[c]]
            /\ costs2[from[c]] \in Nat /\ costs[from[c]] \in Nat /\ costs[c] \in Nat
        BY <1>2, <1>9, <4>1, <4>2
      <4> QED BY <4>1, <4>2, <4>3
    <3> QED BY <3>1, <3>2
  <2> QED BY <1>6, <2>1, <2>2, <2>3 DEF CostsSound
<1>11. HeapSound(goal, costs2, heap2)
  <2> SUFFICES ASSUME NEW e \in heap2
               PROVE  /\ e[3] \in DOMAIN costs2 /\ e[2] \in Nat /\ costs2[e[3]] <= e[2]
                      /\ e = Key(e[2], e[3], goal)
    BY DEF HeapSound
  <2>1. CASE e \in heap
    <3>1. /\ e[3] \in DOMAIN costs /\ e[2] \in Nat /\ costs[e[3]] <= e[2]
          /\ e = Key(e[2], e[3], goal)
      BY <1>1, <2>1 DEF HeapSound
    <3>2. e[3] \in DOMAIN costs2 /\ costs2[e[3]] <= costs[e[3]] /\ costs2[e[3]] \in Nat
          /\ costs[e[3]] \in Nat
      BY <1>2, <1>9, <3>1
    <3> QED BY <3>1, <3>2
  <2>2. CASE \E n \in better : e = Key(cost, n, goal)
    <3>1. PICK n \in better : e = Key(cost, n, goal)
      BY <2>2
    <3>2. e[2] = cost /\ e[3] = n
      BY <3>1 DEF Key
    <3> QED BY <1>3, <1>6, <3>1, <3>2
  <2> QED BY <1>7, <2>1, <2>2
<1>12. ExpandedSound(free, goal, costs2, heap2)
  <2> SUFFICES ASSUME NEW c \in DOMAIN costs2
               PROVE  \/ Key(costs2[c], c, goal) \in heap2
                      \/ c # goal /\ Expanded(free, costs2, c)
    BY DEF ExpandedSound
  <2>1. CASE c \in better
    BY <1>6, <1>7, <2>1
  <2>2. CASE c \notin better
    <3>1. c \in DOMAIN costs /\ costs2[c] = costs[c] /\ costs[c] \in Nat
      BY <1>2, <1>6, <2>2
    <3>2. CASE Key(costs[c], c, goal) \in heap /\ Key(costs[c], c, goal) # popped
      BY <1>7, <3>1, <3>2
    <3>3. CASE Key(costs[c], c, goal) = popped
      <4>1. c = cell /\ popped[2] = costs[cell]
        BY <3>3 DEF Key, cell
      <4>2. cost = costs[c] + 1
        BY <4>1 DEF cost
      <4>3. ASSUME NEW n \in Paths!Neighbours(c), n \in free
            PROVE  n \in DOMAIN costs2 /\ costs2[n] <= costs2[c] + 1
        <5>1. CASE n \in better
          BY <1>3, <1>6, <3>1, <4>2, <5>1
        <5>2. CASE n \notin better
          <6>1. n \in DOMAIN costs /\ costs[n] <= cost
            BY <1>8, <4>1, <4>3, <5>2
          <6> QED BY <1>2, <1>6, <3>1, <4>2, <5>2, <6>1
        <5> QED BY <5>1, <5>2
      <4>4. c # goal
        BY <4>1 DEF cell
      <4> QED BY <4>3, <4>4 DEF Expanded
    <3>4. CASE c # goal /\ Expanded(free, costs, c)
      <4>1. ASSUME NEW n \in Paths!Neighbours(c), n \in free
            PROVE  n \in DOMAIN costs2 /\ costs2[n] <= costs2[c] + 1
        <5>1. n \in DOMAIN costs /\ costs[n] <= costs[c] + 1
          BY <3>4, <4>1 DEF Expanded
        <5>2. /\ n \in DOMAIN costs2 /\ costs2[n] <= costs[n] /\ costs2[n] \in Nat
              /\ costs[n] \in Nat
          BY <1>2, <1>9, <5>1
        <5> QED BY <3>1, <5>1, <5>2
      <4> QED BY <3>4, <4>1 DEF Expanded
    <3> QED BY <1>1, <3>1, <3>2, <3>3, <3>4 DEF ExpandedSound
  <2> QED BY <2>1, <2>2
<1>13. Bounded(costs2)
  <2>1. PICK most \in Nat : \A c \in DOMAIN costs : costs[c] <= most
    BY <1>1 DEF Bounded
  <2>2. most + cost \in Nat
    BY <1>3, <2>1
  <2>3. ASSUME NEW c \in DOMAIN costs2 PROVE costs2[c] <= most + cost
    <3>1. CASE c \in better
      BY <1>3, <1>6, <2>1, <3>1
    <3>2. CASE c \notin better
      <4>1. c \in DOMAIN costs /\ costs2[c] = costs[c] /\ costs[c] \in Nat
        BY <1>2, <1>6, <3>2
      <4> QED BY <1>3, <2>1, <4>1
    <3> QED BY <3>1, <3>2
  <2> QED BY <2>2, <2>3 DEF Bounded
<1>14. Searched(free, s, goal, costs2, from2, heap2)
  BY <1>10, <1>11, <1>12, <1>13 DEF Searched
<1> QED BY <1>4, <1>14 DEF costs2, from2, heap2, cell, cost, MovesOf
\* Breadth-first search, the reference: the cells within a number of moves of the
\* start.
Further(cells, free) == cells \cup {c \in UNION {Paths!Neighbours(d) : d \in cells} : c \in free}
Layered(layer, free, s, n) ==
  layer[0] = {s} /\ \A i \in 1..n : layer[i] = Further(layer[i - 1], free)

LEMMA LayersFree ==
  ASSUME NEW free, NEW s \in free, NEW n \in Nat, NEW layer, Layered(layer, free, s, n)
  PROVE  \A i \in 0..n : layer[i] \subseteq free
<1> DEFINE wrong == {i \in 0..n : ~(layer[i] \subseteq free)}
<1>1. wrong = {}
  <2> SUFFICES ASSUME wrong # {} PROVE FALSE
    OBVIOUS
  <2>1. PICK i \in wrong : \A j \in wrong : i <= j
    <3>1. wrong \subseteq Nat
      OBVIOUS
    <3> QED BY <3>1, LeastElement
  <2>2. i \in 0..n /\ ~(layer[i] \subseteq free)
    BY <2>1
  <2>3. i # 0
    BY <2>2 DEF Layered
  <2>4. i \in 1..n /\ i - 1 \in 0..n /\ ~(i <= i - 1)
    BY <2>2, <2>3
  <2>5. layer[i - 1] \subseteq free
    <3> HIDE DEF wrong
    <3>1. i - 1 \notin wrong
      BY <2>1, <2>4
    <3> QED BY <2>4, <3>1 DEF wrong
  <2>6. layer[i] = Further(layer[i - 1], free)
    BY <2>4 DEF Layered
  <2> QED BY <2>2, <2>5, <2>6 DEF Further
<1> QED BY <1>1

LEMMA LayersUnique ==
  ASSUME NEW free, NEW s, NEW n \in Nat, NEW layer, Layered(layer, free, s, n),
         NEW other, Layered(other, free, s, n)
  PROVE  \A i \in 0..n : layer[i] = other[i]
<1> DEFINE wrong == {i \in 0..n : layer[i] # other[i]}
<1>1. wrong = {}
  <2> SUFFICES ASSUME wrong # {} PROVE FALSE
    OBVIOUS
  <2>1. PICK i \in wrong : \A j \in wrong : i <= j
    <3>1. wrong \subseteq Nat
      OBVIOUS
    <3> QED BY <3>1, LeastElement
  <2>2. i \in 0..n /\ layer[i] # other[i]
    BY <2>1
  <2>3. i # 0
    BY <2>2 DEF Layered
  <2>4. i \in 1..n /\ i - 1 \in 0..n /\ ~(i <= i - 1)
    BY <2>2, <2>3
  <2>5. layer[i - 1] = other[i - 1]
    <3> HIDE DEF wrong
    <3>1. i - 1 \notin wrong
      BY <2>1, <2>4
    <3> QED BY <2>4, <3>1 DEF wrong
  <2>6. layer[i] = Further(layer[i - 1], free) /\ other[i] = Further(other[i - 1], free)
    BY <2>4 DEF Layered
  <2> QED BY <2>2, <2>5, <2>6
<1> QED BY <1>1

\* Each layer is larger than the one before until nothing is left to reach.
LEMMA LayersClose ==
  ASSUME NEW cells, IsFiniteSet(cells), NEW free \in SUBSET cells, NEW s \in free,
         NEW layer, Layered(layer, free, s, Cardinality(cells))
  PROVE  Further(layer[Cardinality(cells)], free) = layer[Cardinality(cells)]
<1> DEFINE n == Cardinality(cells)
           closed(i) == Further(layer[i], free) = layer[i]
           wrong == {i \in 0..n : ~(closed(i) \/ i + 1 <= Cardinality(layer[i]))}
<1>1. n \in Nat
  BY FS_CardinalityType
<1>2. \A i \in 0..n : layer[i] \subseteq free
  BY <1>1, LayersFree
<1>3. \A i \in 0..n : IsFiniteSet(layer[i]) /\ Cardinality(layer[i]) \in Nat
                      /\ Cardinality(layer[i]) <= n
  <2> SUFFICES ASSUME NEW i \in 0..n
               PROVE  IsFiniteSet(layer[i]) /\ Cardinality(layer[i]) \in Nat
                      /\ Cardinality(layer[i]) <= n
    OBVIOUS
  <2>1. layer[i] \in SUBSET cells
    BY <1>2
  <2>2. IsFiniteSet(layer[i]) /\ Cardinality(layer[i]) <= n
    BY <2>1, FS_Subset
  <2> QED BY <2>2, FS_CardinalityType
<1>4. layer[0] = {s} /\ \A i \in 1..n : layer[i] = Further(layer[i - 1], free)
  BY DEF Layered
<1> HIDE DEF n
<1>5. wrong = {}
  <2> SUFFICES ASSUME wrong # {} PROVE FALSE
    OBVIOUS
  <2>1. PICK i \in wrong : \A j \in wrong : i <= j
    <3>1. wrong \subseteq Nat
      BY <1>1
    <3> QED BY <3>1, LeastElement
  <2>2. i \in 0..n /\ ~closed(i) /\ ~(i + 1 <= Cardinality(layer[i]))
    BY <2>1
  <2>3. i # 0
    <3>1. Cardinality({s}) = 1
      BY FS_Singleton
    <3>2. CASE i = 0
      <4>1. Cardinality(layer[i]) = 1
        BY <1>4, <3>1, <3>2
      <4>2. i + 1 <= Cardinality(layer[i])
        BY <3>2, <4>1
      <4> QED BY <2>2, <4>2
    <3> QED BY <3>2
  <2>4. i \in 1..n /\ i - 1 \in 0..n /\ ~(i <= i - 1) /\ i \in Nat
    BY <1>1, <2>2, <2>3
  <2>5. closed(i - 1) \/ (i - 1) + 1 <= Cardinality(layer[i - 1])
    <3> HIDE DEF wrong, closed
    <3>1. i - 1 \notin wrong
      BY <2>1, <2>4
    <3> QED BY <2>4, <3>1 DEF wrong
  <2>6. layer[i] = Further(layer[i - 1], free)
    BY <1>4, <2>4
  <2>7. ~closed(i - 1)
    BY <2>2, <2>6
  <2>8. layer[i - 1] \in SUBSET layer[i] /\ layer[i - 1] # layer[i]
    BY <2>6, <2>7 DEF Further
  <2>9. Cardinality(layer[i - 1]) <= Cardinality(layer[i])
        /\ Cardinality(layer[i - 1]) # Cardinality(layer[i])
    BY <1>3, <2>2, <2>8, FS_Subset
  <2>10. Cardinality(layer[i - 1]) \in Nat /\ Cardinality(layer[i]) \in Nat
    BY <1>3, <2>2, <2>4
  <2> QED BY <2>2, <2>4, <2>5, <2>7, <2>9, <2>10
<1>6. n \in 0..n /\ n \notin wrong
  BY <1>1, <1>5
<1>7. closed(n) \/ n + 1 <= Cardinality(layer[n])
  <2> HIDE DEF closed
  <2> QED BY <1>6
<1>8. Cardinality(layer[n]) \in Nat /\ Cardinality(layer[n]) <= n
  BY <1>3, <1>6
<1>9. closed(n)
  <2> HIDE DEF closed
  <2> QED BY <1>1, <1>7, <1>8
<1> QED BY <1>9 DEF n

\* A cell within some moves is reached at their cost, or an entry of the heap leads
\* to it within as many.
LEMMA LayersSearched ==
  ASSUME NEW free, free \subseteq Int \X Int, NEW s \in free, NEW goal \in Int \X Int,
         NEW costs, NEW from, NEW heap, Searched(free, s, goal, costs, from, heap),
         NEW n \in Nat, NEW layer, Layered(layer, free, s, n)
  PROVE  \A i \in 0..n : \A c \in layer[i] :
           \/ c \in DOMAIN costs /\ costs[c] <= i
           \/ \E v \in DOMAIN costs : /\ Key(costs[v], v, goal) \in heap
                                      /\ costs[v] + Paths!Manhattan(v, c) <= i
<1> DEFINE led(i, c) ==
             \/ c \in DOMAIN costs /\ costs[c] <= i
             \/ \E v \in DOMAIN costs : /\ Key(costs[v], v, goal) \in heap
                                        /\ costs[v] + Paths!Manhattan(v, c) <= i
           wrong == {i \in 0..n : \E c \in layer[i] : ~led(i, c)}
<1>1. /\ s \in DOMAIN costs /\ DOMAIN costs \subseteq free /\ costs[s] = 0
      /\ \A c \in DOMAIN costs : costs[c] \in Nat
  BY DEF Searched, CostsSound
<1>2. \A i \in 0..n : layer[i] \subseteq free
  BY LayersFree
<1>3. wrong = {}
  <2> SUFFICES ASSUME wrong # {} PROVE FALSE
    OBVIOUS
  <2>1. PICK i \in wrong : \A j \in wrong : i <= j
    <3>1. wrong \subseteq Nat
      OBVIOUS
    <3> QED BY <3>1, LeastElement
  <2>2. PICK c \in layer[i] : ~led(i, c)
    BY <2>1
  <2>3. i \in 0..n /\ i \in Nat
    BY <2>1
  <2>4. i # 0
    <3>1. CASE i = 0
      <4>1. c = s
        BY <2>2, <3>1 DEF Layered
      <4> QED BY <1>1, <2>2, <3>1, <4>1
    <3> QED BY <3>1
  <2>5. i \in 1..n /\ i - 1 \in 0..n /\ ~(i <= i - 1)
    BY <2>3, <2>4
  <2>6. \A u \in layer[i - 1] : led(i - 1, u)
    <3> HIDE DEF wrong, led
    <3>1. i - 1 \notin wrong
      BY <2>1, <2>5
    <3> QED BY <2>5, <3>1 DEF wrong
  <2>7. layer[i] = Further(layer[i - 1], free)
    BY <2>5 DEF Layered
  <2>8. CASE c \in layer[i - 1]
    <3>1. CASE c \in DOMAIN costs /\ costs[c] <= i - 1
      <4>1. costs[c] \in Nat
        BY <1>1, <3>1
      <4> QED BY <2>2, <2>3, <3>1, <4>1
    <3>2. CASE \E v \in DOMAIN costs : /\ Key(costs[v], v, goal) \in heap
                                       /\ costs[v] + Paths!Manhattan(v, c) <= i - 1
      <4>1. PICK v \in DOMAIN costs : /\ Key(costs[v], v, goal) \in heap
                                      /\ costs[v] + Paths!Manhattan(v, c) <= i - 1
        BY <3>2
      <4>2. costs[v] \in Nat /\ Paths!Manhattan(v, c) \in Nat
        <5>1. c \in Int \X Int /\ v \in Int \X Int
          BY <1>1, <1>2, <2>2, <2>3
        <5> QED BY <1>1, <5>1, ManhattanIs
      <4>3. costs[v] + Paths!Manhattan(v, c) <= i
        BY <2>3, <4>1, <4>2
      <4> QED BY <2>2, <4>1, <4>3
    <3> QED BY <2>6, <2>8, <3>1, <3>2
  <2>9. CASE c \notin layer[i - 1]
    <3>1. PICK u \in layer[i - 1] : c \in Paths!Neighbours(u) /\ c \in free
      BY <2>2, <2>7, <2>9 DEF Further
    <3>2. u \in Int \X Int /\ c \in Int \X Int
      BY <1>2, <2>5, <3>1
    <3>3. CASE u \in DOMAIN costs /\ costs[u] <= i - 1
      <4>0. costs[u] \in Nat
        BY <1>1, <3>3
      <4>1. CASE Key(costs[u], u, goal) \in heap
        <5>1. Paths!Manhattan(u, c) = 1
          BY <3>1, <3>2, Estimates
        <5>2. costs[u] + Paths!Manhattan(u, c) <= i
          BY <2>3, <3>3, <4>0, <5>1
        <5> QED BY <2>2, <3>3, <4>1, <5>2
      <4>2. CASE Expanded(free, costs, u)
        <5>1. c \in DOMAIN costs /\ costs[c] <= costs[u] + 1
          BY <3>1, <4>2 DEF Expanded
        <5>2. costs[c] \in Nat
          BY <1>1, <5>1
        <5> QED BY <2>2, <2>3, <3>3, <4>0, <5>1, <5>2
      <4> QED BY <3>3, <4>1, <4>2 DEF Searched, ExpandedSound
    <3>4. CASE \E v \in DOMAIN costs : /\ Key(costs[v], v, goal) \in heap
                                       /\ costs[v] + Paths!Manhattan(v, u) <= i - 1
      <4>1. PICK v \in DOMAIN costs : /\ Key(costs[v], v, goal) \in heap
                                      /\ costs[v] + Paths!Manhattan(v, u) <= i - 1
        BY <3>4
      <4>2. v \in Int \X Int /\ costs[v] \in Nat
        BY <1>1
      <4>3. Paths!Manhattan(v, c) <= Paths!Manhattan(v, u) + 1
        BY <3>1, <3>2, <4>2, Estimates
      <4>4. Paths!Manhattan(v, c) \in Nat /\ Paths!Manhattan(v, u) \in Nat
        BY <3>2, <4>2, ManhattanIs
      <4>5. costs[v] + Paths!Manhattan(v, c) <= i
        BY <2>3, <4>1, <4>2, <4>3, <4>4
      <4> QED BY <2>2, <4>1, <4>5
    <3> QED BY <2>6, <3>1, <3>3, <3>4
  <2> QED BY <2>8, <2>9
<1>4. \A i \in 0..n : \A c \in layer[i] : led(i, c)
  <2> HIDE DEF led
  <2> QED BY <1>3
<1> QED BY <1>4

First(popped, heap) == \A e \in heap : popped[1] <= e[1]

\* The destination is popped at the cost of a shortest walk.
LEMMA PoppedIsShortest ==
  ASSUME NEW free, free \subseteq Int \X Int, NEW s \in free, NEW goal \in Int \X Int,
         NEW costs, NEW from, NEW heap, Searched(free, s, goal, costs, from, heap),
         NEW n \in Nat, NEW layer, Layered(layer, free, s, n),
         NEW popped \in heap, popped[3] = goal, First(popped, heap)
  PROVE  \A i \in 0..n : goal \in layer[i] => costs[goal] <= i
<1> SUFFICES ASSUME NEW i \in 0..n, goal \in layer[i] PROVE costs[goal] <= i
  OBVIOUS
<1>1. /\ DOMAIN costs \subseteq Int \X Int /\ \A c \in DOMAIN costs : costs[c] \in Nat
  BY DEF Searched, CostsSound
<1>2. /\ goal \in DOMAIN costs /\ popped[2] \in Nat /\ costs[goal] <= popped[2]
      /\ popped = Key(popped[2], goal, goal)
  BY DEF Searched, HeapSound
<1>3. popped[1] = popped[2]
  <2>1. Paths!Manhattan(goal, goal) = 0
    <3>1. <<goal[1] + 1, goal[2]>> \in Paths!Neighbours(goal)
      BY DEF Paths!Neighbours
    <3> QED BY <3>1, Estimates
  <2>2. popped[1] = popped[2] + Paths!Manhattan(goal, goal)
    BY <1>2 DEF Key
  <2> QED BY <1>2, <2>1, <2>2
<1>4. CASE costs[goal] <= i
  BY <1>4
<1>5. CASE \E v \in DOMAIN costs : /\ Key(costs[v], v, goal) \in heap
                                   /\ costs[v] + Paths!Manhattan(v, goal) <= i
  <2>1. PICK v \in DOMAIN costs : /\ Key(costs[v], v, goal) \in heap
                                  /\ costs[v] + Paths!Manhattan(v, goal) <= i
    BY <1>5
  <2>2. Key(costs[v], v, goal)[1] = costs[v] + Paths!Manhattan(v, goal)
    BY DEF Key
  <2>3. popped[2] <= costs[v] + Paths!Manhattan(v, goal)
    BY <1>3, <2>1, <2>2 DEF First
  <2>4. costs[v] \in Nat /\ Paths!Manhattan(v, goal) \in Nat /\ costs[goal] \in Nat
    BY <1>1, <1>2, <2>1, ManhattanIs
  <2> QED BY <1>2, <2>1, <2>3, <2>4
<1> QED BY <1>4, <1>5, LayersSearched

\* When the heap is empty, there is no walk.
LEMMA ExhaustedIsUnreachable ==
  ASSUME NEW free, free \subseteq Int \X Int, NEW s \in free, NEW goal \in Int \X Int,
         NEW costs, NEW from, Searched(free, s, goal, costs, from, {}),
         NEW n \in Nat, NEW layer, Layered(layer, free, s, n)
  PROVE  goal \notin DOMAIN costs /\ \A i \in 0..n : goal \notin layer[i]
<1>1. goal \notin DOMAIN costs
  BY DEF Searched, ExpandedSound
<1>2. \A i \in 0..n : \A c \in layer[i] : c \in DOMAIN costs
  BY LayersSearched
<1> QED BY <1>1, <1>2
\* The walk from the start to a cell, by came_from, and that it is one.
Chained(chain, from) ==
  \A c \in DOMAIN from :
    chain[c] = IF from[c] = None THEN <<c>> ELSE Append(chain[from[c]], c)
Walk(w, free, s, c) ==
  /\ w \in Seq(free) /\ Len(w) >= 1 /\ w[1] = s /\ w[Len(w)] = c
  /\ \A i \in 1 .. Len(w) - 1 : w[i + 1] \in Paths!Neighbours(w[i])

LEMMA ChainsExist ==
  ASSUME NEW free, None \notin free, NEW s \in free, NEW costs, NEW from,
         CostsSound(free, s, costs, from), Bounded(costs)
  PROVE  \E h : h = [c \in DOMAIN from |->
                       IF from[c] = None THEN <<c>> ELSE Append(h[from[c]], c)]
<1> DEFINE near(n) == {c \in DOMAIN from : costs[c] <= n}
           upto(n, h) == h = [c \in near(n) |->
                                IF from[c] = None THEN <<c>> ELSE Append(h[from[c]], c)]
           missing == {n \in Nat : ~ \E h : upto(n, h)}
<1>1. /\ s \in DOMAIN costs /\ DOMAIN costs \subseteq free /\ DOMAIN from = DOMAIN costs
      /\ \A c \in DOMAIN costs : costs[c] \in Nat
      /\ costs[s] = 0 /\ from[s] = None
      /\ \A c \in DOMAIN costs \ {s} : from[c] \in DOMAIN costs
           /\ costs[from[c]] + 1 <= costs[c]
  BY DEF CostsSound
<1>2. missing = {}
  <2> SUFFICES ASSUME missing # {} PROVE FALSE
    OBVIOUS
  <2>1. PICK n \in missing : \A m \in missing : n <= m
    <3>1. missing \subseteq Nat
      OBVIOUS
    <3> QED BY <3>1, LeastElement
  <2>2. n \in Nat /\ ~ \E h : upto(n, h)
    BY <2>1
  <2>3. CASE n = 0
    <3>1. \A c \in near(0) : from[c] = None
      <4> SUFFICES ASSUME NEW c \in near(0), c # s PROVE FALSE
        BY <1>1
      <4>1. c \in DOMAIN costs \ {s} /\ costs[c] <= 0
        BY <1>1
      <4>2. costs[from[c]] \in Nat /\ costs[from[c]] + 1 <= costs[c] /\ costs[c] \in Nat
        BY <1>1, <4>1
      <4> QED BY <4>1, <4>2
    <3> HIDE DEF near
    <3>2. upto(0, [c \in near(0) |-> <<c>>])
      BY <3>1
    <3> QED BY <2>2, <2>3, <3>2
  <2>4. CASE n # 0
    <3>0. n \in Nat \ {0} /\ n - 1 \in Nat /\ ~(n <= n - 1)
      BY <2>2, <2>4
    <3>1. n - 1 \notin missing
      <4> HIDE DEF missing
      <4> QED BY <2>1, <3>0
    <3>2. PICK h : upto(n - 1, h)
      BY <3>0, <3>1
    <3> DEFINE more == [c \in near(n) |->
                          IF from[c] = None THEN <<c>> ELSE Append(h[from[c]], c)]
    <3>3. \A c \in near(n) : from[c] # None => from[c] \in near(n - 1)
      <4> SUFFICES ASSUME NEW c \in near(n), from[c] # None PROVE from[c] \in near(n - 1)
        OBVIOUS
      <4>1. c \in DOMAIN costs \ {s} /\ costs[c] <= n
        BY <1>1
      <4>2. /\ from[c] \in DOMAIN costs /\ costs[from[c]] \in Nat /\ costs[c] \in Nat
            /\ costs[from[c]] + 1 <= costs[c]
        BY <1>1, <4>1
      <4>3. costs[from[c]] <= n - 1
        BY <3>0, <4>1, <4>2
      <4> QED BY <1>1, <4>2, <4>3
    <3>4. \A c \in near(n - 1) : c \in near(n)
      BY <1>1, <3>0
    <3> HIDE DEF near
    <3>5. \A c \in near(n - 1) :
            h[c] = IF from[c] = None THEN <<c>> ELSE Append(h[from[c]], c)
      BY <3>2
    <3>6. \A c \in near(n - 1) : more[c] = h[c]
      BY <3>4, <3>5
    <3>7. \A c \in near(n) :
            (IF from[c] = None THEN <<c>> ELSE Append(h[from[c]], c))
              = (IF from[c] = None THEN <<c>> ELSE Append(more[from[c]], c))
      <4> HIDE DEF more
      <4> QED BY <3>3, <3>6
    <3>8. more = [c \in near(n) |->
                    IF from[c] = None THEN <<c>> ELSE Append(more[from[c]], c)]
      <4> DEFINE again == [c \in near(n) |->
                    IF from[c] = None THEN <<c>> ELSE Append(more[from[c]], c)]
      <4>1. \A c \in near(n) : more[c] = again[c]
        <5>1. \A c \in near(n) : more[c] = IF from[c] = None THEN <<c>> ELSE Append(h[from[c]], c)
          OBVIOUS
        <5> HIDE DEF more
        <5> QED BY <3>7, <5>1
      <4>2. more = [c \in near(n) |-> more[c]] /\ again = [c \in near(n) |-> again[c]]
        OBVIOUS
      <4> HIDE DEF more, again
      <4>3. more = again
        BY <4>1, <4>2
      <4> QED BY <4>3 DEF again
    <3>9. upto(n, more)
      <4> HIDE DEF more
      <4> QED BY <3>8
    <3> QED BY <2>2, <3>9
  <2> QED BY <2>3, <2>4
<1>3. PICK most \in Nat : \A c \in DOMAIN costs : costs[c] <= most
  BY DEF Bounded
<1>4. near(most) = DOMAIN from
  BY <1>1, <1>3
<1> HIDE DEF near
<1>5. PICK h : upto(most, h)
  BY <1>2, <1>3
<1> QED BY <1>4, <1>5

LEMMA ChainsWalk ==
  ASSUME NEW free, None \notin free, NEW s \in free, NEW costs, NEW from,
         CostsSound(free, s, costs, from), NEW chain, Chained(chain, from)
  PROVE  \A c \in DOMAIN costs : Walk(chain[c], free, s, c) /\ Len(chain[c]) <= costs[c] + 1
<1> DEFINE walks(c) == Walk(chain[c], free, s, c) /\ Len(chain[c]) <= costs[c] + 1
           wrong == {c \in DOMAIN costs : ~walks(c)}
<1>1. /\ s \in DOMAIN costs /\ DOMAIN costs \subseteq free /\ DOMAIN from = DOMAIN costs
      /\ \A c \in DOMAIN costs : costs[c] \in Nat
      /\ costs[s] = 0 /\ from[s] = None
      /\ \A c \in DOMAIN costs \ {s} :
           /\ from[c] \in DOMAIN costs /\ c \in Paths!Neighbours(from[c])
           /\ costs[from[c]] + 1 <= costs[c]
  BY DEF CostsSound
<1>2. wrong = {}
  <2> SUFFICES ASSUME wrong # {} PROVE FALSE
    OBVIOUS
  <2>1. PICK c \in wrong : \A d \in wrong : costs[c] <= costs[d]
    <3>1. \A x \in wrong : costs[x] \in Nat
      BY <1>1
    <3> HIDE DEF wrong
    <3> QED BY <3>1, LeastBy
  <2>2. c \in DOMAIN costs /\ ~walks(c)
    BY <2>1
  <2>3. chain[c] = IF from[c] = None THEN <<c>> ELSE Append(chain[from[c]], c)
    BY <1>1, <2>2 DEF Chained
  <2>4. CASE c = s
    <3>1. chain[c] = <<s>>
      BY <1>1, <2>3, <2>4
    <3>2. /\ <<s>> \in Seq(free) /\ Len(<<s>>) = 1 /\ <<s>>[1] = s
      OBVIOUS
    <3> QED BY <1>1, <2>2, <2>4, <3>1, <3>2 DEF Walk
  <2>5. CASE c # s
    <3> DEFINE u == from[c]
               w == chain[u]
    <3>1. /\ u \in DOMAIN costs /\ c \in Paths!Neighbours(u) /\ costs[u] + 1 <= costs[c]
          /\ costs[u] \in Nat /\ costs[c] \in Nat /\ u # None
      BY <1>1, <2>2, <2>5
    <3>2. walks(u)
      <4>1. u \notin wrong
        <5> HIDE DEF wrong, u
        <5> QED BY <2>1, <3>1
      <4> HIDE DEF walks, u
      <4> QED BY <3>1, <4>1
    <3>3. chain[c] = Append(w, c)
      BY <2>3, <3>1
    <3>4. /\ w \in Seq(free) /\ Len(w) >= 1 /\ w[1] = s /\ w[Len(w)] = u
          /\ \A i \in 1 .. Len(w) - 1 : w[i + 1] \in Paths!Neighbours(w[i])
          /\ Len(w) <= costs[u] + 1
      BY <3>2 DEF Walk
    <3> HIDE DEF u, w
    <3>5. /\ Append(w, c) \in Seq(free) /\ Len(Append(w, c)) = Len(w) + 1
          /\ Append(w, c)[Len(w) + 1] = c /\ Len(w) \in Nat
          /\ \A i \in 1 .. Len(w) : Append(w, c)[i] = w[i]
      BY <1>1, <2>2, <3>4
    <3>6. ASSUME NEW i \in 1 .. Len(w)
            PROVE Append(w, c)[i + 1] \in Paths!Neighbours(Append(w, c)[i])
      <4>1. CASE i = Len(w)
        BY <3>1, <3>4, <3>5, <4>1
      <4>2. CASE i # Len(w)
        <5>1. i \in 1 .. Len(w) - 1 /\ i + 1 \in 1 .. Len(w)
          BY <3>5, <4>2
        <5> QED BY <3>4, <3>5, <5>1
      <4> QED BY <4>1, <4>2
    <3>7. Walk(Append(w, c), free, s, c)
      <4>1. Len(w) + 1 - 1 = Len(w) /\ 1 \in 1 .. Len(w) /\ Len(w) + 1 >= 1
        BY <3>4, <3>5
      <4> QED BY <3>4, <3>5, <3>6, <4>1 DEF Walk
    <3>8. Len(Append(w, c)) <= costs[c] + 1
      BY <3>1, <3>4, <3>5
    <3> QED BY <2>2, <3>3, <3>7, <3>8
  <2> QED BY <2>4, <2>5
<1>3. \A c \in DOMAIN costs : walks(c)
  <2> HIDE DEF walks
  <2> QED BY <1>2
<1> QED BY <1>3
\* A robot that keeps its distance at both cells of a move keeps it on the way, since
\* what an obstacle covers, with the margin, is at least a cell wide.
LEMMA MovesKeepClear ==
  ASSUME NEW c \in Int \X Int, NEW n \in Paths!Neighbours(c), NEW o \in Paths!Objects,
         ~Paths!Covers(o, Margin, Paths!PointOf(c)), ~Paths!Covers(o, Margin, Paths!PointOf(n)),
         NEW point \in Paths!Between(c, n)
  PROVE  ~Paths!Covers(o, Margin, point)
<1> DEFINE low(axis) == Paths!Low(o, axis, Margin)
           high(axis) == Paths!High(o, axis, Margin)
<1>1. /\ o.at[1] \in Int /\ o.at[2] \in Int /\ o.half[1] \in Nat /\ o.half[2] \in Nat
      /\ Margin \in Nat \ {0}
  BY WorldsAssumption DEF Paths!Objects
<1>2. /\ low(1) = o.at[1] - o.half[1] - Margin /\ high(1) = o.at[1] + o.half[1] + Margin
      /\ low(2) = o.at[2] - o.half[2] - Margin /\ high(2) = o.at[2] + o.half[2] + Margin
  BY DEF Paths!Low, Paths!High
<1>3. /\ low(1) \in Int /\ high(1) \in Int /\ low(2) \in Int /\ high(2) \in Int
      /\ low(1) + 2 <= high(1) /\ low(2) + 2 <= high(2)
  BY <1>1, <1>2
<1>4. n \in Int \X Int /\ c[1] \in Int /\ c[2] \in Int /\ n[1] \in Int /\ n[2] \in Int
  BY Moves
<1>5. \A p : Paths!Covers(o, Margin, p) <=> /\ p[1] \in low(1) .. high(1)
                                            /\ p[2] \in low(2) .. high(2)
  BY DEF Paths!Covers
<1> HIDE DEF low, high
<1>6. PICK i \in 0..2 :
        /\ point[1] = 2 * c[1] + 1 + i * (n[1] - c[1])
        /\ point[2] = 2 * c[2] + 1 + i * (n[2] - c[2])
  <2>1. PICK i \in 0..2 : point = <<Paths!PointOf(c)[1] + i * (n[1] - c[1]),
                                    Paths!PointOf(c)[2] + i * (n[2] - c[2])>>
    BY DEF Paths!Between
  <2> QED BY <2>1 DEF Paths!PointOf
<1>7. /\ Paths!PointOf(c)[1] = 2 * c[1] + 1 /\ Paths!PointOf(c)[2] = 2 * c[2] + 1
      /\ Paths!PointOf(n)[1] = 2 * n[1] + 1 /\ Paths!PointOf(n)[2] = 2 * n[2] + 1
  BY DEF Paths!PointOf
<1>8. /\ ~(2 * c[1] + 1 \in low(1) .. high(1) /\ 2 * c[2] + 1 \in low(2) .. high(2))
      /\ ~(2 * n[1] + 1 \in low(1) .. high(1) /\ 2 * n[2] + 1 \in low(2) .. high(2))
  BY <1>5, <1>7
<1>9. \/ n[1] = c[1] + 1 /\ n[2] = c[2]
      \/ n[1] = c[1] /\ n[2] = c[2] + 1
      \/ n[1] = c[1] - 1 /\ n[2] = c[2]
      \/ n[1] = c[1] /\ n[2] = c[2] - 1
  BY DEF Paths!Neighbours
<1>10. ~(point[1] \in low(1) .. high(1) /\ point[2] \in low(2) .. high(2))
  <2>1. CASE i = 0
    <3>1. point[1] = 2 * c[1] + 1 /\ point[2] = 2 * c[2] + 1
      BY <1>4, <1>6, <2>1
    <3> QED BY <1>8, <3>1
  <2>2. CASE i = 2
    <3>1. point[1] = 2 * n[1] + 1 /\ point[2] = 2 * n[2] + 1
      BY <1>4, <1>6, <2>2
    <3> QED BY <1>8, <3>1
  <2>3. CASE i = 1
    <3>1. point[1] = c[1] + n[1] + 1 /\ point[2] = c[2] + n[2] + 1
      BY <1>4, <1>6, <2>3
    <3> QED BY <1>3, <1>4, <1>8, <1>9, <3>1
  <2> QED BY <2>1, <2>2, <2>3
<1> QED BY <1>5, <1>10

Layers(h, free, s, n) ==
  h = [i \in 0..n |-> IF i = 0 THEN {s} ELSE Further(h[i - 1], free)]

LEMMA LayersExist ==
  ASSUME NEW free, NEW s, NEW n \in Nat
  PROVE  \E h : Layers(h, free, s, n)
<1> USE DEF Layers
<1> DEFINE upto(m, h) == h = [i \in 0..m |-> IF i = 0 THEN {s} ELSE Further(h[i - 1], free)]
           missing == {m \in Nat : ~ \E h : upto(m, h)}
<1>1. missing = {}
  <2> SUFFICES ASSUME missing # {} PROVE FALSE
    OBVIOUS
  <2>1. PICK m \in missing : \A k \in missing : m <= k
    <3>1. missing \subseteq Nat
      OBVIOUS
    <3> QED BY <3>1, LeastElement
  <2>2. m \in Nat /\ ~ \E h : upto(m, h)
    BY <2>1
  <2>3. CASE m = 0
    <3> DEFINE first == [i \in 0..0 |-> {s}]
    <3>1. first = [i \in 0..0 |-> IF i = 0 THEN {s} ELSE Further(first[i - 1], free)]
      OBVIOUS
    <3> HIDE DEF first
    <3> QED BY <2>2, <2>3, <3>1
  <2>4. CASE m # 0
    <3>0. m \in Nat \ {0} /\ m - 1 \in Nat /\ ~(m <= m - 1)
      BY <2>2, <2>4
    <3>1. m - 1 \notin missing
      <4> HIDE DEF missing
      <4> QED BY <2>1, <3>0
    <3>2. PICK h : upto(m - 1, h)
      BY <3>0, <3>1
    <3> DEFINE more == [i \in 0..m |-> IF i = 0 THEN {s} ELSE Further(h[i - 1], free)]
               again == [i \in 0..m |-> IF i = 0 THEN {s} ELSE Further(more[i - 1], free)]
    <3>3. \A i \in 0 .. m - 1 : i \in 0..m /\ more[i] = h[i]
      <4>1. \A i \in 0 .. m - 1 : i \in 0..m
        BY <3>0
      <4>2. \A i \in 0 .. m - 1 : h[i] = IF i = 0 THEN {s} ELSE Further(h[i - 1], free)
        BY <3>2
      <4> QED BY <4>1, <4>2
    <3>4. \A i \in 0..m : more[i] = IF i = 0 THEN {s} ELSE Further(h[i - 1], free)
      OBVIOUS
    <3>5. \A i \in 0..m : i # 0 => i - 1 \in 0 .. m - 1
      BY <3>0
    <3>6. more = [i \in 0..m |-> more[i]] /\ again = [i \in 0..m |-> again[i]]
      OBVIOUS
    <3>7. \A i \in 0..m : again[i] = IF i = 0 THEN {s} ELSE Further(more[i - 1], free)
      OBVIOUS
    <3> HIDE DEF more
    <3>8. \A i \in 0..m : more[i] = again[i]
      <4> HIDE DEF again
      <4> QED BY <3>3, <3>4, <3>5, <3>7
    <3>9. more = again
      <4> HIDE DEF again
      <4> QED BY <3>6, <3>8
    <3> QED BY <2>2, <3>9
  <2> QED BY <2>3, <2>4
<1> QED BY <1>1

\* The cells the robot can stand in, and what their bounds and layers are.
Walkable == {c \in Paths!Cells : Paths!Traversable(c)}
Reach == Paths!Cardinality(Paths!Cells)

LEMMA WalkableCells ==
  /\ Paths!Cells \subseteq Nat \X Nat /\ IsFiniteSet(Paths!Cells)
  /\ Walkable \subseteq Paths!Cells /\ Walkable \subseteq Int \X Int
  /\ \A c : Paths!Traversable(c) <=> c \in Walkable
  /\ None \notin Walkable /\ None \notin Seq(Walkable)
  /\ Reach = Cardinality(Paths!Cells) /\ Reach \in Nat
<1>1. Columns \in Nat /\ GridRows \in Nat
  BY WorldsAssumption
<1>2. Paths!Cells = (0 .. Columns - 1) \X (0 .. GridRows - 1)
  BY DEF Paths!Cells
<1>3. Paths!Cells \subseteq Nat \X Nat
  BY <1>1, <1>2
<1>4. IsFiniteSet(0 .. Columns - 1) /\ IsFiniteSet(0 .. GridRows - 1)
  BY <1>1, FS_Interval
<1>5. IsFiniteSet(Paths!Cells)
  BY <1>2, <1>4, FS_Product
<1>6. Walkable \subseteq Paths!Cells
  BY DEF Walkable
<1>7. \A c : Paths!Traversable(c) <=> c \in Walkable
  BY DEF Walkable, Paths!Traversable
<1>8. Walkable \subseteq Nat \X Nat
  BY <1>3, <1>6
<1>9. None \notin Walkable /\ None \notin Seq(Walkable)
  <2>1. None \notin (Nat \X Nat) \cup Seq(Nat \X Nat)
    BY WorldsAssumption
  <2>2. \A w \in Seq(Walkable) : w \in Seq(Nat \X Nat)
    BY <1>8
  <2> QED BY <1>8, <2>1, <2>2
<1>10. Walkable \subseteq Int \X Int
  BY <1>8
<1>11. Reach = Cardinality(Paths!Cells)
  BY DEF Reach, Cardinality, Paths!Cardinality
<1>12. Reach \in Nat
  BY <1>5, <1>11, FS_CardinalityType
<1> QED BY <1>3, <1>5, <1>6, <1>7, <1>9, <1>10, <1>11, <1>12

LEMMA WithinIsLayered ==
  /\ Layered(Paths!Within, Walkable, Paths!Start, Reach)
  /\ Paths!Within = [i \in 0..Reach |-> Paths!Within[i]]
<1> DEFINE s == Paths!Start
<1>1. \A cells : Paths!Onwards(cells) = Further(cells, Walkable)
  <2> TAKE cells
  <2>1. \A c : c \in Paths!Onwards(cells) <=> c \in Further(cells, Walkable)
    BY WalkableCells DEF Paths!Onwards, Further
  <2> QED BY <2>1
<1>2. Paths!Within = CHOOSE h : h = [i \in 0..Reach |->
                                      IF i = 0 THEN {s} ELSE Paths!Onwards(h[i - 1])]
  BY DEF Paths!Within, Reach
<1>3. \E h : h = [i \in 0..Reach |-> IF i = 0 THEN {s} ELSE Paths!Onwards(h[i - 1])]
  <2>0. Reach \in Nat
    BY WalkableCells
  <2>1. PICK h : Layers(h, Walkable, s, Reach)
    BY <2>0, LayersExist
  <2>2. h = [i \in 0..Reach |-> IF i = 0 THEN {s} ELSE Paths!Onwards(h[i - 1])]
    BY <1>1, <2>1, Zenon DEF Layers
  <2> QED BY <2>2
<1>4. Paths!Within = [i \in 0..Reach |->
                       IF i = 0 THEN {s} ELSE Paths!Onwards(Paths!Within[i - 1])]
  BY <1>2, <1>3, Zenon
<1> DEFINE layer == Paths!Within
<1>5. layer = [i \in 0..Reach |-> IF i = 0 THEN {s} ELSE Paths!Onwards(layer[i - 1])]
  BY <1>4
<1> HIDE DEF layer, s
<1>6. \A i \in 0..Reach : layer[i] = IF i = 0 THEN {s} ELSE Further(layer[i - 1], Walkable)
  BY <1>1, <1>5
<1>7. layer[0] = {s}
  BY <1>6, WalkableCells
<1>8. \A i \in 1..Reach : layer[i] = Further(layer[i - 1], Walkable)
  <2>1. \A i \in 1..Reach : i \in 0..Reach /\ i # 0
    BY WalkableCells
  <2> QED BY <1>6, <2>1
<1>9. layer = [i \in 0..Reach |-> layer[i]]
  BY <1>5
<1> QED BY <1>7, <1>8, <1>9 DEF Layered, layer, s
\* While a candidate is searched and gated, its objects and ends stay, and with them
\* every cell that can be stood in and the layers. The search keeps what it owes
\* (Searched) among the cells within reach; a path is a walk as short as any.
SearchSound ==
  /\ Paths!Start \in Walkable /\ Paths!Destination \in Walkable
  /\ Searched(Walkable, Paths!Start, Paths!Destination, best_cost, came_from, frontier)
  /\ DOMAIN best_cost \subseteq Paths!Within[Reach]
PathSound ==
  /\ Walk(path, Walkable, Paths!Start, Paths!Destination)
  /\ Len(path) - 1 <= Reach
  /\ \A i \in 0 .. Reach : Paths!Destination \in Paths!Within[i] => Len(path) - 1 <= i
WorldSound ==
  /\ placed \subseteq Paths!Objects
  /\ generation \in {"placing", "searching", "searched", "accepted", "raised"}
  /\ generation \in {"placing", "searching"} => path = None
  /\ generation \in {"searching", "searched", "accepted"} => issues = Paths!IssuesFound
  /\ generation = "searching" => SearchSound
  /\ generation = "searched" => (path = None <=> ~Paths!Reachable)
  /\ generation = "accepted" => issues = {} /\ path # None
  /\ path # None => PathSound

LEMMA WorldStays ==
  ASSUME placed' = placed, anchor' = anchor
  PROVE  /\ Walkable' = Walkable /\ Paths!Start' = Paths!Start
         /\ Paths!Destination' = Paths!Destination /\ Paths!Within' = Paths!Within
         /\ Paths!IssuesFound' = Paths!IssuesFound /\ Paths!Reachable' = Paths!Reachable
<1>1. \A c : Paths!Traversable(c)' <=> Paths!Traversable(c)
  BY DEF Paths!Traversable
<1>2. Walkable' = Walkable
  BY <1>1 DEF Walkable
<1>3. Paths!Start' = Paths!Start /\ Paths!Destination' = Paths!Destination
  BY DEF Paths!Start, Paths!Destination
<1>4. Paths!Within' = Paths!Within
  <2>1. (/\ Layered(Paths!Within, Walkable, Paths!Start, Reach)
         /\ Paths!Within = [i \in 0..Reach |-> Paths!Within[i]])'
    BY WithinIsLayered, PTL
  <2>2. Reach' = Reach /\ Reach \in Nat
    BY WalkableCells DEF Reach, Paths!Cells
  <2>3. PICK layer : layer = Paths!Within
    OBVIOUS
  <2>4. PICK other : other = Paths!Within'
    OBVIOUS
  <2>5. PICK free, s : free = Walkable /\ s = Paths!Start
    OBVIOUS
  <2>6. PICK n \in Nat : n = Reach
    BY <2>2
  <2>7. Layered(layer, free, s, n) /\ layer = [i \in 0..n |-> layer[i]]
    BY <2>3, <2>5, <2>6, WithinIsLayered
  <2>8. Layered(other, free, s, n) /\ other = [i \in 0..n |-> other[i]]
    BY <1>2, <1>3, <2>1, <2>2, <2>4, <2>5, <2>6 DEF Layered
  <2>9. \A i \in 0..n : layer[i] = other[i]
    BY <2>7, <2>8, LayersUnique
  <2>10. layer = other
    BY <2>7, <2>8, <2>9
  <2> QED BY <2>3, <2>4, <2>10
<1>5. Paths!IssuesFound' = Paths!IssuesFound
  BY Zenon DEF Paths!IssuesFound, Paths!EndIssues
<1>6. Paths!Reachable' = Paths!Reachable
  BY <1>1, <1>3, <1>4 DEF Paths!Reachable
<1> QED BY <1>2, <1>3, <1>4, <1>5, <1>6

LEMMA SearchSoundStays ==
  ASSUME SearchSound, UNCHANGED <<placed, anchor, best_cost, came_from, frontier>>
  PROVE  SearchSound'
BY WorldStays DEF SearchSound

LEMMA PathSoundStays ==
  ASSUME PathSound, UNCHANGED <<placed, anchor, path>>
  PROVE  PathSound'
BY WorldStays DEF PathSound
LEMMA HeapTyped ==
  ASSUME SearchSound
  PROVE  /\ frontier \subseteq Nat \X Nat \X (Nat \X Nat)
         /\ frontier # {} =>
              /\ Paths!Least \in frontier
              /\ \A e \in frontier : Paths!Least[1] <= e[1]
<1>1. DOMAIN best_cost \subseteq Walkable /\ HeapSound(Paths!Destination, best_cost, frontier)
  BY DEF SearchSound, Searched, CostsSound
<1>2. Walkable \subseteq Nat \X Nat /\ Walkable \subseteq Int \X Int
  BY WalkableCells
<1>3. Paths!Destination \in Int \X Int
  BY <1>2 DEF SearchSound
<1>4. ASSUME NEW e \in frontier PROVE e \in Nat \X Nat \X (Nat \X Nat)
  <2>1. /\ e[3] \in DOMAIN best_cost /\ e[2] \in Nat
        /\ e = Key(e[2], e[3], Paths!Destination)
    BY <1>1 DEF HeapSound
  <2>2. e[3] \in Nat \X Nat /\ e[3] \in Int \X Int
    BY <1>1, <1>2, <2>1
  <2>3. Paths!Manhattan(e[3], Paths!Destination) \in Nat
    BY <1>3, <2>2, ManhattanIs
  <2>4. e[2] + Paths!Manhattan(e[3], Paths!Destination) \in Nat
    BY <2>1, <2>3
  <2>5. Key(e[2], e[3], Paths!Destination) \in Nat \X Nat \X (Nat \X Nat)
    BY <2>1, <2>2, <2>4 DEF Key
  <2> QED BY <2>1, <2>5
<1>5. frontier \subseteq Nat \X Nat \X (Nat \X Nat)
  BY <1>4
<1>6. ASSUME frontier # {}
      PROVE  Paths!Least \in frontier /\ \A e \in frontier : Paths!Least[1] <= e[1]
  <2>1. \E a \in frontier : \A b \in frontier \ {a} : Paths!Precedes(a, b)
    BY <1>5, <1>6, LeastEntry
  <2>2. /\ Paths!Least \in frontier
        /\ \A b \in frontier \ {Paths!Least} : Paths!Precedes(Paths!Least, b)
    BY <2>1 DEF Paths!Least
  <2>3. ASSUME NEW e \in frontier PROVE Paths!Least[1] <= e[1]
    <3>1. CASE e = Paths!Least
      <4>1. e[1] \in Nat
        BY <1>5
      <4> QED BY <3>1, <4>1
    <3>2. CASE e # Paths!Least
      <4>1. Paths!Precedes(Paths!Least, e)
        BY <2>2, <3>2
      <4>2. /\ Paths!Least \in Nat \X Nat \X (Nat \X Nat)
            /\ e \in Nat \X Nat \X (Nat \X Nat)
        BY <1>5, <2>2
      <4> HIDE DEF Paths!Precedes
      <4> QED BY <4>1, <4>2, PriorityFirst
    <3> QED BY <3>1, <3>2
  <2> QED BY <2>2, <2>3
<1> QED BY <1>5, <1>6

\* Nothing lies beyond the last layer.
LEMMA ReachCloses ==
  ASSUME Paths!Start \in Walkable
  PROVE  /\ Further(Paths!Within[Reach], Walkable) = Paths!Within[Reach]
         /\ Paths!Start \in Paths!Within[Reach]
<1> DEFINE layer == Paths!Within
<1>1. Layered(layer, Walkable, Paths!Start, Cardinality(Paths!Cells)) /\ Reach \in Nat
      /\ IsFiniteSet(Paths!Cells) /\ Walkable \in SUBSET Paths!Cells
      /\ Reach = Cardinality(Paths!Cells)
  BY WithinIsLayered, WalkableCells
<1> HIDE DEF layer
<1>2. Further(layer[Reach], Walkable) = layer[Reach]
  <2>1. Further(layer[Cardinality(Paths!Cells)], Walkable) = layer[Cardinality(Paths!Cells)]
    BY <1>1, LayersClose
  <2> QED BY <1>1, <2>1
<1>3. Paths!Start \in layer[Reach]
  <2> DEFINE wrong == {i \in 0..Reach : Paths!Start \notin layer[i]}
  <2>1. wrong = {}
    <3> SUFFICES ASSUME wrong # {} PROVE FALSE
      OBVIOUS
    <3>1. PICK i \in wrong : \A j \in wrong : i <= j
      <4>1. wrong \subseteq Nat
        BY <1>1
      <4> QED BY <4>1, LeastElement
    <3>2. i \in 0..Reach /\ Paths!Start \notin layer[i]
      BY <3>1
    <3>3. layer[0] = {Paths!Start}
            /\ \A k \in 1..Reach : layer[k] = Further(layer[k - 1], Walkable)
      BY <1>1 DEF Layered
    <3>4. i \in 1..Reach /\ i - 1 \in 0..Reach /\ ~(i <= i - 1)
      BY <1>1, <3>2, <3>3
    <3>5. Paths!Start \in layer[i - 1]
      <4> HIDE DEF wrong
      <4>1. i - 1 \notin wrong
        BY <3>1, <3>4
      <4> QED BY <3>4, <4>1 DEF wrong
    <3>6. layer[i] = Further(layer[i - 1], Walkable)
      BY <3>3, <3>4
    <3> QED BY <3>2, <3>5, <3>6 DEF Further
  <2>2. Reach \in 0..Reach
    BY <1>1
  <2> QED BY <2>1, <2>2
<1> QED BY <1>2, <1>3 DEF layer

LEMMA ValidateBegins ==
  ASSUME Paths!Validate, generation' = "searching"
  PROVE  SearchSound'
<1>1. /\ placed' = placed /\ anchor' = anchor
      /\ Paths!Traversable(Paths!Start) /\ Paths!Traversable(Paths!Destination)
      /\ frontier' = {<<Paths!Manhattan(Paths!Start, Paths!Destination), 0, Paths!Start>>}
      /\ best_cost' = [c \in {Paths!Start} |-> 0]
      /\ came_from' = [c \in {Paths!Start} |-> None]
  BY DEF Paths!Validate
<1>2. /\ Walkable' = Walkable /\ Paths!Start' = Paths!Start
      /\ Paths!Destination' = Paths!Destination /\ Paths!Within' = Paths!Within
      /\ Reach' = Reach
  BY <1>1, WorldStays DEF Reach
<1>3. Paths!Start \in Walkable /\ Paths!Destination \in Walkable
      /\ Walkable \subseteq Int \X Int
  BY <1>1, WalkableCells
<1>4. Searched(Walkable, Paths!Start, Paths!Destination,
               [c \in {Paths!Start} |-> 0], [c \in {Paths!Start} |-> None],
               {<<Paths!Manhattan(Paths!Start, Paths!Destination), 0, Paths!Start>>})
  BY <1>3, SearchBegins
<1>5. Searched(Walkable, Paths!Start, Paths!Destination, best_cost', came_from', frontier')
  BY <1>1, <1>4
<1>6. DOMAIN (best_cost') \subseteq Paths!Within[Reach]
  BY <1>1, <1>3, ReachCloses
<1> QED BY <1>2, <1>3, <1>5, <1>6 DEF SearchSound

LEMMA ExpandKeeps ==
  ASSUME SearchSound, Paths!Expand
  PROVE  SearchSound'
<1> DEFINE popped == Paths!Least
           better == Paths!Better(Paths!Least)
<1>1. /\ placed' = placed /\ anchor' = anchor /\ frontier # {}
      /\ popped[3] # Paths!Destination
      /\ best_cost' = [n \in better \cup DOMAIN best_cost |->
                         IF n \in better THEN popped[2] + 1 ELSE best_cost[n]]
      /\ came_from' = [n \in better \cup DOMAIN came_from |->
                         IF n \in better THEN popped[3] ELSE came_from[n]]
      /\ frontier' = (frontier \ {popped})
           \cup {<<popped[2] + 1 + Paths!Manhattan(n, Paths!Destination), popped[2] + 1, n>>
                   : n \in better}
  BY DEF Paths!Expand
<1>2. /\ Walkable' = Walkable /\ Paths!Start' = Paths!Start
      /\ Paths!Destination' = Paths!Destination /\ Paths!Within' = Paths!Within
      /\ Reach' = Reach
  BY <1>1, WorldStays DEF Reach
<1>3. /\ Paths!Start \in Walkable /\ Paths!Destination \in Int \X Int
      /\ Paths!Destination \in Walkable
      /\ Walkable \subseteq Int \X Int
      /\ Searched(Walkable, Paths!Start, Paths!Destination, best_cost, came_from, frontier)
      /\ DOMAIN best_cost \subseteq Paths!Within[Reach]
  BY WalkableCells DEF SearchSound
<1>4. popped \in frontier
  BY <1>1, HeapTyped
<1>5. better = IF popped[2] # best_cost[popped[3]] THEN {}
               ELSE {n \in Paths!Neighbours(popped[3]) :
                       n \in Walkable /\ (n \notin DOMAIN best_cost
                                          \/ popped[2] + 1 < best_cost[n])}
  <2>1. \A c : Paths!Traversable(c) <=> c \in Walkable
    BY WalkableCells
  <2> QED BY <2>1 DEF Paths!Better, Paths!Improves
<1>6. frontier' = (frontier \ {popped})
        \cup {Key(popped[2] + 1, n, Paths!Destination) : n \in better}
  BY <1>1 DEF Key
<1> HIDE DEF popped, better
<1>7. /\ Searched(Walkable, Paths!Start, Paths!Destination, best_cost', came_from', frontier')
      /\ \A n \in better : n \in Walkable /\ n \in Paths!Neighbours(popped[3])
  <2>1. PICK free, s, goal, entry, more :
          free = Walkable /\ s = Paths!Start /\ goal = Paths!Destination /\ entry = popped
            /\ more = better
    OBVIOUS
  <2>2. PICK costs, from, heap : costs = best_cost /\ from = came_from /\ heap = frontier
    OBVIOUS
  <2>3. /\ free \subseteq Int \X Int /\ s \in free /\ goal \in Int \X Int
        /\ Searched(free, s, goal, costs, from, heap) /\ entry \in heap /\ entry[3] # goal
    BY <1>1, <1>3, <1>4, <2>1, <2>2
  <2>4. more = BetterOf(free, costs, entry)
    BY <1>5, <2>1, <2>2 DEF BetterOf
  <2>5. /\ Searched(free, s, goal, After(costs, more, entry[2] + 1),
                    After(from, more, entry[3]), HeapAfter(heap, entry, more, goal))
        /\ MovesOf(more, free, entry[3])
    BY <2>3, <2>4, SearchGoesOn
  <2>6. /\ best_cost' = After(costs, more, entry[2] + 1)
        /\ came_from' = After(from, more, entry[3])
        /\ frontier' = HeapAfter(heap, entry, more, goal)
    BY <1>1, <1>6, <2>1, <2>2 DEF After, HeapAfter
  <2>7. Searched(Walkable, Paths!Start, Paths!Destination, best_cost', came_from', frontier')
    BY <2>1, <2>5, <2>6
  <2>8. \A n \in better : n \in Walkable /\ n \in Paths!Neighbours(popped[3])
    BY <2>1, <2>5 DEF MovesOf
  <2> QED BY <2>7, <2>8
<1>8. popped[3] \in DOMAIN best_cost
  BY <1>3, <1>4 DEF Searched, HeapSound
<1>9. \A n \in better : n \in Further(Paths!Within[Reach], Walkable)
  BY <1>3, <1>7, <1>8 DEF Further
<1>10. DOMAIN (best_cost') \subseteq Paths!Within[Reach]
  BY <1>1, <1>3, <1>9, ReachCloses
<1> QED BY <1>2, <1>3, <1>7, <1>10 DEF SearchSound

LEMMA EndSearchFinds ==
  ASSUME SearchSound, Paths!EndSearch
  PROVE  /\ path' = None <=> ~Paths!Reachable
         /\ path' # None => PathSound'
<1> DEFINE layer == Paths!Within
           chain == Paths!Chain
<1>1. /\ placed' = placed /\ anchor' = anchor
      /\ frontier # {} => Paths!Least[3] = Paths!Destination
      /\ path' = IF Paths!Destination \in DOMAIN came_from THEN chain[Paths!Destination] ELSE None
  BY DEF Paths!EndSearch
<1>2. /\ Walkable' = Walkable /\ Paths!Start' = Paths!Start
      /\ Paths!Destination' = Paths!Destination /\ Paths!Within' = Paths!Within
      /\ Reach' = Reach
  BY <1>1, WorldStays DEF Reach
<1>3. /\ Paths!Start \in Walkable /\ Paths!Destination \in Int \X Int
      /\ Paths!Destination \in Walkable
      /\ Walkable \subseteq Int \X Int /\ None \notin Walkable /\ None \notin Seq(Walkable)
      /\ Searched(Walkable, Paths!Start, Paths!Destination, best_cost, came_from, frontier)
      /\ DOMAIN best_cost \subseteq layer[Reach]
      /\ Reach \in Nat /\ Layered(layer, Walkable, Paths!Start, Reach)
  BY WalkableCells, WithinIsLayered DEF SearchSound
<1>4. Paths!Reachable <=> Paths!Destination \in layer[Reach]
  <2>1. Paths!Traversable(Paths!Start) /\ Paths!Traversable(Paths!Destination)
    BY <1>3, WalkableCells
  <2> QED BY <2>1 DEF Paths!Reachable, Reach
<1>5. CostsSound(Walkable, Paths!Start, best_cost, came_from) /\ Bounded(best_cost)
      /\ DOMAIN came_from = DOMAIN best_cost /\ \A c \in DOMAIN best_cost : best_cost[c] \in Nat
  BY <1>3 DEF Searched, CostsSound
<1>6. Chained(chain, came_from)
  <2>1. \E h : h = [c \in DOMAIN came_from |->
                      IF came_from[c] = None THEN <<c>> ELSE Append(h[came_from[c]], c)]
    BY <1>3, <1>5, ChainsExist
  <2>2. chain = CHOOSE h : h = [c \in DOMAIN came_from |->
                      IF came_from[c] = None THEN <<c>> ELSE Append(h[came_from[c]], c)]
    BY DEF Paths!Chain
  <2>3. chain = [c \in DOMAIN came_from |->
                      IF came_from[c] = None THEN <<c>> ELSE Append(chain[came_from[c]], c)]
    BY <2>1, <2>2, Zenon
  <2> HIDE DEF chain
  <2> QED BY <2>3 DEF Chained
<1> HIDE DEF layer, chain
<1>7. CASE frontier = {}
  <2>1. /\ Paths!Destination \notin DOMAIN best_cost
        /\ \A i \in 0..Reach : Paths!Destination \notin layer[i]
    BY <1>3, <1>7, ExhaustedIsUnreachable
  <2>2. path' = None /\ ~Paths!Reachable
    BY <1>1, <1>3, <1>4, <1>5, <2>1
  <2> QED BY <2>2
<1>8. CASE frontier # {}
  <2>1. /\ Paths!Least \in frontier /\ Paths!Least[3] = Paths!Destination
        /\ \A e \in frontier : Paths!Least[1] <= e[1]
    BY <1>1, <1>8, HeapTyped
  <2>2. Paths!Destination \in DOMAIN best_cost
    BY <1>3, <2>1 DEF Searched, HeapSound
  <2>3. \A i \in 0..Reach : Paths!Destination \in layer[i] => best_cost[Paths!Destination] <= i
    <3>1. PICK free, s, goal, n, layers :
            free = Walkable /\ s = Paths!Start /\ goal = Paths!Destination /\ n = Reach
              /\ layers = layer
      OBVIOUS
    <3>2. PICK costs, from, heap, popped :
            costs = best_cost /\ from = came_from /\ heap = frontier /\ popped = Paths!Least
      OBVIOUS
    <3>3. /\ free \subseteq Int \X Int /\ s \in free /\ goal \in Int \X Int
          /\ Searched(free, s, goal, costs, from, heap) /\ n \in Nat
          /\ Layered(layers, free, s, n)
      BY <1>3, <3>1, <3>2
    <3>4. popped \in heap /\ popped[3] = goal /\ First(popped, heap)
      BY <2>1, <3>1, <3>2 DEF First
    <3>5. \A i \in 0..n : goal \in layers[i] => costs[goal] <= i
      BY <3>3, <3>4, PoppedIsShortest
    <3> QED BY <3>1, <3>2, <3>5
  <2>4. Paths!Destination \in layer[Reach]
    BY <1>3, <2>2
  <2>5. /\ Walk(chain[Paths!Destination], Walkable, Paths!Start, Paths!Destination)
        /\ Len(chain[Paths!Destination]) <= best_cost[Paths!Destination] + 1
    BY <1>3, <1>5, <1>6, <2>2, ChainsWalk
  <2>6. path' = chain[Paths!Destination]
    BY <1>1, <1>5, <2>2
  <2>7. path' \in Seq(Walkable) /\ path' # None /\ Len(path') \in Nat
    BY <1>3, <2>5, <2>6 DEF Walk
  <2>8. best_cost[Paths!Destination] \in Nat /\ Len(path') - 1 <= best_cost[Paths!Destination]
    BY <1>5, <2>2, <2>5, <2>6, <2>7
  <2>9. \A i \in 0..Reach : Paths!Destination \in layer[i] => Len(path') - 1 <= i
    <3> SUFFICES ASSUME NEW i \in 0..Reach, Paths!Destination \in layer[i]
                 PROVE  Len(path') - 1 <= i
      OBVIOUS
    <3>1. best_cost[Paths!Destination] <= i /\ i \in Nat
      BY <1>3, <2>3
    <3> QED BY <2>7, <2>8, <3>1
  <2>10. Len(path') - 1 <= Reach
    BY <1>3, <2>4, <2>9
  <2>11. PathSound'
    BY <1>2, <2>5, <2>6, <2>9, <2>10 DEF PathSound, layer
  <2> QED BY <1>4, <2>4, <2>7, <2>11
<1> QED BY <1>7, <1>8
LEMMA NoIssue ==
  ASSUME NEW A, NEW x, (IF A THEN {} ELSE {x}) = {}
  PROVE  A
OBVIOUS

\* What a candidate without issues has.
LEMMA GateSays ==
  ASSUME Paths!IssuesFound = {}
  PROVE  /\ \A o \in placed : Paths!InsideRoom(o)
         /\ \A o \in placed : \A p \in placed \ {o} : ~Paths!Overlaps(o, p, Gap)
         /\ \A o \in placed, end \in {1, 2} : ~Paths!Covers(o, Margin, anchor[end])
<1>1. /\ (IF \A o \in placed : Paths!InsideRoom(o) THEN {} ELSE {"object_out_of_bounds"}) = {}
      /\ (IF \E o, p \in placed : o # p /\ Paths!Overlaps(o, p, Gap)
          THEN {"objects_overlap"} ELSE {}) = {}
      /\ Paths!EndIssues("start", anchor[1]) = {}
      /\ Paths!EndIssues("destination", anchor[2]) = {}
  BY DEF Paths!IssuesFound
<1>2. ASSUME NEW label, NEW point, Paths!EndIssues(label, point) = {}
      PROVE  ~ \E o \in placed : Paths!Covers(o, Margin, point)
  BY <1>2 DEF Paths!EndIssues
<1>3. \A o \in placed : ~Paths!Covers(o, Margin, anchor[1])
  BY <1>1, <1>2
<1>4. \A o \in placed : ~Paths!Covers(o, Margin, anchor[2])
  BY <1>1, <1>2
<1>5. \A o \in placed : Paths!InsideRoom(o)
  BY <1>1
<1>6. \A o \in placed : \A p \in placed \ {o} : ~Paths!Overlaps(o, p, Gap)
  BY <1>1
<1> QED BY <1>3, <1>4, <1>5, <1>6

LEMMA WorldBegins == ASSUME Paths!Init PROVE WorldSound
BY DEF Paths!Init, Paths!Blank, WorldSound

LEMMA NextCandidateKeeps ==
  ASSUME WorldSound, Paths!NextCandidate
  PROVE  WorldSound'
<1>1. CASE generation' = "placing" /\ placed' = {} /\ path' = None
  BY <1>1 DEF WorldSound
<1>2. CASE generation' = "raised" /\ UNCHANGED <<anchor, placed, path>>
  BY <1>2, PathSoundStays DEF WorldSound
<1> QED BY <1>1, <1>2 DEF Paths!NextCandidate

LEMMA WorldKept == ASSUME WorldSound, Paths!Next PROVE WorldSound'
<1>1. CASE Paths!Place
  <2>1. PICK o \in Paths!Objects : placed' = placed \cup {o}
    BY <1>1 DEF Paths!Place
  <2>2. generation = "placing" /\ generation' = "placing" /\ path' = path
    BY <1>1 DEF Paths!Place
  <2>3. placed' \subseteq Paths!Objects
    BY <2>1 DEF WorldSound
  <2>4. Paths!Objects' = Paths!Objects
    BY DEF Paths!Objects
  <2> QED BY <2>2, <2>3, <2>4 DEF WorldSound
<1>2. CASE Paths!GiveUp
  BY <1>2, NextCandidateKeeps DEF Paths!GiveUp
<1>3. CASE Paths!Validate
  <2>1. /\ generation = "placing" /\ generation' \in {"searching", "searched"}
        /\ UNCHANGED <<placed, anchor, path>> /\ issues' = Paths!IssuesFound
        /\ generation' = "searched" =>
             ~(Paths!Traversable(Paths!Start) /\ Paths!Traversable(Paths!Destination))
    BY <1>3 DEF Paths!Validate
  <2>2. path' = None
    BY <2>1 DEF WorldSound
  <2>3. issues' = Paths!IssuesFound' /\ Paths!Reachable' = Paths!Reachable
    BY <2>1, WorldStays
  <2>4. generation' = "searched" => ~Paths!Reachable
    BY <2>1 DEF Paths!Reachable
  <2>5. generation' = "searching" => SearchSound'
    BY <1>3, ValidateBegins
  <2> QED BY <2>1, <2>2, <2>3, <2>4, <2>5 DEF WorldSound
<1>4. CASE Paths!Expand
  <2>1. /\ generation = "searching" /\ generation' = generation
        /\ UNCHANGED <<placed, anchor, path, issues>>
    BY <1>4 DEF Paths!Expand
  <2>2. SearchSound'
    BY <1>4, <2>1, ExpandKeeps DEF WorldSound
  <2>3. Paths!IssuesFound' = Paths!IssuesFound
    BY <2>1, WorldStays
  <2> QED BY <2>1, <2>2, <2>3 DEF WorldSound
<1>5. CASE Paths!EndSearch
  <2>1. /\ generation = "searching" /\ generation' = "searched"
        /\ UNCHANGED <<placed, anchor, issues>>
    BY <1>5 DEF Paths!EndSearch
  <2>2. (path' = None <=> ~Paths!Reachable) /\ (path' # None => PathSound')
    BY <1>5, <2>1, EndSearchFinds DEF WorldSound
  <2>3. Paths!IssuesFound' = Paths!IssuesFound /\ Paths!Reachable' = Paths!Reachable
    BY <2>1, WorldStays
  <2> QED BY <2>1, <2>2, <2>3 DEF WorldSound
<1>6. CASE Paths!Accept
  <2>1. /\ generation = "searched" /\ generation' = "accepted" /\ issues = {} /\ path # None
        /\ UNCHANGED <<placed, anchor, issues, path>>
    BY <1>6 DEF Paths!Accept
  <2>2. Paths!IssuesFound' = Paths!IssuesFound
    BY <2>1, WorldStays
  <2>3. path # None => PathSound'
    BY <2>1, PathSoundStays DEF WorldSound
  <2> QED BY <2>1, <2>2, <2>3 DEF WorldSound
<1>7. CASE Paths!Refuse
  BY <1>7, NextCandidateKeeps DEF Paths!Refuse
<1> QED BY <1>1, <1>2, <1>3, <1>4, <1>5, <1>6, <1>7 DEF Paths!Next

LEMMA WorldEarned == ASSUME WorldSound PROVE Paths!PathsEarned
<1>1. ASSUME path # None
      PROVE  /\ path[1] = Paths!Start /\ path[Len(path)] = Paths!Destination
             /\ Len(path) > 1 => Paths!Destination \notin Paths!Within[Len(path) - 2]
             /\ \A i \in 1 .. Len(path) - 1 :
                  /\ path[i + 1] \in Paths!Neighbours(path[i])
                  /\ \A point \in Paths!Between(path[i], path[i + 1]), o \in placed :
                       ~Paths!Covers(o, Margin, point)
  <2>1. PathSound
    BY <1>1 DEF WorldSound
  <2>2. /\ path \in Seq(Walkable) /\ Len(path) >= 1 /\ Len(path) \in Nat
        /\ path[1] = Paths!Start /\ path[Len(path)] = Paths!Destination
        /\ \A i \in 1 .. Len(path) - 1 : path[i + 1] \in Paths!Neighbours(path[i])
    BY <2>1 DEF PathSound, Walk
  <2>3. Reach \in Nat
    BY WalkableCells
  <2>4. ASSUME Len(path) > 1, Paths!Destination \in Paths!Within[Len(path) - 2] PROVE FALSE
    <3>1. Len(path) - 2 \in 0 .. Reach /\ ~(Len(path) - 1 <= Len(path) - 2)
      BY <2>1, <2>2, <2>3, <2>4 DEF PathSound
    <3> QED BY <2>1, <2>4, <3>1 DEF PathSound
  <2>5. ASSUME NEW i \in 1 .. Len(path) - 1, NEW o \in placed,
               NEW point \in Paths!Between(path[i], path[i + 1])
        PROVE  ~Paths!Covers(o, Margin, point)
    <3>1. i \in 1 .. Len(path) /\ i + 1 \in 1 .. Len(path)
      BY <2>2
    <3>2. path[i] \in Walkable /\ path[i + 1] \in Walkable
      BY <2>2, <3>1
    <3>3. /\ ~Paths!Covers(o, Margin, Paths!PointOf(path[i]))
          /\ ~Paths!Covers(o, Margin, Paths!PointOf(path[i + 1]))
      BY <3>2 DEF Walkable, Paths!Traversable
    <3>4. path[i] \in Int \X Int /\ o \in Paths!Objects
      BY <3>2, WalkableCells DEF WorldSound
    <3>5. path[i + 1] \in Paths!Neighbours(path[i])
      BY <2>2
    <3> QED BY <2>5, <3>3, <3>4, <3>5, MovesKeepClear
  <2> QED BY <2>2, <2>4, <2>5
<1>2. generation = "searched" => (path = None <=> ~Paths!Reachable)
  BY DEF WorldSound
<1>3. ASSUME generation = "accepted"
      PROVE  /\ path # None
             /\ \A o \in placed : /\ Paths!InsideRoom(o)
                                  /\ \A p \in placed \ {o} : ~Paths!Overlaps(o, p, Gap)
             /\ \A o \in placed, end \in {1, 2} : ~Paths!Covers(o, Margin, anchor[end])
  <2>1. path # None /\ Paths!IssuesFound = {}
    BY <1>3 DEF WorldSound
  <2> QED BY <2>1, GateSays
<1> QED BY <1>1, <1>2, <1>3 DEF Paths!PathsEarned

LEMMA PathsFrame ==
  [SideNext]_sideVars =>
     \/ subject = "worlds" /\ Paths!Next /\ UNCHANGED subject
     \/ UNCHANGED <<subject, worldsVars>>
BY DEF SideNext, sideVars, TrainingStep, GateStep, DeliveryStep, SupervisorStep, HeldOutStep,
   SandboxStep, ControllerStep, HttpStep, PathsStep

\* Every path a world is accepted with is one the robot can walk with its clearance and
\* as short as any, and a candidate without a path has none, on a grid of any size and
\* with any objects: the search is admissible (pathfinding.py:67).
THEOREM PathsAlwaysEarned == SideSpec => []PathsEarned
<1> DEFINE Inv == subject = "worlds" => WorldSound
<1>1. SideInit => Inv
  BY WorldBegins DEF SideInit, PathsInit
<1>2. Inv /\ [SideNext]_sideVars => Inv'
  <2> SUFFICES ASSUME Inv, [SideNext]_sideVars, subject' = "worlds" PROVE WorldSound'
    OBVIOUS
  <2>1. CASE subject = "worlds" /\ Paths!Next /\ UNCHANGED subject
    BY <2>1, WorldKept
  <2>2. CASE UNCHANGED <<subject, worldsVars>>
    <3>1. WorldSound /\ UNCHANGED <<generation, anchor, placed, issues, frontier, best_cost,
                                    came_from, path>>
      BY <2>2 DEF worldsVars
    <3>2. Paths!IssuesFound' = Paths!IssuesFound /\ Paths!Reachable' = Paths!Reachable
      BY <3>1, WorldStays
    <3>3. generation = "searching" => SearchSound'
      BY <3>1, SearchSoundStays DEF WorldSound
    <3>4. path # None => PathSound'
      BY <3>1, PathSoundStays DEF WorldSound
    <3> QED BY <3>1, <3>2, <3>3, <3>4 DEF WorldSound
  <2> QED BY <2>1, <2>2, PathsFrame
<1>3. Inv => PathsEarned
  BY WorldEarned DEF PathsEarned
<1> QED BY <1>1, <1>2, <1>3, PTL DEF SideSpec
=============================================================================
