---------------------- MODULE RecordsSideBySide_proofs ----------------------
(***************************************************************************)
(* Proofs about the components of RecordsSideBySide, each for any value of *)
(* its constants: any facts, threads, lengths of the file, artifacts,      *)
(* configurations and closed episodes. A section states a component's      *)
(* inductive invariant, shows that each of its actions keeps it, and ends  *)
(* in theorems about the properties the run checks. What runs beside it    *)
(* leaves it alone (the lemmas named Frame).                               *)
(***************************************************************************)
EXTENDS RecordsSideBySide, FiniteSetTheorems, WellFoundedInduction, TLAPS

-----------------------------------------------------------------------------
(* Numbers.                                                                *)

\* Induction on the naturals, as a least element.
LEMMA LeastElement ==
  ASSUME NEW S, S \subseteq Nat, S # {}
  PROVE  \E x \in S : \A y \in S : x <= y
<1> DEFINE R == {ss \in Nat \X Nat : ss[1] < ss[2]}
<1>1. IsWellFoundedOn(R, Nat)
  BY NatLessThanWellFounded DEF OpToRel
<1>2. PICK x \in S : \A y \in S : <<y, x>> \notin R
  BY <1>1, WFMin
<1>3. \A y \in S : ~(y < x)
  BY <1>2
<1> QED BY <1>2, <1>3

LEMMA GreatestElement ==
  ASSUME NEW n \in Nat, NEW S, S \subseteq 1..n, S # {}
  PROVE  \E x \in S : \A y \in S : y <= x
<1> DEFINE T == {n - y : y \in S}
<1>1. T \subseteq Nat /\ T # {}
  <2>1. \A y \in S : n - y \in Nat
    OBVIOUS
  <2> QED BY <2>1
<1>2. PICK t \in T : \A u \in T : t <= u
  BY <1>1, LeastElement
<1>3. PICK x \in S : t = n - x
  BY <1>2
<1>4. \A y \in S : n - x <= n - y
  BY <1>2, <1>3
<1> QED BY <1>3, <1>4

-----------------------------------------------------------------------------
(* Graph memory.                                                           *)

USE GraphAssumption DEF GraphAssumption

\* The file ends with a line without its end.
Unended == file # <<>> /\ file[Len(file)] = Torn

\* The lines of the file are those of memory and those failed appends left behind; what
\* must not be forgotten is in it as long as it loads.
FileSound ==
  /\ Len(events) <= Len(file) /\ (Unended => Len(events) < Len(file))
  /\ CacheLoadable
  /\ Loadable => Acknowledged \cup remote \subseteq Range(file)
  /\ Loadable /\ running => Known \subseteq Range(file)

\* The facts in memory have one content per identity, follow those they refer to, and
\* include the acknowledged and those FalkorDB was sent.
MemorySound ==
  /\ ~running => /\ events = <<>> /\ reconciled = 0
                 /\ \A t \in Threads : call[t] = Idle
  /\ running => Acknowledged \cup remote \subseteq Known
  /\ \A f, g \in Known : Identity[f] = Identity[g] => f = g
  /\ \A n \in 1 .. Len(events) : \A id \in Needs[events[n]] :
       \E m \in 1 .. n - 1 : Identity[events[m]] = id

\* Facts up to a cursor are in FalkorDB.
Mirrored(n) == \A m \in 1 .. n : events[m] \in remote
\* What the answer of a call must cover.
Wanted(t) == call[t].seen \cup (IF call[t].kind = "write" THEN {call[t].fact} ELSE {})

\* A call wants what is known; a replay has its snapshot's first facts in FalkorDB
\* and the rest to do, and the snapshot holds what is wanted.
CallSound(t) ==
  /\ Wanted(t) \subseteq Known
  /\ call[t].step = "replay" =>
       LET done == call[t].cursor - Len(call[t].todo) IN
       /\ done >= 0 /\ call[t].cursor <= Len(events)
       /\ Mirrored(done)
       /\ \A n \in 1 .. Len(call[t].todo) : call[t].todo[n] = events[done + n]
       /\ Wanted(t) \subseteq {events[n] : n \in 1 .. call[t].cursor}
  /\ call[t].step = "reconciled" => Wanted(t) \subseteq remote

IInv == /\ TypeOK /\ FileSound /\ MemorySound /\ RemoteWellFormed
        /\ reconciled <= Len(events) /\ Mirrored(reconciled)
        /\ \A t \in Threads : CallSound(t)

LEMMA InvFacts ==
  ASSUME IInv
  PROVE  /\ TypeOK /\ FileSound /\ MemorySound /\ RemoteWellFormed
         /\ reconciled <= Len(events) /\ Mirrored(reconciled)
         /\ \A t \in Threads : CallSound(t) /\ call[t] \in Calls
         /\ file \in Seq(Facts \cup {Torn, Corrupt})
         /\ Len(file) \in Nat /\ Len(file) <= MaxLines /\ DOMAIN file = 1 .. Len(file)
         /\ Len(events) \in Nat /\ Len(events) <= MaxLines /\ DOMAIN events = 1 .. Len(events)
         /\ Known \subseteq Facts /\ Range(file) \subseteq Facts \cup {Torn, Corrupt}
         /\ \A n \in 1 .. Len(events) : events[n] \in Known
<1>1. /\ TypeOK /\ FileSound /\ MemorySound /\ RemoteWellFormed
      /\ reconciled <= Len(events) /\ Mirrored(reconciled)
      /\ \A t \in Threads : CallSound(t)
  BY DEF IInv
<1>2. /\ file \in Seq(Facts \cup {Torn, Corrupt})
      /\ Len(file) \in Nat /\ Len(file) <= MaxLines /\ DOMAIN file = 1 .. Len(file)
      /\ Len(events) \in Nat /\ DOMAIN events = 1 .. Len(events)
      /\ \A n \in 1 .. Len(events) : events[n] \in Facts
      /\ \A n \in 1 .. Len(file) : file[n] \in Facts \cup {Torn, Corrupt}
      /\ call \in [Threads -> Calls]
  BY <1>1 DEF TypeOK
<1>3. /\ Known \subseteq Facts /\ Range(file) \subseteq Facts \cup {Torn, Corrupt}
      /\ \A n \in 1 .. Len(events) : events[n] \in Known
  BY <1>2 DEF Known, Range
<1>4. Len(events) <= MaxLines
  BY <1>1, <1>2 DEF FileSound
<1>5. QED
  BY <1>1, <1>2, <1>3, <1>4

LEMMA IdleType ==
  /\ Idle \in Calls
  /\ Idle.kind = "health" /\ Idle.fact = NoFact /\ Idle.seen = {}
BY DEF Idle, Calls, Kinds

\* A file that loads holds facts only, with one content per identity.
LEMMA OneContent ==
  ASSUME IInv, Loadable
  PROVE  /\ Range(file) \subseteq Facts
         /\ \A f, g \in Range(file) : Identity[f] = Identity[g] => f = g
<1>1. Range(file) \subseteq Facts
  BY InvFacts DEF Loadable, Range
<1>2. ASSUME NEW f \in Range(file), NEW g \in Range(file), Identity[f] = Identity[g]
      PROVE  f = g
  <2>1. PICK n \in 1 .. Len(file), m \in 1 .. Len(file) : f = file[n] /\ g = file[m]
    BY InvFacts DEF Range
  <2>2. file[n] \in Facts /\ file[m] \in Facts
    BY InvFacts DEF Loadable
  <2>3. CASE m < n
    BY <1>2, <2>1, <2>2, <2>3, InvFacts DEF Loadable
  <2>4. CASE n < m
    BY <1>2, <2>1, <2>2, <2>4, InvFacts DEF Loadable
  <2>5. QED
    BY <2>1, <2>3, <2>4
<1>3. QED
  BY <1>1, <1>2

\* The file with another line: its facts stay, a line without its end swallows the next
\* one, and a file that loads afterwards loaded before.
LEMMA Lined ==
  ASSUME IInv, NEW line \in Facts \cup {Torn}, Len(file) < MaxLines, file' = WithLine(line)
  PROVE  /\ file' \in Seq(Facts \cup {Torn, Corrupt}) /\ Len(file') \in 0 .. MaxLines
         /\ Len(events) + 1 <= Len(file') /\ (Unended' => line = Torn)
         /\ Range(file) \cap Facts \subseteq Range(file')
         /\ line = Torn \/ Range(file) \cap {Torn, Corrupt} # {}
              => Range(file') \cap {Torn, Corrupt} # {}
         /\ Range(file) \cap {Torn, Corrupt} = {}
              => /\ file' = Append(file, line) /\ Len(file') = Len(file) + 1
                 /\ Range(file') = Range(file) \cup {line}
         /\ Loadable' => Loadable /\ line \in Facts /\ Range(file') = Range(file) \cup {line}
<1> DEFINE end == IF line = Torn THEN Torn ELSE Corrupt
<1>0. ASSUME NEW S, NEW s \in Seq(S), NEW n \in 1 .. Len(s), NEW e \in S, NEW r,
             r = [s EXCEPT ![n] = e]
      PROVE  /\ r \in Seq(S) /\ Len(r) = Len(s) /\ DOMAIN r = 1 .. Len(s) /\ r[n] = e
             /\ \A m \in 1 .. Len(s) : m # n => r[m] = s[m]
  BY <1>0
<1>1. CASE Unended
  <2>1. /\ file' = [file EXCEPT ![Len(file)] = end] /\ Len(file) \in 1 .. Len(file)
        /\ Len(events) < Len(file) /\ end \in {Torn, Corrupt}
    BY <1>1, InvFacts DEF WithLine, Unended, FileSound
  <2>2. /\ file' \in Seq(Facts \cup {Torn, Corrupt}) /\ Len(file') = Len(file)
        /\ DOMAIN file' = 1 .. Len(file)
        /\ file'[Len(file)] = end /\ \A n \in 1 .. Len(file) : n # Len(file) => file'[n] = file[n]
    <3> HIDE DEF end
    <3>1. file \in Seq(Facts \cup {Torn, Corrupt}) /\ end \in Facts \cup {Torn, Corrupt}
      BY <2>1, InvFacts
    <3>2. QED
      BY <1>0, <2>1, <3>1
  <2>3. end \in Range(file') /\ Torn \in Range(file)
    BY <1>1, <2>1, <2>2, InvFacts DEF Range, Unended
  <2>4. Range(file) \cap Facts \subseteq Range(file')
    BY <1>1, <2>2, InvFacts DEF Range, Unended
  <2>5. ~Loadable'
    BY <2>1, <2>2 DEF Loadable
  <2>6. Unended' => line = Torn
    BY <2>2 DEF Unended
  <2>7. Len(file') \in 0 .. MaxLines /\ Len(events) + 1 <= Len(file')
    <3>1. /\ Len(file) \in Nat /\ Len(file) <= MaxLines /\ Len(events) \in Nat
          /\ Len(events) < Len(file) /\ Len(file') = Len(file)
      BY <2>1, <2>2, InvFacts
    <3>2. QED
      BY <3>1
  <2>8. Range(file) \cap {Torn, Corrupt} # {} /\ Range(file') \cap {Torn, Corrupt} # {}
    BY <2>1, <2>3
  <2>9. QED
    BY <2>2, <2>4, <2>5, <2>6, <2>7, <2>8
<1>2. CASE ~Unended
  <2>1. file' = Append(file, line)
    BY <1>2 DEF WithLine, Unended
  <2>2. /\ file' \in Seq(Facts \cup {Torn, Corrupt}) /\ Len(file') = Len(file) + 1
        /\ DOMAIN file' = 1 .. Len(file) + 1
        /\ file'[Len(file) + 1] = line /\ \A n \in 1 .. Len(file) : file'[n] = file[n]
        /\ Len(file') \in 0 .. MaxLines
    BY <2>1, InvFacts
  <2>3. Range(file') = Range(file) \cup {line}
    BY <2>2, InvFacts DEF Range
  <2>4. Len(events) + 1 <= Len(file')
    BY <2>2, InvFacts DEF FileSound
  <2>5. Unended' => line = Torn
    BY <2>2 DEF Unended
  <2>6. ASSUME Loadable' PROVE Loadable /\ line \in Facts
    <3>1. line \in Facts
      BY <2>2, <2>6, InvFacts DEF Loadable
    <3>2. ASSUME NEW n \in 1 .. Len(file)
          PROVE  /\ file[n] \in Facts
                 /\ \A m \in 1 .. n - 1 : file[m] \in Facts /\ Identity[file[m]] = Identity[file[n]]
                                            => file[m] = file[n]
                 /\ \A id \in Needs[file[n]] : \E m \in 1 .. n - 1 :
                      file[m] \in Facts /\ Identity[file[m]] = id
      <4>1. n \in DOMAIN file' /\ file'[n] = file[n]
        BY <2>2, <3>2, InvFacts
      <4>2. \A m \in 1 .. n - 1 : file'[m] = file[m]
        BY <2>2, <3>2, InvFacts
      <4>3. QED
        BY <2>6, <4>1, <4>2 DEF Loadable
    <3>3. QED
      BY <3>1, <3>2, InvFacts DEF Loadable
  <2>7. QED
    BY <2>1, <2>2, <2>3, <2>4, <2>5, <2>6
<1>3. QED
  BY <1>1, <1>2

\* Damage is for good.
LEMMA DamageStays ==
  ASSUME IInv, Damaged, Range(file) \cap Facts \subseteq Range(file'),
         Range(file) \cap {Torn, Corrupt} # {} => Range(file') \cap {Torn, Corrupt} # {},
         \/ Known' \subseteq Known
         \/ \E f \in Facts : Admissible(f) /\ Known' \subseteq Known \cup {f}
  PROVE  Damaged'
<1>1. CASE Range(file) \cap {Torn, Corrupt} # {}
  BY <1>1 DEF Damaged
<1>2. CASE \E g, h \in Range(file) \cap Facts :
             g # h /\ Identity[g] = Identity[h] /\ ~({g, h} \subseteq Known)
  <2>1. PICK g \in Range(file) \cap Facts, h \in Range(file) \cap Facts :
           g # h /\ Identity[g] = Identity[h] /\ ~({g, h} \subseteq Known)
    BY <1>2
  <2>2. ~({g, h} \subseteq Known')
    <3>1. CASE Known' \subseteq Known
      BY <2>1, <3>1
    <3>2. CASE \E f \in Facts : Admissible(f) /\ Known' \subseteq Known \cup {f}
      <4>1. PICK f \in Facts : Admissible(f) /\ Known' \subseteq Known \cup {f}
        BY <3>2
      <4>2. \A k \in Known : Identity[k] # Identity[f]
        BY <4>1 DEF Admissible, Holds
      <4>3. QED
        BY <2>1, <4>1, <4>2
    <3>3. QED
      BY <3>1, <3>2
  <2>3. QED
    BY <2>1, <2>2 DEF Damaged
<1>3. QED
  BY <1>1, <1>2 DEF Damaged

\* A fact that follows what the process knows leaves a file that loads, or one with a
\* rival of it that the process does not know.
LEMMA StaysLoadable ==
  ASSUME IInv, running, NEW f \in Facts, Admissible(f), Len(file) < MaxLines,
         file' = WithLine(f), Known' \subseteq Known \cup {f}
  PROVE  CacheLoadable'
<1>1. /\ Range(file) \cap Facts \subseteq Range(file')
      /\ Range(file) \cap {Torn, Corrupt} # {} => Range(file') \cap {Torn, Corrupt} # {}
      /\ Range(file) \cap {Torn, Corrupt} = {}
           => file' = Append(file, f) /\ Range(file') = Range(file) \cup {f}
  BY Lined
<1>2. CASE Damaged
  BY <1>1, <1>2, DamageStays DEF CacheLoadable
<1>3. CASE Loadable
  <2>1. Range(file) \subseteq Facts /\ Known \subseteq Range(file)
        /\ \A g, h \in Range(file) : Identity[g] = Identity[h] => g = h
    BY <1>3, OneContent, InvFacts DEF FileSound
  <2>2. file' = Append(file, f) /\ Range(file') = Range(file) \cup {f}
    BY <1>1, <2>1
  <2>3. /\ DOMAIN file' = 1 .. Len(file) + 1 /\ file'[Len(file) + 1] = f
        /\ \A n \in 1 .. Len(file) : file'[n] = file[n]
    BY <2>2, InvFacts
  <2>4. CASE \E g \in Range(file) : g # f /\ Identity[g] = Identity[f]
    <3>1. PICK g \in Range(file) : g # f /\ Identity[g] = Identity[f]
      BY <2>4
    <3>2. g \notin Known'
      BY <3>1 DEF Admissible, Holds
    <3>3. QED
      BY <2>1, <2>2, <3>1, <3>2 DEF CacheLoadable, Damaged
  <2>5. CASE \A g \in Range(file) : Identity[g] = Identity[f] => g = f
    <3>1. ASSUME NEW n \in 1 .. Len(file) + 1
          PROVE  /\ file'[n] \in Facts
                 /\ \A m \in 1 .. n - 1 : file'[m] \in Facts
                      /\ Identity[file'[m]] = Identity[file'[n]]
                                            => file'[m] = file'[n]
                 /\ \A id \in Needs[file'[n]] : \E m \in 1 .. n - 1 :
                      file'[m] \in Facts /\ Identity[file'[m]] = id
      <4>1. CASE n \in 1 .. Len(file)
        <5>1. \A m \in 1 .. n - 1 : m \in 1 .. Len(file) /\ file'[m] = file[m]
          BY <2>3, <4>1, InvFacts
        <5>2. QED
          BY <1>3, <2>3, <4>1, <5>1, InvFacts DEF Loadable
      <4>2. CASE n = Len(file) + 1
        <5>1. n - 1 = Len(file) /\ \A m \in 1 .. n - 1 : file'[m] = file[m]
                /\ file[m] \in Range(file)
          BY <2>3, <4>2, InvFacts DEF Range
        <5>2. \A m \in 1 .. n - 1 : Identity[file[m]] = Identity[f] => file[m] = f
          BY <2>5, <5>1
        <5>3. ASSUME NEW id \in Needs[f]
              PROVE  \E m \in 1 .. n - 1 : file[m] \in Facts /\ Identity[file[m]] = id
          <6>1. PICK g \in Range(file) : Identity[g] = id
            BY <2>1 DEF Admissible, Holds
          <6>2. QED
            BY <2>1, <5>1, <6>1, InvFacts DEF Range
        <5>4. QED
          BY <2>3, <4>2, <5>1, <5>2, <5>3
      <4>3. QED
        BY <4>1, <4>2, InvFacts
    <3>2. QED
      BY <2>3, <3>1 DEF Loadable, CacheLoadable
  <2>6. QED
    BY <2>4, <2>5
<1>4. QED
  BY <1>2, <1>3, InvFacts DEF FileSound, CacheLoadable

\* What FalkorDB holds, and the receipts about it, are left alone.
LEMMA RemoteKept ==
  ASSUME IInv, remote' = remote, receipts' = receipts PROVE RemoteWellFormed'
BY InvFacts DEF RemoteWellFormed, Holds

\* Facts the process knows may be sent to FalkorDB and acknowledged.
LEMMA FileKept ==
  ASSUME IInv, UNCHANGED <<file, running, events>>,
         Acknowledged' \cup remote' \subseteq
           Acknowledged \cup remote \cup (IF running THEN Known ELSE {})
  PROVE  FileSound'
<1>1. /\ Known' = Known /\ Loadable' = Loadable /\ Unended' = Unended
      /\ CacheLoadable' = CacheLoadable
  BY DEF Known, Loadable, Unended, Damaged, CacheLoadable
<1>2. QED
  BY <1>1, InvFacts DEF FileSound

\* A call that is left alone stays sound while facts are added.
LEMMA CallKept ==
  ASSUME IInv, NEW t \in Threads, call'[t] = call[t], remote \subseteq remote',
         Len(events) <= Len(events'), Len(events') \in Nat, Known \subseteq Known',
         \A n \in 1 .. Len(events) : events'[n] = events[n]
  PROVE  CallSound(t)'
<1>1. CallSound(t) /\ call[t] \in Calls /\ Wanted(t)' = Wanted(t)
  BY InvFacts DEF Wanted
<1>2. CASE call[t].step = "replay"
  <2> DEFINE done == call[t].cursor - Len(call[t].todo)
  <2>1. /\ call[t].cursor \in Nat /\ Len(call[t].todo) \in Nat
        /\ done >= 0 /\ call[t].cursor <= Len(events) /\ Len(events) \in Nat
    BY <1>1, <1>2, InvFacts DEF CallSound, Calls
  <2>2. \A n \in 1 .. call[t].cursor : events'[n] = events[n]
    BY <2>1
  <2>3. /\ \A m \in 1 .. done : events'[m] \in remote'
        /\ \A n \in 1 .. Len(call[t].todo) : call[t].todo[n] = events'[done + n]
        /\ Wanted(t) \subseteq {events'[n] : n \in 1 .. call[t].cursor}
    <3>1. /\ \A m \in 1 .. done : events[m] \in remote
          /\ \A n \in 1 .. Len(call[t].todo) : call[t].todo[n] = events[done + n]
          /\ Wanted(t) \subseteq {events[n] : n \in 1 .. call[t].cursor}
      BY <1>1, <1>2 DEF CallSound, Mirrored
    <3>2. \A m \in 1 .. done : m \in 1 .. call[t].cursor
      BY <2>1
    <3>3. \A n \in 1 .. Len(call[t].todo) : done + n \in 1 .. call[t].cursor
      <4>1. ASSUME NEW c \in Nat, NEW l \in Nat, c - l >= 0
            PROVE  \A n \in 1 .. l : (c - l) + n \in 1 .. c
        BY <4>1
      <4>2. QED
        BY <2>1, <4>1
    <3>4. {events'[n] : n \in 1 .. call[t].cursor} = {events[n] : n \in 1 .. call[t].cursor}
      BY <2>2
    <3>5. QED
      BY <2>2, <3>1, <3>2, <3>3, <3>4
  <2>4. call[t].cursor <= Len(events') /\ Wanted(t)' \subseteq Known'
    BY <1>1, <2>1 DEF CallSound
  <2>5. QED
    BY <1>1, <1>2, <2>1, <2>3, <2>4 DEF CallSound, Mirrored
<1>3. CASE call[t].step # "replay"
  BY <1>1, <1>3 DEF CallSound
<1>4. QED
  BY <1>2, <1>3

\* A call that is over wants nothing.
LEMMA CallOver ==
  ASSUME NEW t \in Threads, call'[t] = Idle
  PROVE  CallSound(t)'
<1>1. call'[t].step = "idle" /\ call'[t].kind = "health" /\ call'[t].seen = {}
  BY DEF Idle
<1>2. QED
  BY <1>1 DEF CallSound, Wanted

\* Steps that touch neither file, memory nor FalkorDB.
LEMMA Kept ==
  ASSUME IInv, UNCHANGED <<file, running, events>>, remote' = remote, receipts' = receipts,
         reconciled' = reconciled
  PROVE  /\ FileSound' /\ RemoteWellFormed'
         /\ reconciled' <= Len(events') /\ Mirrored(reconciled)'
         /\ \A t \in Threads : call'[t] = call[t] => CallSound(t)'
<1>1. FileSound' /\ reconciled' <= Len(events') /\ Mirrored(reconciled)'
  <2>1. Acknowledged' = Acknowledged
    BY DEF Acknowledged
  <2>2. QED
    BY <2>1, FileKept, InvFacts DEF Mirrored
<1>2. RemoteWellFormed'
  BY RemoteKept
<1>3. ASSUME NEW t \in Threads, call'[t] = call[t] PROVE CallSound(t)'
  BY <1>3, InvFacts, CallKept DEF Known
<1>4. QED
  BY <1>1, <1>2, <1>3

LEMMA InitSound == Init => IInv
<1> SUFFICES ASSUME Init PROVE IInv
  OBVIOUS
<1>1. /\ file = <<>> /\ remote = {} /\ running = FALSE /\ provider = FALSE /\ events = <<>>
      /\ reconciled = 0 /\ call = [t \in Threads |-> Idle]
      /\ receipts = [falkordb |-> {}, local_cache |-> {}]
  BY DEF Init
<1>2. Known = {} /\ Range(file) = {} /\ Len(events) = 0 /\ Len(file) = 0 /\ Acknowledged = {}
  BY <1>1 DEF Known, Range, Acknowledged
<1>3. TypeOK
  <2>1. receipts \in [{"falkordb", "local_cache"} -> SUBSET Facts]
    BY <1>1
  <2>2. file \in Seq(Facts \cup {Torn, Corrupt}) /\ Len(file) \in 0 .. MaxLines
    BY <1>1
  <2>3. events \in Seq(Facts) /\ call \in [Threads -> Calls]
    BY <1>1, IdleType
  <2>4. remote \subseteq Facts /\ running \in BOOLEAN /\ provider \in BOOLEAN
          /\ reconciled \in 0 .. MaxLines
    <3>1. running \in BOOLEAN /\ provider \in BOOLEAN
      BY <1>1
    <3>2. reconciled \in 0 .. MaxLines
      BY <1>1
    <3>3. QED
      BY <1>1, <3>1, <3>2
  <2>5. QED
    BY <2>1, <2>2, <2>3, <2>4 DEF TypeOK
<1>4. FileSound /\ MemorySound
  BY <1>1, <1>2 DEF FileSound, MemorySound, Loadable, CacheLoadable, Unended
<1>5. RemoteWellFormed
  BY <1>1, <1>2 DEF RemoteWellFormed
<1>6. reconciled <= Len(events) /\ Mirrored(reconciled)
  BY <1>1, <1>2 DEF Mirrored
<1>7. ASSUME NEW t \in Threads PROVE CallSound(t)
  <2>1. call[t].step = "idle" /\ call[t].kind = "health" /\ call[t].seen = {}
    BY <1>1 DEF Idle
  <2>2. QED
    BY <2>1 DEF CallSound, Wanted
<1>8. QED
  BY <1>3, <1>4, <1>5, <1>6, <1>7 DEF IInv

LEMMA StartSound == IInv /\ Start => IInv'
<1> SUFFICES ASSUME IInv, Start PROVE IInv'
  OBVIOUS
<1>1. /\ ~running /\ running' = TRUE /\ provider' \in BOOLEAN /\ events' = file /\ Loadable
      /\ UNCHANGED <<file, remote, reconciled, call, receipts>>
  BY DEF Start
<1>2. /\ events = <<>> /\ reconciled = 0 /\ \A t \in Threads : call[t] = Idle
      /\ file \in Seq(Facts) /\ Acknowledged \cup remote \subseteq Range(file)
  <2>1. file \in Seq(Facts)
    BY <1>1, InvFacts DEF Loadable
  <2>2. QED
    BY <1>1, <2>1, InvFacts DEF MemorySound, FileSound
<1>3. Known' = Range(file)
  BY <1>1 DEF Known
<1>4. TypeOK'
  BY <1>1, <1>2, InvFacts DEF TypeOK
<1>5. FileSound'
  <2>1. Loadable' /\ ~Unended' /\ Acknowledged' = Acknowledged
    BY <1>1, InvFacts DEF Loadable, Unended, Acknowledged
  <2>2. Len(events') <= Len(file')
    BY <1>1, InvFacts
  <2>3. QED
    BY <1>1, <1>2, <1>3, <2>1, <2>2 DEF FileSound, CacheLoadable
<1>6. MemorySound'
  <2>1. \A n \in 1 .. Len(file) : \A id \in Needs[file[n]] :
          \E m \in 1 .. n - 1 : Identity[file[m]] = id
    BY <1>1, InvFacts DEF Loadable
  <2>2. QED
    BY <1>1, <1>2, <1>3, <2>1, OneContent DEF MemorySound, Acknowledged
<1>7. RemoteWellFormed'
  BY <1>1, RemoteKept
<1>8. reconciled' <= Len(events') /\ Mirrored(reconciled)'
  BY <1>1, <1>2, InvFacts DEF Mirrored
<1>9. \A t \in Threads : CallSound(t)'
  BY <1>1, <1>2, CallOver
<1>10. QED
  BY <1>4, <1>5, <1>6, <1>7, <1>8, <1>9 DEF IInv

LEMMA CrashSound == IInv /\ Crash => IInv'
<1> SUFFICES ASSUME IInv, Crash PROVE IInv'
  OBVIOUS
<1>1. /\ running /\ running' = FALSE /\ provider' = FALSE /\ events' = <<>> /\ reconciled' = 0
      /\ call' = [t \in Threads |-> Idle]
      /\ UNCHANGED <<remote, receipts>>
  BY DEF Crash
<1>2. Known' = {} /\ Len(events') = 0 /\ Acknowledged' = Acknowledged
  BY <1>1 DEF Known, Range, Acknowledged
<1>3. /\ file' \in Seq(Facts \cup {Torn, Corrupt}) /\ Len(file') \in 0 .. MaxLines
      /\ Len(file') >= 0 /\ (Unended' => Len(file') > 0) /\ CacheLoadable'
      /\ Loadable' => Loadable /\ Range(file) \subseteq Range(file')
  <2>1. CASE UNCHANGED file
    <3>1. Loadable' = Loadable /\ Range(file') = Range(file)
      BY <2>1 DEF Loadable
    <3>2. Damaged => Damaged'
      BY <1>2, <2>1, DamageStays
    <3>3. CacheLoadable'
      BY <3>1, <3>2, InvFacts DEF FileSound, CacheLoadable
    <3>4. QED
      BY <2>1, <3>1, <3>3, InvFacts DEF Unended, TypeOK
  <2>2. CASE \E f \in Facts : Admissible(f) /\ Len(file) < MaxLines /\ file' = WithLine(f)
    <3>1. PICK f \in Facts : Admissible(f) /\ Len(file) < MaxLines /\ file' = WithLine(f)
      BY <2>2
    <3>2. CacheLoadable'
      BY <1>1, <1>2, <3>1, StaysLoadable
    <3>3. /\ file' \in Seq(Facts \cup {Torn, Corrupt}) /\ Len(file') \in 0 .. MaxLines
          /\ Len(events) + 1 <= Len(file')
          /\ Loadable' => Loadable /\ Range(file') = Range(file) \cup {f}
      BY <3>1, Lined
    <3>4. QED
      BY <3>2, <3>3, InvFacts
  <2>3. QED
    BY <2>1, <2>2 DEF Crash
<1>4. TypeOK'
  <2>1. file' \in Seq(Facts \cup {Torn, Corrupt})
    BY <1>3
  <2>2. call' \in [Threads -> Calls]
    BY <1>1, IdleType
  <2>3. events' \in Seq(Facts) /\ running' \in BOOLEAN /\ provider' \in BOOLEAN
        /\ reconciled' \in 0 .. MaxLines
    <3>1. running' \in BOOLEAN /\ provider' \in BOOLEAN
      BY <1>1
    <3>2. events' \in Seq(Facts) /\ reconciled' \in 0 .. MaxLines
      BY <1>1
    <3>3. QED
      BY <3>1, <3>2
  <2>4. remote' \subseteq Facts /\ receipts' \in [{"falkordb", "local_cache"} -> SUBSET Facts]
    BY <1>1, InvFacts DEF TypeOK
  <2>5. QED
    BY <1>3, <2>1, <2>2, <2>3, <2>4 DEF TypeOK
<1>5. FileSound'
  BY <1>1, <1>2, <1>3, InvFacts DEF FileSound
<1>6. MemorySound'
  BY <1>1, <1>2 DEF MemorySound
<1>7. RemoteWellFormed'
  BY <1>1, RemoteKept
<1>8. reconciled' <= Len(events') /\ Mirrored(reconciled)'
  BY <1>1, <1>2 DEF Mirrored
<1>9. \A t \in Threads : CallSound(t)'
  BY <1>1, CallOver
<1>10. QED
  BY <1>4, <1>5, <1>6, <1>7, <1>8, <1>9 DEF IInv

\* A call under way in a process that is up.
LEMMA Running ==
  ASSUME IInv, NEW t \in Threads, call[t].step # "idle"
  PROVE  running
<1>1. Idle.step = "idle"
  BY DEF Idle
<1>2. QED
  BY <1>1, InvFacts DEF MemorySound

\* A step of one call that leaves everything else alone.
LEMMA CallStep ==
  ASSUME IInv, running, NEW t \in Threads, NEW c \in Calls, call' = [call EXCEPT ![t] = c],
         UNCHANGED <<file, remote, running, provider, events, reconciled, receipts>>,
         CallSound(t)'
  PROVE  IInv'
<1>1. /\ call' \in [Threads -> Calls] /\ \A u \in Threads : u # t => call'[u] = call[u]
  BY InvFacts DEF TypeOK
<1>2. TypeOK'
  BY <1>1, InvFacts DEF TypeOK
<1>3. MemorySound'
  BY InvFacts DEF MemorySound, Acknowledged, Known
<1>4. QED
  BY <1>1, <1>2, <1>3, Kept DEF IInv

\* A fact in memory that a call continues with.
LEMMA Continued ==
  ASSUME call \in [Threads -> Calls], NEW t \in Threads, NEW f \in Facts, Continue(t, f)
  PROVE  \E c \in Calls : /\ call' = [call EXCEPT ![t] = c] /\ call'[t] = c
                          /\ c.step \in {"reconcile", "fallback"}
                          /\ c.kind = "write" /\ c.fact = f /\ c.seen = {}
<1> DEFINE c == [Idle EXCEPT !.step = IF provider THEN "reconcile" ELSE "fallback",
                             !.kind = "write", !.fact = f]
<1>1. c \in Calls /\ c.step \in {"reconcile", "fallback"}
      /\ c.kind = "write" /\ c.fact = f /\ c.seen = {}
  <2>1. ASSUME NEW step \in {"reconcile", "fallback"}, NEW d,
               d = [Idle EXCEPT !.step = step, !.kind = "write", !.fact = f]
        PROVE  d \in Calls /\ d.step = step /\ d.kind = "write" /\ d.fact = f /\ d.seen = {}
    BY <2>1, IdleType DEF Calls, Kinds
  <2>2. QED
    BY <2>1
<1>2. call' = [call EXCEPT ![t] = c]
  BY DEF Continue
<1> HIDE DEF c
<1>3. call'[t] = c
  BY <1>2
<1>4. QED
  BY <1>1, <1>2, <1>3

\* A fact that becomes durable, and then known to the process.
LEMMA Stored ==
  ASSUME IInv, running, NEW f \in Facts, Admissible(f), Len(file) < MaxLines, Store(f),
         UNCHANGED <<remote, running, provider, reconciled, receipts>>
  PROVE  /\ file' \in Seq(Facts \cup {Torn, Corrupt}) /\ Len(file') \in 0 .. MaxLines
         /\ FileSound' /\ events' \in Seq(Facts) /\ Len(events') = Len(events) + 1
         /\ \A n \in 1 .. Len(events) : events'[n] = events[n]
         /\ Known' = Known \cup {f} /\ Acknowledged' \cup remote' \subseteq Known'
         /\ \A g, h \in Known' : Identity[g] = Identity[h] => g = h
         /\ \A n \in 1 .. Len(events') : \A id \in Needs[events'[n]] :
              \E m \in 1 .. n - 1 : Identity[events'[m]] = id
<1>1. /\ file' \in Seq(Facts \cup {Torn, Corrupt}) /\ Len(file') \in 0 .. MaxLines
      /\ Len(events) + 1 <= Len(file') /\ ~Unended'
      /\ Loadable' => Loadable /\ Range(file') = Range(file) \cup {f}
  BY Lined DEF Store
<1>2. /\ events \in Seq(Facts) /\ events' = Append(events, f)
  BY InvFacts DEF TypeOK, Store
<1>3. /\ events' \in Seq(Facts) /\ Len(events') = Len(events) + 1
      /\ DOMAIN events' = 1 .. Len(events) + 1 /\ events'[Len(events) + 1] = f
      /\ \A n \in 1 .. Len(events) : events'[n] = events[n]
  BY <1>2
<1>4. Known' = Known \cup {f}
  <2>1. Len(events) \in Nat /\ DOMAIN events = 1 .. Len(events)
    BY InvFacts
  <2>2. QED
    BY <1>3, <2>1 DEF Known, Range
<1>5. FileSound'
  <2>1. CacheLoadable'
    BY <1>4, StaysLoadable DEF Store
  <2>2. Acknowledged' = Acknowledged
    BY DEF Acknowledged
  <2>3. QED
    BY <1>1, <1>3, <1>4, <2>1, <2>2, InvFacts DEF FileSound
<1>6. /\ Acknowledged' \cup remote' \subseteq Known'
      /\ \A g, h \in Known' : Identity[g] = Identity[h] => g = h
  <2>1. \A g \in Known : Identity[g] # Identity[f]
    BY DEF Admissible, Holds
  <2>2. QED
    BY <1>4, <2>1, InvFacts DEF MemorySound, Acknowledged
<1>7. ASSUME NEW n \in 1 .. Len(events) + 1, NEW id \in Needs[events'[n]]
      PROVE  \E m \in 1 .. n - 1 : Identity[events'[m]] = id
  <2>1. CASE n \in 1 .. Len(events)
    <3>1. PICK m \in 1 .. n - 1 : Identity[events[m]] = id
      BY <1>3, <1>7, <2>1, InvFacts DEF MemorySound
    <3>2. m \in 1 .. Len(events)
      BY <2>1, <3>1, InvFacts
    <3>3. QED
      BY <1>3, <3>1, <3>2
  <2>2. CASE n = Len(events) + 1
    <3>1. PICK g \in Known : Identity[g] = id
      BY <1>3, <1>7, <2>2 DEF Admissible, Holds
    <3>2. PICK m \in 1 .. Len(events) : events[m] = g
      BY <3>1, InvFacts DEF Known, Range
    <3>3. m \in 1 .. n - 1
      BY <2>2, <3>2, InvFacts
    <3>4. QED
      BY <1>3, <3>1, <3>2, <3>3
  <2>3. QED
    BY <2>1, <2>2, InvFacts
<1>8. QED
  BY <1>1, <1>3, <1>4, <1>5, <1>6, <1>7

LEMMA WriteSound ==
  ASSUME NEW t \in Threads, NEW f \in Facts
  PROVE  IInv /\ Write(t, f) => IInv'
<1> SUFFICES ASSUME IInv, Write(t, f) PROVE IInv'
  OBVIOUS
<1>1. /\ running /\ Continue(t, f) /\ call \in [Threads -> Calls]
      /\ UNCHANGED <<remote, running, provider, reconciled, receipts>>
  BY InvFacts DEF Write, TypeOK
<1>2. PICK c \in Calls : /\ call' = [call EXCEPT ![t] = c] /\ call'[t] = c
                         /\ c.step \in {"reconcile", "fallback"}
                         /\ c.kind = "write" /\ c.fact = f /\ c.seen = {}
  BY <1>1, Continued
<1>3. Wanted(t)' = {f}
  BY <1>2 DEF Wanted
<1>4. CASE f \in Known /\ UNCHANGED <<file, events>>
  <2>1. CallSound(t)'
    BY <1>2, <1>3, <1>4 DEF CallSound, Known
  <2>2. QED
    BY <1>1, <1>2, <1>4, <2>1, CallStep
<1>5. CASE Admissible(f) /\ Len(file) < MaxLines /\ Store(f)
  <2>1. /\ file' \in Seq(Facts \cup {Torn, Corrupt}) /\ Len(file') \in 0 .. MaxLines
        /\ FileSound' /\ events' \in Seq(Facts) /\ Len(events') = Len(events) + 1
        /\ \A n \in 1 .. Len(events) : events'[n] = events[n]
        /\ Known' = Known \cup {f} /\ Acknowledged' \cup remote' \subseteq Known'
        /\ \A g, h \in Known' : Identity[g] = Identity[h] => g = h
        /\ \A n \in 1 .. Len(events') : \A id \in Needs[events'[n]] :
             \E m \in 1 .. n - 1 : Identity[events'[m]] = id
    BY <1>1, <1>5, Stored
  <2>2. Len(events') \in Nat /\ Len(events) <= Len(events') /\ reconciled \in Nat
    BY <2>1, InvFacts DEF TypeOK
  <2>3. call' \in [Threads -> Calls] /\ \A u \in Threads : u # t => call'[u] = call[u]
    BY <1>1, <1>2
  <2>4. TypeOK'
    <3>1. file' \in Seq(Facts \cup {Torn, Corrupt})
      BY <2>1
    <3>2. QED
      BY <1>1, <2>1, <2>3, <3>1, InvFacts DEF TypeOK
  <2>5. MemorySound'
    BY <1>1, <2>1 DEF MemorySound
  <2>6. RemoteWellFormed'
    BY <1>1, RemoteKept
  <2>7. reconciled' <= Len(events') /\ Mirrored(reconciled)'
    <3>1. \A m \in 1 .. reconciled : events[m] \in remote /\ m \in 1 .. Len(events)
      BY <2>2, InvFacts DEF Mirrored
    <3>2. reconciled <= Len(events')
      BY <2>2, InvFacts
    <3>3. QED
      BY <1>1, <2>1, <3>1, <3>2 DEF Mirrored
  <2>8. ASSUME NEW u \in Threads PROVE CallSound(u)'
    <3>1. CASE u = t
      BY <1>2, <1>3, <2>1, <3>1 DEF CallSound
    <3>2. CASE u # t
      BY <1>1, <2>1, <2>2, <2>3, <3>2, CallKept
    <3>3. QED
      BY <3>1, <3>2
  <2>9. QED
    BY <2>1, <2>4, <2>5, <2>6, <2>7, <2>8 DEF IInv
<1>6. QED
  BY <1>4, <1>5 DEF Write

\* An append that raises, whatever it leaves in the file.
LEMMA AppendFailsSound ==
  ASSUME NEW f \in Facts
  PROVE  IInv /\ AppendFails(f) => IInv'
<1> SUFFICES ASSUME IInv, AppendFails(f) PROVE IInv'
  OBVIOUS
<1>1. /\ running /\ Admissible(f) /\ Len(file) < MaxLines
      /\ UNCHANGED <<remote, running, provider, events, reconciled, call, receipts>>
  BY DEF AppendFails
<1>2. Known' = Known /\ Acknowledged' = Acknowledged
  BY <1>1 DEF Known, Acknowledged
<1>3. PICK fault \in AppendFaults[f] :
        file' = CASE fault = "lost" -> file
                  [] fault = "kept" -> WithLine(f)
                  [] fault = "torn" -> WithLine(Torn)
  BY DEF AppendFails
<1>4. fault \in {"lost", "kept", "torn"}
  BY <1>3
<1>5. CASE file' = file
  <2>1. TypeOK' /\ MemorySound'
    BY <1>1, <1>2, <1>5, InvFacts DEF TypeOK, MemorySound
  <2>2. QED
    BY <1>1, <1>5, <2>1, Kept DEF IInv
<1>6. CASE file' \in {WithLine(f), WithLine(Torn)}
  <2>1. PICK line \in {f, Torn} : file' = WithLine(line)
    BY <1>6
  <2>2. /\ file' \in Seq(Facts \cup {Torn, Corrupt}) /\ Len(file') \in 0 .. MaxLines
        /\ Len(events) + 1 <= Len(file')
        /\ Range(file) \cap Facts \subseteq Range(file')
        /\ line = Torn => Range(file') \cap {Torn, Corrupt} # {}
        /\ Loadable' => Loadable /\ Range(file') = Range(file) \cup {line}
    BY <1>1, <2>1, Lined
  <2>3. CacheLoadable'
    <3>1. CASE line = Torn
      BY <2>2, <3>1 DEF CacheLoadable, Damaged
    <3>2. CASE line = f
      BY <1>1, <1>2, <2>1, <3>2, StaysLoadable
    <3>3. QED
      BY <3>1, <3>2
  <2>4. FileSound'
    BY <1>1, <1>2, <2>2, <2>3, InvFacts DEF FileSound
  <2>5. TypeOK' /\ MemorySound'
    BY <1>1, <1>2, <2>2, InvFacts DEF TypeOK, MemorySound
  <2>6. RemoteWellFormed'
    BY <1>1, RemoteKept
  <2>7. reconciled' <= Len(events') /\ Mirrored(reconciled)'
    BY <1>1, InvFacts DEF Mirrored
  <2>8. \A t \in Threads : CallSound(t)'
    BY <1>1, <1>2, InvFacts, CallKept
  <2>9. QED
    BY <2>4, <2>5, <2>6, <2>7, <2>8 DEF IInv
<1>7. QED
  BY <1>3, <1>4, <1>5, <1>6

LEMMA AskSound ==
  ASSUME NEW t \in Threads, NEW kind \in Kinds \ {"write"}
  PROVE  IInv /\ Ask(t, kind) => IInv'
<1> SUFFICES ASSUME IInv, Ask(t, kind) PROVE IInv'
  OBVIOUS
<1> DEFINE c == [Idle EXCEPT !.step = IF provider THEN "reconcile" ELSE "fallback",
                             !.kind = kind, !.seen = Acknowledged]
<1>1. /\ running /\ call' = [call EXCEPT ![t] = c] /\ call \in [Threads -> Calls]
      /\ UNCHANGED <<file, remote, running, provider, events, reconciled, receipts>>
  BY InvFacts DEF Ask, TypeOK
<1>2. Acknowledged \subseteq Known /\ Acknowledged \subseteq Facts
  BY <1>1, InvFacts DEF MemorySound
<1>3. /\ c \in Calls /\ c.step \in {"reconcile", "fallback"}
      /\ c.kind = kind /\ c.seen = Acknowledged
  <2>1. ASSUME NEW step \in {"reconcile", "fallback"}, NEW d,
               d = [Idle EXCEPT !.step = step, !.kind = kind, !.seen = Acknowledged]
        PROVE  d \in Calls /\ d.step = step /\ d.kind = kind /\ d.seen = Acknowledged
    BY <1>2, <2>1, IdleType DEF Calls, Kinds
  <2>2. QED
    BY <2>1
<1> HIDE DEF c
<1>4. CallSound(t)'
  <2>1. call'[t] = c
    BY <1>1
  <2>2. Wanted(t)' \subseteq Known'
    BY <1>1, <1>2, <1>3, <2>1 DEF Wanted, Known
  <2>3. QED
    BY <1>3, <2>1, <2>2 DEF CallSound
<1>5. QED
  BY <1>1, <1>3, <1>4, CallStep

LEMMA ReconcileSound ==
  ASSUME NEW t \in Threads
  PROVE  IInv /\ Reconcile(t) => IInv'
<1> SUFFICES ASSUME IInv, Reconcile(t) PROVE IInv'
  OBVIOUS
<1>1. /\ call[t].step = "reconcile" /\ running /\ call \in [Threads -> Calls]
           /\ call[t] \in Calls
      /\ UNCHANGED <<file, remote, running, provider, events, reconciled, receipts>>
  BY InvFacts, Running DEF Reconcile, TypeOK
<1>2. /\ Len(events) \in 0 .. MaxLines /\ events \in Seq(Facts) /\ Wanted(t) \subseteq Known
      /\ \A f \in Known : \E n \in 1 .. Len(events) : events[n] = f
  <2>1. Len(events) \in 0 .. MaxLines
    BY InvFacts
  <2>2. QED
    BY <2>1, InvFacts DEF TypeOK, CallSound, Known, Range
<1>3. CASE UpToDate /\ call' = [call EXCEPT ![t] = [@ EXCEPT !.step = "reconciled"]]
  <2> DEFINE c == [call[t] EXCEPT !.step = "reconciled"]
  <2>1. /\ c \in Calls /\ c.step = "reconciled" /\ c.kind = call[t].kind
        /\ c.fact = call[t].fact /\ c.seen = call[t].seen
    BY <1>1 DEF Calls
  <2>2. call' = [call EXCEPT ![t] = c]
    BY <1>3
  <2> HIDE DEF c
  <2>3. call'[t] = c
    BY <1>1, <2>2
  <2>4. Wanted(t)' = Wanted(t)
    BY <2>1, <2>3 DEF Wanted
  <2>5. Known \subseteq remote
    BY <1>2, <1>3, InvFacts DEF UpToDate, Mirrored
  <2>6. CallSound(t)'
    BY <1>1, <1>2, <2>1, <2>3, <2>4, <2>5 DEF CallSound, Known
  <2>7. QED
    BY <1>1, <2>1, <2>2, <2>6, CallStep
<1>4. CASE call' = [call EXCEPT ![t] = [@ EXCEPT !.step = "replay", !.todo = events,
                                                   !.cursor = Len(events)]]
  <2> DEFINE c == [call[t] EXCEPT !.step = "replay", !.todo = events, !.cursor = Len(events)]
  <2>1. /\ c \in Calls /\ c.step = "replay" /\ c.kind = call[t].kind /\ c.todo = events
        /\ c.cursor = Len(events) /\ c.fact = call[t].fact /\ c.seen = call[t].seen
    BY <1>1, <1>2 DEF Calls
  <2>2. call' = [call EXCEPT ![t] = c]
    BY <1>4
  <2> HIDE DEF c
  <2>3. call'[t] = c
    BY <1>1, <2>2
  <2>4. Wanted(t)' = Wanted(t)
    BY <2>1, <2>3 DEF Wanted
  <2>5. /\ c.cursor - Len(c.todo) = 0 /\ Mirrored(0)'
        /\ \A n \in 1 .. Len(c.todo) : c.todo[n] = events'[0 + n]
        /\ Wanted(t)' \subseteq {events'[n] : n \in 1 .. c.cursor}
        /\ c.cursor <= Len(events')
    BY <1>1, <1>2, <2>1, <2>4, InvFacts DEF Mirrored
  <2>6. CallSound(t)'
    BY <1>1, <1>2, <2>1, <2>3, <2>4, <2>5 DEF CallSound, Known
  <2>7. QED
    BY <1>1, <2>1, <2>2, <2>6, CallStep
<1>5. QED
  BY <1>3, <1>4 DEF Reconcile

\* What a replay has sent FalkorDB is its snapshot up to the next fact.
LEMMA Replaying ==
  ASSUME IInv, NEW t \in Threads, call[t].step = "replay"
  PROVE  LET done == call[t].cursor - Len(call[t].todo) IN
         /\ done \in Nat /\ Len(call[t].todo) \in Nat /\ call[t].todo \in Seq(Facts)
         /\ call[t].cursor \in Nat /\ call[t].cursor <= Len(events)
              /\ call[t].cursor \in 0 .. MaxLines
         /\ \A m \in 1 .. done : events[m] \in remote
         /\ \A n \in 1 .. Len(call[t].todo) : call[t].todo[n] = events[done + n]
         /\ Wanted(t) \subseteq {events[n] : n \in 1 .. call[t].cursor}
BY InvFacts DEF CallSound, Mirrored, Calls

\* The next fact of a replay is one of memory, of which FalkorDB holds no other content
\* and all that it refers to.
LEMMA NextFits ==
  ASSUME IInv, NEW t \in Threads, call[t].step = "replay", call[t].todo # <<>>
  PROVE  LET done == call[t].cursor - Len(call[t].todo)
             f == NextFact(t) IN
         /\ f = events[done + 1] /\ done + 1 \in 1 .. Len(events) /\ Len(call[t].todo) >= 1
         /\ f \in Known /\ f \in Facts
         /\ \A g \in remote : Identity[g] = Identity[f] => g = f
         /\ \A id \in Needs[f] : Holds(remote, id)
<1> DEFINE todo == call[t].todo
           done == call[t].cursor - Len(todo)
           f == NextFact(t)
<1>1. running
  BY Running
<1>2. /\ done \in Nat /\ Len(todo) \in Nat /\ todo \in Seq(Facts)
      /\ call[t].cursor \in Nat /\ call[t].cursor <= Len(events)
      /\ \A m \in 1 .. done : events[m] \in remote
      /\ \A n \in 1 .. Len(todo) : todo[n] = events[done + n]
  BY Replaying
<1>3. /\ f = events[done + 1] /\ done + 1 \in 1 .. Len(events) /\ Len(todo) >= 1
      /\ f \in Known /\ f \in Facts
  <2>1. 1 \in 1 .. Len(todo) /\ Len(todo) >= 1
    BY <1>2
  <2>2. f = events[done + 1]
    BY <1>2, <2>1 DEF NextFact
  <2>3. done + 1 \in 1 .. Len(events)
    <3>1. ASSUME NEW c \in Nat, NEW l \in Nat, NEW e \in Nat, c <= e, l >= 1, c - l \in Nat
          PROVE  (c - l) + 1 \in 1 .. e
      BY <3>1
    <3>2. QED
      BY <1>2, <2>1, <3>1, InvFacts
  <2>4. QED
    BY <2>1, <2>2, <2>3, InvFacts
<1>4. \A id \in Needs[f] : Holds(remote, id)
  <2>1. SUFFICES ASSUME NEW id \in Needs[f] PROVE Holds(remote, id)
    OBVIOUS
  <2>2. PICK m \in 1 .. (done + 1) - 1 : Identity[events[m]] = id
    BY <1>3, InvFacts DEF MemorySound
  <2>3. m \in 1 .. done
    BY <1>2, <2>2
  <2>4. QED
    BY <1>2, <2>2, <2>3 DEF Holds
<1>5. \A g \in remote : Identity[g] = Identity[f] => g = f
  BY <1>1, <1>3, InvFacts DEF MemorySound
<1>6. QED
  BY <1>3, <1>4, <1>5

LEMMA ReplayFactSound ==
  ASSUME NEW t \in Threads
  PROVE  IInv /\ ReplayFact(t) => IInv'
<1> SUFFICES ASSUME IInv, ReplayFact(t) PROVE IInv'
  OBVIOUS
<1> DEFINE todo == call[t].todo
           done == call[t].cursor - Len(todo)
           f == NextFact(t)
<1>1. /\ call[t].step = "replay" /\ todo # <<>> /\ running /\ call \in [Threads -> Calls]
      /\ call[t] \in Calls
      /\ UNCHANGED <<file, running, provider, events, reconciled, receipts>>
  BY InvFacts, Running DEF ReplayFact, TypeOK
<1>2. /\ done \in Nat /\ Len(todo) \in Nat /\ todo \in Seq(Facts)
      /\ call[t].cursor \in Nat /\ call[t].cursor <= Len(events)
           /\ call[t].cursor \in 0 .. MaxLines
      /\ \A m \in 1 .. done : events[m] \in remote
      /\ \A n \in 1 .. Len(todo) : todo[n] = events[done + n]
      /\ Wanted(t) \subseteq {events[n] : n \in 1 .. call[t].cursor}
  BY <1>1, Replaying
<1>3. /\ f = events[done + 1] /\ done + 1 \in 1 .. Len(events) /\ Len(todo) >= 1
      /\ f \in Known /\ f \in Facts
      /\ \A g \in remote : Identity[g] = Identity[f] => g = f
      /\ \A id \in Needs[f] : Holds(remote, id)
  BY <1>1, NextFits
<1>4. /\ remote \subseteq remote' /\ remote' \subseteq remote \cup {f}
      /\ RemoteWellFormed'
  <2>1. remote' = remote \/ remote' = remote \cup {f}
    BY DEF ReplayFact
  <2>2. QED
    BY <1>1, <1>3, <2>1, InvFacts DEF RemoteWellFormed, Holds
<1>5. PICK c \in Calls :
        /\ call' = [call EXCEPT ![t] = c]
        /\ c.kind = call[t].kind /\ c.fact = call[t].fact /\ c.seen = call[t].seen
        /\ \/ /\ remote' = remote \cup {f} /\ c.step = "replay" /\ c.todo = Tail(todo)
              /\ c.cursor = call[t].cursor
           \/ c.step = "fallback"
  <2>1. CASE remote' = remote \cup {f} /\ call' = [call EXCEPT ![t].todo = Tail(@)]
    <3> DEFINE c == [call[t] EXCEPT !.todo = Tail(@)]
    <3>1. Tail(todo) \in Seq(Facts)
      BY <1>1, <1>2
    <3>2. /\ c \in Calls /\ c.kind = call[t].kind /\ c.fact = call[t].fact
               /\ c.seen = call[t].seen
          /\ c.step = "replay" /\ c.todo = Tail(todo) /\ c.cursor = call[t].cursor
      BY <1>1, <3>1 DEF Calls
    <3>3. call' = [call EXCEPT ![t] = c]
      BY <2>1
    <3> HIDE DEF c
    <3>4. QED
      BY <2>1, <3>2, <3>3
  <2>2. CASE call' = [call EXCEPT ![t].step = "fallback", ![t].todo = <<>>, ![t].cursor = 0]
    <3> DEFINE c == [call[t] EXCEPT !.step = "fallback", !.todo = <<>>, !.cursor = 0]
    <3>1. <<>> \in Seq(Facts) /\ 0 \in 0 .. MaxLines
      OBVIOUS
    <3>2. /\ c \in Calls /\ c.kind = call[t].kind /\ c.fact = call[t].fact
               /\ c.seen = call[t].seen
          /\ c.step = "fallback"
      BY <1>1, <3>1 DEF Calls
    <3>3. call' = [call EXCEPT ![t] = c]
      BY <1>1, <2>2
    <3> HIDE DEF c
    <3>4. QED
      BY <3>2, <3>3
  <2>3. QED
    BY <2>1, <2>2 DEF ReplayFact
<1>6. call' \in [Threads -> Calls] /\ call'[t] = c /\ \A u \in Threads : u # t
        => call'[u] = call[u]
  BY <1>1, <1>5
<1>7. TypeOK'
  BY <1>1, <1>3, <1>4, <1>6, InvFacts DEF TypeOK
<1>8. FileSound' /\ MemorySound'
  <2>1. Acknowledged' = Acknowledged /\ Known' = Known
    BY <1>1 DEF Acknowledged, Known
  <2>2. FileSound'
    BY <1>1, <1>3, <1>4, <2>1, FileKept
  <2>3. \A u \in Threads : running' # FALSE
    BY <1>1
  <2>4. QED
    BY <1>1, <1>3, <1>4, <2>1, <2>2, InvFacts DEF MemorySound
<1>9. reconciled' <= Len(events') /\ Mirrored(reconciled)'
  BY <1>1, <1>4, InvFacts DEF Mirrored
<1>10. CallSound(t)'
  <2>1. Wanted(t)' = Wanted(t) /\ Known' = Known /\ Wanted(t) \subseteq Known
    BY <1>1, <1>5, <1>6, InvFacts DEF Wanted, Known, CallSound
  <2>2. CASE c.step = "fallback"
    BY <1>6, <2>1, <2>2 DEF CallSound
  <2>3. CASE remote' = remote \cup {f} /\ c.step = "replay" /\ c.todo = Tail(todo)
             /\ c.cursor = call[t].cursor
    <3>1. /\ Len(c.todo) = Len(todo) - 1 /\ Len(c.todo) \in Nat
          /\ \A n \in 1 .. Len(c.todo) : c.todo[n] = todo[n + 1] /\ n + 1 \in 1 .. Len(todo)
      BY <1>1, <1>2, <1>3, <2>3
    <3>2. c.cursor - Len(c.todo) = done + 1
      BY <1>2, <2>3, <3>1
    <3>3. \A m \in 1 .. done + 1 : events'[m] \in remote'
      BY <1>1, <1>2, <1>3, <2>3
    <3>4. \A n \in 1 .. Len(c.todo) : c.todo[n] = events'[(done + 1) + n]
      <4>1. ASSUME NEW n \in 1 .. Len(c.todo) PROVE c.todo[n] = events[(done + 1) + n]
        <5>1. c.todo[n] = todo[n + 1] /\ n + 1 \in 1 .. Len(todo)
          BY <3>1
        <5> HIDE DEF done, todo
        <5>2. c.todo[n] = events[done + (n + 1)]
          BY <1>2, <5>1
        <5>3. done + (n + 1) = (done + 1) + n
          BY <1>2, <3>1
        <5>4. QED
          BY <5>2, <5>3
      <4>2. QED
        BY <1>1, <4>1
    <3>5. Wanted(t)' \subseteq {events'[n] : n \in 1 .. c.cursor} /\ c.cursor <= Len(events')
      BY <1>1, <1>2, <2>1, <2>3
    <3> HIDE DEF done
    <3>6. call'[t] = c /\ c.step = "replay"
      BY <1>6, <2>3
    <3>7. call'[t].cursor - Len(call'[t].todo) = done + 1 /\ done + 1 >= 0
      BY <1>2, <3>2, <3>6
    <3>8. \A m \in 1 .. call'[t].cursor - Len(call'[t].todo) : events'[m] \in remote'
      BY <3>3, <3>7
    <3>9. \A n \in 1 .. Len(call'[t].todo) :
            call'[t].todo[n] = events'[(call'[t].cursor - Len(call'[t].todo)) + n]
      BY <3>4, <3>6, <3>7
    <3>10. Wanted(t)' \subseteq {events'[n] : n \in 1 .. call'[t].cursor}
           /\ call'[t].cursor <= Len(events')
      BY <3>5, <3>6
    <3>11. call'[t].step = "replay" /\ Wanted(t)' \subseteq Known'
      BY <2>1, <3>6
    <3>12. QED
      BY <3>7, <3>8, <3>9, <3>10, <3>11 DEF CallSound, Mirrored
  <2>4. QED
    BY <1>5, <2>2, <2>3
<1>11. ASSUME NEW u \in Threads PROVE CallSound(u)'
  <2>1. CASE u = t
    BY <1>10, <2>1
  <2>2. CASE u # t
    BY <1>1, <1>4, <1>6, <2>2, InvFacts, CallKept DEF Known
  <2>3. QED
    BY <2>1, <2>2
<1>12. QED
  BY <1>4, <1>7, <1>8, <1>9, <1>11 DEF IInv

LEMMA ReplayedSound ==
  ASSUME NEW t \in Threads
  PROVE  IInv /\ Replayed(t) => IInv'
<1> SUFFICES ASSUME IInv, Replayed(t) PROVE IInv'
  OBVIOUS
<1> DEFINE n == call[t].cursor
           c == [call[t] EXCEPT !.step = "reconciled", !.cursor = 0]
<1>1. /\ call[t].step = "replay" /\ call[t].todo = <<>> /\ reconciled' = n
      /\ call' = [call EXCEPT ![t].step = "reconciled", ![t].cursor = 0]
      /\ running /\ call \in [Threads -> Calls] /\ call[t] \in Calls
      /\ UNCHANGED <<file, remote, running, provider, events, receipts>>
  BY InvFacts, Running DEF Replayed, Cursor, TypeOK
<1>2. /\ n \in Nat /\ n <= Len(events) /\ n \in 0 .. MaxLines
      /\ \A m \in 1 .. n : events[m] \in remote
      /\ Wanted(t) \subseteq {events[m] : m \in 1 .. n}
  <2>1. Len(call[t].todo) = 0
    BY <1>1
  <2>2. n \in Nat /\ n - 0 = n
    BY <1>1, Replaying
  <2>3. QED
    BY <1>1, <2>1, <2>2, Replaying
<1>3. /\ c \in Calls /\ c.step = "reconciled" /\ c.kind = call[t].kind
      /\ c.fact = call[t].fact /\ c.seen = call[t].seen
  <2>1. 0 \in 0 .. MaxLines
    OBVIOUS
  <2>2. QED
    BY <1>1, <2>1 DEF Calls
<1>4. call' = [call EXCEPT ![t] = c]
  BY <1>1
<1> HIDE DEF c
<1>5. call' \in [Threads -> Calls] /\ call'[t] = c /\ \A u \in Threads : u # t
        => call'[u] = call[u]
  BY <1>1, <1>3, <1>4
<1>6. TypeOK'
  BY <1>1, <1>2, <1>5, InvFacts DEF TypeOK
<1>7. FileSound' /\ MemorySound'
  <2>1. Acknowledged' = Acknowledged /\ Known' = Known
    BY <1>1 DEF Acknowledged, Known
  <2>2. QED
    BY <1>1, <2>1, FileKept, InvFacts DEF MemorySound
<1>8. RemoteWellFormed'
  BY <1>1, RemoteKept
<1>9. reconciled' <= Len(events') /\ Mirrored(reconciled)'
  BY <1>1, <1>2 DEF Mirrored
<1>10. CallSound(t)'
  <2>1. Wanted(t)' = Wanted(t) /\ Known' = Known /\ Wanted(t) \subseteq Known
    BY <1>1, <1>3, <1>5, InvFacts DEF Wanted, Known, CallSound
  <2>2. Wanted(t) \subseteq remote'
    BY <1>1, <1>2
  <2>3. QED
    BY <1>3, <1>5, <2>1, <2>2 DEF CallSound
<1>11. ASSUME NEW u \in Threads PROVE CallSound(u)'
  <2>1. CASE u = t
    BY <1>10, <2>1
  <2>2. CASE u # t
    BY <1>1, <1>5, <2>2, InvFacts, CallKept DEF Known
  <2>3. QED
    BY <2>1, <2>2
<1>12. QED
  BY <1>6, <1>7, <1>8, <1>9, <1>11 DEF IInv

LEMMA ReceiptSound ==
  ASSUME NEW t \in Threads
  PROVE  IInv /\ Receipt(t) => IInv'
<1> SUFFICES ASSUME IInv, Receipt(t) PROVE IInv'
  OBVIOUS
<1> DEFINE f == call[t].fact
<1>1. /\ call[t].kind = "write" /\ call[t].step \in {"reconciled", "fallback"} /\ running
      /\ receipts' = [receipts EXCEPT ![Storage(t)] = @ \cup {f}]
      /\ call' = [call EXCEPT ![t] = Idle] /\ call \in [Threads -> Calls]
      /\ UNCHANGED <<file, remote, running, provider, events, reconciled>>
      /\ receipts \in [{"falkordb", "local_cache"} -> SUBSET Facts]
  BY InvFacts, Running DEF Receipt, Return, TypeOK
<1>2. f \in Known /\ f \in Facts /\ (call[t].step = "reconciled" => f \in remote)
  BY <1>1, InvFacts DEF CallSound, Wanted
<1>3. /\ receipts' \in [{"falkordb", "local_cache"} -> SUBSET Facts]
      /\ Acknowledged' = Acknowledged \cup {f} /\ receipts'["falkordb"] \subseteq remote
  <2>1. receipts["falkordb"] \subseteq remote
    BY InvFacts DEF RemoteWellFormed
  <2>2. CASE Storage(t) = "falkordb" /\ call[t].step = "reconciled"
    BY <1>1, <1>2, <2>1, <2>2 DEF Acknowledged
  <2>3. CASE Storage(t) = "local_cache"
    BY <1>1, <1>2, <2>1, <2>3 DEF Acknowledged
  <2>4. QED
    BY <2>2, <2>3 DEF Storage
<1>4. call' \in [Threads -> Calls] /\ call'[t] = Idle /\ \A u \in Threads : u # t
        => call'[u] = call[u]
  BY <1>1, IdleType
<1>5. TypeOK'
  BY <1>1, <1>3, <1>4, InvFacts DEF TypeOK
<1>6. FileSound'
  BY <1>1, <1>2, <1>3, FileKept
<1>7. MemorySound'
  BY <1>1, <1>2, <1>3, InvFacts DEF MemorySound, Known
<1>8. RemoteWellFormed'
  BY <1>1, <1>3, InvFacts DEF RemoteWellFormed, Holds
<1>9. reconciled' <= Len(events') /\ Mirrored(reconciled)'
  BY <1>1, InvFacts DEF Mirrored
<1>10. ASSUME NEW u \in Threads PROVE CallSound(u)'
  <2>1. CASE u = t
    BY <1>4, <2>1, CallOver
  <2>2. CASE u # t
    BY <1>1, <1>4, <2>2, InvFacts, CallKept DEF Known
  <2>3. QED
    BY <2>1, <2>2
<1>11. QED
  BY <1>5, <1>6, <1>7, <1>8, <1>9, <1>10 DEF IInv

LEMMA QueryFailsSound ==
  ASSUME NEW t \in Threads
  PROVE  IInv /\ QueryFails(t) => IInv'
<1> SUFFICES ASSUME IInv, QueryFails(t) PROVE IInv'
  OBVIOUS
<1> DEFINE c == [call[t] EXCEPT !.step = "fallback"]
<1>1. /\ call[t].step = "reconciled" /\ running /\ call \in [Threads -> Calls]
           /\ call[t] \in Calls
      /\ call' = [call EXCEPT ![t].step = "fallback"]
      /\ UNCHANGED <<file, remote, running, provider, events, reconciled, receipts>>
  BY InvFacts, Running DEF QueryFails, TypeOK
<1>2. /\ c \in Calls /\ c.step = "fallback" /\ c.kind = call[t].kind
      /\ c.fact = call[t].fact /\ c.seen = call[t].seen
  BY <1>1 DEF Calls
<1>3. call' = [call EXCEPT ![t] = c]
  BY <1>1
<1> HIDE DEF c
<1>4. call'[t] = c
  BY <1>1, <1>3
<1>5. CallSound(t)'
  <2>1. Wanted(t)' = Wanted(t) /\ Known' = Known /\ Wanted(t) \subseteq Known
    BY <1>1, <1>2, <1>4, InvFacts DEF Wanted, Known, CallSound
  <2>2. QED
    BY <1>2, <1>4, <2>1 DEF CallSound
<1>6. QED
  BY <1>1, <1>2, <1>3, <1>5, CallStep

LEMMA AnsweredSound ==
  ASSUME NEW t \in Threads
  PROVE  IInv /\ Answered(t) => IInv'
<1> SUFFICES ASSUME IInv, Answered(t) PROVE IInv'
  OBVIOUS
<1>1. /\ running /\ call' = [call EXCEPT ![t] = Idle] /\ call \in [Threads -> Calls]
      /\ UNCHANGED <<file, remote, running, provider, events, reconciled, receipts>>
  BY InvFacts, Running DEF Answered, Return, TypeOK
<1>2. call'[t] = Idle
  BY <1>1
<1>3. CallSound(t)'
  BY <1>2, CallOver
<1>4. QED
  BY <1>1, <1>3, IdleType, CallStep

LEMMA StepSound == IInv /\ [Next]_vars => IInv'
<1> SUFFICES ASSUME IInv, [Next]_vars PROVE IInv'
  OBVIOUS
<1>1. CASE UNCHANGED vars
  <2>1. UNCHANGED <<file, remote, running, provider, events, reconciled, call, receipts>>
    BY <1>1 DEF vars
  <2>2. TypeOK' /\ MemorySound'
    BY <2>1, InvFacts DEF TypeOK, MemorySound, Acknowledged, Known
  <2>3. QED
    BY <2>1, <2>2, Kept DEF IInv
<1>2. CASE Next
  BY <1>2, StartSound, CrashSound, AppendFailsSound, WriteSound, AskSound, ReconcileSound,
     ReplayFactSound, ReplayedSound, ReceiptSound, QueryFailsSound, AnsweredSound
     DEF Next
<1>3. QED
  BY <1>1, <1>2

LEMMA GraphAlways == Spec => []IInv
<1>1. Init => IInv
  BY InitSound
<1>2. IInv /\ [Next]_vars => IInv'
  BY StepSound
<1>3. QED
  BY <1>1, <1>2, PTL DEF Spec

\* Graph memory tells the truth whatever overlaps, fails, tears a line or crashes:
\* nothing acknowledged or sent to FalkorDB is forgotten, the file loads again unless an
\* append that raised damaged it, FalkorDB is sent no fact it would refuse, and queries
\* miss nothing acknowledged (graph_memory/service.py:279).
THEOREM MemoryAlwaysTruthful == Spec => []MemoryTruthful
<1>1. IInv => MemoryTruthful
  <2> SUFFICES ASSUME IInv PROVE MemoryTruthful
    OBVIOUS
  <2>1. CacheLoadable /\ NothingForgotten
    BY InvFacts DEF FileSound, MemorySound, NothingForgotten
  <2>2. QueriesComplete
    BY InvFacts DEF QueriesComplete, Answer, CallSound, Wanted
  <2>3. QED
    BY <2>1, <2>2, InvFacts DEF MemoryTruthful
<1>2. QED
  BY <1>1, GraphAlways, PTL

\* Only a replay adds a fact to FalkorDB.
LEMMA RemoteStep == IInv /\ [Next]_vars => [RemoteLedger!Next]_remote
<1> SUFFICES ASSUME IInv, [Next]_vars, remote' # remote PROVE RemoteLedger!Next
  OBVIOUS
<1>1. PICK t \in Threads : ReplayFact(t)
  BY DEF Next, vars, Start, Crash, AppendFails, Write, Ask, Reconcile, Replayed, Receipt,
         QueryFails, Answered
<1>2. /\ call[t].step = "replay" /\ call[t].todo # <<>>
      /\ remote' = remote \cup {NextFact(t)}
  BY <1>1 DEF ReplayFact
<1>3. /\ NextFact(t) \in Facts
      /\ \A g \in remote : Identity[g] = Identity[NextFact(t)] => g = NextFact(t)
      /\ \A id \in Needs[NextFact(t)] : Holds(remote, id)
  BY <1>2, NextFits
<1>4. NextFact(t) \notin remote
  BY <1>2
<1>5. RemoteLedger!Add(NextFact(t))
  BY <1>2, <1>3, <1>4 DEF RemoteLedger!Add, RemoteLedger!Admissible, Holds
<1>6. QED
  BY <1>3, <1>5 DEF RemoteLedger!Next

\* The cache file is a ledger too, until an append that raised damages it.
LEMMA FileStep ==
  IInv /\ [Next]_vars => [Damaged' \/ FileLedger!Next]_(Range(file) \cap Facts)
<1> SUFFICES ASSUME IInv, [Next]_vars, ~Damaged',
                    Range(file') \cap Facts # Range(file) \cap Facts
             PROVE  FileLedger!Next
  OBVIOUS
<1>1. PICK f \in Facts, line \in Facts \cup {Torn} :
        /\ line \in {f, Torn}
        /\ running /\ Admissible(f) /\ Len(file) < MaxLines /\ file' = WithLine(line)
        /\ Known' \subseteq Known \cup {f}
  <2>1. CASE Crash
    BY <2>1 DEF Crash, Known, Range
  <2>2. CASE \E t \in Threads, f \in Facts : Write(t, f)
    <3>1. PICK f \in Facts : running /\ Admissible(f) /\ Len(file) < MaxLines /\ Store(f)
      BY <2>2 DEF Write
    <3>2. events \in Seq(Facts) /\ events' = Append(events, f)
      BY <3>1, InvFacts DEF TypeOK, Store
    <3>3. Known' \subseteq Known \cup {f}
      BY <3>2 DEF Known, Range
    <3>4. QED
      BY <3>1, <3>3 DEF Store
  <2>3. CASE \E f \in Facts : AppendFails(f)
    <3>1. PICK f \in Facts : AppendFails(f)
      BY <2>3
    <3>2. running /\ Admissible(f) /\ Len(file) < MaxLines /\ Known' = Known
      BY <3>1 DEF AppendFails, Known
    <3>3. file' \in {file, WithLine(f), WithLine(Torn)}
      <4>1. PICK fault \in AppendFaults[f] :
              file' = CASE fault = "lost" -> file
                        [] fault = "kept" -> WithLine(f)
                        [] fault = "torn" -> WithLine(Torn)
        BY <3>1 DEF AppendFails
      <4>2. fault \in {"lost", "kept", "torn"}
        BY <4>1
      <4>3. QED
        BY <4>1, <4>2
    <3>4. QED
      BY <3>2, <3>3
  <2>4. QED
    BY <2>1, <2>2, <2>3 DEF Next, vars, Start, Ask, Reconcile, ReplayFact, Replayed,
                            Receipt, QueryFails, Answered
<1>2. line = f /\ Range(file') = Range(file) \cup {f} /\ Loadable
  <2>1. /\ line = Torn => Range(file') \cap {Torn, Corrupt} # {}
        /\ Range(file) \cap Facts \subseteq Range(file')
        /\ Range(file) \cap {Torn, Corrupt} # {} => Range(file') \cap {Torn, Corrupt} # {}
        /\ Range(file) \cap {Torn, Corrupt} = {} => Range(file') = Range(file) \cup {line}
    BY <1>1, Lined
  <2>2. line = f /\ Range(file) \cap {Torn, Corrupt} = {}
    BY <1>1, <2>1 DEF Damaged
  <2>3. ~Damaged
    BY <1>1, <2>1, DamageStays
  <2>4. QED
    BY <2>1, <2>2, <2>3, InvFacts DEF FileSound, CacheLoadable
<1>3. Range(file) \subseteq Facts /\ Known \subseteq Range(file)
  BY <1>1, <1>2, OneContent, InvFacts DEF FileSound
<1>4. f \notin Range(file)
  BY <1>2, <1>3
<1>5. ASSUME NEW g \in Range(file) PROVE Identity[g] # Identity[f]
  <2>1. g \notin Known' \/ Identity[g] # Identity[f]
    <3>1. g \in Known => Identity[g] # Identity[f]
      BY <1>1 DEF Admissible, Holds
    <3>2. QED
      BY <1>1, <1>4, <3>1
  <2>2. QED
    BY <1>2, <1>3, <1>4, <2>1 DEF Damaged
<1>6. \A id \in Needs[f] : \E g \in Range(file) : Identity[g] = id
  BY <1>1, <1>3 DEF Admissible, Holds
<1>7. QED
  BY <1>2, <1>3, <1>5, <1>6 DEF FileLedger!Next, FileLedger!Add, FileLedger!Admissible

\* FalkorDB holds a ledger of facts whatever becomes of the cache file, and the file
\* holds one until an append that raised damages it: facts are only added, an identity
\* keeps its first content, and a fact comes after those it refers to
\* (graph_memory/cache.py:277).
THEOREM FactsAreLedger == Spec => FactLedger
<1>1. Init => RemoteLedger!Init /\ FileLedger!Init
  BY DEF Init, RemoteLedger!Init, FileLedger!Init, Range
<1>2. QED
  BY <1>1, GraphAlways, RemoteStep, FileStep, PTL
     DEF Spec, FactLedger, RemoteLedger!Spec

HIDE GraphAssumption DEF GraphAssumption
-----------------------------------------------------------------------------
(* Workflow evidence.                                                      *)

LEMMA WorkflowFrame ==
  [RecordsNext]_recordsVars =>
     \/ subject = "evidence" /\ Workflow!Next /\ UNCHANGED subject
     \/ UNCHANGED <<subject, evidenceVars>>
BY DEF RecordsNext, recordsVars, GraphStep, ViewsStep, AssetsStep, StreamsStep, WorkflowStep

LEMMA EvidenceNumbers ==
  /\ Configs \subseteq [artifact : Workflow!Artifacts, time : Int]
  /\ Plan.candidate \in Workflow!Candidates /\ Baseline \notin Workflow!Candidates
  /\ WorldNumbers \subseteq Int /\ IsFiniteSet(WorldNumbers)
  /\ None \notin Int /\ None \notin Configs /\ None \notin Workflow!Artifacts
BY EvidenceAssumption

LEMMA WorkflowCardinality == \A S : Workflow!Cardinality(S) = Cardinality(S)
BY DEF Cardinality, Workflow!Cardinality

\* A linear order, by name.
Linear(S, Below) ==
  /\ Below \subseteq S \X S
  /\ \A x \in S : <<x, x>> \notin Below
  /\ \A x, y, z \in S : <<x, y>> \in Below /\ <<y, z>> \in Below => <<x, z>> \in Below
  /\ \A x, y \in S : x # y => <<x, y>> \in Below \/ <<y, x>> \in Below

\* In a finite linear order there is an element with each number of smaller ones.
LEMMA RankOnto ==
  ASSUME NEW S, IsFiniteSet(S), NEW Below, Linear(S, Below),
         NEW k \in 0..(Cardinality(S) - 1)
  PROVE  \E x \in S : Cardinality({y \in S : <<y, x>> \in Below}) = k
<1> DEFINE Lower(x) == {y \in S : <<y, x>> \in Below}
           f == [x \in S |-> Cardinality(Lower(x))]
           T == 0..(Cardinality(S) - 1)
<1> USE DEF Linear
<1>1. Cardinality(S) \in Nat
  BY FS_CardinalityType
<1>2. \A x \in S : IsFiniteSet(Lower(x)) /\ Cardinality(Lower(x)) \in T
  <2> TAKE x \in S
  <2>1. Lower(x) \in SUBSET S /\ x \notin Lower(x)
    OBVIOUS
  <2>2. IsFiniteSet(Lower(x)) /\ Cardinality(Lower(x)) <= Cardinality(S)
        /\ (Cardinality(S) = Cardinality(Lower(x)) => S = Lower(x))
    BY <2>1, FS_Subset
  <2>3. Cardinality(Lower(x)) \in Nat
    BY <2>2, FS_CardinalityType
  <2> QED BY <1>1, <2>1, <2>2, <2>3
<1>3. \A x, y \in S : <<x, y>> \in Below => f[x] < f[y]
  <2> TAKE x, y \in S
  <2> HAVE <<x, y>> \in Below
  <2>1. Lower(x) \in SUBSET Lower(y) /\ x \in Lower(y) /\ x \notin Lower(x)
    OBVIOUS
  <2>2. /\ Cardinality(Lower(x)) <= Cardinality(Lower(y))
        /\ Cardinality(Lower(y)) = Cardinality(Lower(x)) => Lower(y) = Lower(x)
    BY <1>2, <2>1, FS_Subset
  <2>3. Cardinality(Lower(y)) # Cardinality(Lower(x))
    BY <2>1, <2>2
  <2>4. Cardinality(Lower(x)) \in Int /\ Cardinality(Lower(y)) \in Int
    <3> HIDE DEF Lower
    <3> QED BY <1>1, <1>2
  <2>5. Cardinality(Lower(x)) < Cardinality(Lower(y))
    <3> HIDE DEF Lower
    <3> QED BY <2>2, <2>3, <2>4
  <2> QED BY <2>5
<1>4. f \in [S -> T]
  BY <1>2
<1>5. \A x, y \in S : x # y => f[x] # f[y]
  <2> HIDE DEF f
  <2>1. \A x \in S : f[x] \in Int
    BY <1>1, <1>4
  <2>2. ASSUME NEW x \in S, NEW y \in S, x # y PROVE f[x] # f[y]
    <3>1. f[x] < f[y] \/ f[y] < f[x]
      BY <1>3, <2>2
    <3> QED BY <2>1, <3>1
  <2> QED BY <2>2
<1>6. f \in Injection(S, T)
  <2> HIDE DEF f
  <2> QED BY <1>4, <1>5 DEF Injection, IsInjective
<1>7. IsFiniteSet(T) /\ Cardinality(T) = Cardinality(S)
  <2>1. 0 \in Int /\ Cardinality(S) - 1 \in Int
    BY <1>1
  <2>2. IsFiniteSet(T)
          /\ Cardinality(T) = IF 0 > Cardinality(S) - 1 THEN 0 ELSE (Cardinality(S) - 1) - 0 + 1
    BY <2>1, FS_Interval
  <2> HIDE DEF T
  <2> QED BY <1>1, <2>2
<1>8. f \in Surjection(S, T)
  <2> HIDE DEF f, T
  <2> QED BY <1>6, <1>7, FS_Injection
<1>9. \A t \in T : \E x \in S : f[x] = t
  <2> HIDE DEF f
  <2> QED BY <1>8 DEF Surjection
<1> QED BY <1>9

LEMMA RunsFinite ==
  ASSUME NEW a \in Workflow!Artifacts
  PROVE  /\ IsFiniteSet(Workflow!RunsOf(a)) /\ Cardinality(Workflow!RunsOf(a)) \in Nat
         /\ Workflow!RunsOf(a) \subseteq Workflow!Runs
<1> DEFINE P == Workflow!Roles \X WorldNumbers
           f == [p \in P |-> <<Comparison[a].candidate, p[1], p[2]>>]
<1>1. IsFiniteSet(Workflow!Roles)
  <2>1. IsFiniteSet({"baseline"} \cup {"candidate"})
    BY FS_Singleton, FS_AddElement
  <2>2. Workflow!Roles = {"baseline"} \cup {"candidate"}
    BY DEF Workflow!Roles
  <2> QED BY <2>1, <2>2
<1>2. IsFiniteSet(P)
  BY <1>1, EvidenceNumbers, FS_Product
<1>3. Comparison[a].candidate \in Workflow!Candidates
  BY DEF Workflow!Candidates
<1>4. f \in [P -> Workflow!RunsOf(a)]
  BY <1>3 DEF Workflow!RunsOf, Workflow!Runs
<1>5. \A r \in Workflow!RunsOf(a) : \E p \in P : f[p] = r
  <2> TAKE r \in Workflow!RunsOf(a)
  <2>1. r \in Workflow!Candidates \X Workflow!Roles \X WorldNumbers
          /\ r[1] = Comparison[a].candidate
    BY DEF Workflow!RunsOf, Workflow!Runs
  <2>2. <<r[2], r[3]>> \in P /\ f[<<r[2], r[3]>>] = r
    BY <2>1
  <2> QED BY <2>2
<1>6. f \in Surjection(P, Workflow!RunsOf(a))
  <2> HIDE DEF f, P
  <2> QED BY <1>4, <1>5 DEF Surjection
<1>7. IsFiniteSet(Workflow!RunsOf(a))
  <2> HIDE DEF f, P
  <2> QED BY <1>2, <1>6, FS_Surjection
<1> QED BY <1>7, FS_CardinalityType DEF Workflow!RunsOf

\* The order of an artifact's results names each of them.
LEMMA OrderNames ==
  ASSUME NEW a \in Workflow!Artifacts, NEW i \in 1..Cardinality(Workflow!RunsOf(a))
  PROVE  Workflow!Order(a)[i] \in Workflow!RunsOf(a)
<1> DEFINE S == Workflow!RunsOf(a)
           w == Cardinality(WorldNumbers)
           rank == [r \in S |-> IF r[2] = "baseline" THEN 0 ELSE Workflow!Cardinality(WorldNumbers)]
           Before(r, s) == rank[r] < rank[s] \/ (rank[r] = rank[s] /\ r[3] < s[3])
           Below == {p \in S \X S : Before(p[1], p[2])}
<1>1. \A r \in S : /\ r \in Workflow!Candidates \X Workflow!Roles \X WorldNumbers
                   /\ r[1] = Comparison[a].candidate /\ r[3] \in Int
                   /\ r = <<r[1], r[2], r[3]>> /\ r[2] \in {"baseline", "candidate"}
  <2> TAKE r \in S
  <2>1. r \in Workflow!Candidates \X Workflow!Roles \X WorldNumbers
          /\ r[1] = Comparison[a].candidate
    BY DEF Workflow!RunsOf, Workflow!Runs
  <2>2. r[3] \in Int
    BY <2>1, EvidenceNumbers
  <2>3. r = <<r[1], r[2], r[3]>>
    BY <2>1
  <2>4. r[2] \in {"baseline", "candidate"}
    BY <2>1 DEF Workflow!Roles
  <2> QED BY <2>1, <2>2, <2>3, <2>4
<1>2. w \in Nat /\ (WorldNumbers # {} => w > 0)
  BY EvidenceNumbers, FS_CardinalityType, FS_EmptySet
<1>3. \A r \in S : rank[r] = IF r[2] = "baseline" THEN 0 ELSE w
  BY WorkflowCardinality
<1>4. S # {} => w > 0
  BY <1>1, <1>2
<1>5. \A r \in S : rank[r] \in Nat
  BY <1>2, <1>3
<1>6. \A r, s \in S : <<r, s>> \in Below <=> Before(r, s)
  OBVIOUS
<1>7. \A x \in S : <<x, x>> \notin Below
  <2> HIDE DEF rank, Below, S
  <2> QED BY <1>1, <1>5, <1>6
<1>8. \A x, y, z \in S : <<x, y>> \in Below /\ <<y, z>> \in Below => <<x, z>> \in Below
  <2> HIDE DEF rank, Below, S
  <2> QED BY <1>1, <1>5, <1>6
<1>9. \A x, y \in S : x # y => <<x, y>> \in Below \/ <<y, x>> \in Below
  <2> HIDE DEF rank, Below, S, w
  <2> TAKE x, y \in S
  <2> HAVE x # y
  <2>1. x[2] # y[2] \/ x[3] # y[3]
    BY <1>1
  <2>2. x[2] = y[2] => rank[x] = rank[y]
    BY <1>3
  <2>3. x[2] # y[2] => rank[x] # rank[y]
    BY <1>1, <1>2, <1>3, <1>4
  <2>4. rank[x] < rank[y] \/ rank[y] < rank[x] \/ (rank[x] = rank[y]
          /\ (x[3] < y[3] \/ y[3] < x[3]))
    BY <1>1, <1>5, <2>1, <2>2, <2>3
  <2> QED BY <1>6, <2>4
<1>10. PICK r \in S : Cardinality({s \in S : <<s, r>> \in Below}) = i - 1
  <2>1. Below \subseteq S \X S
    OBVIOUS
  <2>2. IsFiniteSet(S) /\ i - 1 \in 0..(Cardinality(S) - 1)
    BY RunsFinite
  <2> HIDE DEF rank, Below, S, Before
  <2>3. Linear(S, Below)
    BY <1>7, <1>8, <1>9, <2>1 DEF Linear
  <2> QED BY <2>2, <2>3, RankOnto
<1>11. {s \in S : <<s, r>> \in Below} = {s \in S : Before(s, r)}
  BY <1>6
<1>12. Workflow!Cardinality({s \in S : Before(s, r)}) = i - 1
  BY <1>10, <1>11, WorkflowCardinality
<1>13. Workflow!Order(a)[i] =
         CHOOSE q \in S : Workflow!Cardinality({s \in S : Before(s, q)}) = i - 1
  <2>1. i \in 1..Workflow!Cardinality(S)
    BY WorkflowCardinality
  <2> QED BY <2>1 DEF Workflow!Order
<1> HIDE DEF rank, Below, S, Before
<1> QED BY <1>12, <1>13 DEF S

\* Both comparisons are of one candidate.
Of(a) == Comparison[a].candidate
Outcome(a, r) == IF Workflow!Passed(a, r) THEN "succeeded" ELSE "failed"
Ended == {"succeeded", "failed"}
Rival(tries) == \E c \in tries, d \in tries : c # d /\ Of(c.artifact) = Of(d.artifact)

\* Each row was written by a configuration that was tried, and says of its run what
\* the artifact says.
ArtifactsSound(rows, tries) ==
  /\ rows.artifacts \in [Workflow!Artifacts -> Workflow!Times \cup {None}]
  /\ \A a \in Workflow!Artifacts :
       rows.artifacts[a] # None => \E d \in tries : d.artifact = a /\ d.time = rows.artifacts[a]
CheckpointsSound(rows, tries) ==
  /\ rows.checkpoints \in [Workflow!Policies -> Configs \cup {None}]
  /\ \A p \in Workflow!Policies :
       rows.checkpoints[p] # None =>
         rows.checkpoints[p] \in tries /\ (p # Baseline => Of(rows.checkpoints[p].artifact) = p)
EpisodeSound(tries, r, e) ==
  /\ e \in [state : Workflow!States, at : Workflow!Times \cup {None}]
  /\ e.state # "absent" => \E d \in tries : Of(d.artifact) = r[1] /\ d.time = e.at
  /\ e.state \in Ended =>
       \E d \in tries : Of(d.artifact) = r[1] /\ e.state = Outcome(d.artifact, r)
EpisodesSound(rows, tries) ==
  /\ rows.episodes \in [Workflow!Runs -> [state : Workflow!States, at : Workflow!Times \cup {None}]]
  /\ \A r \in Workflow!Runs : EpisodeSound(tries, r, rows.episodes[r])
ResultsSound(rows) ==
  /\ rows.results \in [Workflow!Runs -> Workflow!Artifacts \cup {None}]
  /\ \A r \in Workflow!Runs :
       rows.results[r] # None =>
         /\ rows.artifacts[rows.results[r]] # None /\ r[1] = Of(rows.results[r])
         /\ rows.episodes[r].state = Outcome(rows.results[r], r)
RowsSound(rows, tries) ==
  /\ rows = [artifacts |-> rows.artifacts, checkpoints |-> rows.checkpoints,
             episodes |-> rows.episodes, results |-> rows.results, alias |-> rows.alias]
  /\ rows.alias \in BOOLEAN
  /\ ArtifactsSound(rows, tries) /\ CheckpointsSound(rows, tries)
  /\ EpisodesSound(rows, tries) /\ ResultsSound(rows)

\* What is written stays.
RowsKept(old, new) ==
  /\ \A a \in Workflow!Artifacts : old.artifacts[a] # None
       => new.artifacts[a] = old.artifacts[a]
  /\ \A p \in Workflow!Policies :
       old.checkpoints[p] # None => new.checkpoints[p] = old.checkpoints[p]
  /\ \A r \in Workflow!Runs : /\ old.results[r] # None => new.results[r] = old.results[r]
                              /\ old.episodes[r].state \in Ended =>
                                   new.episodes[r].state = old.episodes[r].state

\* What a transaction promises: sound rows that keep the others, or a rival.
Promised(rows, tx, tries) ==
  /\ RowsSound(tx.rows, tries) /\ RowsKept(rows, tx.rows)
  /\ tx.raised \in BOOLEAN /\ (tx.raised = TRUE => Rival(tries))

LEMMA KeptItself == \A rows : RowsKept(rows, rows)
BY DEF RowsKept

LEMMA ArtifactRecorded ==
  ASSUME NEW rows, NEW tries, tries \subseteq Configs, RowsSound(rows, tries), NEW c \in tries,
         NEW tx, tx = Workflow!RecordArtifact(rows, c)
  PROVE  Promised(rows, tx, tries) /\ (tx.raised = FALSE
    => tx.rows.artifacts[c.artifact] # None)
<1>1. c \in Configs /\ c.artifact \in Workflow!Artifacts /\ c.time \in Workflow!Times
        /\ c.time # None
  BY EvidenceNumbers DEF Workflow!Times
<1>2. CASE rows.artifacts[c.artifact] \notin {None, c.time}
  <2>1. tx.rows = rows /\ tx.raised = TRUE
    BY <1>2 DEF Workflow!RecordArtifact, Workflow!Raises
  <2>2. PICK d \in tries : d.artifact = c.artifact /\ d.time = rows.artifacts[c.artifact]
    BY <1>1, <1>2 DEF RowsSound, ArtifactsSound
  <2>3. Rival(tries)
    BY <1>2, <2>2 DEF Rival
  <2> QED BY <2>1, <2>3, KeptItself DEF Promised
<1>3. CASE rows.artifacts[c.artifact] \in {None, c.time}
  <2>1. tx.rows = [rows EXCEPT !.artifacts[c.artifact] = c.time] /\ tx.raised = FALSE
    BY <1>3 DEF Workflow!RecordArtifact, Workflow!Done
  <2> DEFINE new == tx.rows
  <2>2. /\ new.artifacts = [rows.artifacts EXCEPT ![c.artifact] = c.time]
        /\ new.checkpoints = rows.checkpoints /\ new.episodes = rows.episodes
        /\ new.results = rows.results /\ new.alias = rows.alias
        /\ new = [artifacts |-> new.artifacts, checkpoints |-> new.checkpoints,
                  episodes |-> new.episodes, results |-> new.results, alias |-> new.alias]
    BY <2>1 DEF RowsSound
  <2> HIDE DEF new
  <2>3. ArtifactsSound(new, tries) /\ new.artifacts[c.artifact] = c.time
    BY <1>1, <2>2 DEF RowsSound, ArtifactsSound
  <2>4. CheckpointsSound(new, tries) /\ EpisodesSound(new, tries)
    BY <2>2 DEF RowsSound, CheckpointsSound, EpisodesSound
  <2>5. \A a \in Workflow!Artifacts : rows.artifacts[a] # None
          => new.artifacts[a] = rows.artifacts[a]
    BY <1>1, <1>3, <2>2 DEF RowsSound, ArtifactsSound
  <2>6. ResultsSound(new)
    BY <2>2, <2>5 DEF RowsSound, ResultsSound
  <2>7. RowsKept(rows, new)
    BY <2>2, <2>5 DEF RowsKept
  <2>8. RowsSound(new, tries)
    BY <2>2, <2>3, <2>4, <2>6 DEF RowsSound
  <2> QED BY <1>1, <2>1, <2>3, <2>7, <2>8 DEF Promised, new
<1> QED BY <1>2, <1>3

LEMMA BaselineRegistered ==
  ASSUME NEW rows, NEW tries, tries \subseteq Configs, RowsSound(rows, tries), NEW c \in tries,
         NEW tx, tx = Workflow!RegisterBaseline(rows, c)
  PROVE  Promised(rows, tx, tries) /\ tx.raised = FALSE
<1>1. c \in Configs /\ Baseline \in Workflow!Policies /\ c # None
  BY EvidenceNumbers DEF Workflow!Policies
<1>2. CASE rows.checkpoints[Baseline] # None
  <2>1. tx.rows = rows /\ tx.raised = FALSE
    BY <1>2 DEF Workflow!RegisterBaseline, Workflow!Done
  <2> QED BY <2>1, KeptItself DEF Promised
<1>3. CASE rows.checkpoints[Baseline] = None
  <2>1. tx.rows = [rows EXCEPT !.checkpoints[Baseline] = c] /\ tx.raised = FALSE
    BY <1>3 DEF Workflow!RegisterBaseline, Workflow!Done
  <2> DEFINE new == tx.rows
  <2>2. /\ new.checkpoints = [rows.checkpoints EXCEPT ![Baseline] = c]
        /\ new.artifacts = rows.artifacts /\ new.episodes = rows.episodes
        /\ new.results = rows.results /\ new.alias = rows.alias
        /\ new = [artifacts |-> new.artifacts, checkpoints |-> new.checkpoints,
                  episodes |-> new.episodes, results |-> new.results, alias |-> new.alias]
    BY <2>1 DEF RowsSound
  <2> HIDE DEF new
  <2>3. CheckpointsSound(new, tries)
    BY <1>1, <2>2 DEF RowsSound, CheckpointsSound
  <2>4. ArtifactsSound(new, tries) /\ EpisodesSound(new, tries) /\ ResultsSound(new)
    BY <2>2 DEF RowsSound, ArtifactsSound, EpisodesSound, ResultsSound
  <2>5. RowsKept(rows, new)
    BY <1>1, <1>3, <2>2 DEF RowsKept, RowsSound, CheckpointsSound
  <2>6. RowsSound(new, tries)
    BY <2>2, <2>3, <2>4 DEF RowsSound
  <2> QED BY <2>1, <2>5, <2>6 DEF Promised, new
<1> QED BY <1>2, <1>3

LEMMA CandidateRegistered ==
  ASSUME NEW rows, NEW tries, tries \subseteq Configs, RowsSound(rows, tries), NEW c \in tries,
         NEW tx, tx = Workflow!RegisterCandidate(rows, c)
  PROVE  Promised(rows, tx, tries)
<1> DEFINE p == Comparison[c.artifact].candidate
<1>1. c \in Configs /\ c.artifact \in Workflow!Artifacts /\ c # None
  BY EvidenceNumbers
<1>2. p \in Workflow!Policies /\ p # Baseline /\ p = Of(c.artifact)
  BY <1>1, EvidenceNumbers DEF Workflow!Policies, Workflow!Candidates, Of
<1>3. CASE rows.checkpoints[p] \notin {None, c}
  <2>1. tx.rows = rows /\ tx.raised = TRUE
    BY <1>3 DEF Workflow!RegisterCandidate, Workflow!Raises
  <2>2. rows.checkpoints[p] \in tries /\ Of(rows.checkpoints[p].artifact) = p
    BY <1>2, <1>3 DEF RowsSound, CheckpointsSound
  <2>3. Rival(tries)
    BY <1>2, <1>3, <2>2 DEF Rival
  <2> QED BY <2>1, <2>3, KeptItself DEF Promised
<1>4. CASE rows.checkpoints[p] \in {None, c}
  <2>1. tx.rows = [rows EXCEPT !.checkpoints[p] = c] /\ tx.raised = FALSE
    BY <1>4 DEF Workflow!RegisterCandidate, Workflow!Done
  <2> DEFINE new == tx.rows
  <2> HIDE DEF p
  <2>2. /\ new.checkpoints = [rows.checkpoints EXCEPT ![p] = c]
        /\ new.artifacts = rows.artifacts /\ new.episodes = rows.episodes
        /\ new.results = rows.results /\ new.alias = rows.alias
        /\ new = [artifacts |-> new.artifacts, checkpoints |-> new.checkpoints,
                  episodes |-> new.episodes, results |-> new.results, alias |-> new.alias]
    BY <2>1 DEF RowsSound
  <2> HIDE DEF new
  <2>3. CheckpointsSound(new, tries)
    BY <1>1, <1>2, <2>2 DEF RowsSound, CheckpointsSound
  <2>4. ArtifactsSound(new, tries) /\ EpisodesSound(new, tries) /\ ResultsSound(new)
    BY <2>2 DEF RowsSound, ArtifactsSound, EpisodesSound, ResultsSound
  <2>5. RowsKept(rows, new)
    BY <1>2, <1>4, <2>2 DEF RowsKept, RowsSound, CheckpointsSound
  <2>6. RowsSound(new, tries)
    BY <2>2, <2>3, <2>4 DEF RowsSound
  <2> QED BY <2>1, <2>5, <2>6 DEF Promised, new
<1> QED BY <1>3, <1>4

EpisodeChanged(rows, new, r, e) ==
  /\ new.episodes = [rows.episodes EXCEPT ![r] = e]
  /\ new.artifacts = rows.artifacts /\ new.checkpoints = rows.checkpoints
  /\ new.results = rows.results /\ new.alias = rows.alias
  /\ new = [artifacts |-> new.artifacts, checkpoints |-> new.checkpoints,
            episodes |-> new.episodes, results |-> new.results, alias |-> new.alias]

\* A change of one run's episode keeps everything else.
LEMMA EpisodeMoves ==
  ASSUME NEW rows, NEW tries, RowsSound(rows, tries), NEW r \in Workflow!Runs,
         NEW e, EpisodeSound(tries, r, e), rows.episodes[r].state \notin Ended,
         NEW new, EpisodeChanged(rows, new, r, e)
  PROVE  RowsSound(new, tries) /\ RowsKept(rows, new) /\ new.episodes[r] = e
    /\ new.artifacts = rows.artifacts
<1>1. /\ new.episodes = [rows.episodes EXCEPT ![r] = e]
      /\ new.artifacts = rows.artifacts /\ new.checkpoints = rows.checkpoints
      /\ new.results = rows.results /\ new.alias = rows.alias
      /\ new = [artifacts |-> new.artifacts, checkpoints |-> new.checkpoints,
                episodes |-> new.episodes, results |-> new.results, alias |-> new.alias]
  BY DEF EpisodeChanged
<1>2. ArtifactsSound(new, tries) /\ CheckpointsSound(new, tries)
  BY <1>1 DEF RowsSound, ArtifactsSound, CheckpointsSound
<1>3. new.episodes \in [Workflow!Runs -> [state : Workflow!States, at : Workflow!Times \cup {None}]]
  BY <1>1 DEF RowsSound, EpisodesSound, EpisodeSound
<1>4. /\ new.episodes[r] = e
      /\ \A s \in Workflow!Runs : s # r => new.episodes[s] = rows.episodes[s]
  BY <1>1 DEF RowsSound, EpisodesSound, EpisodeSound
<1>5. EpisodesSound(new, tries)
  BY <1>3, <1>4 DEF RowsSound, EpisodesSound
<1>6. rows.results[r] = None
  BY DEF RowsSound, ResultsSound, Outcome, Ended
<1>7. ResultsSound(new)
  BY <1>1, <1>4, <1>6 DEF RowsSound, ResultsSound
<1>8. RowsKept(rows, new)
  BY <1>1, <1>4 DEF RowsKept
<1>9. RowsSound(new, tries)
  BY <1>1, <1>2, <1>5, <1>7 DEF RowsSound
<1> QED BY <1>1, <1>4, <1>8, <1>9

LEMMA RunOfConfig ==
  ASSUME NEW c \in Configs, NEW r \in Workflow!RunsOf(c.artifact)
  PROVE  /\ r \in Workflow!Runs /\ r[1] = Of(c.artifact)
         /\ c.artifact \in Workflow!Artifacts /\ c.time \in Workflow!Times
BY EvidenceNumbers DEF Workflow!RunsOf, Workflow!Times, Of

\* How far a run's admission is.
Reached(rows, c, r, m) ==
  /\ m >= 1 => rows.episodes[r].state # "absent"
  /\ m >= 2 => rows.episodes[r].state # "created"
  /\ m >= 3 => rows.episodes[r].state = Outcome(c.artifact, r)

LEMMA ReachedFacts ==
  \A rows, c, r :
    /\ Reached(rows, c, r, 1) <=> rows.episodes[r].state # "absent"
    /\ Reached(rows, c, r, 2) <=> rows.episodes[r].state \notin {"absent", "created"}
    /\ Reached(rows, c, r, 3) <=> rows.episodes[r].state = Outcome(c.artifact, r)
<1> TAKE rows, c, r
<1>1. Outcome(c.artifact, r) \notin {"absent", "created"}
  BY DEF Outcome
<1> QED BY <1>1 DEF Reached

LEMMA RunRegistered ==
  ASSUME NEW rows, NEW tries, tries \subseteq Configs, RowsSound(rows, tries), NEW c \in tries,
         NEW r \in Workflow!RunsOf(c.artifact), NEW tx, tx = Workflow!RegisterRun(rows, c, r)
  PROVE  /\ Promised(rows, tx, tries)
         /\ tx.raised = FALSE => Reached(tx.rows, c, r, 1) /\ tx.rows.artifacts = rows.artifacts
<1>1. r \in Workflow!Runs /\ r[1] = Of(c.artifact) /\ c.time \in Workflow!Times
  BY RunOfConfig
<1>2. CASE rows.episodes[r].state = "absent"
  <2> DEFINE e == [state |-> "created", at |-> c.time]
  <2>1. tx.rows = [rows EXCEPT !.episodes[r] = e] /\ tx.raised = FALSE
    BY <1>2 DEF Workflow!RegisterRun, Workflow!Done
  <2>2. /\ e \in [state : Workflow!States, at : Workflow!Times \cup {None}]
        /\ e.state = "created" /\ e.at = c.time
    BY <1>1 DEF Workflow!States
  <2> HIDE DEF e
  <2>3. /\ RowsSound(tx.rows, tries) /\ RowsKept(rows, tx.rows)
        /\ tx.rows.episodes[r] = e /\ tx.rows.artifacts = rows.artifacts
    <3>1. rows.episodes[r].state \notin Ended
      BY <1>2 DEF Ended
    <3>2. e.state \notin Ended
      BY <2>2 DEF Ended
    <3>3. \E d \in tries : Of(d.artifact) = r[1] /\ d.time = e.at
      BY <1>1, <2>2
    <3>4. EpisodeSound(tries, r, e)
      BY <2>2, <3>2, <3>3 DEF EpisodeSound
    <3>5. EpisodeChanged(rows, tx.rows, r, e)
      BY <2>1 DEF EpisodeChanged, RowsSound
    <3> QED BY <1>1, <3>1, <3>4, <3>5, EpisodeMoves
  <2> QED BY <2>1, <2>2, <2>3, ReachedFacts DEF Promised
<1>3. CASE rows.episodes[r].state # "absent" /\ rows.episodes[r].at # c.time
  <2>1. tx.rows = rows /\ tx.raised = TRUE
    BY <1>3 DEF Workflow!RegisterRun, Workflow!Raises
  <2>2. PICK d \in tries : Of(d.artifact) = r[1] /\ d.time = rows.episodes[r].at
    BY <1>1, <1>3 DEF RowsSound, EpisodesSound, EpisodeSound
  <2>3. Rival(tries)
    BY <1>1, <1>3, <2>2 DEF Rival
  <2> QED BY <2>1, <2>3, KeptItself, ReachedFacts DEF Promised
<1>4. CASE rows.episodes[r].state # "absent" /\ rows.episodes[r].at = c.time
  <2>1. tx.rows = rows /\ tx.raised = FALSE
    BY <1>4 DEF Workflow!RegisterRun, Workflow!Done
  <2> QED BY <1>4, <2>1, KeptItself, ReachedFacts DEF Promised
<1> QED BY <1>2, <1>3, <1>4

LEMMA RunStarted ==
  ASSUME NEW rows, NEW tries, tries \subseteq Configs, RowsSound(rows, tries), NEW c \in tries,
         NEW r \in Workflow!RunsOf(c.artifact), Reached(rows, c, r, 1),
         NEW tx, tx = Workflow!StartRun(rows, c, r)
  PROVE  /\ Promised(rows, tx, tries)
         /\ tx.raised = FALSE => Reached(tx.rows, c, r, 2) /\ tx.rows.artifacts = rows.artifacts
<1>0. rows.episodes[r].state # "absent"
  BY ReachedFacts
<1>1. r \in Workflow!Runs /\ r[1] = Of(c.artifact)
  BY RunOfConfig
<1>2. CASE rows.episodes[r].state = "created"
  <2> DEFINE e == [rows.episodes[r] EXCEPT !.state = "running"]
  <2>1. tx.rows = [rows EXCEPT !.episodes[r].state = "running"] /\ tx.raised = FALSE
    BY <1>0, <1>2 DEF Workflow!StartRun, Workflow!Done
  <2>2. tx.rows = [rows EXCEPT !.episodes[r] = e]
    BY <1>0, <2>1
  <2>3. rows.episodes[r] \in [state : Workflow!States, at : Workflow!Times \cup {None}]
    BY <1>0, <1>1 DEF RowsSound, EpisodesSound, EpisodeSound
  <2>4. /\ e \in [state : Workflow!States, at : Workflow!Times \cup {None}]
        /\ e.state = "running" /\ e.at = rows.episodes[r].at
    BY <1>0, <2>3 DEF Workflow!States
  <2>5. \E d \in tries : Of(d.artifact) = r[1] /\ d.time = rows.episodes[r].at
    BY <1>0, <1>1 DEF RowsSound, EpisodesSound, EpisodeSound
  <2> HIDE DEF e
  <2>6. /\ RowsSound(tx.rows, tries) /\ RowsKept(rows, tx.rows)
        /\ tx.rows.episodes[r] = e /\ tx.rows.artifacts = rows.artifacts
    <3>1. rows.episodes[r].state \notin Ended /\ e.state \notin Ended
      BY <1>0, <1>2, <2>4 DEF Ended
    <3>2. \E d \in tries : Of(d.artifact) = r[1] /\ d.time = e.at
      BY <1>0, <2>4, <2>5
    <3>3. EpisodeSound(tries, r, e)
      BY <1>0, <2>4, <3>1, <3>2 DEF EpisodeSound
    <3>5. EpisodeChanged(rows, tx.rows, r, e)
      BY <1>0, <2>2 DEF EpisodeChanged, RowsSound
    <3> QED BY <1>0, <1>1, <3>1, <3>3, <3>5, EpisodeMoves
  <2> QED BY <1>0, <2>1, <2>4, <2>6, ReachedFacts DEF Promised
<1>3. CASE rows.episodes[r].state # "created"
  <2>1. tx.rows = rows /\ tx.raised = FALSE
    BY <1>0, <1>3 DEF Workflow!StartRun, Workflow!Done
  <2> QED BY <1>0, <1>3, <2>1, KeptItself, ReachedFacts DEF Promised
<1> QED BY <1>0, <1>2, <1>3

LEMMA RunEnded ==
  ASSUME NEW rows, NEW tries, tries \subseteq Configs, RowsSound(rows, tries), NEW c \in tries,
         NEW r \in Workflow!RunsOf(c.artifact), Reached(rows, c, r, 2),
         NEW tx, tx = Workflow!EndRun(rows, c, r)
  PROVE  /\ Promised(rows, tx, tries)
         /\ tx.raised = FALSE => Reached(tx.rows, c, r, 3) /\ tx.rows.artifacts = rows.artifacts
<1>0. rows.episodes[r].state \notin {"absent", "created"}
  BY ReachedFacts
<1>1. r \in Workflow!Runs /\ r[1] = Of(c.artifact)
  BY RunOfConfig
<1> DEFINE terminal == Outcome(c.artifact, r)
<1>2. terminal \in Ended /\ terminal # "running" /\ terminal \in Workflow!States
        /\ terminal # "absent"
  BY DEF Outcome, Ended, Workflow!States
<1>3. rows.episodes[r] \in [state : Workflow!States, at : Workflow!Times \cup {None}]
  BY <1>0, <1>1 DEF RowsSound, EpisodesSound, EpisodeSound
<1>4. CASE rows.episodes[r].state = "running"
  <2> DEFINE e == [rows.episodes[r] EXCEPT !.state = terminal]
  <2>1. tx.rows = [rows EXCEPT !.episodes[r].state = terminal] /\ tx.raised = FALSE
    BY <1>4 DEF Workflow!EndRun, Workflow!Done, Outcome
  <2> HIDE DEF terminal
  <2>2. tx.rows = [rows EXCEPT !.episodes[r] = e]
    BY <1>0, <2>1
  <2>3. /\ e \in [state : Workflow!States, at : Workflow!Times \cup {None}]
        /\ e.state = terminal /\ e.at = rows.episodes[r].at
    BY <1>0, <1>2, <1>3
  <2>4. \E d \in tries : Of(d.artifact) = r[1] /\ d.time = rows.episodes[r].at
    BY <1>0, <1>1, <1>4 DEF RowsSound, EpisodesSound, EpisodeSound
  <2> HIDE DEF e
  <2>5. /\ RowsSound(tx.rows, tries) /\ RowsKept(rows, tx.rows)
        /\ tx.rows.episodes[r] = e /\ tx.rows.artifacts = rows.artifacts
    <3>1. rows.episodes[r].state \notin Ended
      BY <1>4 DEF Ended
    <3>2. \E d \in tries : Of(d.artifact) = r[1] /\ d.time = e.at
      BY <1>0, <2>3, <2>4
    <3>3. \E d \in tries : Of(d.artifact) = r[1] /\ e.state = Outcome(d.artifact, r)
      BY <1>0, <1>1, <2>3 DEF terminal
    <3>4. EpisodeSound(tries, r, e)
      BY <1>0, <2>3, <3>2, <3>3 DEF EpisodeSound
    <3>5. EpisodeChanged(rows, tx.rows, r, e)
      BY <1>0, <2>2 DEF EpisodeChanged, RowsSound
    <3> QED BY <1>0, <1>1, <3>1, <3>4, <3>5, EpisodeMoves
  <2> QED BY <1>0, <2>1, <2>3, <2>5, ReachedFacts DEF Promised, terminal
<1>5. CASE rows.episodes[r].state = terminal
  <2>1. tx.rows = rows /\ tx.raised = FALSE
    BY <1>0, <1>2, <1>5 DEF Workflow!EndRun, Workflow!Done, Outcome
  <2> QED BY <1>5, <2>1, KeptItself, ReachedFacts DEF Promised
<1>6. CASE rows.episodes[r].state \notin {"running", terminal}
  <2>1. tx.rows = rows /\ tx.raised = TRUE
    BY <1>6 DEF Workflow!EndRun, Workflow!Raises, Outcome
  <2>2. rows.episodes[r].state \in Ended
    BY <1>0, <1>3, <1>6 DEF Ended, Workflow!States
  <2>3. PICK d \in tries : Of(d.artifact) = r[1]
          /\ rows.episodes[r].state = Outcome(d.artifact, r)
    BY <1>0, <1>1, <2>2 DEF RowsSound, EpisodesSound, EpisodeSound
  <2>4. d # c
    BY <1>6, <2>3
  <2>5. Rival(tries)
    BY <1>0, <1>1, <2>3, <2>4 DEF Rival
  <2> QED BY <1>0, <2>1, <2>5, KeptItself, ReachedFacts DEF Promised
<1> QED BY <1>4, <1>5, <1>6

LEMMA ResultRecorded ==
  ASSUME NEW rows, NEW tries, tries \subseteq Configs, RowsSound(rows, tries), NEW c \in tries,
         NEW r \in Workflow!RunsOf(c.artifact), rows.artifacts[c.artifact] # None,
         Reached(rows, c, r, 3),
         NEW tx, tx = Workflow!RecordResult(rows, c, r)
  PROVE  /\ Promised(rows, tx, tries)
         /\ tx.raised = FALSE => tx.rows.artifacts = rows.artifacts
<1>0. rows.episodes[r].state = Outcome(c.artifact, r)
  BY ReachedFacts
<1>1. r \in Workflow!Runs /\ r[1] = Of(c.artifact) /\ c.artifact \in Workflow!Artifacts
      /\ c.artifact # None
  BY RunOfConfig, EvidenceNumbers
<1>2. CASE rows.results[r] \notin {None, c.artifact}
  <2>1. tx.rows = rows /\ tx.raised = TRUE
    BY <1>0, <1>2 DEF Workflow!RecordResult, Workflow!Raises
  <2>2. rows.results[r] \in Workflow!Artifacts /\ rows.artifacts[rows.results[r]] # None
        /\ r[1] = Of(rows.results[r])
    BY <1>0, <1>1, <1>2 DEF RowsSound, ResultsSound
  <2>3. PICK d \in tries : d.artifact = rows.results[r]
    BY <1>0, <2>2 DEF RowsSound, ArtifactsSound
  <2>4. Rival(tries)
    BY <1>0, <1>1, <1>2, <2>2, <2>3 DEF Rival
  <2> QED BY <1>0, <2>1, <2>4, KeptItself, ReachedFacts DEF Promised
<1>3. CASE rows.results[r] \in {None, c.artifact}
  <2>1. tx.rows = [rows EXCEPT !.results[r] = c.artifact] /\ tx.raised = FALSE
    BY <1>0, <1>3 DEF Workflow!RecordResult, Workflow!Done, Outcome
  <2> DEFINE new == tx.rows
  <2>2. /\ new.results = [rows.results EXCEPT ![r] = c.artifact]
        /\ new.artifacts = rows.artifacts /\ new.checkpoints = rows.checkpoints
        /\ new.episodes = rows.episodes /\ new.alias = rows.alias
        /\ new = [artifacts |-> new.artifacts, checkpoints |-> new.checkpoints,
                  episodes |-> new.episodes, results |-> new.results, alias |-> new.alias]
    BY <1>0, <2>1 DEF RowsSound
  <2> HIDE DEF new
  <2>3. new.results \in [Workflow!Runs -> Workflow!Artifacts \cup {None}]
          /\ new.results[r] = c.artifact
        /\ \A s \in Workflow!Runs : s # r => new.results[s] = rows.results[s]
    BY <1>0, <1>1, <2>2 DEF RowsSound, ResultsSound
  <2>4. ResultsSound(new)
    BY <1>0, <1>1, <2>2, <2>3 DEF RowsSound, ResultsSound
  <2>5. ArtifactsSound(new, tries) /\ CheckpointsSound(new, tries) /\ EpisodesSound(new, tries)
    BY <1>0, <2>2 DEF RowsSound, ArtifactsSound, CheckpointsSound, EpisodesSound
  <2>6. RowsKept(rows, new)
    BY <1>0, <1>1, <1>3, <2>2, <2>3 DEF RowsKept, RowsSound, ResultsSound
  <2>7. RowsSound(new, tries)
    BY <1>0, <2>2, <2>4, <2>5 DEF RowsSound
  <2> QED BY <1>0, <2>1, <2>2, <2>6, <2>7, ReachedFacts DEF Promised, Reached, new
<1> QED BY <1>0, <1>2, <1>3

LEMMA AliasInitialized ==
  ASSUME NEW rows, NEW tries, RowsSound(rows, tries), NEW new, new = [rows EXCEPT !.alias = TRUE]
  PROVE  RowsSound(new, tries) /\ RowsKept(rows, new)
<1>1. /\ new.results = rows.results /\ new.artifacts = rows.artifacts
      /\ new.checkpoints = rows.checkpoints /\ new.episodes = rows.episodes
      /\ new = [artifacts |-> new.artifacts, checkpoints |-> new.checkpoints,
                episodes |-> new.episodes, results |-> new.results, alias |-> new.alias]
  BY DEF RowsSound
<1>2. new.alias = TRUE
  BY DEF RowsSound
<1>3. ArtifactsSound(new, tries) /\ CheckpointsSound(new, tries) /\ EpisodesSound(new, tries)
      /\ ResultsSound(new)
  BY <1>1 DEF RowsSound, ArtifactsSound, CheckpointsSound, EpisodesSound, ResultsSound
<1>4. RowsKept(rows, new)
  BY <1>1 DEF RowsKept
<1>5. new.alias \in BOOLEAN
  BY <1>2
<1> QED BY <1>1, <1>3, <1>4, <1>5 DEF RowsSound

\* How far an admission is: what its run in progress has reached.
RunAt(c, n) == Workflow!Order(c.artifact)[1 + (n - 3) \div 4]
Progress(rows, c, n) ==
  /\ n \in 0..Workflow!Last(c)
  /\ n >= 1 => rows.artifacts[c.artifact] # None
  /\ n >= 3 /\ n < Workflow!Last(c) => Reached(rows, c, RunAt(c, n), (n - 3) % 4)

LEMMA LastNatural ==
  ASSUME NEW c \in Configs
  PROVE  /\ Workflow!Last(c) \in Nat /\ Workflow!Last(c) >= 3
         /\ Workflow!Last(c) = 3 + 4 * Cardinality(Workflow!RunsOf(c.artifact))
         /\ Cardinality(Workflow!RunsOf(c.artifact)) \in Nat
BY EvidenceNumbers, RunsFinite, WorkflowCardinality DEF Workflow!Last

LEMMA RunInProgress ==
  ASSUME NEW c \in Configs, NEW n \in Nat, n >= 3, n < Workflow!Last(c)
  PROVE  RunAt(c, n) \in Workflow!RunsOf(c.artifact)
<1> DEFINE i == 1 + (n - 3) \div 4
           k == Cardinality(Workflow!RunsOf(c.artifact))
<1>1. k \in Nat /\ n < 3 + 4 * k
  BY LastNatural
<1> HIDE DEF k
<1>2. i \in Int /\ 4 * (i - 1) <= n - 3 /\ n - 3 < 4 * i
  OBVIOUS
<1> HIDE DEF i
<1>3. i \in 1..k
  BY <1>1, <1>2
<1>4. i \in 1..Cardinality(Workflow!RunsOf(c.artifact))
  BY <1>3 DEF k
<1>5. Workflow!Order(c.artifact)[i] \in Workflow!RunsOf(c.artifact)
  BY <1>4, EvidenceNumbers, OrderNames
<1> QED BY <1>5 DEF RunAt, i

LEMMA SameRun ==
  ASSUME NEW c, NEW n \in Nat, n >= 3, (n - 3) % 4 # 3
  PROVE  RunAt(c, n + 1) = RunAt(c, n) /\ (n + 1 - 3) % 4 = ((n - 3) % 4) + 1
<1>1. (n + 1 - 3) \div 4 = (n - 3) \div 4 /\ (n + 1 - 3) % 4 = ((n - 3) % 4) + 1
  OBVIOUS
<1> QED BY <1>1 DEF RunAt

LEMMA NextRun ==
  ASSUME NEW n \in Nat, n >= 3, (n - 3) % 4 = 3
  PROVE  (n + 1 - 3) % 4 = 0
OBVIOUS

LEMMA TransactionSound ==
  ASSUME NEW rows, NEW tries, tries \subseteq Configs, RowsSound(rows, tries), NEW c \in tries,
         NEW n, Progress(rows, c, n), NEW tx, tx = Workflow!Transaction(rows, c, n)
  PROVE  /\ Promised(rows, tx, tries)
         /\ tx.raised = FALSE /\ n # Workflow!Last(c) => Progress(tx.rows, c, n + 1)
<1>1. c \in Configs /\ n \in Nat /\ n <= Workflow!Last(c) /\ Workflow!Last(c) \in Nat
      /\ Workflow!Last(c) >= 3
  BY LastNatural DEF Progress
<1>2. CASE n = 0
  <2>1. tx = Workflow!RecordArtifact(rows, c)
    BY <1>1, <1>2 DEF Workflow!Transaction
  <2>2. Promised(rows, tx, tries) /\ (tx.raised = FALSE => tx.rows.artifacts[c.artifact] # None)
    BY <2>1, ArtifactRecorded
  <2> QED BY <1>1, <1>2, <2>2 DEF Progress
<1>3. CASE n = 1
  <2>1. tx = Workflow!RegisterBaseline(rows, c)
    BY <1>1, <1>3 DEF Workflow!Transaction
  <2>2. Promised(rows, tx, tries)
    BY <2>1, BaselineRegistered
  <2>3. tx.rows.artifacts[c.artifact] # None
    BY <1>1, <1>3, <2>2, EvidenceNumbers DEF Promised, RowsKept, Progress
  <2> QED BY <1>1, <1>3, <2>2, <2>3 DEF Progress
<1>4. CASE n = 2
  <2>1. tx = Workflow!RegisterCandidate(rows, c)
    BY <1>1, <1>4 DEF Workflow!Transaction
  <2>2. Promised(rows, tx, tries)
    BY <2>1, CandidateRegistered
  <2>3. tx.rows.artifacts[c.artifact] # None
    BY <1>1, <1>4, <2>2, EvidenceNumbers DEF Promised, RowsKept, Progress
  <2>4. Reached(tx.rows, c, RunAt(c, 3), (3 - 3) % 4)
    BY DEF Reached
  <2> QED BY <1>1, <1>4, <2>2, <2>3, <2>4 DEF Progress
<1>5. CASE n = Workflow!Last(c)
  <2>1. tx = Workflow!InitializeAlias(rows)
    BY <1>1, <1>5 DEF Workflow!Transaction
  <2>2. tx.rows = [rows EXCEPT !.alias = TRUE] /\ tx.raised = FALSE
    BY <2>1 DEF Workflow!InitializeAlias, Workflow!Done
  <2>3. RowsSound(tx.rows, tries) /\ RowsKept(rows, tx.rows)
    BY <2>2, AliasInitialized
  <2> QED BY <1>5, <2>2, <2>3 DEF Promised
<1>6. CASE n >= 3 /\ n < Workflow!Last(c)
  <2>0. PICK r \in Workflow!RunsOf(c.artifact) : r = RunAt(c, n)
    BY <1>1, <1>6, RunInProgress
  <2> DEFINE m == (n - 3) % 4
  <2>1. r \in Workflow!RunsOf(c.artifact) /\ Reached(rows, c, r, m) /\ m \in 0..3
        /\ rows.artifacts[c.artifact] # None
    BY <1>1, <1>6, <2>0 DEF Progress
  <2>2. tx = CASE m = 0 -> Workflow!RegisterRun(rows, c, r)
               [] m = 1 -> Workflow!StartRun(rows, c, r)
               [] m = 2 -> Workflow!EndRun(rows, c, r)
               [] OTHER -> Workflow!RecordResult(rows, c, r)
    BY <1>1, <1>6, <2>0 DEF Workflow!Transaction, RunAt
  <2> HIDE DEF m
  <2>8. rows.artifacts[c.artifact] # None
    BY <2>1
  <2>3. ASSUME tx.rows.artifacts = rows.artifacts, m # 3, Reached(tx.rows, c, r, m + 1)
        PROVE  Progress(tx.rows, c, n + 1)
    <3>1. RunAt(c, n + 1) = r /\ (n + 1 - 3) % 4 = m + 1
      BY <1>1, <1>6, <2>3, <2>0, SameRun DEF m
    <3>2. n + 1 \in 0..Workflow!Last(c)
      BY <1>1, <1>6
    <3> QED BY <2>1, <2>3, <3>1, <3>2 DEF Progress
  <2>4. CASE m = 0
    <3>1. tx = Workflow!RegisterRun(rows, c, r)
      BY <2>2, <2>4
    <3>3. /\ Promised(rows, tx, tries)
          /\ tx.raised = FALSE
               => Reached(tx.rows, c, r, 1) /\ tx.rows.artifacts = rows.artifacts
      <4>1. ASSUME NEW t, t = Workflow!RegisterRun(rows, c, r)
            PROVE  /\ Promised(rows, t, tries)
                   /\ t.raised = FALSE
                        => Reached(t.rows, c, r, 1) /\ t.rows.artifacts = rows.artifacts
        BY <4>1, RunRegistered, ZenonT(60)
      <4> QED BY <3>1, <4>1
    <3> QED BY <2>3, <2>4, <3>3
  <2>5. CASE m = 1
    <3>1. tx = Workflow!StartRun(rows, c, r)
      BY <2>2, <2>5
    <3>2. Reached(rows, c, r, 1)
      BY <2>1, <2>5
    <3>3. /\ Promised(rows, tx, tries)
          /\ tx.raised = FALSE
               => Reached(tx.rows, c, r, 2) /\ tx.rows.artifacts = rows.artifacts
      <4>1. ASSUME NEW t, t = Workflow!StartRun(rows, c, r)
            PROVE  /\ Promised(rows, t, tries)
                   /\ t.raised = FALSE
                        => Reached(t.rows, c, r, 2) /\ t.rows.artifacts = rows.artifacts
        BY <4>1, <3>2, RunStarted, ZenonT(60)
      <4> QED BY <3>1, <4>1
    <3> QED BY <2>3, <2>5, <3>3
  <2>6. CASE m = 2
    <3>1. tx = Workflow!EndRun(rows, c, r)
      BY <2>2, <2>6
    <3>2. Reached(rows, c, r, 2)
      BY <2>1, <2>6
    <3>3. /\ Promised(rows, tx, tries)
          /\ tx.raised = FALSE
               => Reached(tx.rows, c, r, 3) /\ tx.rows.artifacts = rows.artifacts
      <4>1. ASSUME NEW t, t = Workflow!EndRun(rows, c, r)
            PROVE  /\ Promised(rows, t, tries)
                   /\ t.raised = FALSE
                        => Reached(t.rows, c, r, 3) /\ t.rows.artifacts = rows.artifacts
        BY <4>1, <3>2, RunEnded, ZenonT(60)
      <4> QED BY <3>1, <4>1
    <3> QED BY <2>3, <2>6, <3>3
  <2>7. CASE m = 3
    <3>1. tx = Workflow!RecordResult(rows, c, r)
      BY <2>2, <2>7
    <3>2. Reached(rows, c, r, 3)
      BY <2>1, <2>7
    <3>3. Promised(rows, tx, tries) /\ (tx.raised = FALSE => tx.rows.artifacts = rows.artifacts)
      <4>1. ASSUME NEW t, t = Workflow!RecordResult(rows, c, r)
            PROVE  Promised(rows, t, tries) /\ (t.raised = FALSE
              => t.rows.artifacts = rows.artifacts)
        BY <2>8, <3>2, <4>1, ResultRecorded, ZenonT(60)
      <4> QED BY <3>1, <4>1
    <3>4. (n + 1 - 3) % 4 = 0 /\ n + 1 \in 0..Workflow!Last(c)
      BY <1>1, <1>6, <2>7, NextRun DEF m
    <3>5. Reached(tx.rows, c, RunAt(c, n + 1), 0)
      BY DEF Reached
    <3> QED BY <2>1, <3>3, <3>4, <3>5 DEF Progress
  <2>9. m = 0 \/ m = 1 \/ m = 2 \/ m = 3
    BY <2>1
  <2> QED BY <2>4, <2>5, <2>6, <2>7, <2>9, Zenon
<1>7. n = 0 \/ n = 1 \/ n = 2 \/ n = Workflow!Last(c) \/ (n >= 3 /\ n < Workflow!Last(c))
  BY <1>1
<1> QED BY <1>2, <1>3, <1>4, <1>5, <1>6, <1>7, Zenon

Shut(done) == {done[i] : i \in DOMAIN done}
Lineage == [trained |-> lineage.trained, evaluated |-> lineage.evaluated,
            outperformed |-> lineage.outperformed]

\* Evidence whose facts the rows reproduce.
Backed(rows, shut, b) ==
  /\ b.world = Plan.episode /\ b.world \in shut
  /\ b.evaluation \in Workflow!Artifacts /\ Plan.action = Workflow!GateAction(b.evaluation)
  /\ rows.checkpoints[Plan.candidate] # None /\ rows.checkpoints[Baseline] # None
  /\ rows.checkpoints[Plan.candidate].artifact = b.evaluation
  /\ rows.artifacts[b.evaluation] # None
  /\ \A r \in Workflow!RunsOf(b.evaluation) : rows.results[r] = b.evaluation

\* One review's facts are no later than another's.
Earlier(f, g) ==
  /\ f.closed \in Seq(DOMAIN Sources) /\ g.closed \in Seq(DOMAIN Sources)
  /\ Len(f.closed) <= Len(g.closed)
  /\ \A i \in 1..Len(f.closed) : f.closed[i] = g.closed[i]
  /\ f.approved \subseteq g.approved
CurriculumFrom(f) == Workflow!CurriculumEvidence(f.closed, f.approved)

\* What a reference was recorded as, and from which facts.
ReferenceSound(rows, done, c) ==
  /\ c.kind = "world" =>
       c.part = Plan.episode /\ c.at \in DOMAIN done /\ done[c.at] = Plan.episode
  /\ c.kind = "curriculum" => c.at \in 0..Len(done)
  /\ c.kind = "evaluation" =>
       /\ rows.checkpoints[Plan.candidate] # None /\ rows.checkpoints[Baseline] # None
       /\ c.part = rows.checkpoints[Plan.candidate].artifact
       /\ c.at = Workflow!Max({rows.checkpoints[Plan.candidate].time,
                               rows.checkpoints[Baseline].time})
RecordedFrom(c, f) ==
  c.kind = "curriculum" =>
    /\ Len(f.closed) <= c.at
    /\ bundle = None => c.part = CurriculumFrom(f)

RowsPart ==
  /\ tried \subseteq Configs /\ \A d \in tried : Workflow!Verified(d.artifact)
  /\ RowsSound(evidenceStore, tried)
ServerPart ==
  /\ evidenceBoots \in 0..EvidenceBoots
  /\ evidenceServer \in [state : {"down", "serving"}]
                  \cup [state : {"refused"}, because : {"settings", "artifact", "rows"}]
                  \cup [state : {"admitting"}, config : Configs, next : Nat]
  /\ evidenceServer.state = "admitting" =>
       evidenceServer.config \in tried
         /\ Progress(evidenceStore, evidenceServer.config, evidenceServer.next)
  /\ evidenceServer = [state |-> "refused", because |-> "rows"] => Rival(tried)
ClosedPart ==
  /\ closedSources \in Seq(DOMAIN Sources) /\ approvedLessons \subseteq DOMAIN Lessons
  /\ handedOver \subseteq Shut(closedSources)
  /\ \A i, j \in DOMAIN closedSources : closedSources[i] = closedSources[j] => i = j
ReferencesPart ==
  /\ DOMAIN references \subseteq {ids[k] : ids \in EvidenceIds, k \in Workflow!Kinds}
  /\ \A i \in DOMAIN references :
       /\ ReferenceSound(evidenceStore, closedSources, references[i].content)
       /\ Earlier(references[i].facts, Workflow!FactsNow)
       /\ RecordedFrom(references[i].content, references[i].facts)
News(n, ids) ==
  LET kind == Workflow!KindAt(n)
      kept == references[ids[kind]]
  IN  /\ n \in 1..3 /\ ids[kind] \in DOMAIN references
      /\ \/ kept.content.kind # kind
         \/ kind = "curriculum" /\ Workflow!NewsSince(kept.facts)
\* A review that goes on has compared the evidence with the facts it read.
Compared ==
  /\ bundle = None
  /\ Earlier(reviewClient.facts, Workflow!FactsNow)
  /\ reviewClient.bundle.curriculum = CurriculumFrom(reviewClient.facts)
  /\ \A i \in DOMAIN references : Earlier(references[i].facts, reviewClient.facts)
ClientShape ==
  reviewClient = [stage |-> reviewClient.stage, bundle |-> reviewClient.bundle,
                  observed |-> reviewClient.observed, next |-> reviewClient.next,
                  facts |-> reviewClient.facts]
ClientPart ==
  /\ ClientShape
  /\ reviewClient.stage \in {"idle", "holding", "matched", "recording", "refused"}
  /\ reviewClient.stage # "idle" =>
       /\ Backed(evidenceStore, Shut(closedSources), reviewClient.bundle)
       /\ reviewClient.bundle.ids \in EvidenceIds
  /\ reviewClient.stage \in {"matched", "recording"} => Compared
  /\ reviewClient.stage = "recording" =>
       /\ reviewClient.next \in 1..4 /\ reviewClient.observed \in 0..Len(closedSources)
       /\ Len(reviewClient.facts.closed) <= reviewClient.observed
       /\ \A i \in DOMAIN references :
            references[i].content.kind = "curriculum" =>
              references[i].content.at <= reviewClient.observed
  /\ reviewClient.stage = "refused" => News(reviewClient.next, reviewClient.bundle.ids)
BundlePart ==
  /\ bundle # None => Backed(evidenceStore, Shut(closedSources), bundle)
  /\ numericDecision \in {None, "recorded"}
  /\ lineage = Lineage /\ lineage.trained \subseteq DOMAIN Lessons
  /\ lineage.trained # {} =>
       bundle # None
         /\ lineage.trained \subseteq Workflow!LessonsIn(bundle) \cap approvedLessons
  /\ lineage.outperformed = TRUE => bundle # None /\ Plan.action = "promote"
  /\ lineage.outperformed \in BOOLEAN

EvidenceSound == RowsPart /\ ServerPart /\ ClosedPart /\ ReferencesPart /\ ClientPart
  /\ BundlePart

LEMMA ShutIs == Workflow!ClosedSet = Shut(closedSources)
BY DEF Workflow!ClosedSet, Workflow!EpisodesOf, Shut

LEMMA EvidenceStarts == Workflow!Init => EvidenceSound
<1> SUFFICES ASSUME Workflow!Init PROVE EvidenceSound
  OBVIOUS
<1>1. RowsPart
  <2>1. tried = {} /\ \A a \in Workflow!Artifacts : evidenceStore.artifacts[a] = None
    BY DEF Workflow!Init
  <2>2. ArtifactsSound(evidenceStore, tried)
    BY DEF Workflow!Init, ArtifactsSound
  <2>3. CheckpointsSound(evidenceStore, tried)
    BY DEF Workflow!Init, CheckpointsSound
  <2>4. EpisodesSound(evidenceStore, tried) /\ ResultsSound(evidenceStore)
    <3>1. \A r \in Workflow!Runs : evidenceStore.episodes[r] = [state |-> "absent", at |-> None]
      BY DEF Workflow!Init
    <3>2. evidenceStore.episodes \in [Workflow!Runs -> [state : Workflow!States, at : Workflow!Times \cup {None}]]
      BY DEF Workflow!Init, Workflow!States
    <3>3. \A r \in Workflow!Runs : EpisodeSound(tried, r, evidenceStore.episodes[r])
      BY <3>1, <3>2 DEF EpisodeSound, Ended
    <3>4. ResultsSound(evidenceStore)
      BY DEF Workflow!Init, ResultsSound
    <3> QED BY <3>2, <3>3, <3>4 DEF EpisodesSound
  <2>5. RowsSound(evidenceStore, tried)
    <3>1. evidenceStore.alias = FALSE
      BY DEF Workflow!Init
    <3>2. evidenceStore.alias \in BOOLEAN
      BY <3>1
    <3>3. evidenceStore = [artifacts |-> evidenceStore.artifacts, checkpoints |-> evidenceStore.checkpoints,
             episodes |-> evidenceStore.episodes, results |-> evidenceStore.results, alias |-> evidenceStore.alias]
      BY DEF Workflow!Init
    <3> QED BY <2>2, <2>3, <2>4, <3>2, <3>3 DEF RowsSound
  <2> QED BY <2>1, <2>5 DEF RowsPart
<1>2. ServerPart
  BY EvidenceAssumption DEF Workflow!Init, ServerPart
<1>3. ClosedPart
  BY DEF Workflow!Init, ClosedPart
<1>4. ReferencesPart
  <2>1. DOMAIN references = {}
    BY DEF Workflow!Init
  <2> QED BY <2>1 DEF ReferencesPart
<1>5. ClientPart
  BY DEF Workflow!Init, Workflow!Idle, ClientPart, ClientShape
<1>6. BundlePart
  <2>1. lineage = [trained |-> {}, evaluated |-> FALSE, outperformed |-> FALSE]
    BY DEF Workflow!Init
  <2>2. lineage = Lineage /\ lineage.trained = {}
    BY <2>1 DEF Lineage
  <2>3. lineage.outperformed = FALSE
    BY <2>1
  <2>4. bundle = None /\ numericDecision = None
    BY DEF Workflow!Init
  <2> QED BY <2>2, <2>3, <2>4 DEF BundlePart
<1> QED BY <1>1, <1>2, <1>3, <1>4, <1>5, <1>6 DEF EvidenceSound

LEMMA RowsGrow ==
  ASSUME NEW rows, NEW tries, NEW more, tries \subseteq more, RowsSound(rows, tries)
  PROVE  RowsSound(rows, more)
<1>1. ArtifactsSound(rows, more)
  BY DEF RowsSound, ArtifactsSound
<1>2. CheckpointsSound(rows, more)
  BY DEF RowsSound, CheckpointsSound
<1>3. EpisodesSound(rows, more)
  <2>1. \A r \in Workflow!Runs : EpisodeSound(tries, r, rows.episodes[r])
          => EpisodeSound(more, r, rows.episodes[r])
    BY DEF EpisodeSound
  <2> QED BY <2>1 DEF RowsSound, EpisodesSound
<1> QED BY <1>1, <1>2, <1>3 DEF RowsSound

LEMMA RivalGrows ==
  ASSUME NEW tries, NEW more, tries \subseteq more, Rival(tries) PROVE Rival(more)
BY DEF Rival

EvidenceKept == RowsKept(evidenceStore, evidenceStore') /\ tried \subseteq tried'

LEMMA StartKeeps ==
  ASSUME RowsPart, ServerPart, Workflow!Start
  PROVE  RowsPart' /\ ServerPart' /\ EvidenceKept
<1>1. evidenceStore' = evidenceStore /\ evidenceBoots' \in 0..EvidenceBoots
        /\ tried \subseteq tried'
  BY EvidenceAssumption DEF Workflow!Start, ServerPart
<1>2. RowsSound(evidenceStore', tried')
  BY <1>1, RowsGrow DEF RowsPart
<1>3. tried' \subseteq Configs /\ \A d \in tried' : Workflow!Verified(d.artifact)
  BY DEF Workflow!Start, RowsPart
<1>4. CASE \E c \in Configs :
        /\ evidenceServer' = [state |-> "admitting", config |-> c, next |-> 0]
                              /\ tried' = tried \cup {c}
  <2>1. PICK c \in Configs : evidenceServer' = [state |-> "admitting", config |-> c, next |-> 0]
                             /\ tried' = tried \cup {c}
    BY <1>4
  <2>2. Progress(evidenceStore, c, 0)
    BY LastNatural DEF Progress
  <2>3. /\ evidenceServer'.state = "admitting" /\ evidenceServer'.config = c
             /\ evidenceServer'.next = 0
        /\ c \in tried' /\ evidenceServer' # [state |-> "refused", because |-> "rows"]
    BY <2>1
  <2>4. Progress(evidenceStore', evidenceServer'.config, evidenceServer'.next)
    BY <1>1, <2>2, <2>3
  <2>5. evidenceServer' \in [state : {"admitting"}, config : Configs, next : Nat]
    BY <2>1
  <2>6. ServerPart'
    BY <1>1, <2>3, <2>4, <2>5 DEF ServerPart
  <2> QED BY <1>1, <1>2, <1>3, <2>6, KeptItself DEF RowsPart, EvidenceKept
<1>5. CASE \/ evidenceServer' = [state |-> "refused", because |-> "artifact"]
           \/ evidenceServer' = [state |-> "refused", because |-> "settings"]
           \/ evidenceServer' = [state |-> "serving"]
  <2>1. evidenceServer'.state # "admitting"
          /\ evidenceServer' # [state |-> "refused", because |-> "rows"]
    BY <1>5
  <2>2. evidenceServer' \in [state : {"down", "serving"}]
           \cup [state : {"refused"}, because : {"settings", "artifact", "rows"}]
    BY <1>5
  <2>3. ServerPart'
    BY <1>1, <2>1, <2>2 DEF ServerPart
  <2> QED BY <1>1, <1>2, <1>3, <2>3, KeptItself DEF RowsPart, EvidenceKept
<1>6. \/ \E c \in Configs :
           /\ evidenceServer' = [state |-> "admitting", config |-> c, next |-> 0]
                            /\ tried' = tried \cup {c}
      \/ evidenceServer' = [state |-> "refused", because |-> "artifact"]
      \/ evidenceServer' = [state |-> "refused", because |-> "settings"]
      \/ evidenceServer' = [state |-> "serving"]
  BY DEF Workflow!Start
<1> QED BY <1>4, <1>5, <1>6

LEMMA AdmitKeeps ==
  ASSUME RowsPart, ServerPart, Workflow!Admit
  PROVE  RowsPart' /\ ServerPart' /\ EvidenceKept
<1> DEFINE c == evidenceServer.config
           n == evidenceServer.next
           tx == Workflow!Transaction(evidenceStore, c, n)
<1>1. /\ evidenceServer.state = "admitting" /\ c \in tried /\ Progress(evidenceStore, c, n)
      /\ evidenceServer \in [state : {"admitting"}, config : Configs, next : Nat]
  BY DEF Workflow!Admit, ServerPart
<1>2. evidenceStore' = tx.rows /\ tried' = tried /\ evidenceBoots' = evidenceBoots
  BY DEF Workflow!Admit
<1>3. evidenceServer' = IF tx.raised THEN [state |-> "refused", because |-> "rows"]
                        ELSE IF n = Workflow!Last(c) THEN [state |-> "serving"]
                        ELSE [evidenceServer EXCEPT !.next = n + 1]
  BY DEF Workflow!Admit
<1> HIDE DEF tx, c, n
<1>4. /\ Promised(evidenceStore, tx, tried)
      /\ tx.raised = FALSE /\ n # Workflow!Last(c) => Progress(tx.rows, c, n + 1)
  <2>1. ASSUME NEW t, t = Workflow!Transaction(evidenceStore, c, n)
        PROVE  /\ Promised(evidenceStore, t, tried)
               /\ t.raised = FALSE /\ n # Workflow!Last(c) => Progress(t.rows, c, n + 1)
    <3>1. tried \subseteq Configs
      BY DEF RowsPart
    <3>2. RowsSound(evidenceStore, tried)
      BY DEF RowsPart
    <3>3. c \in tried
      BY <1>1
    <3>4. Progress(evidenceStore, c, n)
      BY <1>1
    <3> QED BY <2>1, <3>1, <3>2, <3>3, <3>4, TransactionSound, ZenonT(60)
  <2> QED BY <2>1 DEF tx
<1>5. RowsPart' /\ EvidenceKept
  BY <1>2, <1>4 DEF RowsPart, Promised, EvidenceKept
<1>6. CASE tx.raised = TRUE
  <2>1. evidenceServer' = [state |-> "refused", because |-> "rows"]
    BY <1>3, <1>6
  <2>2. Rival(tried')
    BY <1>2, <1>4, <1>6 DEF Promised
  <2>3. evidenceServer'.state # "admitting"
          /\ evidenceServer' \in [state : {"refused"}, because : {"settings", "artifact", "rows"}]
    BY <2>1
  <2>4. ServerPart'
    BY <1>2, <2>1, <2>2, <2>3 DEF ServerPart
  <2> QED BY <1>5, <2>4
<1>7. CASE tx.raised = FALSE /\ n = Workflow!Last(c)
  <2>1. evidenceServer' = [state |-> "serving"]
    BY <1>3, <1>7
  <2>2. evidenceServer'.state # "admitting"
          /\ evidenceServer' # [state |-> "refused", because |-> "rows"]
        /\ evidenceServer' \in [state : {"down", "serving"}]
    BY <2>1
  <2>3. ServerPart'
    BY <1>2, <2>2 DEF ServerPart
  <2> QED BY <1>5, <2>3
<1>8. CASE tx.raised = FALSE /\ n # Workflow!Last(c)
  <2>1. evidenceServer' = [evidenceServer EXCEPT !.next = n + 1]
    BY <1>3, <1>8
  <2>2. /\ evidenceServer' \in [state : {"admitting"}, config : Configs, next : Nat]
        /\ evidenceServer'.state = "admitting" /\ evidenceServer'.config = c
             /\ evidenceServer'.next = n + 1
    BY <1>1, <2>1 DEF c, n
  <2>3. Progress(evidenceStore', evidenceServer'.config, evidenceServer'.next)
    BY <1>2, <1>4, <1>8, <2>2
  <2>4. evidenceServer' # [state |-> "refused", because |-> "rows"]
    BY <2>2
  <2>5. ServerPart'
    BY <1>1, <1>2, <2>2, <2>3, <2>4 DEF ServerPart
  <2> QED BY <1>5, <2>5
<1>9. tx.raised = TRUE \/ tx.raised = FALSE
  BY <1>4 DEF Promised
<1> QED BY <1>6, <1>7, <1>8, <1>9

LEMMA CrashKeeps ==
  ASSUME RowsPart, ServerPart, Workflow!Crash
  PROVE  RowsPart' /\ ServerPart' /\ EvidenceKept
<1>1. evidenceStore' = evidenceStore /\ tried' = tried /\ evidenceBoots' = evidenceBoots
      /\ evidenceServer' = [state |-> "down"]
  BY DEF Workflow!Crash
<1>2. evidenceServer'.state # "admitting"
        /\ evidenceServer' # [state |-> "refused", because |-> "rows"]
      /\ evidenceServer' \in [state : {"down", "serving"}]
  BY <1>1
<1>3. ServerPart'
  BY <1>1, <1>2 DEF ServerPart
<1> QED BY <1>1, <1>3, KeptItself DEF RowsPart, EvidenceKept

LEMMA DecisionKeeps ==
  ASSUME RowsPart, ServerPart, Workflow!RecordDecision
  PROVE  RowsPart' /\ ServerPart' /\ EvidenceKept
<1>1. evidenceStore' = [evidenceStore EXCEPT !.alias = TRUE] /\ tried' = tried
      /\ evidenceBoots' = evidenceBoots /\ evidenceServer' = evidenceServer
      /\ evidenceServer.state = "serving"
  BY DEF Workflow!RecordDecision, Workflow!Serving
<1>2. RowsSound(evidenceStore', tried) /\ RowsKept(evidenceStore, evidenceStore')
  BY <1>1, AliasInitialized DEF RowsPart
<1>3. ServerPart'
  BY <1>1 DEF ServerPart
<1> QED BY <1>1, <1>2, <1>3 DEF RowsPart, EvidenceKept

LEMMA StoreMoves ==
  ASSUME RowsPart, ServerPart, [Workflow!Next]_evidenceVars
  PROVE  RowsPart' /\ ServerPart' /\ EvidenceKept
<1>1. CASE UNCHANGED <<evidenceStore, evidenceServer, evidenceBoots, tried>>
  BY <1>1, KeptItself DEF RowsPart, ServerPart, EvidenceKept
<1>2. \/ Workflow!Start \/ Workflow!Admit \/ Workflow!Crash \/ Workflow!RecordDecision
      \/ UNCHANGED <<evidenceStore, evidenceServer, evidenceBoots, tried>>
  BY DEF Workflow!Next, evidenceVars, Workflow!CloseSource, Workflow!HandOver,
     Workflow!ApproveLesson, Workflow!Reproduce,
     Workflow!Review, Workflow!Observe, Workflow!RecordReference, Workflow!RecordBundle,
     Workflow!TrainCandidate, Workflow!EvaluateCandidate
<1> QED BY <1>1, <1>2, StartKeeps, AdmitKeeps, CrashKeeps, DecisionKeeps

LEMMA ClosedMoves ==
  ASSUME ClosedPart, [Workflow!Next]_evidenceVars
  PROVE  /\ ClosedPart' /\ Len(closedSources) <= Len(closedSources')
         /\ DOMAIN closedSources \subseteq DOMAIN closedSources'
         /\ \A i \in DOMAIN closedSources : closedSources'[i] = closedSources[i]
         /\ Shut(closedSources) \subseteq Shut(closedSources')
         /\ approvedLessons \subseteq approvedLessons'
<1>2. CASE Workflow!CloseSource
  <2>1. PICK e \in DOMAIN Sources \ Shut(closedSources) : closedSources' = Append(closedSources, e)
    BY <1>2, ShutIs DEF Workflow!CloseSource
  <2>2. approvedLessons' = approvedLessons /\ handedOver' = handedOver
    BY <1>2 DEF Workflow!CloseSource
  <2> DEFINE k == Len(closedSources)
  <2>3. k \in Nat /\ DOMAIN closedSources = 1..k /\ closedSources' \in Seq(DOMAIN Sources)
        /\ DOMAIN closedSources' = 1..(k + 1) /\ Len(closedSources') = k + 1
        /\ closedSources'[k + 1] = e /\ \A i \in 1..k : closedSources'[i] = closedSources[i]
    BY <2>1 DEF ClosedPart
  <2> HIDE DEF k
  <2>4. \A i \in 1..(k + 1) : i = k + 1 \/ i \in 1..k
    BY <2>3
  <2>5. \A i \in 1..k : closedSources[i] # e
    BY <2>1, <2>3 DEF Shut
  <2>6. ASSUME NEW i \in 1..(k + 1), NEW j \in 1..(k + 1), closedSources'[i] = closedSources'[j]
        PROVE  i = j
    BY <2>3, <2>4, <2>5, <2>6 DEF ClosedPart
  <2>7. Len(closedSources) <= Len(closedSources') /\ 1..k \subseteq 1..(k + 1)
    BY <2>3 DEF k
  <2>8. Shut(closedSources) \subseteq Shut(closedSources')
    BY <2>3, <2>7 DEF Shut
  <2>9. ClosedPart'
    BY <2>2, <2>3, <2>6, <2>8 DEF ClosedPart
  <2> QED BY <2>2, <2>3, <2>7, <2>8, <2>9
<1>3. CASE Workflow!ApproveLesson \/ Workflow!HandOver
  <2>1. closedSources' = closedSources /\ Shut(closedSources)' = Shut(closedSources)
    BY <1>3 DEF Workflow!ApproveLesson, Workflow!HandOver, Shut
  <2>2. handedOver' \subseteq Shut(closedSources)
    BY <1>3, ShutIs DEF Workflow!ApproveLesson, Workflow!HandOver, ClosedPart
  <2>3. approvedLessons' \subseteq DOMAIN Lessons /\ approvedLessons \subseteq approvedLessons'
    BY <1>3 DEF Workflow!ApproveLesson, Workflow!HandOver, ClosedPart
  <2>4. Len(closedSources) \in Nat
    BY DEF ClosedPart
  <2> QED BY <2>1, <2>2, <2>3, <2>4 DEF ClosedPart
<1>4. Workflow!CloseSource \/ Workflow!ApproveLesson \/ Workflow!HandOver
        \/ UNCHANGED <<closedSources, handedOver, approvedLessons>>
  BY DEF Workflow!Next, evidenceVars, Workflow!Start, Workflow!Admit, Workflow!Crash,
     Workflow!RecordDecision,
     Workflow!Reproduce, Workflow!Review, Workflow!Observe, Workflow!RecordReference,
     Workflow!RecordBundle,
     Workflow!TrainCandidate, Workflow!EvaluateCandidate
<1>5. CASE UNCHANGED <<closedSources, handedOver, approvedLessons>>
  <2>1. Len(closedSources) \in Nat
    BY DEF ClosedPart
  <2> QED BY <1>5, <2>1 DEF ClosedPart, Shut
<1> QED BY <1>2, <1>3, <1>4, <1>5

LEMMA PoliciesNamed ==
  Plan.candidate \in Workflow!Policies /\ Baseline \in Workflow!Policies
    /\ Plan.candidate # Baseline
BY EvidenceNumbers DEF Workflow!Policies

LEMMA BackedStays ==
  \A rows, new, shut, more, b :
    RowsKept(rows, new) /\ shut \subseteq more /\ Backed(rows, shut, b) => Backed(new, more, b)
<1> SUFFICES ASSUME NEW rows, NEW new, NEW shut, NEW more, NEW b,
                    RowsKept(rows, new), shut \subseteq more, Backed(rows, shut, b)
             PROVE  Backed(new, more, b)
  OBVIOUS
<1>1. new.checkpoints[Plan.candidate] = rows.checkpoints[Plan.candidate]
      /\ new.checkpoints[Baseline] = rows.checkpoints[Baseline]
  BY PoliciesNamed DEF RowsKept, Backed
<1>2. new.artifacts[b.evaluation] = rows.artifacts[b.evaluation]
  BY DEF RowsKept, Backed
<1>3. \A r \in Workflow!RunsOf(b.evaluation) : new.results[r] = b.evaluation
  <2> TAKE r \in Workflow!RunsOf(b.evaluation)
  <2>1. r \in Workflow!Runs
    BY DEF Workflow!RunsOf
  <2>2. rows.results[r] = b.evaluation /\ b.evaluation # None
    BY EvidenceNumbers DEF Backed
  <2> QED BY <2>1, <2>2 DEF RowsKept
<1> QED BY <1>1, <1>2, <1>3 DEF Backed

LEMMA ReferenceStays ==
  \A rows, new, done, more, c :
    /\ RowsKept(rows, new) /\ DOMAIN done \subseteq DOMAIN more /\ Len(done) \in Nat
         /\ Len(more) \in Nat
    /\ Len(done) <= Len(more)
    /\ \A i \in DOMAIN done : more[i] = done[i]
    /\ ReferenceSound(rows, done, c)
    => ReferenceSound(new, more, c)
<1> SUFFICES ASSUME NEW rows, NEW new, NEW done, NEW more, NEW c, RowsKept(rows, new),
                    DOMAIN done \subseteq DOMAIN more, Len(done) <= Len(more),
                    Len(done) \in Nat, Len(more) \in Nat,
                    \A i \in DOMAIN done : more[i] = done[i], ReferenceSound(rows, done, c)
             PROVE  ReferenceSound(new, more, c)
  OBVIOUS
<1>1. c.kind = "world"
        => c.part = Plan.episode /\ c.at \in DOMAIN more /\ more[c.at] = Plan.episode
  BY DEF ReferenceSound
<1>2. c.kind = "curriculum" => c.at \in 0..Len(more)
  BY DEF ReferenceSound
<1>3. c.kind = "evaluation" =>
        /\ new.checkpoints[Plan.candidate] = rows.checkpoints[Plan.candidate]
        /\ new.checkpoints[Baseline] = rows.checkpoints[Baseline]
  BY PoliciesNamed DEF RowsKept, ReferenceSound
<1> QED BY <1>1, <1>2, <1>3 DEF ReferenceSound

LEMMA EarlierOnwards ==
  ASSUME NEW f, NEW g, NEW h, Earlier(f, g), Earlier(g, h) PROVE Earlier(f, h)
<1>1. Len(f.closed) \in Nat /\ Len(g.closed) \in Nat /\ Len(h.closed) \in Nat
  BY DEF Earlier
<1>2. Len(f.closed) <= Len(h.closed) /\ \A i \in 1..Len(f.closed) : i \in 1..Len(g.closed)
  BY <1>1 DEF Earlier
<1> QED BY <1>2 DEF Earlier

\* Between two readings of the same episodes nothing was closed.
LEMMA EarlierSame ==
  ASSUME NEW f, NEW g, NEW h, Earlier(f, g), Earlier(g, h), f.closed = h.closed
  PROVE  g.closed = f.closed
<1>1. Len(f.closed) \in Nat /\ Len(g.closed) \in Nat /\ Len(h.closed) \in Nat
  BY DEF Earlier
<1>2. Len(g.closed) = Len(f.closed)
  BY <1>1 DEF Earlier
<1>3. \A i \in 1..Len(f.closed) : g.closed[i] = f.closed[i]
  BY DEF Earlier
<1> QED BY <1>2, <1>3 DEF Earlier

\* Lessons about failures that do not recur are no part of the curriculum.
LEMMA CurriculumSame ==
  ASSUME NEW done, NEW known, NEW more, known \subseteq more,
         \A l \in more \ known : Lessons[l].category \notin Workflow!Recurring(done)
  PROVE  Workflow!CurriculumEvidence(done, known) = Workflow!CurriculumEvidence(done, more)
<1> DEFINE R == Workflow!Recurring(done)
           About(some, k) == {l \in some : Lessons[l].category = k}
           Least(some) == {l \in some : /\ Lessons[l].category \in R
                                        /\ \A m \in some : Workflow!Group(m) = Workflow!Group(l) => l <= m}
<1>1. \A k \in R : About(known, k) = About(more, k)
  OBVIOUS
<1>2. \A l, m : Workflow!Group(m) = Workflow!Group(l) => Lessons[m].category = Lessons[l].category
  BY DEF Workflow!Group
<1>3. \A l : l \in Least(known) <=> l \in Least(more)
  <2> HIDE DEF R
  <2>1. ASSUME NEW l \in known, Lessons[l].category \in R, NEW m \in more,
               Workflow!Group(m) = Workflow!Group(l)
        PROVE  m \in known
    BY <1>2, <2>1 DEF R
  <2>2. ASSUME NEW l, l \in Least(known) PROVE l \in Least(more)
    BY <2>1, <2>2
  <2>3. ASSUME NEW l, l \in Least(more) PROVE l \in Least(known)
    BY <2>3 DEF R
  <2> QED BY <2>2, <2>3
<1>4. Workflow!Curriculum(known, R) = Least(known) /\ Workflow!Curriculum(more, R) = Least(more)
  BY DEF Workflow!Curriculum
<1>5. Workflow!Curriculum(known, R) = Workflow!Curriculum(more, R)
  BY <1>3, <1>4
<1> DEFINE Said(some, k) ==
      [episodes |-> Workflow!EpisodesWith(done, k),
       corrections |-> {l \in some : Lessons[l].category = k
                                       /\ Lessons[l].episode \in Workflow!EpisodesWith(done, k)},
       lessons |-> {l \in Workflow!Curriculum(some, R) : Lessons[l].category = k}]
<1>6. ASSUME NEW k \in R PROVE Said(known, k) = Said(more, k)
  <2>1. {l \in known : Lessons[l].category = k /\ Lessons[l].episode \in Workflow!EpisodesWith(done, k)}
          = {l \in more : Lessons[l].category = k /\ Lessons[l].episode \in Workflow!EpisodesWith(done, k)}
    BY <1>1, <1>6
  <2> QED BY <1>5, <2>1
<1>7. /\ Workflow!CurriculumEvidence(done, known) = [k \in R |-> Said(known, k)]
      /\ Workflow!CurriculumEvidence(done, more) = [k \in R |-> Said(more, k)]
  BY DEF Workflow!CurriculumEvidence
<1> HIDE DEF Said, R
<1> QED BY <1>6, <1>7

\* What a step leaves of the rows and the closed episodes.
Forward ==
  /\ RowsKept(evidenceStore, evidenceStore') /\ ClosedPart /\ ClosedPart'
  /\ DOMAIN closedSources \subseteq DOMAIN closedSources'
       /\ Len(closedSources) <= Len(closedSources')
  /\ \A i \in DOMAIN closedSources : closedSources'[i] = closedSources[i]
  /\ Shut(closedSources) \subseteq Shut(closedSources')
       /\ approvedLessons \subseteq approvedLessons'

LEMMA StepForward ==
  ASSUME EvidenceSound, [Workflow!Next]_evidenceVars
  PROVE  RowsPart' /\ ServerPart' /\ ClosedPart' /\ Forward
BY StoreMoves, ClosedMoves DEF EvidenceSound, EvidenceKept, Forward

LEMMA LengthsOf ==
  ASSUME Forward PROVE Len(closedSources) \in Nat /\ Len(closedSources') \in Nat
                       /\ DOMAIN closedSources = 1..Len(closedSources)
BY DEF Forward, ClosedPart

LEMMA FactsGrow ==
  ASSUME Forward PROVE Earlier(Workflow!FactsNow, Workflow!FactsNow')
BY LengthsOf DEF Forward, ClosedPart, Earlier, Workflow!FactsNow

\* What was reproduced is reproduced again from the same facts while no lineage is
\* written.
LEMMA CurriculumKept ==
  ASSUME UNCHANGED lineage
  PROVE  \A f : CurriculumFrom(f)' = CurriculumFrom(f)
<1>1. \A l : Workflow!Group(l)' = Workflow!Group(l)
  BY DEF Workflow!Group
<1>2. \A known, categories : Workflow!Curriculum(known, categories)' = Workflow!Curriculum(known, categories)
  BY <1>1 DEF Workflow!Curriculum
<1>3. \A done, k : Workflow!EpisodesWith(done, k)' = Workflow!EpisodesWith(done, k)
  BY DEF Workflow!EpisodesWith, Workflow!EpisodesOf
<1>4. \A done : Workflow!Recurring(done)' = Workflow!Recurring(done)
  BY <1>3 DEF Workflow!Recurring, Workflow!EpisodesOf
<1> QED BY <1>2, <1>3, <1>4 DEF CurriculumFrom, Workflow!CurriculumEvidence

LEMMA ReferencesKept ==
  ASSUME ReferencesPart, Forward, UNCHANGED references,
         bundle' = None => UNCHANGED <<bundle, lineage>>
  PROVE  ReferencesPart'
<1>1. \A i \in DOMAIN references : ReferenceSound(evidenceStore', closedSources', references[i].content)
  BY LengthsOf, ReferenceStays DEF Forward, ReferencesPart
<1>2. \A i \in DOMAIN references : Earlier(references[i].facts, Workflow!FactsNow')
  BY FactsGrow, EarlierOnwards DEF ReferencesPart
<1>3. \A i \in DOMAIN references : RecordedFrom(references[i].content, references[i].facts)'
  <2> TAKE i \in DOMAIN references
  <2>1. RecordedFrom(references[i].content, references[i].facts)
    BY DEF ReferencesPart
  <2> QED BY <2>1, CurriculumKept DEF RecordedFrom
<1> QED BY <1>1, <1>2, <1>3 DEF ReferencesPart

\* What a review records of a part is what was recorded of it before, and of the
\* curriculum unless there is news.
LEMMA ReferenceMade ==
  ASSUME ClosedPart, ClientPart, RowsPart, reviewClient.stage = "recording",
         NEW n \in 1..3, NEW ref,
         ref = Workflow!Reference(reviewClient.bundle, Workflow!KindAt(n), reviewClient.observed)
  PROVE  /\ Workflow!KindAt(n) \in Workflow!Kinds /\ ref.kind = Workflow!KindAt(n)
         /\ ReferenceSound(evidenceStore, closedSources, ref)
         /\ n = 2 => /\ ref.kind = "curriculum"
                     /\ ref.part = reviewClient.bundle.curriculum /\ ref.at = reviewClient.observed
         /\ n # 2 =>
              /\ ref.kind # "curriculum"
              /\ \A old : /\ ReferenceSound(evidenceStore, closedSources, old)
                          /\ old.kind = ref.kind
                          => ~Workflow!Conflicts(old, ref)
<1> DEFINE b == reviewClient.bundle
<1>1. Backed(evidenceStore, Shut(closedSources), b)
  BY DEF ClientPart
<1>0. ref.kind = Workflow!KindAt(n) /\ ref.part = Workflow!Part(b, ref.kind)
  BY DEF Workflow!Reference
<1>2. CASE n = 1
  <2>1. Workflow!KindAt(n) = "world"
    BY <1>2 DEF Workflow!KindAt
  <2>2. ref.part = b.world /\ ref.at = CHOOSE i \in DOMAIN closedSources : closedSources[i] = b.world
    BY <2>1 DEF Workflow!Reference, Workflow!Part
  <2>3. PICK i \in DOMAIN closedSources : closedSources[i] = b.world
    BY <1>1 DEF Backed, Shut
  <2>4. (CHOOSE j \in DOMAIN closedSources : closedSources[j] = b.world) = i
    BY <2>3 DEF ClosedPart
  <2>5. ref.part = Plan.episode /\ ref.at = i /\ closedSources[i] = Plan.episode
    BY <1>1, <2>2, <2>3, <2>4 DEF Backed
  <2>6. ReferenceSound(evidenceStore, closedSources, ref)
    BY <1>0, <2>1, <2>5 DEF ReferenceSound
  <2>7. ASSUME NEW old, ReferenceSound(evidenceStore, closedSources, old), old.kind = ref.kind
        PROVE  ~Workflow!Conflicts(old, ref)
    <3>1. /\ old.part = Plan.episode /\ old.at \in DOMAIN closedSources
          /\ closedSources[old.at] = Plan.episode
      BY <1>0, <2>1, <2>7 DEF ReferenceSound
    <3>2. old.at = i
      BY <2>5, <3>1 DEF ClosedPart
    <3> QED BY <2>5, <2>7, <3>1, <3>2 DEF Workflow!Conflicts
  <2> QED BY <1>0, <1>2, <2>1, <2>6, <2>7 DEF Workflow!Kinds
<1>3. CASE n = 2
  <2>1. Workflow!KindAt(n) = "curriculum"
    BY <1>3 DEF Workflow!KindAt
  <2>2. ref.part = b.curriculum /\ ref.at = reviewClient.observed
    BY <2>1 DEF Workflow!Reference, Workflow!Part
  <2>3. reviewClient.observed \in 0..Len(closedSources)
    BY DEF ClientPart
  <2>4. ReferenceSound(evidenceStore, closedSources, ref)
    BY <1>0, <2>1, <2>2, <2>3 DEF ReferenceSound
  <2> QED BY <1>0, <1>3, <2>1, <2>2, <2>4 DEF Workflow!Kinds
<1>4. CASE n = 3
  <2>1. Workflow!KindAt(n) = "evaluation"
    BY <1>4 DEF Workflow!KindAt
  <2>2. /\ ref.part = b.evaluation
        /\ ref.at = Workflow!Max({evidenceStore.checkpoints[Plan.candidate].time,
                                  evidenceStore.checkpoints[Baseline].time})
    BY <2>1 DEF Workflow!Reference, Workflow!Part
  <2>3. ReferenceSound(evidenceStore, closedSources, ref)
    BY <1>0, <1>1, <2>1, <2>2 DEF ReferenceSound, Backed
  <2>4. ASSUME NEW old, ReferenceSound(evidenceStore, closedSources, old), old.kind = ref.kind
        PROVE  ~Workflow!Conflicts(old, ref)
    BY <1>0, <1>1, <2>1, <2>2, <2>4 DEF ReferenceSound, Backed, Workflow!Conflicts
  <2> QED BY <1>0, <1>4, <2>1, <2>3, <2>4 DEF Workflow!Kinds
<1> QED BY <1>2, <1>3, <1>4

LEMMA NewsStays ==
  ASSUME NEW f, Forward, Earlier(f, Workflow!FactsNow), Workflow!NewsSince(f)
  PROVE  Workflow!NewsSince(f)'
<1>1. CASE closedSources' = closedSources
  <2>1. Workflow!Recurring(closedSources)' = Workflow!Recurring(closedSources)
    BY <1>1 DEF Workflow!Recurring, Workflow!EpisodesWith, Workflow!EpisodesOf
  <2> QED BY <1>1, <2>1 DEF Workflow!NewsSince, Forward
<1>2. CASE closedSources' # closedSources
  <2>1. Len(f.closed) \in Nat /\ Len(f.closed) <= Len(closedSources)
    BY DEF Earlier, Workflow!FactsNow
  <2>2. Len(closedSources') # Len(closedSources)
    BY <1>2, LengthsOf DEF Forward, ClosedPart
  <2>3. Len(closedSources) < Len(closedSources')
    BY <2>2, LengthsOf DEF Forward
  <2>4. f.closed # closedSources'
    BY <2>1, <2>3, LengthsOf
  <2> QED BY <2>4 DEF Workflow!NewsSince
<1> QED BY <1>1, <1>2

\* The client's part, of a client that stays or has less to say.
LEMMA ClientKept ==
  ASSUME ClientPart, ReferencesPart, Forward, UNCHANGED <<reviewClient, references, bundle>>,
         bundle' = None => UNCHANGED lineage
  PROVE  ClientPart'
<1>1. reviewClient.stage # "idle"
        => Backed(evidenceStore', Shut(closedSources'), reviewClient.bundle)
  BY BackedStays DEF ClientPart, Forward
<1>2. reviewClient.stage = "recording" => reviewClient.observed \in 0..Len(closedSources')
  BY LengthsOf DEF ClientPart, Forward
<1>3. ASSUME reviewClient.stage = "refused" PROVE News(reviewClient.next, reviewClient.bundle.ids)'
  <2> DEFINE n == reviewClient.next
             kind == Workflow!KindAt(n)
             kept == references[reviewClient.bundle.ids[kind]]
  <2>1. News(n, reviewClient.bundle.ids)
    BY <1>3 DEF ClientPart
  <2>2. kind = "curriculum" /\ Workflow!NewsSince(kept.facts) => Workflow!NewsSince(kept.facts)'
    <3>1. reviewClient.bundle.ids[kind] \in DOMAIN references
      BY <2>1 DEF News
    <3>2. Earlier(kept.facts, Workflow!FactsNow)
      BY <3>1 DEF ReferencesPart
    <3>3. ASSUME NEW f, f = kept.facts, Workflow!NewsSince(f) PROVE Workflow!NewsSince(f)'
      BY <3>2, <3>3, NewsStays
    <3> HIDE DEF kept
    <3>4. kept' = kept
      BY DEF kept, Workflow!KindAt
    <3> QED BY <3>3, <3>4 DEF Workflow!NewsSince
  <2>3. Workflow!KindAt(n)' = Workflow!KindAt(n)
    BY DEF Workflow!KindAt
  <2> QED BY <2>1, <2>2, <2>3 DEF News
<1>4. ASSUME reviewClient.stage \in {"matched", "recording"} PROVE Compared'
  <2>1. Compared
    BY <1>4 DEF ClientPart
  <2>2. Earlier(reviewClient.facts, Workflow!FactsNow')
    BY <2>1, FactsGrow, EarlierOnwards DEF Compared
  <2>3. CurriculumFrom(reviewClient.facts)' = CurriculumFrom(reviewClient.facts)
    <3>1. \A f : CurriculumFrom(f)' = CurriculumFrom(f)
      BY <2>1, CurriculumKept DEF Compared
    <3> QED BY <3>1 DEF CurriculumFrom
  <2> QED BY <2>1, <2>2, <2>3 DEF Compared
<1>5. ClientShape'
  BY DEF ClientPart, ClientShape
<1> QED BY <1>1, <1>2, <1>3, <1>4, <1>5 DEF ClientPart

LEMMA BundleKept ==
  ASSUME BundlePart, Forward, UNCHANGED <<bundle, numericDecision, lineage>> PROVE BundlePart'
<1>1. bundle # None => Backed(evidenceStore', Shut(closedSources'), bundle)
  BY BackedStays DEF BundlePart, Forward
<1>2. Workflow!LessonsIn(bundle)' = Workflow!LessonsIn(bundle)
  BY DEF Workflow!LessonsIn
<1>3. lineage' = Lineage'
  BY DEF BundlePart, Lineage
<1>4. lineage.trained # {} =>
        bundle # None
          /\ lineage.trained \subseteq Workflow!LessonsIn(bundle) \cap approvedLessons'
  BY DEF BundlePart, Forward
<1> QED BY <1>1, <1>2, <1>3, <1>4 DEF BundlePart

\* A client that is idle, or holds evidence that is backed, and records nothing.
LEMMA ClientHolds ==
  ASSUME NEW stage \in {"idle", "holding"}, NEW held,
         reviewClient' = [Workflow!Idle EXCEPT !.stage = stage, !.bundle = held],
         stage # "idle"
           => Backed(evidenceStore', Shut(closedSources'), held) /\ held.ids \in EvidenceIds
  PROVE  ClientPart'
<1>1. reviewClient' = [stage |-> stage, bundle |-> held, observed |-> 0, next |-> 0,
                       facts |-> Workflow!NoFacts]
  BY DEF Workflow!Idle
<1>2. reviewClient'.stage = stage /\ reviewClient'.bundle = held /\ ClientShape'
  BY <1>1 DEF ClientShape
<1> QED BY <1>2 DEF ClientPart

LEMMA ClientIdles ==
  ASSUME reviewClient' = Workflow!Idle PROVE ClientPart'
<1>1. reviewClient' = [stage |-> "idle", bundle |-> None, observed |-> 0, next |-> 0,
                       facts |-> Workflow!NoFacts]
  BY DEF Workflow!Idle
<1> QED BY <1>1 DEF ClientPart, ClientShape

LEMMA CrashClient ==
  ASSUME ClientPart, ReferencesPart, Forward, Workflow!Crash PROVE ClientPart'
<1>1. CASE reviewClient.stage \notin {"matched", "recording"}
  BY <1>1, ClientKept DEF Workflow!Crash
<1>2. CASE reviewClient.stage \in {"matched", "recording"}
  <2>1. reviewClient' = [Workflow!Idle EXCEPT !.stage = "holding", !.bundle = reviewClient.bundle]
    BY <1>2 DEF Workflow!Crash
  <2>2. Backed(evidenceStore', Shut(closedSources'), reviewClient.bundle)
          /\ reviewClient.bundle.ids \in EvidenceIds
    BY <1>2, BackedStays DEF ClientPart, Forward
  <2> QED BY <2>1, <2>2, ClientHolds
<1> QED BY <1>1, <1>2

LEMMA ReproducedBacked ==
  ASSUME RowsPart, Workflow!Reproducible, NEW ids \in EvidenceIds
  PROVE  /\ Backed(evidenceStore, Shut(closedSources), Workflow!Reproduced(ids))
         /\ Workflow!Reproduced(ids).ids = ids
<1> DEFINE b == Workflow!Reproduced(ids)
           a == evidenceStore.checkpoints[Plan.candidate].artifact
<1>1. b.world = Plan.episode /\ b.evaluation = a /\ b.ids = ids
  BY DEF Workflow!Reproduced
<1>2. Plan.episode \in Shut(closedSources)
  BY ShutIs DEF Workflow!Reproducible
<1>3. /\ evidenceStore.checkpoints[Plan.candidate] # None
           /\ evidenceStore.checkpoints[Baseline] # None
      /\ evidenceStore.artifacts[a] # None
      /\ \A r \in Workflow!RunsOf(a) : evidenceStore.results[r] = a
      /\ Plan.action = Workflow!GateAction(a)
  BY DEF Workflow!Reproducible, Workflow!EvaluationReproducible, Workflow!Complete
<1>4. a \in Workflow!Artifacts
  BY <1>3, PoliciesNamed, EvidenceNumbers DEF RowsPart, RowsSound, CheckpointsSound
<1> QED BY <1>1, <1>2, <1>3, <1>4 DEF Backed

LEMMA ReproduceClient ==
  ASSUME EvidenceSound, Workflow!Reproduce PROVE ClientPart'
<1>1. PICK ids \in EvidenceIds :
        reviewClient' = [Workflow!Idle EXCEPT !.stage = "holding", !.bundle = Workflow!Reproduced(ids)]
  BY DEF Workflow!Reproduce
<1>2. Workflow!Reproducible /\ evidenceStore' = evidenceStore /\ closedSources' = closedSources
  BY DEF Workflow!Reproduce
<1>3. Backed(evidenceStore', Shut(closedSources'), Workflow!Reproduced(ids))
        /\ Workflow!Reproduced(ids).ids \in EvidenceIds
  BY <1>2, ReproducedBacked DEF EvidenceSound
<1> QED BY <1>1, <1>3, ClientHolds

LEMMA ReviewClient ==
  ASSUME EvidenceSound, Workflow!Review PROVE ClientPart'
<1>1. /\ evidenceStore' = evidenceStore /\ closedSources' = closedSources
      /\ approvedLessons' = approvedLessons /\ references' = references
      /\ lineage' = lineage /\ bundle' = None /\ bundle = None
      /\ reviewClient.stage = "holding"
  BY DEF Workflow!Review
<1>2. CASE reviewClient' = Workflow!Idle
  BY <1>2, ClientIdles
<1>3. CASE /\ reviewClient.bundle = Workflow!Reproduced(reviewClient.bundle.ids)
           /\ reviewClient' = [reviewClient EXCEPT !.stage = "matched", !.facts = Workflow!FactsNow]
  <2>1. /\ reviewClient'.stage = "matched" /\ reviewClient'.bundle = reviewClient.bundle
        /\ reviewClient'.facts = Workflow!FactsNow /\ ClientShape'
    BY <1>3 DEF EvidenceSound, ClientPart, ClientShape
  <2>2. /\ Backed(evidenceStore', Shut(closedSources'), reviewClient.bundle)
        /\ reviewClient.bundle.ids \in EvidenceIds
    BY <1>1 DEF EvidenceSound, ClientPart
  <2>3. Workflow!FactsNow' = Workflow!FactsNow
    BY <1>1 DEF Workflow!FactsNow
  <2>4. Earlier(Workflow!FactsNow, Workflow!FactsNow)
    BY DEF Earlier, Workflow!FactsNow, EvidenceSound, ClosedPart
  <2>5. reviewClient.bundle.curriculum = CurriculumFrom(Workflow!FactsNow)
    BY <1>3 DEF Workflow!Reproduced, CurriculumFrom, Workflow!FactsNow
  <2>6. CurriculumFrom(reviewClient.facts)' = CurriculumFrom(Workflow!FactsNow)
    <3>1. \A f : CurriculumFrom(f)' = CurriculumFrom(f)
      BY <1>1, CurriculumKept
    <3> QED BY <2>1, <3>1 DEF CurriculumFrom
  <2>7. \A i \in DOMAIN references : Earlier(references[i].facts, Workflow!FactsNow)
    BY DEF EvidenceSound, ReferencesPart
  <2>8. Compared'
    BY <1>1, <2>1, <2>3, <2>4, <2>5, <2>6, <2>7 DEF Compared
  <2> QED BY <2>1, <2>2, <2>8 DEF ClientPart
<1> QED BY <1>2, <1>3 DEF Workflow!Review

LEMMA ComparedKept ==
  ASSUME Compared, UNCHANGED <<closedSources, approvedLessons, references, lineage, bundle>>,
         reviewClient'.bundle = reviewClient.bundle, reviewClient'.facts = reviewClient.facts
  PROVE  Compared'
<1>1. Workflow!FactsNow' = Workflow!FactsNow /\ \A f : CurriculumFrom(f)' = CurriculumFrom(f)
  BY CurriculumKept DEF Workflow!FactsNow
<1>2. CurriculumFrom(reviewClient.facts)' = CurriculumFrom(reviewClient.facts)
  BY <1>1 DEF CurriculumFrom
<1> QED BY <1>1, <1>2 DEF Compared

LEMMA ObserveClient ==
  ASSUME EvidenceSound, Workflow!Observe PROVE ClientPart'
<1>1. /\ evidenceStore' = evidenceStore /\ closedSources' = closedSources
      /\ approvedLessons' = approvedLessons /\ references' = references
      /\ lineage' = lineage /\ bundle' = bundle /\ reviewClient.stage = "matched"
      /\ reviewClient' = [reviewClient EXCEPT !.stage = "recording", !.observed = Len(closedSources), !.next = 1]
  BY DEF Workflow!Observe
<1>2. /\ reviewClient'.stage = "recording" /\ reviewClient'.bundle = reviewClient.bundle
      /\ reviewClient'.observed = Len(closedSources) /\ reviewClient'.next = 1
      /\ reviewClient'.facts = reviewClient.facts /\ ClientShape'
  BY <1>1 DEF EvidenceSound, ClientPart, ClientShape
<1>3. /\ Backed(evidenceStore, Shut(closedSources), reviewClient.bundle)
      /\ reviewClient.bundle.ids \in EvidenceIds /\ Compared
  BY <1>1 DEF EvidenceSound, ClientPart
<1>4. Len(closedSources) \in Nat
  BY DEF EvidenceSound, ClosedPart
<1>5. \A i \in DOMAIN references :
        references[i].content.kind = "curriculum" => references[i].content.at <= Len(closedSources)
  BY <1>4 DEF EvidenceSound, ReferencesPart, ReferenceSound
<1>6. Compared'
  BY <1>1, <1>2, <1>3, ComparedKept
<1>7. Len(reviewClient.facts.closed) <= Len(closedSources)
  BY <1>3 DEF Compared, Earlier, Workflow!FactsNow
<1> QED BY <1>1, <1>2, <1>3, <1>4, <1>5, <1>6, <1>7 DEF ClientPart

\* A review that was not refused a reference goes on to the next.
LEMMA ClientGoesOn ==
  ASSUME ClientPart, Compared, reviewClient.stage = "recording", reviewClient.next \in 1..3,
         reviewClient' = [reviewClient EXCEPT !.next = reviewClient.next + 1],
         UNCHANGED <<evidenceStore, closedSources, approvedLessons, lineage, bundle>>,
         \A i \in DOMAIN references' :
           /\ Earlier(references'[i].facts, reviewClient.facts)
           /\ references'[i].content.kind = "curriculum" =>
                references'[i].content.at <= reviewClient.observed
  PROVE  ClientPart'
<1>1. /\ reviewClient'.stage = "recording" /\ reviewClient'.bundle = reviewClient.bundle
      /\ reviewClient'.next = reviewClient.next + 1 /\ reviewClient'.facts = reviewClient.facts
      /\ reviewClient'.observed = reviewClient.observed /\ ClientShape'
  BY DEF ClientPart, ClientShape
<1>2. Workflow!FactsNow' = Workflow!FactsNow /\ \A f : CurriculumFrom(f)' = CurriculumFrom(f)
  BY CurriculumKept DEF Workflow!FactsNow
<1>3. Compared'
  BY <1>1, <1>2 DEF Compared, CurriculumFrom
<1>4. reviewClient'.next \in 1..4
  BY <1>1
<1> QED BY <1>1, <1>3, <1>4 DEF ClientPart

\* A review is refused its reference only by news, or by a clash of ids.
LEMMA RefusalIsNews ==
  ASSUME EvidenceSound, reviewClient.stage = "recording", NEW n \in 1..3, n = reviewClient.next,
         NEW ref,
         ref = Workflow!Reference(reviewClient.bundle, Workflow!KindAt(n), reviewClient.observed),
         NEW i \in DOMAIN references, i = reviewClient.bundle.ids[Workflow!KindAt(n)],
         Workflow!Conflicts(references[i].content, ref)
  PROVE  News(n, reviewClient.bundle.ids)
<1> DEFINE c == references[i].content
           f == references[i].facts
<1>1. /\ ref.kind = Workflow!KindAt(n)
      /\ n = 2 => /\ ref.kind = "curriculum"
                  /\ ref.part = reviewClient.bundle.curriculum /\ ref.at = reviewClient.observed
      /\ n # 2 => \A old : ReferenceSound(evidenceStore, closedSources, old) /\ old.kind = ref.kind
                             => ~Workflow!Conflicts(old, ref)
  BY ReferenceMade DEF EvidenceSound
<1>2. ReferenceSound(evidenceStore, closedSources, c) /\ Earlier(f, Workflow!FactsNow)
      /\ RecordedFrom(c, f)
  BY DEF EvidenceSound, ReferencesPart
<1>3. CASE c.kind # Workflow!KindAt(n)
  BY <1>3 DEF News
<1>4. CASE c.kind = Workflow!KindAt(n)
  <2>1. n = 2 /\ c.kind = "curriculum"
    BY <1>1, <1>2, <1>4
  <2>2. /\ Compared /\ reviewClient.observed \in 0..Len(closedSources)
        /\ Len(reviewClient.facts.closed) <= reviewClient.observed
    BY DEF EvidenceSound, ClientPart
  <2> DEFINE g == reviewClient.facts
             now == Workflow!FactsNow
  <2>3. Earlier(f, g) /\ Earlier(g, now) /\ reviewClient.bundle.curriculum = CurriculumFrom(g)
        /\ bundle = None
    BY <2>2 DEF Compared
  <2>4. ASSUME ~Workflow!NewsSince(f) PROVE FALSE
    <3>1. /\ f.closed = closedSources
          /\ \A l \in approvedLessons \ f.approved :
               Lessons[l].category \notin Workflow!Recurring(closedSources)
      BY <2>4 DEF Workflow!NewsSince
    <3>2. now.closed = closedSources /\ now.approved = approvedLessons
      BY DEF Workflow!FactsNow
    <3> HIDE DEF now, f, g, c
    <3>3. g.closed = closedSources
      BY <2>3, <3>1, <3>2, EarlierSame
    <3>4. f.approved \subseteq g.approved /\ g.approved \subseteq approvedLessons
      BY <2>3, <3>2 DEF Earlier
    <3>5. CurriculumFrom(f) = CurriculumFrom(g)
      <4>1. \A l \in g.approved \ f.approved :
              Lessons[l].category \notin Workflow!Recurring(closedSources)
        BY <3>1, <3>4
      <4>2. Workflow!CurriculumEvidence(closedSources, f.approved)
              = Workflow!CurriculumEvidence(closedSources, g.approved)
        BY <3>4, <4>1, CurriculumSame
      <4> QED BY <3>1, <3>3, <4>2 DEF CurriculumFrom
    <3>6. Len(closedSources) \in Nat
      BY DEF EvidenceSound, ClosedPart
    <3>7. c.at \in 0..Len(closedSources) /\ Len(f.closed) <= c.at /\ c.part = CurriculumFrom(f)
      BY <1>2, <2>1, <2>3 DEF ReferenceSound, RecordedFrom
    <3>8. c.at = Len(closedSources)
      BY <3>1, <3>6, <3>7
    <3>9. reviewClient.observed = Len(closedSources)
      BY <2>2, <3>3, <3>6 DEF g
    <3>10. ~Workflow!Conflicts(c, ref)
      BY <1>1, <1>4, <2>1, <2>3, <3>5, <3>7, <3>8, <3>9 DEF Workflow!Conflicts
    <3> QED BY <3>10 DEF c
  <2>5. Workflow!KindAt(2) = "curriculum"
    BY DEF Workflow!KindAt
  <2> QED BY <2>1, <2>4, <2>5 DEF News
<1> QED BY <1>3, <1>4

LEMMA ReferenceRecorded ==
  ASSUME EvidenceSound, Workflow!RecordReference PROVE ReferencesPart' /\ ClientPart'
<1> DEFINE n == reviewClient.next
           kind == Workflow!KindAt(n)
           id == reviewClient.bundle.ids[kind]
           ref == Workflow!Reference(reviewClient.bundle, kind, reviewClient.observed)
<1>1. /\ evidenceStore' = evidenceStore /\ closedSources' = closedSources /\ bundle' = bundle
      /\ approvedLessons' = approvedLessons /\ lineage' = lineage
      /\ reviewClient.stage = "recording" /\ n <= 3
  BY DEF Workflow!RecordReference
<1>2. /\ ClientShape /\ n \in 1..3 /\ reviewClient.bundle.ids \in EvidenceIds
      /\ Backed(evidenceStore, Shut(closedSources), reviewClient.bundle) /\ Compared
      /\ reviewClient.observed \in 0..Len(closedSources)
      /\ Len(reviewClient.facts.closed) <= reviewClient.observed
      /\ \A i \in DOMAIN references :
           references[i].content.kind = "curriculum" =>
             references[i].content.at <= reviewClient.observed
  BY <1>1 DEF EvidenceSound, ClientPart
<1>3. Len(closedSources) \in Nat
  BY DEF EvidenceSound, ClosedPart
<1>4. Workflow!FactsNow' = Workflow!FactsNow /\ \A f : CurriculumFrom(f)' = CurriculumFrom(f)
  BY <1>1, CurriculumKept DEF Workflow!FactsNow
<1>5. CASE id \in DOMAIN references /\ Workflow!Conflicts(references[id].content, ref)
  <2>1. references' = references /\ reviewClient' = [reviewClient EXCEPT !.stage = "refused"]
    BY <1>5 DEF Workflow!RecordReference
  <2>2. /\ reviewClient'.stage = "refused" /\ reviewClient'.bundle = reviewClient.bundle
        /\ reviewClient'.next = n /\ ClientShape'
    BY <1>2, <2>1 DEF ClientShape
  <2>3. News(n, reviewClient.bundle.ids)
    <3>1. ASSUME NEW m \in 1..3, m = reviewClient.next PROVE News(m, reviewClient.bundle.ids)
      BY <1>1, <1>5, <3>1, RefusalIsNews
    <3> QED BY <1>2, <3>1
  <2>4. \A f : Workflow!NewsSince(f)' = Workflow!NewsSince(f)
    BY <1>1 DEF Workflow!NewsSince, Workflow!Recurring, Workflow!EpisodesWith, Workflow!EpisodesOf
  <2>5. News(reviewClient.next, reviewClient.bundle.ids)'
    BY <2>1, <2>2, <2>3, <2>4 DEF News, Workflow!KindAt
  <2>6. ClientPart'
    BY <1>1, <1>2, <2>2, <2>5 DEF ClientPart
  <2>7. ReferencesPart'
    BY <1>1, <1>4, <2>1 DEF EvidenceSound, ReferencesPart, RecordedFrom
  <2> QED BY <2>6, <2>7
<1>6. CASE id \in DOMAIN references /\ ~Workflow!Conflicts(references[id].content, ref)
  <2>1. references' = references /\ reviewClient' = [reviewClient EXCEPT !.next = n + 1]
    BY <1>6 DEF Workflow!RecordReference
  <2>2. ReferencesPart'
    BY <1>1, <1>4, <2>1 DEF EvidenceSound, ReferencesPart, RecordedFrom
  <2>3. \A i \in DOMAIN references' :
          /\ Earlier(references'[i].facts, reviewClient.facts)
          /\ references'[i].content.kind = "curriculum" =>
               references'[i].content.at <= reviewClient.observed
    BY <1>2, <2>1 DEF Compared
  <2> HIDE DEF kind, id, ref
  <2>4. ClientPart'
    BY <1>1, <1>2, <2>1, <2>3, ClientGoesOn DEF EvidenceSound
  <2> QED BY <2>2, <2>4
<1>7. CASE id \notin DOMAIN references
  <2> DEFINE entry == [content |-> ref, facts |-> reviewClient.facts]
  <2>1. /\ references' = [i \in DOMAIN references \cup {id} |-> IF i = id THEN entry ELSE references[i]]
        /\ reviewClient' = [reviewClient EXCEPT !.next = n + 1]
    BY <1>7 DEF Workflow!RecordReference
  <2>2. /\ kind \in Workflow!Kinds /\ ReferenceSound(evidenceStore, closedSources, ref)
        /\ n = 2 => ref.part = reviewClient.bundle.curriculum /\ ref.at = reviewClient.observed
        /\ n # 2 => ref.kind # "curriculum"
    <3>1. ASSUME NEW m \in 1..3, m = n, NEW q, q = ref
          PROVE  /\ kind \in Workflow!Kinds /\ ReferenceSound(evidenceStore, closedSources, q)
                 /\ m = 2 => q.part = reviewClient.bundle.curriculum /\ q.at = reviewClient.observed
                 /\ m # 2 => q.kind # "curriculum"
      BY <1>1, <3>1, ReferenceMade DEF EvidenceSound
    <3> QED BY <1>2, <3>1
  <2>3. id \in {ids[k] : ids \in EvidenceIds, k \in Workflow!Kinds}
    BY <1>2, <2>2
  <2> HIDE DEF ref, id, kind
  <2>4. /\ DOMAIN references' = DOMAIN references \cup {id} /\ references'[id] = entry
        /\ \A i \in DOMAIN references : references'[i] = references[i]
    BY <1>7, <2>1
  <2>5. RecordedFrom(ref, reviewClient.facts)
    <3>1. ref.kind = "curriculum" => /\ ref.part = CurriculumFrom(reviewClient.facts)
                                     /\ ref.at = reviewClient.observed
      BY <1>2, <2>2 DEF Compared
    <3> QED BY <1>2, <3>1 DEF RecordedFrom
  <2>6. Earlier(reviewClient.facts, Workflow!FactsNow)
    BY <1>2 DEF Compared
  <2>7. ASSUME NEW i \in DOMAIN references'
        PROVE  /\ ReferenceSound(evidenceStore, closedSources, references'[i].content)
               /\ Earlier(references'[i].facts, Workflow!FactsNow)
               /\ RecordedFrom(references'[i].content, references'[i].facts)
               /\ Earlier(references'[i].facts, reviewClient.facts)
               /\ references'[i].content.kind = "curriculum" =>
                    references'[i].content.at <= reviewClient.observed
    <3>1. CASE i = id
      <4>1. references'[i].content = ref /\ references'[i].facts = reviewClient.facts
        BY <2>4, <3>1
      <4>2. Earlier(reviewClient.facts, reviewClient.facts)
        BY <2>6 DEF Earlier
      <4>3. ref.kind = "curriculum" => ref.at <= reviewClient.observed
        BY <1>2, <1>3, <2>2
      <4> QED BY <2>2, <2>5, <2>6, <4>1, <4>2, <4>3
    <3>2. CASE i # id
      BY <1>2, <2>4, <3>2 DEF EvidenceSound, ReferencesPart, Compared
    <3> QED BY <3>1, <3>2
  <2>8. ReferencesPart'
    BY <1>1, <1>4, <2>3, <2>4, <2>7 DEF EvidenceSound, ReferencesPart, RecordedFrom
  <2>9. ClientPart'
    BY <1>1, <1>2, <2>1, <2>7, ClientGoesOn DEF EvidenceSound
  <2> QED BY <2>8, <2>9
<1> QED BY <1>5, <1>6, <1>7

LEMMA BundleRecorded ==
  ASSUME EvidenceSound, Forward, Workflow!RecordBundle PROVE ClientPart' /\ BundlePart'
<1>1. /\ evidenceStore' = evidenceStore /\ closedSources' = closedSources
      /\ reviewClient.stage = "recording" /\ bundle' = reviewClient.bundle
      /\ reviewClient' = Workflow!Idle /\ numericDecision' = numericDecision
           /\ lineage' = lineage
      /\ approvedLessons' = approvedLessons
  BY DEF Workflow!RecordBundle
<1>2. Backed(evidenceStore, Shut(closedSources), reviewClient.bundle) /\ bundle = None
  BY <1>1 DEF EvidenceSound, ClientPart, Compared
<1>3. ClientPart'
  BY <1>1, ClientIdles
<1>4. lineage.trained = {} /\ lineage.outperformed = FALSE
  BY <1>2 DEF EvidenceSound, BundlePart
<1>5. BundlePart'
  BY <1>1, <1>2, <1>4 DEF EvidenceSound, BundlePart, Lineage
<1> QED BY <1>3, <1>5

LEMMA DecisionRecorded ==
  ASSUME EvidenceSound, Forward, Workflow!RecordDecision PROVE BundlePart'
<1>1. /\ bundle # None /\ bundle' = bundle /\ lineage' = lineage
      /\ numericDecision' = IF Workflow!PromotionEvidence(bundle)
           /\ Workflow!ValidDecision(bundle)
                            THEN "recorded" ELSE "refused"
  BY DEF Workflow!RecordDecision
<1> DEFINE a == evidenceStore.checkpoints[Plan.candidate].artifact
           b == evidenceStore.checkpoints[Baseline].artifact
<1>2. Backed(evidenceStore, Shut(closedSources), bundle)
  BY <1>1 DEF EvidenceSound, BundlePart
<1>3. Workflow!PromotionEvidence(bundle)
  BY <1>2 DEF Backed, Workflow!PromotionEvidence
<1>4. evidenceStore.checkpoints[Plan.candidate] \in tried
        /\ evidenceStore.checkpoints[Baseline] \in tried
      /\ Of(evidenceStore.checkpoints[Plan.candidate].artifact) = Plan.candidate
  BY <1>2, PoliciesNamed DEF Backed, EvidenceSound, RowsPart, RowsSound, CheckpointsSound
<1>5. a \in Workflow!Artifacts /\ b \in Workflow!Artifacts /\ Workflow!Verified(a)
        /\ Workflow!Verified(b)
  BY <1>4, EvidenceNumbers DEF EvidenceSound, RowsPart
<1>6. Comparison[b].rates = Comparison[a].rates
  BY <1>5, EvidenceAssumption
<1>7. Workflow!ValidDecision(bundle)
  BY <1>2, <1>4, <1>6 DEF Backed, Workflow!ValidDecision, Workflow!Bound, Of
<1>8. numericDecision' = "recorded"
  BY <1>1, <1>3, <1>7
<1>9. Backed(evidenceStore', Shut(closedSources'), bundle)
  BY <1>2, BackedStays DEF Forward
<1>10. Workflow!LessonsIn(bundle)' = Workflow!LessonsIn(bundle)
  BY <1>1 DEF Workflow!LessonsIn
<1>11. lineage.trained # {} =>
        bundle # None
          /\ lineage.trained \subseteq Workflow!LessonsIn(bundle) \cap approvedLessons'
  BY DEF EvidenceSound, BundlePart, Forward
<1>12. lineage' = Lineage'
  BY <1>1 DEF EvidenceSound, BundlePart, Lineage
<1> QED BY <1>1, <1>8, <1>9, <1>10, <1>11, <1>12 DEF EvidenceSound, BundlePart

LEMMA CandidateTrained ==
  ASSUME EvidenceSound, Workflow!TrainCandidate PROVE BundlePart'
<1> DEFINE lessons == Workflow!LessonsIn(bundle)
                        \cap Workflow!Curriculum(approvedLessons, {Lessons[l].category : l \in DOMAIN Lessons})
<1>1. /\ bundle # None /\ bundle' = bundle /\ numericDecision' = numericDecision
      /\ evidenceStore' = evidenceStore /\ closedSources' = closedSources
           /\ approvedLessons' = approvedLessons
      /\ lineage' = [lineage EXCEPT !.trained = @ \cup lessons]
  BY DEF Workflow!TrainCandidate
<1>2. lessons \subseteq Workflow!LessonsIn(bundle) \cap approvedLessons
  BY DEF Workflow!Curriculum
<1> HIDE DEF lessons
<1>3. /\ lineage'.trained = lineage.trained \cup lessons
      /\ lineage'.outperformed = lineage.outperformed /\ lineage' = Lineage'
  BY <1>1 DEF EvidenceSound, BundlePart, Lineage
<1>4. lineage'.trained \subseteq Workflow!LessonsIn(bundle) \cap approvedLessons
  BY <1>2, <1>3 DEF EvidenceSound, BundlePart
<1>5. Workflow!LessonsIn(bundle)' = Workflow!LessonsIn(bundle)
  BY <1>1 DEF Workflow!LessonsIn
<1>6. lineage'.trained \subseteq DOMAIN Lessons
  BY <1>4 DEF EvidenceSound, ClosedPart
<1>7. Backed(evidenceStore', Shut(closedSources'), bundle)
  BY <1>1 DEF EvidenceSound, BundlePart
<1> QED BY <1>1, <1>3, <1>4, <1>5, <1>6, <1>7 DEF EvidenceSound, BundlePart

LEMMA CandidateEvaluated ==
  ASSUME EvidenceSound, Workflow!EvaluateCandidate PROVE BundlePart'
<1>1. /\ bundle # None /\ bundle' = bundle /\ numericDecision' = numericDecision
      /\ evidenceStore' = evidenceStore /\ closedSources' = closedSources
           /\ approvedLessons' = approvedLessons
      /\ lineage' = [lineage EXCEPT !.evaluated = TRUE, !.outperformed = (Plan.action = "promote")]
  BY DEF Workflow!EvaluateCandidate
<1>2. /\ lineage'.trained = lineage.trained /\ lineage' = Lineage'
  BY <1>1 DEF EvidenceSound, BundlePart, Lineage
<1>3. ASSUME NEW best \in BOOLEAN,
             lineage' = [lineage EXCEPT !.evaluated = TRUE, !.outperformed = best]
      PROVE  lineage'.outperformed = best
  BY <1>3 DEF EvidenceSound, BundlePart, Lineage
<1>4. lineage'.outperformed = (Plan.action = "promote")
  BY <1>1, <1>3
<1>5. Workflow!LessonsIn(bundle)' = Workflow!LessonsIn(bundle)
  BY <1>1 DEF Workflow!LessonsIn
<1>6. lineage'.outperformed \in BOOLEAN
  BY <1>4
<1>7. lineage'.outperformed = TRUE => Plan.action = "promote"
  BY <1>4
<1>8. Backed(evidenceStore', Shut(closedSources'), bundle)
  BY <1>1 DEF EvidenceSound, BundlePart
<1> QED BY <1>1, <1>2, <1>5, <1>6, <1>7, <1>8 DEF EvidenceSound, BundlePart

LEMMA EvidenceStays ==
  ASSUME EvidenceSound, [Workflow!Next]_evidenceVars PROVE EvidenceSound'
<1>1. RowsPart' /\ ServerPart' /\ ClosedPart' /\ Forward
  BY StepForward
<1>2. CASE UNCHANGED <<reviewClient, references, bundle, numericDecision, lineage>>
  BY <1>1, <1>2, ClientKept, ReferencesKept, BundleKept DEF EvidenceSound
<1>3. CASE Workflow!Crash
  <2>1. UNCHANGED <<references, bundle, numericDecision, lineage>>
    BY <1>3 DEF Workflow!Crash
  <2> QED BY <1>1, <1>3, <2>1, CrashClient, ReferencesKept, BundleKept DEF EvidenceSound
<1>4. CASE Workflow!Reproduce \/ Workflow!Review \/ Workflow!Observe
  <2>1. UNCHANGED <<references, bundle, numericDecision, lineage>>
    BY <1>4 DEF Workflow!Reproduce, Workflow!Review, Workflow!Observe
  <2> QED BY <1>1, <1>4, <2>1, ReproduceClient, ReviewClient, ObserveClient, ReferencesKept,
     BundleKept
          DEF EvidenceSound
<1>5. CASE Workflow!RecordReference
  <2>1. UNCHANGED <<bundle, numericDecision, lineage>>
    BY <1>5 DEF Workflow!RecordReference
  <2> QED BY <1>1, <1>5, <2>1, ReferenceRecorded, BundleKept DEF EvidenceSound
<1>6. CASE Workflow!RecordBundle
  <2>1. UNCHANGED references
    BY <1>6 DEF Workflow!RecordBundle
  <2>2. bundle' = None => UNCHANGED <<bundle, lineage>>
    BY <1>6 DEF Workflow!RecordBundle, EvidenceSound, ClientPart, Compared
  <2> QED BY <1>1, <1>6, <2>1, <2>2, BundleRecorded, ReferencesKept DEF EvidenceSound
<1>7. CASE Workflow!RecordDecision
  <2>1. UNCHANGED <<reviewClient, references, bundle>> /\ bundle # None
    BY <1>7 DEF Workflow!RecordDecision
  <2> QED BY <1>1, <1>7, <2>1, DecisionRecorded, ReferencesKept, ClientKept DEF EvidenceSound
<1>8. CASE Workflow!TrainCandidate \/ Workflow!EvaluateCandidate
  <2>1. UNCHANGED <<reviewClient, references, bundle>> /\ bundle # None
    BY <1>8 DEF Workflow!TrainCandidate, Workflow!EvaluateCandidate
  <2> QED BY <1>1, <1>8, <2>1, CandidateTrained, CandidateEvaluated, ReferencesKept,
     ClientKept DEF EvidenceSound
<1>9. \/ Workflow!Crash \/ Workflow!Reproduce \/ Workflow!Review \/ Workflow!Observe
      \/ Workflow!RecordReference \/ Workflow!RecordBundle \/ Workflow!RecordDecision
      \/ Workflow!TrainCandidate \/ Workflow!EvaluateCandidate
      \/ UNCHANGED <<reviewClient, references, bundle, numericDecision, lineage>>
  BY DEF Workflow!Next, evidenceVars, Workflow!Start, Workflow!Admit, Workflow!CloseSource,
     Workflow!HandOver, Workflow!ApproveLesson
<1> QED BY <1>2, <1>3, <1>4, <1>5, <1>6, <1>7, <1>8, <1>9

LEMMA EvidenceAlways == RecordsSpec => [](subject = "evidence" => EvidenceSound)
<1> DEFINE Inv == subject = "evidence" => EvidenceSound
<1>1. RecordsInit => Inv
  BY EvidenceStarts DEF RecordsInit, WorkflowInit
<1>2. Inv /\ [RecordsNext]_recordsVars => Inv'
  <2> SUFFICES ASSUME Inv, [RecordsNext]_recordsVars, subject' = "evidence" PROVE EvidenceSound'
    OBVIOUS
  <2>1. subject = "evidence" /\ [Workflow!Next]_evidenceVars
    BY WorkflowFrame
  <2> QED BY <2>1, EvidenceStays
<1> QED BY <1>1, <1>2, PTL DEF RecordsSpec

LEMMA DecisionNamed == None # "refused"
BY EvidenceAssumption

LEMMA BackedGives == ASSUME EvidenceSound PROVE Workflow!EvidenceStaysBacked
<1> SUFFICES ASSUME bundle # None
             PROVE  LET a == bundle.evaluation
                    IN  /\ numericDecision # "refused"
                        /\ evidenceStore.checkpoints[Plan.candidate].artifact = a
                        /\ Plan.action = Workflow!GateAction(a)
                        /\ \A r \in Workflow!RunsOf(a) :
                             /\ evidenceStore.results[r] = a
                             /\ evidenceStore.episodes[r].state =
                                  IF Workflow!Passed(a, r) THEN "succeeded" ELSE "failed"
  BY DEF Workflow!EvidenceStaysBacked
<1>1. Backed(evidenceStore, Shut(closedSources), bundle) /\ bundle.evaluation # None
  BY EvidenceNumbers DEF EvidenceSound, BundlePart, Backed
<1>2. \A r \in Workflow!RunsOf(bundle.evaluation) :
        evidenceStore.episodes[r].state = Outcome(bundle.evaluation, r)
  <2> TAKE r \in Workflow!RunsOf(bundle.evaluation)
  <2>1. r \in Workflow!Runs /\ evidenceStore.results[r] = bundle.evaluation
    BY <1>1 DEF Backed, Workflow!RunsOf
  <2> QED BY <1>1, <2>1 DEF EvidenceSound, RowsPart, RowsSound, ResultsSound
<1>3. numericDecision # "refused"
  BY DecisionNamed DEF EvidenceSound, BundlePart
<1> QED BY <1>1, <1>2, <1>3 DEF Backed, Outcome

LEMMA LineageGives == ASSUME EvidenceSound PROVE Workflow!LineageTruthful
<1>1. lineage.trained # {} =>
        bundle # None
          /\ lineage.trained \subseteq Workflow!LessonsIn(bundle) \cap approvedLessons
  BY DEF EvidenceSound, BundlePart
<1>2. ASSUME lineage.outperformed = TRUE
      PROVE  Comparison[evidenceStore.checkpoints[Plan.candidate].artifact].promotable
  <2>1. bundle # None /\ Plan.action = "promote"
          /\ Backed(evidenceStore, Shut(closedSources), bundle)
    BY <1>2 DEF EvidenceSound, BundlePart
  <2>2. Workflow!GateAction(evidenceStore.checkpoints[Plan.candidate].artifact) = "promote"
    BY <2>1 DEF Backed
  <2> QED BY <2>2 DEF Workflow!GateAction
<1>3. lineage.outperformed \in BOOLEAN
  BY DEF EvidenceSound, BundlePart
<1>4. lineage.outperformed => lineage.outperformed = TRUE
  BY <1>3
<1> QED BY <1>1, <1>2, <1>4 DEF Workflow!LineageTruthful

LEMMA TypedGives == ASSUME EvidenceSound PROVE Workflow!TypeOK
<1>1. evidenceStore \in Workflow!Rows
  <2>1. \A r \in Workflow!Runs : evidenceStore.episodes[r] \in [state : Workflow!States, at : Workflow!Times \cup {None}]
    BY DEF EvidenceSound, RowsPart, RowsSound, EpisodesSound
  <2> QED BY DEF EvidenceSound, RowsPart, RowsSound, ArtifactsSound, CheckpointsSound,
     EpisodesSound, ResultsSound,
         Workflow!Rows
<1>2. Workflow!ClosedSet \subseteq DOMAIN Sources /\ handedOver \subseteq Workflow!ClosedSet
  BY ShutIs DEF EvidenceSound, ClosedPart, Shut
<1>3. evidenceServer \in [state : {"down", "serving"}]
                  \cup [state : {"refused"}, because : {"settings", "artifact", "rows"}]
                  \cup [state : {"admitting"}, config : Configs, next : Nat]
  BY DEF EvidenceSound, ServerPart
<1> QED BY <1>1, <1>2, <1>3 DEF EvidenceSound, RowsPart, ServerPart, ClosedPart,
   ReferencesPart, ClientPart,
           BundlePart, Workflow!TypeOK

\* Whatever startups admit or are cut off later, the evidence a review admitted stays
\* backed by the stored rows and graph memory's account of the policy agrees with it
\* (backend/evidence_admission.py:79).
THEOREM AdmittedEvidenceAlwaysStands == RecordsSpec => []AdmittedEvidenceStands
<1>1. (subject = "evidence" => EvidenceSound) => AdmittedEvidenceStands
  BY BackedGives, LineageGives, TypedGives DEF AdmittedEvidenceStands,
     Workflow!AdmittedEvidenceStands
<1> QED BY <1>1, EvidenceAlways, PTL

\* An admission cut off between any two transactions never blocks itself: only
\* another configuration of the same candidate is refused
\* (backend/evaluation_import.py:79).
THEOREM CutOffAdmissionAlwaysResumes == RecordsSpec => []CutOffAdmissionResumes
<1>1. ASSUME EvidenceSound PROVE Workflow!CutOffAdmissionResumes
  <2>1. \A a \in Workflow!Artifacts : evidenceStore.artifacts[a] # None => Workflow!Verified(a)
    BY <1>1 DEF EvidenceSound, RowsPart, RowsSound, ArtifactsSound
  <2>2. evidenceServer = [state |-> "refused", because |-> "rows"] => Rival(tried)
    BY <1>1 DEF EvidenceSound, ServerPart
  <2> QED BY <2>1, <2>2 DEF Workflow!CutOffAdmissionResumes, Rival, Of
<1>2. (subject = "evidence" => EvidenceSound) => CutOffAdmissionResumes
  BY <1>1 DEF CutOffAdmissionResumes
<1> QED BY <1>2, EvidenceAlways, PTL

\* A review sent again, after a crash or a lost answer, is refused its reference only
\* because the client has given the id to another kind of evidence, or because a
\* source episode was closed or a correction of a recurring failure approved since
\* the review that recorded it (coordinator/store.py:1367).
THEOREM AlwaysRefusedByNews == RecordsSpec => []RefusedOnlyByNews
<1>1. ASSUME EvidenceSound PROVE Workflow!RefusedOnlyByNews
  <2>1. reviewClient.stage = "refused" => News(reviewClient.next, reviewClient.bundle.ids)
    BY <1>1 DEF EvidenceSound, ClientPart
  <2> QED BY <2>1 DEF News, Workflow!RefusedOnlyByNews
<1>2. (subject = "evidence" => EvidenceSound) => RefusedOnlyByNews
  BY <1>1 DEF RefusedOnlyByNews
<1> QED BY <1>2, EvidenceAlways, PTL

-----------------------------------------------------------------------------
(* Assets.                                                                 *)

LEMMA AssetsFrame ==
  [RecordsNext]_recordsVars =>
     \/ subject = "assets" /\ subject' = "assets" /\ Assets!Next
     \/ UNCHANGED <<subject, assetsVars>>
BY DEF RecordsNext, recordsVars, GraphStep, ViewsStep, AssetsStep, StreamsStep, WorkflowStep

Callers == Workers \cup Humans \cup {Assets!Startup}
CallFields == {"at", "request", "proposal", "route", "bundle", "writes", "open"}
Verdicts == {"approve", "reject"}
HumanDecisions == [by : Humans, verdict : Verdicts, at : Nat]
DecisionKinds == {"decision", "decision checksum"}

\* What is written, and where: decisions are written into their ledger.
Contents ==
  Assets!Bundles \cup AssetArtifacts \cup {Fallback, "submitted"} \cup HumanDecisions
Entries ==
  {e \in Assets!Paths \X Contents : e[1][1] \in DecisionKinds => e[2] \in HumanDecisions}

\* A request has the bundle its alias names, if not the fallback.
Aliased(f, r, b) == b = Assets!FallbackBundle \/ f[<<"alias", r>>] = b
AliasEntry(r, b) == <<<<"alias", r>>, b>>

\* The verdict in the ledger, as DecisionOf reads it.
OnRecord(f, q, verdict) ==
  /\ f[<<"decision", q>>] \in HumanDecisions
  /\ f[<<"decision checksum", q>>] = f[<<"decision", q>>]
  /\ f[<<"decision", q>>].verdict = verdict

\* Whole files stay as they are.
WholeStay(f, g) ==
  \A p \in Assets!Paths : f[p] \notin {None, Torn} => g[p] = f[p]

FilesSound(f) ==
  /\ f = [p \in Assets!Paths |-> f[p]]
  /\ \A q \in Assets!Requirements, kind \in DecisionKinds :
       f[<<kind, q>>] \in {None, Torn} \cup HumanDecisions

\* What a caller is about to write, and has open.
WritesSound(f, c) ==
  /\ c.writes \in Seq(Entries)
  /\ c.open \in BOOLEAN
  /\ c.open => c.writes # <<>> /\ f[c.writes[1][1]] = Torn
  /\ c.at \notin {"storing", "gate", "deciding"} => c.writes = <<>>

\* A bundle about to be answered with is bound to the request, or will be first.
Claimed(f, c) ==
  /\ c.at \in {"ask", "found", "failed", "meshed", "gate"} =>
       c.request \in Requests /\ c.proposal \in Proposals
  /\ c.at \in {"found", "gate"}
       => c.bundle \in Assets!Bundles /\ Aliased(f, c.request, c.bundle)
Storing(f, c) ==
  c.at = "storing" =>
    /\ c.request \in Requests /\ c.proposal \in Proposals /\ c.bundle \in Assets!Bundles
    /\ \/ Aliased(f, c.request, c.bundle)
       \/ \E i \in 1..Len(c.writes) : c.writes[i] = AliasEntry(c.request, c.bundle)
CallerSound(f, w, c) ==
  /\ DOMAIN c = CallFields
  /\ WritesSound(f, c)
  /\ Claimed(f, c)
  /\ w # Assets!Startup => Storing(f, c)

\* Nobody else has the file open that one has.
OpenApart(all) ==
  \A v, w \in Callers : v # w /\ all[v].open /\ all[w].open =>
    all[v].writes[1][1] # all[w].writes[1][1]

AnswerSound(f, x) ==
  /\ x.request \in Requests /\ x.proposal \in Proposals /\ x.bundle \in Assets!Bundles
  /\ Aliased(f, x.request, x.bundle)
  /\ x.state = "ready" /\ Assets!NeedsApproval(x.proposal) =>
       OnRecord(f, <<x.bundle, x.proposal>>, "approve")
  /\ x.state = "rejected" =>
       /\ Assets!NeedsApproval(x.proposal)
       /\ OnRecord(f, <<x.bundle, x.proposal>>, "reject")

AssetsSound ==
  /\ FilesSound(assetFiles)
  /\ work = [w \in Callers |-> work[w]]
  /\ \A w \in Callers : CallerSound(assetFiles, w, work[w])
  /\ OpenApart(work)
  /\ \A x \in answers : AnswerSound(assetFiles, x)

LEMMA PathsAre ==
  /\ \A r \in Requests : <<"alias", r>> \in Assets!Paths
       /\ <<"alias checksum", r>> \in Assets!Paths
  /\ \A b \in Assets!Bundles : /\ <<"manifest", b>> \in Assets!Paths
                               /\ <<"manifest checksum", b>> \in Assets!Paths
  /\ \A a \in AssetArtifacts \cup {Fallback} : <<"artifact", a>> \in Assets!Paths
  /\ \A q \in Assets!Requirements : /\ <<"requirement", q>> \in Assets!Paths
                                    /\ <<"decision", q>> \in Assets!Paths
                                    /\ <<"decision checksum", q>> \in Assets!Paths
<1>1. \A r \in Requests : <<"alias", r>> \in Assets!Paths
        /\ <<"alias checksum", r>> \in Assets!Paths
  BY DEF Assets!Paths
<1>2. \A b \in Assets!Bundles : /\ <<"manifest", b>> \in Assets!Paths
                               /\ <<"manifest checksum", b>> \in Assets!Paths
  BY DEF Assets!Paths
<1>3. \A a \in AssetArtifacts \cup {Fallback} : <<"artifact", a>> \in Assets!Paths
  BY DEF Assets!Paths
<1>4. \A q \in Assets!Requirements : /\ <<"requirement", q>> \in Assets!Paths
                                    /\ <<"decision", q>> \in Assets!Paths
                                    /\ <<"decision checksum", q>> \in Assets!Paths
  BY DEF Assets!Paths
<1> QED BY <1>1, <1>2, <1>3, <1>4

LEMMA BundlesAre ==
  /\ Assets!FallbackBundle \in Assets!Bundles
  /\ \A r \in Requests, a \in AssetArtifacts : <<r, a>> \in Assets!Bundles
  /\ \A b \in Assets!Bundles : b = <<b[1], b[2]>> /\ b[2] \in AssetArtifacts \cup {Fallback}
BY DEF Assets!Bundles, Assets!FallbackBundle

LEMMA RequirementsAre ==
  \A b \in Assets!Bundles, p \in Proposals :
    Assets!NeedsApproval(p) => <<b, p>> \in Assets!Requirements
BY DEF Assets!Requirements

LEMMA Different ==
  /\ Torn # None
  /\ \A b \in Assets!Bundles : b \notin {None, Torn}
  /\ \A d \in HumanDecisions : d \notin {None, Torn}
BY AssetAssumption DEF HumanDecisions, Verdicts

LEMMA OnRecordIs ==
  ASSUME FilesSound(assetFiles), NEW q \in Assets!Requirements, NEW verdict \in Verdicts
  PROVE  OnRecord(assetFiles, q, verdict) <=> Assets!DecisionOf(q) = verdict
<1>1. /\ assetFiles[<<"decision", q>>] \in {None, Torn} \cup HumanDecisions
      /\ \A d \in HumanDecisions : d.verdict \in Verdicts
  BY DEF FilesSound, DecisionKinds, HumanDecisions
<1>2. verdict # "undecided" /\ verdict # "invalid"
  BY DEF Verdicts
<1>3. CASE assetFiles[<<"decision", q>>] \in {None, Torn}
  BY <1>2, <1>3, Different DEF OnRecord, Assets!DecisionOf
<1>4. CASE assetFiles[<<"decision", q>>] \in HumanDecisions
  BY <1>2, <1>4, Different DEF OnRecord, Assets!DecisionOf
<1> QED BY <1>1, <1>3, <1>4

\* What is whole goes on being said.
LEMMA AliasedStays ==
  ASSUME NEW f, NEW g, WholeStay(f, g), NEW r \in Requests, NEW b \in Assets!Bundles,
         Aliased(f, r, b)
  PROVE  Aliased(g, r, b)
BY PathsAre, Different DEF WholeStay, Aliased

LEMMA OnRecordStays ==
  ASSUME NEW f, NEW g, WholeStay(f, g), NEW q \in Assets!Requirements, NEW verdict,
         OnRecord(f, q, verdict)
  PROVE  OnRecord(g, q, verdict)
<1>1. /\ f[<<"decision", q>>] \notin {None, Torn}
      /\ f[<<"decision checksum", q>>] \notin {None, Torn}
  BY Different DEF OnRecord
<1>2. /\ g[<<"decision", q>>] = f[<<"decision", q>>]
      /\ g[<<"decision checksum", q>>] = f[<<"decision checksum", q>>]
  BY <1>1, PathsAre DEF WholeStay
<1> QED BY <1>2 DEF OnRecord

LEMMA AnswerStays ==
  ASSUME NEW f, NEW g, WholeStay(f, g), NEW x, AnswerSound(f, x)
  PROVE  AnswerSound(g, x)
<1>1. /\ x.request \in Requests /\ x.proposal \in Proposals /\ x.bundle \in Assets!Bundles
      /\ Aliased(f, x.request, x.bundle)
  BY DEF AnswerSound
<1>2. Aliased(g, x.request, x.bundle)
  BY <1>1, AliasedStays
<1>3. ASSUME Assets!NeedsApproval(x.proposal), NEW verdict,
             OnRecord(f, <<x.bundle, x.proposal>>, verdict)
      PROVE  OnRecord(g, <<x.bundle, x.proposal>>, verdict)
  BY <1>1, <1>3, RequirementsAre, OnRecordStays
<1> QED BY <1>1, <1>2, <1>3 DEF AnswerSound

\* A caller who does nothing keeps what it has established.
LEMMA CallerStays ==
  ASSUME NEW f, NEW g, WholeStay(f, g), NEW w, NEW c, CallerSound(f, w, c),
         c.open => g[c.writes[1][1]] = Torn
  PROVE  CallerSound(g, w, c)
<1>1. WritesSound(g, c)
  BY DEF CallerSound, WritesSound
<1>2. Claimed(g, c)
  BY AliasedStays DEF CallerSound, Claimed
<1>3. Storing(f, c) => Storing(g, c)
  BY AliasedStays DEF Storing
<1> QED BY <1>1, <1>2, <1>3 DEF CallerSound

LEMMA AssetsUnchanged ==
  ASSUME AssetsSound, UNCHANGED assetsVars PROVE AssetsSound'
BY DEF AssetsSound, assetsVars, FilesSound, OpenApart, CallerSound, WritesSound, Claimed,
   Storing,
   AnswerSound, OnRecord, Aliased

LEMMA AssetsBegin == Assets!Init => AssetsSound
<1> SUFFICES ASSUME Assets!Init PROVE AssetsSound
  OBVIOUS
<1>1. FilesSound(assetFiles)
  <2>1. assetFiles = [p \in Assets!Paths |-> None]
    BY DEF Assets!Init
  <2>2. \A q \in Assets!Requirements, kind \in DecisionKinds : <<kind, q>> \in Assets!Paths
    BY PathsAre DEF DecisionKinds
  <2> QED BY <2>1, <2>2 DEF FilesSound
<1>2. work = [w \in Callers |-> Assets!Idle]
  BY DEF Assets!Init, Callers
<1>3. \A w \in Callers : CallerSound(assetFiles, w, Assets!Idle)
  BY DEF Assets!Idle, CallerSound, CallFields, WritesSound, Claimed, Storing
<1>4. OpenApart(work)
  BY <1>2 DEF OpenApart, Assets!Idle
<1>5. answers = {}
  BY DEF Assets!Init
<1> QED BY <1>1, <1>2, <1>3, <1>4, <1>5 DEF AssetsSound

\* A step that only moves a caller on.
LEMMA MovedOn ==
  ASSUME AssetsSound, UNCHANGED assetFiles, NEW w \in Callers, NEW c,
         work' = [work EXCEPT ![w] = c], c.open = FALSE, CallerSound(assetFiles, w, c),
         \A x \in answers' : AnswerSound(assetFiles, x)
  PROVE  AssetsSound'
<1>1. work' = [v \in Callers |-> work'[v]]
      /\ work'[w] = c /\ \A v \in Callers : v # w => work'[v] = work[v]
  BY DEF AssetsSound
<1>2. FilesSound(assetFiles')
  BY DEF AssetsSound
<1>3. \A v \in Callers : CallerSound(assetFiles', v, work'[v])
  BY <1>1 DEF AssetsSound
<1>4. OpenApart(work')
  BY <1>1 DEF OpenApart, AssetsSound
<1>5. \A x \in answers' : AnswerSound(assetFiles', x)
  OBVIOUS
<1> HIDE DEF CallerSound, AnswerSound, OpenApart, FilesSound
<1> QED BY <1>1, <1>2, <1>3, <1>4, <1>5 DEF AssetsSound

LEMMA IdleSound == \A f, w : CallerSound(f, w, Assets!Idle) /\ Assets!Idle.open = FALSE
BY DEF Assets!Idle, CallerSound, CallFields, WritesSound, Claimed, Storing

\* What a caller is.
LEMMA CallerIs ==
  ASSUME AssetsSound, NEW w \in Callers
  PROVE  /\ DOMAIN work[w] = CallFields
         /\ work[w].writes \in Seq(Entries) /\ work[w].open \in BOOLEAN
         /\ work[w].writes = <<>> => work[w].open = FALSE
         /\ work[w].at \notin {"storing", "gate", "deciding"} =>
              work[w].writes = <<>> /\ work[w].open = FALSE
         /\ Claimed(assetFiles, work[w])
         /\ w # Assets!Startup => Storing(assetFiles, work[w])
         /\ WritesSound(assetFiles, work[w])
BY DEF AssetsSound, CallerSound, WritesSound

LEMMA GatedSound ==
  ASSUME AssetsSound, UNCHANGED <<assetFiles, answers>>, NEW w \in Callers,
         NEW b \in Assets!Bundles, NEW route, Assets!Gated(w, b, route),
         work[w].request \in Requests, work[w].proposal \in Proposals,
         Aliased(assetFiles, work[w].request, b), work[w].open = FALSE
  PROVE  AssetsSound'
<1> DEFINE q == <<b, work[w].proposal>>
           toWrite == IF Assets!NeedsApproval(work[w].proposal)
                      THEN << <<<<"requirement", q>>, "submitted">> >> ELSE <<>>
           c == [work[w] EXCEPT !.at = "gate", !.route = route, !.bundle = b, !.writes = toWrite]
<1>1. work' = [work EXCEPT ![w] = c]
  BY DEF Assets!Gated, Assets!Becomes
<1>2. DOMAIN work[w] = CallFields
  BY CallerIs
<1>3. /\ DOMAIN c = CallFields /\ c.at = "gate" /\ c.bundle = b /\ c.writes = toWrite
      /\ c.request = work[w].request /\ c.proposal = work[w].proposal /\ c.open = FALSE
  BY <1>2 DEF CallFields
<1>4. toWrite \in Seq(Entries)
  <2>1. CASE Assets!NeedsApproval(work[w].proposal)
    <3>1. <<"requirement", q>> \in Assets!Paths
      BY <2>1, RequirementsAre, PathsAre
    <3>2. <<<<"requirement", q>>, "submitted">> \in Entries
      BY <3>1 DEF Entries, Contents, DecisionKinds
    <3> QED BY <2>1, <3>2
  <2>2. CASE ~Assets!NeedsApproval(work[w].proposal)
    BY <2>2
  <2> QED BY <2>1, <2>2
<1>5. CallerSound(assetFiles, w, c)
  <2> HIDE DEF c, toWrite
  <2>1. WritesSound(assetFiles, c)
    BY <1>3, <1>4 DEF WritesSound
  <2>2. Claimed(assetFiles, c) /\ Storing(assetFiles, c)
    BY <1>3 DEF Claimed, Storing
  <2> QED BY <1>3, <2>1, <2>2 DEF CallerSound
<1>6. \A x \in answers' : AnswerSound(assetFiles, x)
  BY DEF AssetsSound
<1> HIDE DEF c
<1> QED BY <1>1, <1>3, <1>5, <1>6, MovedOn

LEMMA CallersAre ==
  Workers \subseteq Callers /\ Humans \subseteq Callers /\ Assets!Startup \in Callers
BY DEF Callers

LEMMA FromCacheSound ==
  ASSUME AssetsSound, NEW w \in Workers, Assets!FromCache(w) PROVE AssetsSound'
<1>1. w \in Callers /\ work[w].at = "found" /\ UNCHANGED <<assetFiles, answers>>
      /\ Assets!Gated(w, work[w].bundle, "cache")
  BY CallersAre DEF Assets!FromCache
<1>2. work[w].open = FALSE /\ Claimed(assetFiles, work[w])
  BY <1>1, CallerIs
<1>3. /\ work[w].request \in Requests /\ work[w].proposal \in Proposals
      /\ work[w].bundle \in Assets!Bundles
      /\ Aliased(assetFiles, work[w].request, work[w].bundle)
  BY <1>1, <1>2 DEF Claimed
<1> QED BY <1>1, <1>2, <1>3, GatedSound

LEMMA FallBackSound ==
  ASSUME AssetsSound, NEW w \in Workers, Assets!FallBack(w) PROVE AssetsSound'
<1>1. w \in Callers /\ work[w].at \in {"ask", "failed"} /\ UNCHANGED <<assetFiles, answers>>
      /\ Assets!Gated(w, Assets!FallbackBundle, "fallback")
  BY CallersAre DEF Assets!FallBack
<1>2. work[w].open = FALSE /\ Claimed(assetFiles, work[w])
  BY <1>1, CallerIs
<1>3. work[w].request \in Requests /\ work[w].proposal \in Proposals
  BY <1>1, <1>2 DEF Claimed
<1>4. Assets!FallbackBundle \in Assets!Bundles
      /\ Aliased(assetFiles, work[w].request, Assets!FallbackBundle)
  BY BundlesAre DEF Aliased
<1> QED BY <1>1, <1>2, <1>3, <1>4, GatedSound

LEMMA StoredSound ==
  ASSUME AssetsSound, NEW w \in Workers, Assets!Stored(w) PROVE AssetsSound'
<1>1. w \in Callers /\ w # Assets!Startup /\ work[w].at = "storing" /\ work[w].writes = <<>>
      /\ UNCHANGED <<assetFiles, answers>> /\ Assets!Gated(w, work[w].bundle, "live")
  BY CallersAre DEF Assets!Stored, Assets!Pending
<1>2. work[w].open = FALSE /\ Storing(assetFiles, work[w])
  BY <1>1, CallerIs
<1>3. /\ work[w].request \in Requests /\ work[w].proposal \in Proposals
      /\ work[w].bundle \in Assets!Bundles
      /\ Aliased(assetFiles, work[w].request, work[w].bundle)
  BY <1>1, <1>2 DEF Storing
<1> QED BY <1>1, <1>2, <1>3, GatedSound

\* A new call with nothing to write.
LEMMA CalledSound ==
  ASSUME AssetsSound, UNCHANGED <<assetFiles, answers>>, NEW w \in Callers, NEW c,
         work' = [work EXCEPT ![w] = c], DOMAIN c = CallFields, c.writes = <<>>,
         c.open = FALSE, c.at # "storing", Claimed(assetFiles, c)
  PROVE  AssetsSound'
<1>1. WritesSound(assetFiles, c)
  <2>1. c.writes \in Seq(Entries)
    OBVIOUS
  <2> QED BY <2>1 DEF WritesSound
<1>2. CallerSound(assetFiles, w, c)
  BY <1>1 DEF CallerSound, Storing
<1>3. \A x \in answers' : AnswerSound(assetFiles, x)
  BY DEF AssetsSound
<1> QED BY <1>2, <1>3, MovedOn

LEMMA GenerateSound ==
  ASSUME AssetsSound, NEW w \in Workers, NEW r \in Requests, NEW p \in Proposals,
         Assets!Generate(w, r, p)
  PROVE  AssetsSound'
<1> DEFINE asks == [Assets!Idle EXCEPT !.request = r, !.proposal = p]
           alias == assetFiles[<<"alias", r>>]
           new == [asks EXCEPT !.at = "ask"]
           found == [asks EXCEPT !.at = "found", !.bundle = alias]
<1>1. w \in Callers /\ UNCHANGED <<assetFiles, answers>>
  BY CallersAre DEF Assets!Generate
<1>2. \/ work' = [work EXCEPT ![w] = new]
      \/ alias \in Assets!Bundles /\ work' = [work EXCEPT ![w] = found]
  BY DEF Assets!Generate, Assets!Becomes
<1>3. /\ DOMAIN new = CallFields /\ new.writes = <<>> /\ new.open = FALSE /\ new.at = "ask"
      /\ new.request = r /\ new.proposal = p
      /\ DOMAIN found = CallFields /\ found.writes = <<>> /\ found.open = FALSE
      /\ found.at = "found" /\ found.request = r /\ found.proposal = p /\ found.bundle = alias
  BY DEF Assets!Idle, CallFields
<1> HIDE DEF new, found
<1>4. CASE work' = [work EXCEPT ![w] = new]
  <2>1. Claimed(assetFiles, new)
    BY <1>3 DEF Claimed
  <2> QED BY <1>1, <1>3, <1>4, <2>1, CalledSound
<1>5. CASE alias \in Assets!Bundles /\ work' = [work EXCEPT ![w] = found]
  <2>1. Claimed(assetFiles, found)
    BY <1>3, <1>5 DEF Claimed, Aliased
  <2> QED BY <1>1, <1>3, <1>5, <2>1, CalledSound
<1> QED BY <1>2, <1>4, <1>5

LEMMA RefreshSound ==
  ASSUME AssetsSound, NEW w \in Workers, NEW x \in answers, Assets!Refresh(w, x)
  PROVE  AssetsSound'
<1> DEFINE c == [Assets!Idle EXCEPT !.at = "found", !.request = x.request,
                   !.proposal = x.proposal, !.bundle = x.bundle, !.route = x.route]
<1>1. w \in Callers /\ UNCHANGED <<assetFiles, answers>> /\ work' = [work EXCEPT ![w] = c]
  BY CallersAre DEF Assets!Refresh, Assets!Becomes
<1>2. /\ DOMAIN c = CallFields /\ c.writes = <<>> /\ c.open = FALSE /\ c.at = "found"
      /\ c.request = x.request /\ c.proposal = x.proposal /\ c.bundle = x.bundle
  BY DEF Assets!Idle, CallFields
<1>3. /\ x.request \in Requests /\ x.proposal \in Proposals /\ x.bundle \in Assets!Bundles
      /\ Aliased(assetFiles, x.request, x.bundle)
  BY DEF AssetsSound, AnswerSound
<1> HIDE DEF c
<1>4. Claimed(assetFiles, c)
  BY <1>2, <1>3 DEF Claimed
<1> QED BY <1>1, <1>2, <1>4, CalledSound

LEMMA ModelAskedSound ==
  ASSUME AssetsSound, NEW w \in Workers, NEW image, NEW mesh, Assets!Ask(w, image, mesh)
  PROVE  AssetsSound'
<1>1. w \in Callers /\ work[w].at = "ask" /\ UNCHANGED <<assetFiles, answers>>
  BY CallersAre DEF Assets!Ask
<1>2. PICK next \in {"meshed", "failed"} : work' = [work EXCEPT ![w] = [work[w] EXCEPT !.at = next]]
  BY DEF Assets!Ask, Assets!Becomes
<1> DEFINE c == [work[w] EXCEPT !.at = next]
<1>3. /\ DOMAIN work[w] = CallFields /\ work[w].writes = <<>> /\ work[w].open = FALSE
      /\ Claimed(assetFiles, work[w])
  BY <1>1, CallerIs
<1>4. /\ DOMAIN c = CallFields /\ c.writes = <<>> /\ c.open = FALSE /\ c.at = next
      /\ c.request = work[w].request /\ c.proposal = work[w].proposal
  BY <1>3 DEF CallFields
<1>5. Claimed(assetFiles, c)
  <2> HIDE DEF c
  <2> QED BY <1>1, <1>3, <1>4 DEF Claimed
<1>6. work' = [work EXCEPT ![w] = c]
  BY <1>2
<1> HIDE DEF c
<1> QED BY <1>1, <1>4, <1>5, <1>6, CalledSound

LEMMA Tuples ==
  ASSUME NEW S, NEW x \in S, NEW y \in S, NEW z \in S
  PROVE  /\ <<x, y>> \in Seq(S) /\ Len(<<x, y>>) = 2 /\ <<x, y>>[1] = x
         /\ <<x, y, z>> \in Seq(S) /\ Len(<<x, y, z>>) = 3
OBVIOUS

LEMMA JoinedIs ==
  ASSUME NEW S, NEW s \in Seq(S), NEW t \in Seq(S)
  PROVE  /\ s \o t \in Seq(S) /\ Len(s \o t) = Len(s) + Len(t)
         /\ \A i \in 1 .. Len(s) + Len(t) : ~(i <= Len(s)) => (s \o t)[i] = t[i - Len(s)]
OBVIOUS

LEMMA Joined ==
  ASSUME NEW S, NEW s \in Seq(S), NEW t \in Seq(S), Len(s) = 3, Len(t) = 2
  PROVE  s \o t \in Seq(S) /\ Len(s \o t) = 5 /\ (s \o t)[4] = t[1]
<1> DEFINE all == s \o t
<1>1. /\ all \in Seq(S) /\ Len(all) = Len(s) + Len(t)
      /\ \A i \in 1 .. Len(s) + Len(t) : ~(i <= Len(s)) => all[i] = t[i - Len(s)]
  BY JoinedIs, Zenon
<1> HIDE DEF all
<1>2. Len(all) = 5 /\ all[4] = t[1]
  BY <1>1
<1> QED BY <1>1, <1>2 DEF all

LEMMA BundleEntries ==
  ASSUME NEW b \in Assets!Bundles
  PROVE  Assets!BundleWrites(b) \in Seq(Entries) /\ Len(Assets!BundleWrites(b)) = 3
<1>1. /\ <<<<"artifact", b[2]>>, b[2]>> \in Entries
      /\ <<<<"manifest", b>>, b>> \in Entries
      /\ <<<<"manifest checksum", b>>, b>> \in Entries
  BY PathsAre, BundlesAre DEF Entries, Contents, DecisionKinds
<1> QED BY <1>1, Tuples, Zenon DEF Assets!BundleWrites

LEMMA AliasEntries ==
  ASSUME NEW r \in Requests, NEW a \in AssetArtifacts
  PROVE  /\ Assets!AliasWrites(<<r, a>>) \in Seq(Entries)
         /\ Len(Assets!AliasWrites(<<r, a>>)) = 2
         /\ Assets!AliasWrites(<<r, a>>)[1] = AliasEntry(r, <<r, a>>)
<1>1. /\ <<<<"alias", r>>, <<r, a>>>> \in Entries
      /\ <<<<"alias checksum", r>>, <<r, a>>>> \in Entries
  BY PathsAre, BundlesAre DEF Entries, Contents, DecisionKinds
<1>2. <<r, a>>[1] = r
  OBVIOUS
<1> QED BY <1>1, <1>2, Tuples, Zenon DEF Assets!AliasWrites, AliasEntry

LEMMA DecisionEntries ==
  ASSUME NEW q \in Assets!Requirements, NEW d \in HumanDecisions
  PROVE  Assets!DecisionWrites(q, d) \in Seq(Entries)
<1>1. /\ <<<<"decision checksum", q>>, d>> \in Entries
      /\ <<<<"decision", q>>, d>> \in Entries
  BY PathsAre DEF Entries, Contents, DecisionKinds
<1> QED BY <1>1, Tuples, Zenon DEF Assets!DecisionWrites

LEMMA StoreSound ==
  ASSUME AssetsSound, NEW w \in Workers, NEW a \in AssetArtifacts, Assets!Store(w, a)
  PROVE  AssetsSound'
<1> DEFINE b == <<work[w].request, a>>
           toWrite == Assets!BundleWrites(b) \o Assets!AliasWrites(b)
           c == [work[w] EXCEPT !.at = "storing", !.bundle = b, !.writes = toWrite]
<1>1. /\ w \in Callers /\ work[w].at = "meshed" /\ UNCHANGED <<assetFiles, answers>>
      /\ work' = [work EXCEPT ![w] = c]
  BY CallersAre DEF Assets!Store, Assets!Becomes
<1>2. DOMAIN work[w] = CallFields /\ work[w].open = FALSE /\ Claimed(assetFiles, work[w])
  BY <1>1, CallerIs
<1>3. work[w].request \in Requests /\ work[w].proposal \in Proposals /\ b \in Assets!Bundles
  BY <1>1, <1>2, BundlesAre DEF Claimed
<1>4. /\ DOMAIN c = CallFields /\ c.writes = toWrite /\ c.open = FALSE /\ c.at = "storing"
      /\ c.request = work[w].request /\ c.proposal = work[w].proposal /\ c.bundle = b
  BY <1>2 DEF CallFields
<1>5. /\ toWrite \in Seq(Entries) /\ Len(toWrite) = 5
      /\ toWrite[4] = AliasEntry(work[w].request, b)
  <2>1. /\ Assets!BundleWrites(b) \in Seq(Entries) /\ Len(Assets!BundleWrites(b)) = 3
        /\ Assets!AliasWrites(b) \in Seq(Entries) /\ Len(Assets!AliasWrites(b)) = 2
        /\ Assets!AliasWrites(b)[1] = AliasEntry(work[w].request, b)
    BY <1>3, BundleEntries, AliasEntries
  <2> HIDE DEF b
  <2> QED BY <2>1, Joined, Zenon
<1> HIDE DEF c, toWrite, b
<1>6. CallerSound(assetFiles, w, c)
  <2>1. WritesSound(assetFiles, c)
    BY <1>4, <1>5 DEF WritesSound
  <2>2. Claimed(assetFiles, c)
    BY <1>4 DEF Claimed
  <2>3. Storing(assetFiles, c)
    BY <1>3, <1>4, <1>5 DEF Storing
  <2> QED BY <1>4, <2>1, <2>2, <2>3 DEF CallerSound
<1>7. \A x \in answers' : AnswerSound(assetFiles, x)
  BY <1>1 DEF AssetsSound
<1> QED BY <1>1, <1>4, <1>6, <1>7, MovedOn

LEMMA BootSound == ASSUME AssetsSound, Assets!Boot PROVE AssetsSound'
<1> DEFINE w == Assets!Startup
           toWrite == Assets!BundleWrites(Assets!FallbackBundle)
           c == [Assets!Idle EXCEPT !.at = "storing", !.writes = toWrite]
<1>1. w \in Callers /\ UNCHANGED <<assetFiles, answers>> /\ work' = [work EXCEPT ![w] = c]
  BY CallersAre DEF Assets!Boot, Assets!Becomes
<1>2. /\ DOMAIN c = CallFields /\ c.writes = toWrite /\ c.open = FALSE /\ c.at = "storing"
  BY DEF Assets!Idle, CallFields
<1>3. toWrite \in Seq(Entries)
  BY BundleEntries, BundlesAre
<1> HIDE DEF c, toWrite
<1>4. CallerSound(assetFiles, w, c)
  <2>1. WritesSound(assetFiles, c)
    BY <1>2, <1>3 DEF WritesSound
  <2>2. Claimed(assetFiles, c)
    BY <1>2 DEF Claimed
  <2> QED BY <1>2, <2>1, <2>2 DEF CallerSound
<1>5. \A x \in answers' : AnswerSound(assetFiles, x)
  BY <1>1 DEF AssetsSound
<1> QED BY <1>1, <1>2, <1>4, <1>5, MovedOn

LEMMA DecideSound ==
  ASSUME AssetsSound, NEW h \in Humans, NEW q \in Assets!Requirements, NEW verdict \in Verdicts,
         Assets!Decide(h, q, verdict), calls \in Nat
  PROVE  AssetsSound'
<1> DEFINE d == [by |-> h, verdict |-> verdict, at |-> calls]
           toWrite == Assets!DecisionWrites(q, d)
           c == [Assets!Idle EXCEPT !.at = "deciding", !.writes = toWrite]
<1>1. h \in Callers /\ UNCHANGED <<assetFiles, answers>> /\ work' = [work EXCEPT ![h] = c]
  BY CallersAre DEF Assets!Decide, Assets!Becomes
<1>2. /\ DOMAIN c = CallFields /\ c.writes = toWrite /\ c.open = FALSE /\ c.at = "deciding"
  BY DEF Assets!Idle, CallFields
<1>3. toWrite \in Seq(Entries)
  <2>1. d \in HumanDecisions
    BY DEF HumanDecisions
  <2> HIDE DEF d
  <2> QED BY <2>1, DecisionEntries
<1> HIDE DEF c, toWrite
<1>4. CallerSound(assetFiles, h, c)
  <2>1. WritesSound(assetFiles, c)
    BY <1>2, <1>3 DEF WritesSound
  <2>2. Claimed(assetFiles, c) /\ Storing(assetFiles, c)
    BY <1>2 DEF Claimed, Storing
  <2> QED BY <1>2, <2>1, <2>2 DEF CallerSound
<1>5. \A x \in answers' : AnswerSound(assetFiles, x)
  BY <1>1 DEF AssetsSound
<1> QED BY <1>1, <1>2, <1>4, <1>5, MovedOn

\* A caller that is done, and the startup.
LEMMA EndedSound ==
  ASSUME AssetsSound, UNCHANGED <<assetFiles, answers>>, NEW w \in Callers,
         work' = [work EXCEPT ![w] = Assets!Idle]
  PROVE  AssetsSound'
<1>1. \A x \in answers' : AnswerSound(assetFiles, x)
  BY DEF AssetsSound
<1> QED BY <1>1, IdleSound, MovedOn

LEMMA SeededSound == ASSUME AssetsSound, Assets!Seeded PROVE AssetsSound'
BY CallersAre, EndedSound DEF Assets!Seeded, Assets!Becomes

LEMMA DecidedSound ==
  ASSUME AssetsSound, NEW h \in Humans, Assets!Decided(h) PROVE AssetsSound'
BY CallersAre, EndedSound DEF Assets!Decided, Assets!Becomes

LEMMA CutOffSound == ASSUME AssetsSound, Assets!Crash PROVE AssetsSound'
<1>1. work' = [w \in Callers |-> Assets!Idle] /\ UNCHANGED <<assetFiles, answers>>
  BY DEF Assets!Crash, AssetsSound
<1>2. \A w \in Callers : CallerSound(assetFiles', w, work'[w])
  BY <1>1, IdleSound
<1>3. OpenApart(work')
  BY <1>1, IdleSound DEF OpenApart
<1>4. FilesSound(assetFiles') /\ \A x \in answers' : AnswerSound(assetFiles', x)
  BY <1>1 DEF AssetsSound
<1>5. work' = [w \in Callers |-> work'[w]]
  BY <1>1
<1> QED BY <1>2, <1>3, <1>4, <1>5 DEF AssetsSound

LEMMA AnswerStepSound ==
  ASSUME AssetsSound, NEW w \in Workers, Assets!Answer(w) PROVE AssetsSound'
<1> DEFINE p == work[w].proposal
           b == work[w].bundle
           verdict == IF Assets!NeedsApproval(p) THEN Assets!DecisionOf(<<b, p>>) ELSE "approve"
           state == [approve |-> "ready", reject |-> "rejected", undecided |-> "blocked"]
           x == [request |-> work[w].request, proposal |-> p, route |-> work[w].route,
                 bundle |-> b, state |-> state[verdict]]
<1>1. /\ w \in Callers /\ work[w].at = "gate" /\ UNCHANGED assetFiles
      /\ work' = [work EXCEPT ![w] = Assets!Idle]
      /\ answers' = answers \/ (verdict # "invalid" /\ answers' = answers \cup {x})
  BY CallersAre DEF Assets!Answer, Assets!Becomes
<1>2. Claimed(assetFiles, work[w]) /\ FilesSound(assetFiles)
  BY <1>1, CallerIs DEF AssetsSound
<1>3. /\ work[w].request \in Requests /\ p \in Proposals /\ b \in Assets!Bundles
      /\ Aliased(assetFiles, work[w].request, b)
  BY <1>1, <1>2 DEF Claimed
<1>4. Assets!NeedsApproval(p) => <<b, p>> \in Assets!Requirements
  BY <1>3, RequirementsAre
<1>5. verdict # "invalid" => verdict \in {"approve", "reject", "undecided"}
  <2>1. ASSUME Assets!NeedsApproval(p), Assets!DecisionOf(<<b, p>>) # "invalid"
        PROVE  Assets!DecisionOf(<<b, p>>) \in {"approve", "reject", "undecided"}
    <3>1. assetFiles[<<"decision", <<b, p>>>>] \in {None, Torn} \cup HumanDecisions
      BY <1>2, <1>4, <2>1 DEF FilesSound, DecisionKinds
    <3>2. \A d \in HumanDecisions : d.verdict \in {"approve", "reject"}
      BY DEF HumanDecisions, Verdicts
    <3> QED BY <2>1, <3>1, <3>2 DEF Assets!DecisionOf
  <2> QED BY <2>1
<1>6. ASSUME verdict # "invalid" PROVE AnswerSound(assetFiles, x)
  <2>1. /\ x.request = work[w].request /\ x.proposal = p /\ x.bundle = b
        /\ x.state = state[verdict]
    OBVIOUS
  <2>2. /\ x.state = "ready" => verdict = "approve"
        /\ x.state = "rejected" => verdict = "reject"
    BY <1>5, <1>6, <2>1
  <2>3. ASSUME Assets!NeedsApproval(p), verdict \in Verdicts
        PROVE  OnRecord(assetFiles, <<b, p>>, verdict)
    BY <1>2, <1>4, <2>3, OnRecordIs
  <2>4. verdict = "reject" => Assets!NeedsApproval(p)
    OBVIOUS
  <2> HIDE DEF x, verdict
  <2> QED BY <1>3, <2>1, <2>2, <2>3, <2>4 DEF AnswerSound, Verdicts
<1>7. \A y \in answers' : AnswerSound(assetFiles, y)
  <2> HIDE DEF x, verdict
  <2> QED BY <1>1, <1>6 DEF AssetsSound
<1> HIDE DEF x, verdict
<1> QED BY <1>1, <1>7, IdleSound, MovedOn

\* The entry a caller is about to write.
LEMMA EntryIs ==
  ASSUME AssetsSound, NEW w \in Callers, work[w].writes # <<>>
  PROVE  /\ work[w].writes[1] \in Entries
         /\ work[w].writes[1][1] \in Assets!Paths
         /\ work[w].writes[1][1] \in DOMAIN assetFiles
         /\ Tail(work[w].writes) \in Seq(Entries)
         /\ Len(Tail(work[w].writes)) = Len(work[w].writes) - 1
         /\ \A i \in 1..Len(Tail(work[w].writes)) :
              Tail(work[w].writes)[i] = work[w].writes[i + 1]
         /\ work[w].at \in {"storing", "gate", "deciding"}
<1>1. work[w].writes \in Seq(Entries) /\ work[w].at \in {"storing", "gate", "deciding"}
  BY CallerIs
<1>2. work[w].writes[1] \in Entries
  BY <1>1
<1>3. work[w].writes[1][1] \in Assets!Paths
  BY <1>2 DEF Entries
<1>4. DOMAIN assetFiles = Assets!Paths
  BY DEF AssetsSound, FilesSound
<1> QED BY <1>1, <1>2, <1>3, <1>4

LEMMA CreateSound ==
  ASSUME AssetsSound, NEW w \in Callers, Assets!Create(w) PROVE AssetsSound'
<1> DEFINE path == work[w].writes[1][1]
           c == [work[w] EXCEPT !.open = TRUE]
<1>1. /\ work[w].writes # <<>> /\ work[w].open = FALSE /\ assetFiles[path] = None
      /\ assetFiles' = [assetFiles EXCEPT ![path] = Torn]
      /\ work' = [work EXCEPT ![w] = c] /\ UNCHANGED answers
  BY CallerIs DEF Assets!Create, Assets!Becomes, Assets!Pending
<1>2. path \in Assets!Paths /\ DOMAIN assetFiles = Assets!Paths
  BY <1>1, EntryIs DEF AssetsSound, FilesSound
<1>3. /\ DOMAIN assetFiles' = Assets!Paths /\ assetFiles'[path] = Torn
      /\ \A q \in Assets!Paths : q # path => assetFiles'[q] = assetFiles[q]
      /\ assetFiles' = [q \in Assets!Paths |-> assetFiles'[q]]
  BY <1>1, <1>2
<1>4. work' = [v \in Callers |-> work'[v]]
      /\ work'[w] = c /\ \A v \in Callers : v # w => work'[v] = work[v]
  BY <1>1 DEF AssetsSound
<1> HIDE DEF path
<1>5. WholeStay(assetFiles, assetFiles')
  BY <1>1, <1>3 DEF WholeStay
<1>6. FilesSound(assetFiles')
  <2>1. \A q \in Assets!Requirements, kind \in DecisionKinds : <<kind, q>> \in Assets!Paths
    BY PathsAre DEF DecisionKinds
  <2> QED BY <1>3, <2>1 DEF FilesSound, AssetsSound
<1>7. ASSUME NEW v \in Callers, v # w, work[v].open
      PROVE  work[v].writes[1][1] # path /\ assetFiles[work[v].writes[1][1]] = Torn
  BY <1>1, <1>7, Different, CallerIs DEF WritesSound
<1>8. ASSUME NEW v \in Callers, v # w PROVE CallerSound(assetFiles', v, work'[v])
  <2>1. CallerSound(assetFiles, v, work[v])
    BY DEF AssetsSound
  <2>2. work[v].open => assetFiles'[work[v].writes[1][1]] = Torn
    <3> SUFFICES ASSUME work[v].open PROVE assetFiles'[work[v].writes[1][1]] = Torn
      OBVIOUS
    <3>1. work[v].writes # <<>>
      BY CallerIs DEF WritesSound
    <3>2. work[v].writes[1][1] \in Assets!Paths
      BY <3>1, EntryIs
    <3> QED BY <1>3, <1>7, <1>8, <3>2
  <2> QED BY <1>4, <1>5, <1>8, <2>1, <2>2, CallerStays
<1>9. CallerSound(assetFiles', w, c)
  <2>1. DOMAIN work[w] = CallFields /\ CallerSound(assetFiles, w, work[w])
    BY CallerIs DEF AssetsSound
  <2>2. /\ DOMAIN c = CallFields /\ c.open = TRUE /\ c.writes = work[w].writes
        /\ c.at = work[w].at /\ c.request = work[w].request /\ c.proposal = work[w].proposal
        /\ c.bundle = work[w].bundle
    BY <2>1 DEF CallFields
  <2>3. CallerSound(assetFiles', w, work[w])
    BY <1>1, <1>5, <2>1, CallerStays
  <2> HIDE DEF c
  <2>4. WritesSound(assetFiles', c)
    BY <1>1, <1>3, <2>2, <2>3 DEF CallerSound, WritesSound, path
  <2>5. Claimed(assetFiles', c) /\ (w # Assets!Startup => Storing(assetFiles', c))
    BY <2>2, <2>3 DEF CallerSound, Claimed, Storing
  <2> QED BY <2>2, <2>4, <2>5 DEF CallerSound
<1>10. OpenApart(work')
  <2>1. c.writes[1][1] = path
    BY CallerIs DEF CallFields, path
  <2> HIDE DEF c
  <2>2. SUFFICES ASSUME NEW u \in Callers, NEW v \in Callers, u # v, work'[u].open, work'[v].open
                 PROVE  work'[u].writes[1][1] # work'[v].writes[1][1]
    BY DEF OpenApart
  <2>3. CASE u = w
    BY <1>4, <1>7, <2>1, <2>2, <2>3
  <2>4. CASE v = w
    BY <1>4, <1>7, <2>1, <2>2, <2>4
  <2>5. CASE u # w /\ v # w
    BY <1>4, <2>2, <2>5 DEF OpenApart, AssetsSound
  <2> QED BY <2>3, <2>4, <2>5
<1>11. \A x \in answers' : AnswerSound(assetFiles', x)
  BY <1>1, <1>5, AnswerStays DEF AssetsSound
<1>12. \A v \in Callers : CallerSound(assetFiles', v, work'[v])
  BY <1>4, <1>8, <1>9
<1> QED BY <1>4, <1>6, <1>10, <1>11, <1>12 DEF AssetsSound

LEMMA EntriesAre ==
  \A e \in Entries : e = <<e[1], e[2]>> /\ (e[1][1] \in DecisionKinds
    => e[2] \in HumanDecisions)
<1>1. \A e \in Assets!Paths \X Contents : e = <<e[1], e[2]>>
  OBVIOUS
<1> QED BY <1>1 DEF Entries

LEMMA FillSound ==
  ASSUME AssetsSound, NEW w \in Callers, Assets!Fill(w) PROVE AssetsSound'
<1> DEFINE path == work[w].writes[1][1]
           content == work[w].writes[1][2]
           c == [work[w] EXCEPT !.open = FALSE, !.writes = Tail(@)]
<1>1. /\ work[w].writes # <<>> /\ work[w].open
      /\ assetFiles' = [assetFiles EXCEPT ![path] = content]
      /\ work' = [work EXCEPT ![w] = c] /\ UNCHANGED answers
  BY DEF Assets!Fill, Assets!Becomes, Assets!Pending
<1>2. path \in Assets!Paths /\ DOMAIN assetFiles = Assets!Paths /\ assetFiles[path] = Torn
  BY <1>1, EntryIs, CallerIs DEF AssetsSound, FilesSound, WritesSound
<1>3. /\ DOMAIN assetFiles' = Assets!Paths /\ assetFiles'[path] = content
      /\ \A q \in Assets!Paths : q # path => assetFiles'[q] = assetFiles[q]
      /\ assetFiles' = [q \in Assets!Paths |-> assetFiles'[q]]
  BY <1>1, <1>2
<1>4. work' = [v \in Callers |-> work'[v]]
      /\ work'[w] = c /\ \A v \in Callers : v # w => work'[v] = work[v]
  BY <1>1 DEF AssetsSound
<1>5. /\ path[1] \in DecisionKinds => content \in HumanDecisions
      /\ work[w].writes[1] = <<path, content>>
  BY <1>1, EntryIs, EntriesAre
<1>6. DOMAIN work[w] = CallFields
  BY CallerIs
<1>7. /\ DOMAIN c = CallFields /\ c.open = FALSE /\ c.writes = Tail(work[w].writes)
      /\ c.at = work[w].at /\ c.request = work[w].request /\ c.proposal = work[w].proposal
      /\ c.bundle = work[w].bundle
  BY <1>6 DEF CallFields
<1> HIDE DEF path, content, c
<1>8. WholeStay(assetFiles, assetFiles')
  BY <1>2, <1>3 DEF WholeStay
<1>9. FilesSound(assetFiles')
  <2> SUFFICES ASSUME NEW q \in Assets!Requirements, NEW kind \in DecisionKinds
               PROVE  assetFiles'[<<kind, q>>] \in {None, Torn} \cup HumanDecisions
    BY <1>3 DEF FilesSound
  <2>1. <<kind, q>> \in Assets!Paths
    BY PathsAre DEF DecisionKinds
  <2>2. assetFiles[<<kind, q>>] \in {None, Torn} \cup HumanDecisions
    BY DEF AssetsSound, FilesSound
  <2>3. path = <<kind, q>> => content \in HumanDecisions
    BY <1>5
  <2> QED BY <1>3, <2>1, <2>2, <2>3
<1>10. ASSUME NEW v \in Callers, v # w PROVE CallerSound(assetFiles', v, work'[v])
  <2>1. CallerSound(assetFiles, v, work[v])
    BY DEF AssetsSound
  <2>2. work[v].open => assetFiles'[work[v].writes[1][1]] = Torn
    <3> SUFFICES ASSUME work[v].open PROVE assetFiles'[work[v].writes[1][1]] = Torn
      OBVIOUS
    <3>1. work[v].writes # <<>> /\ assetFiles[work[v].writes[1][1]] = Torn
      BY CallerIs DEF WritesSound
    <3>2. work[v].writes[1][1] \in Assets!Paths
      BY <3>1, EntryIs
    <3>3. work[v].writes[1][1] # path
      BY <1>1, <1>10 DEF AssetsSound, OpenApart, path
    <3> QED BY <1>3, <3>1, <3>2, <3>3
  <2> QED BY <1>4, <1>8, <1>10, <2>1, <2>2, CallerStays
<1>11. CallerSound(assetFiles', w, c)
  <2>1. /\ Tail(work[w].writes) \in Seq(Entries)
        /\ Len(Tail(work[w].writes)) = Len(work[w].writes) - 1
        /\ Len(work[w].writes) \in Nat
        /\ \A i \in 1..Len(Tail(work[w].writes)) :
             Tail(work[w].writes)[i] = work[w].writes[i + 1]
        /\ work[w].at \in {"storing", "gate", "deciding"}
    BY <1>1, EntryIs, CallerIs
  <2>2. WritesSound(assetFiles', c)
    BY <1>7, <2>1 DEF WritesSound
  <2>3. Claimed(assetFiles, work[w]) /\ (w # Assets!Startup => Storing(assetFiles, work[w]))
    BY CallerIs
  <2>4. Claimed(assetFiles', c)
    BY <1>7, <1>8, <2>3, AliasedStays DEF Claimed
  <2>5. ASSUME Storing(assetFiles, work[w]) PROVE Storing(assetFiles', c)
    <3> SUFFICES ASSUME c.at = "storing"
                 PROVE  /\ c.request \in Requests /\ c.proposal \in Proposals
                        /\ c.bundle \in Assets!Bundles
                        /\ \/ Aliased(assetFiles', c.request, c.bundle)
                           \/ \E i \in 1..Len(c.writes) :
                                c.writes[i] = AliasEntry(c.request, c.bundle)
      BY DEF Storing
    <3>1. /\ c.request \in Requests /\ c.proposal \in Proposals /\ c.bundle \in Assets!Bundles
          /\ \/ Aliased(assetFiles, c.request, c.bundle)
             \/ \E i \in 1..Len(work[w].writes) :
                  work[w].writes[i] = AliasEntry(c.request, c.bundle)
      BY <1>7, <2>5 DEF Storing
    <3>2. CASE Aliased(assetFiles, c.request, c.bundle)
      BY <1>8, <3>1, <3>2, AliasedStays
    <3>3. ASSUME NEW i \in 1..Len(work[w].writes),
                 work[w].writes[i] = AliasEntry(c.request, c.bundle)
          PROVE  \/ Aliased(assetFiles', c.request, c.bundle)
                 \/ \E j \in 1..Len(c.writes) : c.writes[j] = AliasEntry(c.request, c.bundle)
      <4>1. CASE i = 1
        <5>1. path = <<"alias", c.request>> /\ content = c.bundle
          BY <1>5, <3>3, <4>1 DEF AliasEntry
        <5> QED BY <1>3, <5>1 DEF Aliased
      <4>2. CASE i # 1
        <5>1. /\ i - 1 \in 1..Len(c.writes) /\ i - 1 + 1 = i
          BY <1>7, <2>1, <4>2
        <5>2. c.writes[i - 1] = work[w].writes[i]
          BY <1>7, <2>1, <5>1
        <5> QED BY <3>3, <5>1, <5>2
      <4> QED BY <4>1, <4>2
    <3> QED BY <3>1, <3>2, <3>3
  <2> QED BY <1>7, <2>2, <2>3, <2>4, <2>5 DEF CallerSound
<1>12. OpenApart(work')
  BY <1>4, <1>7 DEF OpenApart, AssetsSound
<1>13. \A x \in answers' : AnswerSound(assetFiles', x)
  BY <1>1, <1>8, AnswerStays DEF AssetsSound
<1>14. \A v \in Callers : CallerSound(assetFiles', v, work'[v])
  BY <1>4, <1>10, <1>11
<1> QED BY <1>4, <1>9, <1>12, <1>13, <1>14 DEF AssetsSound

LEMMA FindWrittenSound ==
  ASSUME AssetsSound, NEW w \in Callers, Assets!FindWritten(w) PROVE AssetsSound'
<1> DEFINE path == work[w].writes[1][1]
           content == work[w].writes[1][2]
           c == [work[w] EXCEPT !.writes = Tail(@)]
<1>1. /\ work[w].writes # <<>> /\ work[w].open = FALSE
      /\ assetFiles' = [assetFiles EXCEPT ![path] = assetFiles[path]]
      /\ \/ assetFiles[path] = content /\ work' = [work EXCEPT ![w] = c]
         \/ work' = [work EXCEPT ![w] = Assets!Idle]
      /\ UNCHANGED answers
  BY CallerIs DEF Assets!FindWritten, Assets!Becomes, Assets!Raises, Assets!Pending, Assets!Kept
<1>2. assetFiles' = assetFiles
  <2>1. assetFiles = [q \in Assets!Paths |-> assetFiles[q]]
    BY DEF AssetsSound, FilesSound
  <2> QED BY <1>1, <2>1
<1>3. CASE work' = [work EXCEPT ![w] = Assets!Idle]
  BY <1>1, <1>2, <1>3, EndedSound
<1>4. CASE assetFiles[path] = content /\ work' = [work EXCEPT ![w] = c]
  <2>1. DOMAIN work[w] = CallFields
    BY CallerIs
  <2>2. /\ DOMAIN c = CallFields /\ c.open = FALSE /\ c.writes = Tail(work[w].writes)
        /\ c.at = work[w].at /\ c.request = work[w].request /\ c.proposal = work[w].proposal
        /\ c.bundle = work[w].bundle
    BY <1>1, <2>1 DEF CallFields
  <2>3. /\ Tail(work[w].writes) \in Seq(Entries)
        /\ Len(Tail(work[w].writes)) = Len(work[w].writes) - 1
        /\ Len(work[w].writes) \in Nat
        /\ \A i \in 1..Len(Tail(work[w].writes)) :
             Tail(work[w].writes)[i] = work[w].writes[i + 1]
        /\ work[w].at \in {"storing", "gate", "deciding"}
    BY <1>1, EntryIs, CallerIs
  <2>4. work[w].writes[1] = <<path, content>>
    BY <1>1, EntryIs, EntriesAre
  <2> HIDE DEF c, path, content
  <2>5. WritesSound(assetFiles, c)
    BY <2>2, <2>3 DEF WritesSound
  <2>6. Claimed(assetFiles, work[w]) /\ (w # Assets!Startup => Storing(assetFiles, work[w]))
    BY CallerIs
  <2>7. Claimed(assetFiles, c)
    BY <2>2, <2>6 DEF Claimed
  <2>8. ASSUME Storing(assetFiles, work[w]) PROVE Storing(assetFiles, c)
    <3> SUFFICES ASSUME c.at = "storing"
                 PROVE  /\ c.request \in Requests /\ c.proposal \in Proposals
                        /\ c.bundle \in Assets!Bundles
                        /\ \/ Aliased(assetFiles, c.request, c.bundle)
                           \/ \E i \in 1..Len(c.writes) :
                                c.writes[i] = AliasEntry(c.request, c.bundle)
      BY DEF Storing
    <3>1. /\ c.request \in Requests /\ c.proposal \in Proposals /\ c.bundle \in Assets!Bundles
          /\ \/ Aliased(assetFiles, c.request, c.bundle)
             \/ \E i \in 1..Len(work[w].writes) :
                  work[w].writes[i] = AliasEntry(c.request, c.bundle)
      BY <2>2, <2>8 DEF Storing
    <3>2. ASSUME NEW i \in 1..Len(work[w].writes),
                 work[w].writes[i] = AliasEntry(c.request, c.bundle)
          PROVE  \/ Aliased(assetFiles, c.request, c.bundle)
                 \/ \E j \in 1..Len(c.writes) : c.writes[j] = AliasEntry(c.request, c.bundle)
      <4>1. CASE i = 1
        <5>1. path = <<"alias", c.request>> /\ content = c.bundle
          BY <2>4, <3>2, <4>1 DEF AliasEntry
        <5> QED BY <1>4, <5>1 DEF Aliased
      <4>2. CASE i # 1
        <5>1. /\ i - 1 \in 1..Len(c.writes) /\ i - 1 + 1 = i
          BY <2>2, <2>3, <4>2
        <5>2. c.writes[i - 1] = work[w].writes[i]
          BY <2>2, <2>3, <5>1
        <5> QED BY <3>2, <5>1, <5>2
      <4> QED BY <4>1, <4>2
    <3> QED BY <3>1, <3>2
  <2>9. CallerSound(assetFiles, w, c)
    BY <2>2, <2>5, <2>6, <2>7, <2>8 DEF CallerSound
  <2>10. \A x \in answers' : AnswerSound(assetFiles, x)
    BY <1>1 DEF AssetsSound
  <2> QED BY <1>2, <1>4, <2>2, <2>9, <2>10, MovedOn
<1> QED BY <1>1, <1>3, <1>4

\* A write that fails leaves its file absent, torn or filled.
LEMMA WriteFailsSound ==
  ASSUME AssetsSound, NEW w \in Callers, Assets!WriteFails(w) PROVE AssetsSound'
<1> DEFINE path == work[w].writes[1][1]
           content == work[w].writes[1][2]
           failed == [work[w] EXCEPT !.at = "failed", !.bundle = None, !.writes = <<>>,
                                     !.open = FALSE]
<1>1. /\ work[w].writes # <<>> /\ UNCHANGED answers
      /\ \/ assetFiles' = assetFiles
         \/ /\ work[w].open
            /\ \E left \in {Torn, content} : assetFiles' = [assetFiles EXCEPT ![path] = left]
      /\ \/ /\ w # Assets!Startup /\ work[w].at = "storing"
            /\ work' = [work EXCEPT ![w] = failed]
         \/ work' = [work EXCEPT ![w] = Assets!Idle]
  BY DEF Assets!WriteFails, Assets!Becomes, Assets!Raises, Assets!Pending
<1>2. PICK c \in {failed, Assets!Idle} :
        /\ work' = [work EXCEPT ![w] = c]
        /\ c = failed => w # Assets!Startup /\ work[w].at = "storing"
  <2>1. CASE /\ w # Assets!Startup /\ work[w].at = "storing"
             /\ work' = [work EXCEPT ![w] = failed]
    BY <2>1
  <2>2. CASE work' = [work EXCEPT ![w] = Assets!Idle]
    <3>1. Assets!Idle.at = "idle" /\ failed.at = "failed"
      BY CallerIs DEF Assets!Idle, CallFields
    <3> QED BY <2>2, <3>1
  <2> QED BY <1>1, <2>1, <2>2
<1>3. /\ DOMAIN work[w] = CallFields
      /\ w # Assets!Startup => Storing(assetFiles, work[w])
  BY CallerIs
<1>4. /\ DOMAIN failed = CallFields /\ failed.at = "failed" /\ failed.open = FALSE
      /\ failed.writes = <<>> /\ failed.request = work[w].request
      /\ failed.proposal = work[w].proposal
  BY <1>3 DEF CallFields
<1>5. /\ work[w].writes[1][1] \in Assets!Paths
      /\ work[w].writes[1][1][1] \in DecisionKinds => content \in HumanDecisions
      /\ work[w].open => assetFiles[path] = Torn
      /\ DOMAIN assetFiles = Assets!Paths
  BY <1>1, EntryIs, EntriesAre, CallerIs DEF AssetsSound, FilesSound, WritesSound
<1> HIDE DEF path, content, failed
<1>6. \A f : CallerSound(f, w, c) /\ c.open = FALSE
  <2> SUFFICES ASSUME NEW f PROVE CallerSound(f, w, c) /\ c.open = FALSE
    OBVIOUS
  <2>1. CASE c = Assets!Idle
    BY <2>1, IdleSound
  <2>2. CASE c = failed
    <3>1. work[w].request \in Requests /\ work[w].proposal \in Proposals
      BY <1>2, <1>3, <2>2 DEF Storing
    <3>2. WritesSound(f, c)
      <4>1. <<>> \in Seq(Entries)
        OBVIOUS
      <4>2. c.writes \in Seq(Entries)
        BY <1>4, <2>2, <4>1, Zenon
      <4> QED BY <1>4, <2>2, <4>2 DEF WritesSound
    <3>3. Claimed(f, c) /\ Storing(f, c)
      BY <1>4, <2>2, <3>1 DEF Claimed, Storing
    <3> QED BY <1>4, <2>2, <3>2, <3>3 DEF CallerSound
  <2> QED BY <2>1, <2>2
<1>7. /\ WholeStay(assetFiles, assetFiles') /\ DOMAIN assetFiles' = Assets!Paths
      /\ assetFiles' = [q \in Assets!Paths |-> assetFiles'[q]]
      /\ \A q \in Assets!Paths :
           \/ assetFiles'[q] = assetFiles[q]
           \/ /\ q = path /\ work[w].open
              /\ assetFiles'[q] \in {Torn, content}
  <2>1. CASE assetFiles' = assetFiles
    BY <2>1 DEF WholeStay, AssetsSound, FilesSound
  <2>2. ASSUME NEW left \in {Torn, content}, work[w].open,
               assetFiles' = [assetFiles EXCEPT ![path] = left]
        PROVE  <1>7
    BY <1>5, <2>2 DEF WholeStay, path
  <2> QED BY <1>1, <2>1, <2>2
<1>8. FilesSound(assetFiles')
  <2> SUFFICES ASSUME NEW q \in Assets!Requirements, NEW kind \in DecisionKinds
               PROVE  assetFiles'[<<kind, q>>] \in {None, Torn} \cup HumanDecisions
    BY <1>7 DEF FilesSound
  <2>1. <<kind, q>> \in Assets!Paths
    BY PathsAre DEF DecisionKinds
  <2>2. assetFiles[<<kind, q>>] \in {None, Torn} \cup HumanDecisions
    BY DEF AssetsSound, FilesSound
  <2>3. path = <<kind, q>> => content \in HumanDecisions
    BY <1>5 DEF path
  <2> QED BY <1>7, <2>1, <2>2, <2>3
<1>9. work' = [v \in Callers |-> work'[v]]
      /\ work'[w] = c /\ \A v \in Callers : v # w => work'[v] = work[v]
  BY <1>2 DEF AssetsSound
<1>10. ASSUME NEW v \in Callers PROVE CallerSound(assetFiles', v, work'[v])
  <2>1. CASE v = w
    BY <1>6, <1>9, <2>1
  <2>2. CASE v # w
    <3>1. CallerSound(assetFiles, v, work[v])
      BY DEF AssetsSound
    <3>2. ASSUME work[v].open PROVE assetFiles'[work[v].writes[1][1]] = Torn
      <4>1. work[v].writes # <<>> /\ assetFiles[work[v].writes[1][1]] = Torn
        BY <3>2, CallerIs DEF WritesSound
      <4>2. work[v].writes[1][1] \in Assets!Paths
        BY <4>1, EntryIs
      <4>3. work[w].open => work[v].writes[1][1] # path
        BY <2>2, <3>2 DEF AssetsSound, OpenApart, path
      <4> QED BY <1>7, <4>1, <4>2, <4>3
    <3> QED BY <1>7, <1>9, <2>2, <3>1, <3>2, CallerStays
  <2> QED BY <2>1, <2>2
<1>11. OpenApart(work')
  BY <1>6, <1>9 DEF OpenApart, AssetsSound
<1>12. \A x \in answers' : AnswerSound(assetFiles', x)
  BY <1>1, <1>7, AnswerStays DEF AssetsSound
<1> QED BY <1>8, <1>9, <1>10, <1>11, <1>12 DEF AssetsSound

LEMMA AssetsKept == ASSUME AssetsSound, calls \in Nat, Assets!Next PROVE AssetsSound'
<1>1. DOMAIN work = Callers
  BY DEF AssetsSound
<1>2. ASSUME NEW w \in Callers,
             Assets!Create(w) \/ Assets!Fill(w) \/ Assets!FindWritten(w) \/ Assets!WriteFails(w)
      PROVE  AssetsSound'
  BY <1>2, CreateSound, FillSound, FindWrittenSound, WriteFailsSound
<1>3. ASSUME NEW w \in Workers,
             \/ Assets!FromCache(w) \/ Assets!FallBack(w) \/ Assets!Stored(w)
                  \/ Assets!Answer(w)
             \/ \E r \in Requests, p \in Proposals : Assets!Generate(w, r, p)
             \/ \E image, mesh \in Assets!Responses : Assets!Ask(w, image, mesh)
             \/ \E a \in AssetArtifacts : Assets!Store(w, a)
             \/ \E x \in answers : Assets!Refresh(w, x)
      PROVE  AssetsSound'
  BY <1>3, FromCacheSound, FallBackSound, StoredSound, AnswerStepSound, GenerateSound,
     ModelAskedSound,
     StoreSound, RefreshSound
<1>4. ASSUME NEW h \in Humans,
             \/ Assets!Decided(h)
             \/ \E q \in Assets!Requirements, verdict \in Verdicts : Assets!Decide(h, q, verdict)
      PROVE  AssetsSound'
  BY <1>4, DecidedSound, DecideSound
<1> QED BY <1>1, <1>2, <1>3, <1>4, BootSound, SeededSound, CutOffSound DEF Assets!Next, Verdicts

LEMMA CallsCounted == ASSUME calls \in Nat, Assets!Next PROVE calls' \in Nat
<1>1. calls' = calls \/ calls' = calls + 1
  BY DEF Assets!Next, Assets!Boot, Assets!Seeded, Assets!Crash, Assets!Create, Assets!Fill,
     Assets!FindWritten, Assets!WriteFails, Assets!FromCache, Assets!FallBack, Assets!Stored,
     Assets!Answer, Assets!Generate, Assets!Ask, Assets!Store, Assets!Refresh, Assets!Decided,
     Assets!Decide, Assets!Call
<1> QED BY <1>1

LEMMA AnswersFollow == ASSUME AssetsSound PROVE Assets!AnswersStand
<1> SUFFICES ASSUME NEW x \in answers
             PROVE  /\ \A y \in answers : x.request = y.request =>
                         \/ x.bundle = y.bundle
                         \/ Assets!FallbackBundle \in {x.bundle, y.bundle}
                    /\ \A y \in answers : x.bundle = y.bundle /\ x.proposal = y.proposal =>
                         {x.state, y.state} # {"ready", "rejected"}
                    /\ x.state = "ready" /\ Assets!NeedsApproval(x.proposal) =>
                         Assets!DecisionOf(<<x.bundle, x.proposal>>) = "approve"
  BY DEF Assets!AnswersStand
<1>1. \A y \in answers : AnswerSound(assetFiles, y)
  BY DEF AssetsSound
<1>2. ASSUME NEW y \in answers, x.request = y.request
      PROVE  x.bundle = y.bundle \/ Assets!FallbackBundle \in {x.bundle, y.bundle}
  BY <1>1, <1>2 DEF AnswerSound, Aliased
<1>3. ASSUME NEW y \in answers, NEW z \in answers, y.bundle = z.bundle, y.proposal = z.proposal,
             y.state = "ready", z.state = "rejected"
      PROVE  FALSE
  BY <1>1, <1>3 DEF AnswerSound, OnRecord
<1>4. ASSUME x.state = "ready", Assets!NeedsApproval(x.proposal)
      PROVE  Assets!DecisionOf(<<x.bundle, x.proposal>>) = "approve"
  <2>1. /\ OnRecord(assetFiles, <<x.bundle, x.proposal>>, "approve")
        /\ x.bundle \in Assets!Bundles /\ x.proposal \in Proposals
    BY <1>1, <1>4 DEF AnswerSound
  <2>2. <<x.bundle, x.proposal>> \in Assets!Requirements
    BY <1>4, <2>1, RequirementsAre
  <2>3. FilesSound(assetFiles)
    BY DEF AssetsSound
  <2> QED BY <2>1, <2>2, <2>3, OnRecordIs DEF Verdicts
<1> QED BY <1>2, <1>3, <1>4

\* Whoever asks, decides, writes beside it or dies between or inside any two writes, a
\* request is never answered with two generated bundles, and what needs a human is served
\* with that human's whole approval in the ledger and refused with a rejection there
\* (assets/cache.py:221).
THEOREM AnswersAlwaysStand == RecordsSpec => []AnswersStand
<1> DEFINE Inv == subject = "assets" => AssetsSound /\ calls \in Nat
<1>1. RecordsInit => Inv
  BY AssetsBegin DEF RecordsInit, AssetsInit, Assets!Init
<1>2. Inv /\ [RecordsNext]_recordsVars => Inv'
  <2> SUFFICES ASSUME Inv, [RecordsNext]_recordsVars, subject' = "assets"
               PROVE  AssetsSound' /\ calls' \in Nat
    OBVIOUS
  <2>1. CASE subject = "assets" /\ subject' = "assets" /\ Assets!Next
    BY <2>1, AssetsKept, CallsCounted
  <2>2. CASE UNCHANGED <<subject, assetsVars>>
    BY <2>2, AssetsUnchanged DEF assetsVars
  <2> QED BY <2>1, <2>2, AssetsFrame
<1>3. Inv => AnswersStand
  BY AnswersFollow DEF AnswersStand
<1> QED BY <1>1, <1>2, <1>3, PTL DEF RecordsSpec

-----------------------------------------------------------------------------
(* Live streams.                                                           *)

LEMMA StreamsFrame ==
  [RecordsNext]_recordsVars =>
     \/ subject = "streams" /\ subject' = "streams" /\ Streams!Next
     \/ UNCHANGED <<subject, streamsVars>>
BY DEF RecordsNext, recordsVars, GraphStep, ViewsStep, AssetsStep, StreamsStep, WorkflowStep

Items == [n : Nat, dropped : Nat]

\* The running totals of a queue: each item and what it says was lost before it.
Totals(queue, h) ==
  h = [i \in 0 .. Len(queue) |-> IF i = 0 THEN 0 ELSE h[i - 1] + 1 + queue[i].dropped]
Total(queue) == (CHOOSE h : Totals(queue, h))[Len(queue)]

LEMMA QueuedIs == \A c : Streams!Queued(c) = Total(client[c].queue)
BY DEF Streams!Queued, Total, Totals

LEMMA TotalsExist ==
  ASSUME NEW queue \in Seq(Items)
  PROVE  \E h : Totals(queue, h) /\ h \in [0 .. Len(queue) -> Nat]
<1> DEFINE Upto(n, h) ==
             h \in [0 .. n -> Nat] /\ h[0] = 0
               /\ \A i \in 1 .. n : h[i] = h[i - 1] + 1 + queue[i].dropped
           missing == {n \in 0 .. Len(queue) : ~ \E h : Upto(n, h)}
<1>1. Len(queue) \in Nat /\ \A i \in 1 .. Len(queue) : queue[i].dropped \in Nat
  <2>1. Len(queue) \in Nat /\ \A i \in 1 .. Len(queue) : queue[i] \in Items
    OBVIOUS
  <2>2. \A item \in Items : item.dropped \in Nat
    BY DEF Items
  <2> QED BY <2>1, <2>2
<1>2. missing = {}
  <2> SUFFICES ASSUME missing # {} PROVE FALSE
    OBVIOUS
  <2>1. PICK n \in missing : \A m \in missing : n <= m
    <3>1. missing \subseteq Nat
      BY <1>1
    <3> QED BY <3>1, LeastElement
  <2>2. n \in 0 .. Len(queue) /\ ~ \E h : Upto(n, h)
    BY <2>1
  <2>3. CASE n = 0
    <3>1. Upto(0, [i \in 0 .. 0 |-> 0])
      OBVIOUS
    <3> QED BY <2>2, <2>3, <3>1
  <2>4. CASE n # 0
    <3>0. n \in Nat \ {0} /\ n - 1 \in 0 .. Len(queue) /\ ~(n <= n - 1)
      BY <1>1, <2>2, <2>4
    <3>1. n - 1 \in 0 .. Len(queue) /\ n - 1 \notin missing /\ n \in Nat \ {0}
      <4> HIDE DEF missing
      <4> QED BY <2>1, <3>0
    <3>2. PICK h : Upto(n - 1, h)
      BY <3>1
    <3> DEFINE more ==
                 [i \in 0 .. n |-> IF i = n THEN h[n - 1] + 1 + queue[n].dropped ELSE h[i]]
    <3>3. h[n - 1] \in Nat /\ queue[n].dropped \in Nat
      BY <1>1, <2>2, <3>1, <3>2
    <3>4. more \in [0 .. n -> Nat] /\ more[0] = 0
      BY <3>1, <3>2, <3>3
    <3>5. ASSUME NEW i \in 1 .. n PROVE more[i] = more[i - 1] + 1 + queue[i].dropped
      <4>1. CASE i = n
        BY <3>1, <4>1
      <4>2. CASE i # n
        <5>1. i \in 1 .. n - 1 /\ i - 1 \in 0 .. n - 1 /\ i - 1 # n
          BY <3>1, <4>2
        <5> QED BY <3>1, <3>2, <4>2, <5>1
      <4> QED BY <4>1, <4>2
    <3>6. Upto(n, more)
      <4> HIDE DEF more
      <4> QED BY <3>4, <3>5
    <3> QED BY <2>2, <3>6
  <2> QED BY <2>3, <2>4
<1>3. PICK h : Upto(Len(queue), h)
  <2>1. Len(queue) \in 0 .. Len(queue)
    BY <1>1
  <2> QED BY <1>2, <2>1
<1>4. Totals(queue, h)
  <2>1. \A i \in 0 .. Len(queue) :
          h[i] = IF i = 0 THEN 0 ELSE h[i - 1] + 1 + queue[i].dropped
    BY <1>1, <1>3
  <2> QED BY <1>3, <2>1 DEF Totals
<1> QED BY <1>3, <1>4

LEMMA TotalsAre ==
  ASSUME NEW queue \in Seq(Items), NEW h, Totals(queue, h)
  PROVE  /\ DOMAIN h = 0 .. Len(queue) /\ h[0] = 0
         /\ \A i \in 1 .. Len(queue) : h[i] = h[i - 1] + 1 + queue[i].dropped
<1>1. Len(queue) \in Nat
  OBVIOUS
<1> QED BY <1>1 DEF Totals

\* h counts n items, d[i] lost before the i-th, on top of what it starts from.
Counts(n, d, h) ==
  h[0] \in Nat /\ \A i \in 1 .. n : d[i] \in Nat /\ h[i] = h[i - 1] + 1 + d[i]

\* Two counts of the same items differ by what they start from.
LEMMA SameTotals ==
  ASSUME NEW n \in Nat, NEW d, NEW g, NEW h, NEW k \in Nat,
         Counts(n, d, g), Counts(n, d, h), h[0] + k = g[0]
  PROVE  g[n] \in Nat /\ h[n] \in Nat /\ g[n] = h[n] + k
<1> DEFINE wrong == {i \in 0 .. n : ~(g[i] \in Nat /\ h[i] \in Nat /\ g[i] = h[i] + k)}
<1>1. wrong = {}
  <2> SUFFICES ASSUME wrong # {} PROVE FALSE
    OBVIOUS
  <2>1. PICK i \in wrong : \A j \in wrong : i <= j
    <3>1. wrong \subseteq Nat
      OBVIOUS
    <3> QED BY <3>1, LeastElement
  <2>2. i \in 0 .. n /\ ~(g[i] \in Nat /\ h[i] \in Nat /\ g[i] = h[i] + k)
    BY <2>1
  <2>3. i # 0
    BY <2>2 DEF Counts
  <2>4. i \in 1 .. n /\ i - 1 \in 0 .. n /\ i - 1 \notin wrong
    <3>1. i \in 1 .. n /\ i - 1 \in 0 .. n /\ ~(i <= i - 1)
      BY <2>2, <2>3
    <3> QED
      <4> HIDE DEF wrong
      <4> QED BY <2>1, <3>1
  <2>5. g[i - 1] \in Nat /\ h[i - 1] \in Nat /\ g[i - 1] = h[i - 1] + k
    BY <2>4
  <2>6. d[i] \in Nat /\ g[i] = g[i - 1] + 1 + d[i] /\ h[i] = h[i - 1] + 1 + d[i]
    BY <2>4 DEF Counts
  <2> HIDE DEF wrong
  <2> QED BY <2>2, <2>5, <2>6
<1>2. n \in 0 .. n
  OBVIOUS
<1>3. n \notin wrong
  BY <1>1
<1> QED BY <1>2, <1>3

LEMMA TotalIs ==
  ASSUME NEW queue \in Seq(Items), NEW h, Totals(queue, h)
  PROVE  Total(queue) = h[Len(queue)] /\ h[Len(queue)] \in Nat
<1> DEFINE g == CHOOSE k : Totals(queue, k)
           d == [i \in 1 .. Len(queue) |-> queue[i].dropped]
<1>1. Totals(queue, g)
  OBVIOUS
<1>2. Total(queue) = g[Len(queue)]
  BY DEF Total
<1> HIDE DEF g
<1>3. /\ Len(queue) \in Nat
      /\ \A i \in 1 .. Len(queue) : queue[i].dropped \in Nat /\ d[i] = queue[i].dropped
  <2>1. Len(queue) \in Nat /\ \A i \in 1 .. Len(queue) : queue[i] \in Items
    OBVIOUS
  <2>2. \A item \in Items : item.dropped \in Nat
    BY DEF Items
  <2> QED BY <2>1, <2>2
<1> HIDE DEF d
<1>4. /\ g[0] = 0 /\ h[0] = 0
      /\ \A i \in 1 .. Len(queue) : g[i] = g[i - 1] + 1 + d[i] /\ h[i] = h[i - 1] + 1 + d[i]
  <2>1. g[0] = 0 /\ \A i \in 1 .. Len(queue) : g[i] = g[i - 1] + 1 + queue[i].dropped
    BY <1>1, TotalsAre
  <2>2. h[0] = 0 /\ \A i \in 1 .. Len(queue) : h[i] = h[i - 1] + 1 + queue[i].dropped
    BY TotalsAre
  <2> QED BY <1>3, <2>1, <2>2
<1>5. Counts(Len(queue), d, g) /\ Counts(Len(queue), d, h) /\ h[0] + 0 = g[0]
  BY <1>3, <1>4 DEF Counts
<1>6. h[Len(queue)] \in Nat /\ g[Len(queue)] = h[Len(queue)] + 0
  BY <1>3, <1>5, SameTotals
<1> QED BY <1>2, <1>6

LEMMA TotalOfNone == Total(<<>>) = 0
<1>1. <<>> \in Seq(Items) /\ Len(<<>>) = 0
  OBVIOUS
<1>2. PICK h : Totals(<<>>, h)
  BY <1>1, TotalsExist
<1>3. h[0] = 0
  BY <1>1, <1>2, TotalsAre
<1> QED BY <1>1, <1>2, <1>3, TotalIs

LEMMA TotalOfMore ==
  ASSUME NEW queue \in Seq(Items), NEW item \in Items
  PROVE  /\ Total(queue) \in Nat
         /\ Total(Append(queue, item)) = Total(queue) + 1 + item.dropped
<1> DEFINE more == Append(queue, item)
           d == [i \in 1 .. Len(queue) |-> queue[i].dropped]
<1>1. /\ more \in Seq(Items) /\ Len(queue) \in Nat /\ Len(more) = Len(queue) + 1
      /\ more[Len(queue) + 1] = item
      /\ \A i \in 1 .. Len(queue) : queue[i] \in Items /\ more[i] = queue[i]
  OBVIOUS
<1> HIDE DEF more
<1>2. PICK g : Totals(queue, g)
  BY TotalsExist
<1>3. PICK h : Totals(more, h)
  BY <1>1, TotalsExist
<1>4. Total(queue) = g[Len(queue)] /\ g[Len(queue)] \in Nat
  BY <1>2, TotalIs
<1>5. Total(more) = h[Len(queue) + 1]
  BY <1>1, <1>3, TotalIs
<1>6. g[0] = 0 /\ \A i \in 1 .. Len(queue) : g[i] = g[i - 1] + 1 + queue[i].dropped
  BY <1>2, TotalsAre
<1>7. h[0] = 0 /\ \A i \in 1 .. Len(more) : h[i] = h[i - 1] + 1 + more[i].dropped
  BY <1>1, <1>3, TotalsAre
<1>8. \A i \in 1 .. Len(queue) : d[i] = queue[i].dropped /\ d[i] \in Nat
  <2>1. \A i \in 1 .. Len(queue) : queue[i].dropped \in Nat
    BY <1>1 DEF Items
  <2> QED BY <2>1
<1> HIDE DEF d
<1>9. \A i \in 1 .. Len(queue) : g[i] = g[i - 1] + 1 + d[i] /\ h[i] = h[i - 1] + 1 + d[i]
  <2>1. \A i \in 1 .. Len(queue) : i \in 1 .. Len(more)
    BY <1>1
  <2> QED BY <1>1, <1>6, <1>7, <1>8, <2>1
<1>10. Counts(Len(queue), d, g) /\ Counts(Len(queue), d, h) /\ g[0] + 0 = h[0]
  BY <1>6, <1>7, <1>8, <1>9 DEF Counts
<1>11. h[Len(queue)] \in Nat /\ h[Len(queue)] = g[Len(queue)] + 0
  BY <1>1, <1>10, SameTotals
<1>12. h[Len(queue) + 1] = h[Len(queue)] + 1 + item.dropped
  <2>1. Len(queue) + 1 \in 1 .. Len(more) /\ Len(queue) + 1 - 1 = Len(queue)
    BY <1>1
  <2> QED BY <1>1, <1>7, <2>1
<1>13. h[Len(queue)] = g[Len(queue)]
  BY <1>4, <1>11
<1> QED BY <1>4, <1>5, <1>12, <1>13 DEF more

LEMMA TotalOfRest ==
  ASSUME NEW queue \in Seq(Items), queue # <<>>
  PROVE  /\ Tail(queue) \in Seq(Items) /\ Head(queue) \in Items
         /\ Total(Tail(queue)) \in Nat
         /\ Total(queue) = 1 + Head(queue).dropped + Total(Tail(queue))
<1> DEFINE rest == Tail(queue)
           n == Len(rest)
           d == [i \in 1 .. n |-> rest[i].dropped]
<1>1. /\ rest \in Seq(Items) /\ n \in Nat /\ Len(queue) = n + 1
      /\ Head(queue) = queue[1] /\ queue[1] \in Items
      /\ \A i \in 1 .. n : rest[i] \in Items /\ rest[i] = queue[i + 1]
  OBVIOUS
<1> HIDE DEF rest
<1>2. PICK g : Totals(queue, g)
  BY TotalsExist
<1>3. PICK h : Totals(rest, h)
  BY <1>1, TotalsExist
<1>4. Total(queue) = g[n + 1]
  BY <1>1, <1>2, TotalIs
<1>5. Total(rest) = h[n] /\ h[n] \in Nat
  BY <1>1, <1>3, TotalIs
<1>6. g[0] = 0 /\ \A i \in 1 .. n + 1 : g[i] = g[i - 1] + 1 + queue[i].dropped
  BY <1>1, <1>2, TotalsAre
<1>7. h[0] = 0 /\ \A i \in 1 .. n : h[i] = h[i - 1] + 1 + rest[i].dropped
  BY <1>1, <1>3, TotalsAre
<1> HIDE DEF n
<1>8. \A i \in 1 .. n : d[i] = rest[i].dropped /\ d[i] \in Nat
  <2>1. \A i \in 1 .. n : rest[i].dropped \in Nat
    BY <1>1 DEF Items
  <2> QED BY <2>1
<1> HIDE DEF d
<1>9. queue[1].dropped \in Nat /\ g[1] = 1 + queue[1].dropped
  <2>1. queue[1].dropped \in Nat
    BY <1>1 DEF Items
  <2>2. 1 \in 1 .. n + 1 /\ 1 - 1 = 0
    BY <1>1
  <2>3. g[1] = g[1 - 1] + 1 + queue[1].dropped
    BY <1>6, <2>2
  <2> QED BY <1>6, <2>1, <2>2, <2>3
<1> DEFINE later == [i \in 0 .. n |-> g[i + 1]]
<1>10. later[0] = g[1] /\ later[n] = g[n + 1]
  BY <1>1
<1>11. ASSUME NEW i \in 1 .. n PROVE later[i] = later[i - 1] + 1 + d[i]
  <2>1. /\ i \in 0 .. n /\ i - 1 \in 0 .. n /\ i + 1 \in 1 .. n + 1
        /\ i + 1 - 1 = i /\ i - 1 + 1 = i
    BY <1>1
  <2>2. later[i] = g[i + 1] /\ later[i - 1] = g[i]
    BY <2>1
  <2>3. g[i + 1] = g[i] + 1 + queue[i + 1].dropped
    BY <1>6, <2>1
  <2> QED BY <1>1, <1>8, <2>2, <2>3
<1> HIDE DEF later
<1>12. \A i \in 1 .. n : later[i] = later[i - 1] + 1 + d[i] /\ h[i] = h[i - 1] + 1 + d[i]
  BY <1>7, <1>8, <1>11
<1>13. g[1] \in Nat /\ h[0] + g[1] = later[0]
  BY <1>7, <1>9, <1>10
<1>14. Counts(n, d, later) /\ Counts(n, d, h)
  BY <1>7, <1>8, <1>12, <1>13, <1>9, <1>10 DEF Counts
<1>15. later[n] = h[n] + g[1]
  <2>1. n \in Nat
    BY <1>1 DEF n
  <2>2. \A k \in Nat : h[0] + k = later[0] => later[n] = h[n] + k
    BY <2>1, <1>14, SameTotals
  <2> QED BY <2>2, <1>13
<1>16. g[n + 1] = 1 + queue[1].dropped + h[n]
  BY <1>5, <1>9, <1>10, <1>15
<1> QED BY <1>1, <1>4, <1>5, <1>16 DEF rest

\* What a connection holds is numbered upwards from the last event it received to the
\* last published; the end marker has no number.
Rising(queue, last, n) ==
  /\ \A i \in 1 .. Len(queue) :
       queue[i] # Streams!Closed => queue[i].n > last /\ queue[i].n <= n
  /\ \A i, j \in 1 .. Len(queue) : i < j /\ queue[j] # Streams!Closed => queue[i].n < queue[j].n

\* Received, lost and held are together what was published since it subscribed.
Whole(x, n) ==
  /\ \A i \in 1 .. Len(x.queue) : x.queue[i] # Streams!Closed
  /\ x.from + x.seen + x.lost + Total(x.queue) = n

Connected(x, n) ==
  /\ x.episode \in Episodes /\ x.queue \in Seq(Items)
  /\ x.from \in Nat /\ x.seen \in Nat /\ x.lost \in Nat /\ x.last \in 0 .. n
  /\ Rising(x.queue, x.last, n)
  /\ x.at = "subscribed" => Whole(x, n)

ConnectionSound(x, numbers) ==
  /\ DOMAIN x = {"at", "episode", "queue", "from", "seen", "lost", "last"}
  /\ x.at \in {"away", "subscribed", "closing", "ended"}
  /\ x.at \in {"subscribed", "closing"} => Connected(x, numbers[x.episode])

\* An event waits to be published exactly while its worker publishes it.
EventsSound(at, made, put) ==
  /\ at \in {"absent", "publishing", "running", "ending", "ended"}
  /\ made \in Nat /\ put \in Nat
  /\ at = "absent" => made = 0
  /\ made = IF at \in {"publishing", "ending"} THEN put + 1 ELSE put

WorkersPart ==
  /\ worker = [e \in Episodes |-> worker[e]]
  /\ durable = [e \in Episodes |-> durable[e]]
  /\ published = [e \in Episodes |-> published[e]]
  /\ \A e \in Episodes : EventsSound(worker[e], durable[e], published[e])

\* The workers have ended before the hub closes, and none starts after.
ShutdownPart ==
  /\ streamServer \in {"starting", "up", "joining", "joined", "closed", "down"}
  /\ streamServer \in {"joined", "closed", "down"} => Streams!WorkersEnded
  /\ streamServer = "starting" => \A e \in Episodes : worker[e] = "absent"
  /\ hubClosed \in BOOLEAN /\ (hubClosed => streamServer \in {"closed", "down"})

ClientsPart ==
  /\ client = [c \in Clients |-> client[c]]
  /\ \A c \in Clients : ConnectionSound(client[c], published)

StreamsSound == WorkersPart /\ ShutdownPart /\ ClientsPart

LEMMA StreamsBegin == Streams!Init => StreamsSound
<1> SUFFICES ASSUME Streams!Init PROVE StreamsSound
  OBVIOUS
<1>1. WorkersPart
  BY DEF Streams!Init, WorkersPart, EventsSound
<1>2. ShutdownPart
  BY DEF Streams!Init, ShutdownPart
<1>3. ClientsPart
  BY DEF Streams!Init, ClientsPart, ConnectionSound, Streams!Away
<1> QED BY <1>1, <1>2, <1>3 DEF StreamsSound

\* The server moves on while the workers and the clients do not.
LEMMA ServerMoves ==
  ASSUME StreamsSound,
         \/ Streams!Serve \/ Streams!StartupFails \/ Streams!Stop
         \/ Streams!Join \/ Streams!StopBackend
  PROVE  StreamsSound'
<1>1. UNCHANGED <<worker, durable, published, client>>
  BY DEF Streams!Serve, Streams!StartupFails, Streams!Stop, Streams!Join, Streams!StopBackend
<1>2. WorkersPart' /\ ClientsPart'
  BY <1>1 DEF StreamsSound, WorkersPart, ClientsPart
<1>3. ShutdownPart'
  <2>1. Streams!WorkersEnded' <=> Streams!WorkersEnded
    BY <1>1 DEF Streams!WorkersEnded
  <2>2. ShutdownPart
    BY DEF StreamsSound
  <2>3. (\A e \in Episodes : worker[e] = "absent") => Streams!WorkersEnded
    BY DEF Streams!WorkersEnded
  <2>4. CASE Streams!Serve
    BY <1>1, <2>1, <2>2, <2>4 DEF ShutdownPart, Streams!Serve
  <2>5. CASE Streams!StartupFails
    BY <1>1, <2>1, <2>2, <2>3, <2>5 DEF ShutdownPart, Streams!StartupFails
  <2>6. CASE Streams!Stop
    BY <1>1, <2>1, <2>2, <2>6 DEF ShutdownPart, Streams!Stop
  <2>7. CASE Streams!Join
    BY <1>1, <2>1, <2>2, <2>7 DEF ShutdownPart, Streams!Join
  <2>8. CASE Streams!StopBackend
    BY <1>1, <2>1, <2>2, <2>8 DEF ShutdownPart, Streams!StopBackend
  <2> QED BY <2>4, <2>5, <2>6, <2>7, <2>8
<1> QED BY <1>2, <1>3 DEF StreamsSound

LEMMA OpenEpisodeSound ==
  ASSUME StreamsSound, NEW e \in Episodes, Streams!OpenEpisode(e)
  PROVE  StreamsSound'
<1>1. WorkersPart'
  <2>1. WorkersPart
    BY DEF StreamsSound
  <2>2. EventsSound(worker[e], durable[e], published[e])
    BY <2>1 DEF WorkersPart
  <2>3. /\ worker'[e] = "publishing" /\ durable'[e] = 1 /\ UNCHANGED published
        /\ \A o \in Episodes : o # e => worker'[o] = worker[o] /\ durable'[o] = durable[o]
        /\ worker' = [o \in Episodes |-> worker'[o]]
        /\ durable' = [o \in Episodes |-> durable'[o]]
    BY <2>1 DEF WorkersPart, Streams!OpenEpisode
  <2>4. EventsSound(worker'[e], durable'[e], published[e])
    BY <2>2, <2>3 DEF EventsSound, Streams!OpenEpisode
  <2> QED BY <2>1, <2>3, <2>4 DEF WorkersPart
<1>2. ShutdownPart'
  BY DEF StreamsSound, ShutdownPart, Streams!OpenEpisode, Streams!WorkersEnded
<1>3. ClientsPart'
  BY DEF StreamsSound, ClientsPart, Streams!OpenEpisode
<1> QED BY <1>1, <1>2, <1>3 DEF StreamsSound

LEMMA AppendEventSound ==
  ASSUME StreamsSound, NEW e \in Episodes, NEW ends \in BOOLEAN, Streams!AppendEvent(e, ends)
  PROVE  StreamsSound'
<1>1. WorkersPart'
  <2>1. WorkersPart
    BY DEF StreamsSound
  <2>2. EventsSound(worker[e], durable[e], published[e])
    BY <2>1 DEF WorkersPart
  <2>3. /\ worker'[e] \in {"publishing", "ending"} /\ durable'[e] = durable[e] + 1
        /\ UNCHANGED published
        /\ \A o \in Episodes : o # e => worker'[o] = worker[o] /\ durable'[o] = durable[o]
        /\ worker' = [o \in Episodes |-> worker'[o]]
        /\ durable' = [o \in Episodes |-> durable'[o]]
    BY <2>1 DEF WorkersPart, Streams!AppendEvent
  <2>4. EventsSound(worker'[e], durable'[e], published[e])
    BY <2>2, <2>3 DEF EventsSound, Streams!AppendEvent
  <2> QED BY <2>1, <2>3, <2>4 DEF WorkersPart
<1>2. ShutdownPart'
  BY DEF StreamsSound, ShutdownPart, Streams!AppendEvent, Streams!WorkersEnded
<1>3. ClientsPart'
  BY DEF StreamsSound, ClientsPart, Streams!AppendEvent
<1> QED BY <1>1, <1>2, <1>3 DEF StreamsSound

\* More published changes nothing for who is not subscribed.
LEMMA StillRising ==
  ASSUME NEW queue \in Seq(Items), NEW last \in Nat, NEW n \in Nat, NEW m \in Nat, n <= m,
         Rising(queue, last, n)
  PROVE  Rising(queue, last, m)
<1>1. \A i \in 1 .. Len(queue) : queue[i].n \in Nat
  <2>1. \A i \in 1 .. Len(queue) : queue[i] \in Items
    OBVIOUS
  <2> QED BY <2>1 DEF Items
<1> QED BY <1>1 DEF Rising

\* A queue loses its oldest item.
LEMMA RestRising ==
  ASSUME NEW queue \in Seq(Items), queue # <<>>, NEW last \in Nat, NEW n \in Nat,
         Rising(queue, last, n)
  PROVE  /\ Rising(Tail(queue), last, n)
         /\ Head(queue) # Streams!Closed => Rising(Tail(queue), Head(queue).n, n)
<1>1. /\ Tail(queue) \in Seq(Items) /\ Len(queue) \in Nat /\ Len(Tail(queue)) = Len(queue) - 1
      /\ Head(queue) = queue[1] /\ 1 \in 1 .. Len(queue)
      /\ \A i \in 1 .. Len(queue) - 1 :
           Tail(queue)[i] = queue[i + 1] /\ i + 1 \in 1 .. Len(queue)
  OBVIOUS
<1>2. \A i, j \in 1 .. Len(queue) - 1 : i < j => i + 1 < j + 1
  BY <1>1
<1>3. \A i \in 1 .. Len(queue) - 1 : 1 < i + 1
  BY <1>1
<1>4. Rising(Tail(queue), last, n)
  BY <1>1, <1>2 DEF Rising
<1>5. ASSUME Head(queue) # Streams!Closed PROVE Rising(Tail(queue), Head(queue).n, n)
  <2>1. ASSUME NEW i \in 1 .. Len(queue) - 1, queue[i + 1] # Streams!Closed
        PROVE  queue[i + 1].n > queue[1].n
    <3>1. queue[1].n < queue[i + 1].n
      BY <1>1, <1>3, <2>1 DEF Rising
    <3>2. queue[1] \in Items /\ queue[i + 1] \in Items
      BY <1>1
    <3> QED BY <3>1, <3>2 DEF Items
  <2> QED BY <1>1, <1>4, <2>1 DEF Rising
<1> QED BY <1>4, <1>5

\* A queue takes an item: the next event, or the end marker.
LEMMA MoreRising ==
  ASSUME NEW queue \in Seq(Items), NEW last \in Nat, NEW n \in Nat, Rising(queue, last, n),
         NEW item \in Items, last <= n, NEW m \in Nat, n <= m,
         \/ item = Streams!Closed
         \/ item.n = m /\ m = n + 1 /\ \A i \in 1 .. Len(queue) : queue[i] # Streams!Closed
  PROVE  Rising(Append(queue, item), last, m)
<1> DEFINE more == Append(queue, item)
<1>1. /\ Len(queue) \in Nat /\ Len(more) = Len(queue) + 1 /\ more[Len(queue) + 1] = item
      /\ \A i \in 1 .. Len(queue) : queue[i] \in Items /\ more[i] = queue[i]
  OBVIOUS
<1> HIDE DEF more
<1>2. Rising(queue, last, m)
  BY StillRising
<1>3. \A i \in 1 .. Len(queue) + 1 : i \in 1 .. Len(queue) \/ i = Len(queue) + 1
  BY <1>1
<1>4. item # Streams!Closed =>
        /\ item.n > last /\ item.n <= m
        /\ \A i \in 1 .. Len(queue) : queue[i].n < item.n
  <2> SUFFICES ASSUME item # Streams!Closed
               PROVE  /\ item.n > last /\ item.n <= m
                      /\ \A i \in 1 .. Len(queue) : queue[i].n < item.n
    OBVIOUS
  <2>1. item.n = m /\ m = n + 1 /\ \A i \in 1 .. Len(queue) : queue[i] # Streams!Closed
    OBVIOUS
  <2>2. \A i \in 1 .. Len(queue) : queue[i].n <= n /\ queue[i].n \in Nat
    BY <1>1, <2>1 DEF Rising, Items
  <2> QED BY <2>1, <2>2
<1>5. \A i \in 1 .. Len(queue) + 1 :
        more[i] # Streams!Closed => more[i].n > last /\ more[i].n <= m
  BY <1>1, <1>2, <1>3, <1>4 DEF Rising
<1>6. \A i, j \in 1 .. Len(queue) + 1 :
        i < j /\ more[j] # Streams!Closed => more[i].n < more[j].n
  <2> TAKE i, j \in 1 .. Len(queue) + 1
  <2> HAVE i < j /\ more[j] # Streams!Closed
  <2>1. i \in 1 .. Len(queue)
    BY <1>1
  <2>2. CASE j \in 1 .. Len(queue)
    BY <1>1, <1>2, <2>1, <2>2 DEF Rising
  <2>3. CASE j = Len(queue) + 1
    BY <1>1, <1>4, <2>1, <2>3
  <2> QED BY <1>3, <2>2, <2>3
<1>7. Rising(more, last, m)
  BY <1>1, <1>5, <1>6 DEF Rising
<1> QED BY <1>7 DEF more

\* A subscriber takes the next event: what makes room for it is counted in it.
LEMMA Enqueued ==
  ASSUME NEW c \in Clients, NEW n \in Nat,
         DOMAIN client[c] = {"at", "episode", "queue", "from", "seen", "lost", "last"},
         client[c].at = "subscribed", Connected(client[c], n)
  PROVE  LET y == Streams!EnqueueLatest(c, n + 1)
         IN  /\ DOMAIN y = {"at", "episode", "queue", "from", "seen", "lost", "last"}
             /\ y.at = "subscribed" /\ y.episode = client[c].episode
             /\ Connected(y, n + 1)
<1> DEFINE queue == client[c].queue
           full == Len(queue) = QueueSize
           kept == IF full THEN Tail(queue) ELSE queue
           item == [n |-> n + 1, dropped |-> IF full THEN 1 + Head(queue).dropped ELSE 0]
           y == Streams!EnqueueLatest(c, n + 1)
<1>1. /\ y.queue = Append(kept, item)
      /\ DOMAIN y = {"at", "episode", "queue", "from", "seen", "lost", "last"}
      /\ y.at = client[c].at /\ y.episode = client[c].episode /\ y.from = client[c].from
      /\ y.seen = client[c].seen /\ y.lost = client[c].lost /\ y.last = client[c].last
  BY DEF Streams!EnqueueLatest, Streams!Carried
<1> HIDE DEF y
<1>2. /\ queue \in Seq(Items) /\ client[c].last \in 0 .. n /\ Rising(queue, client[c].last, n)
      /\ \A i \in 1 .. Len(queue) : queue[i] # Streams!Closed
      /\ client[c].from + client[c].seen + client[c].lost + Total(queue) = n
      /\ client[c].from \in Nat /\ client[c].seen \in Nat /\ client[c].lost \in Nat
      /\ client[c].episode \in Episodes
  BY DEF Connected, Whole
<1> HIDE DEF queue
<1>3. /\ kept \in Seq(Items) /\ item \in Items /\ Rising(kept, client[c].last, n)
      /\ \A i \in 1 .. Len(kept) : kept[i] # Streams!Closed
      /\ Total(kept) \in Nat /\ Total(queue) \in Nat
      /\ Total(kept) + 1 + item.dropped = Total(queue) + 1
  <2>1. CASE full
    <3>1. queue # <<>>
      <4>1. Len(queue) # 0
        BY <2>1, StreamAssumption
      <4> QED BY <4>1
    <3>2. /\ Tail(queue) \in Seq(Items) /\ Head(queue) \in Items /\ Total(Tail(queue)) \in Nat
          /\ Total(queue) = 1 + Head(queue).dropped + Total(Tail(queue))
      BY <1>2, <3>1, TotalOfRest
    <3>3. Rising(Tail(queue), client[c].last, n)
      BY <1>2, <3>1, RestRising
    <3>4. \A i \in 1 .. Len(Tail(queue)) : Tail(queue)[i] # Streams!Closed
      <4>1. \A i \in 1 .. Len(Tail(queue)) :
              Tail(queue)[i] = queue[i + 1] /\ i + 1 \in 1 .. Len(queue)
        BY <1>2, <3>1
      <4> QED BY <1>2, <4>1
    <3>5. Head(queue).dropped \in Nat
      BY <3>2 DEF Items
    <3>6. item \in Items /\ item.dropped = 1 + Head(queue).dropped
      BY <2>1, <3>5 DEF Items
    <3>7. kept = Tail(queue)
      BY <2>1
    <3> HIDE DEF item, kept
    <3>8. Total(kept) \in Nat /\ Total(queue) = 1 + Head(queue).dropped + Total(kept)
      BY <3>2, <3>7
    <3>9. /\ Total(queue) \in Nat
          /\ Total(kept) + 1 + item.dropped = Total(queue) + 1
      BY <3>5, <3>6, <3>8
    <3> QED BY <3>2, <3>3, <3>4, <3>6, <3>7, <3>8, <3>9
  <2>2. CASE ~full
    <3>1. kept = queue /\ item \in Items /\ item.dropped = 0
      BY <2>2 DEF Items
    <3>2. Total(queue) \in Nat
      BY <1>2, <3>1, TotalOfMore
    <3> HIDE DEF item, kept
    <3> QED BY <1>2, <3>1, <3>2
  <2> QED BY <2>1, <2>2
<1>4. item.n = n + 1 /\ item # Streams!Closed
  BY DEF Streams!Closed
<1> HIDE DEF item, kept
<1>5. Rising(y.queue, y.last, n + 1) /\ y.queue \in Seq(Items)
  <2>1. client[c].last \in Nat /\ client[c].last <= n /\ n <= n + 1 /\ n + 1 \in Nat
    BY <1>2
  <2>2. Rising(Append(kept, item), client[c].last, n + 1)
    BY <1>3, <1>4, <2>1, MoreRising
  <2> QED BY <1>1, <1>3, <2>2
<1>6. Whole(y, n + 1)
  <2>1. Total(y.queue) = Total(kept) + 1 + item.dropped
    BY <1>1, <1>3, TotalOfMore
  <2>2. Total(y.queue) = Total(queue) + 1
    BY <1>3, <2>1
  <2>4. client[c].from + client[c].seen + client[c].lost + (Total(queue) + 1) = n + 1
    <3>1. \A a, b, d, t \in Nat : a + b + d + t = n => a + b + d + (t + 1) = n + 1
      OBVIOUS
    <3>2. /\ client[c].from \in Nat /\ client[c].seen \in Nat /\ client[c].lost \in Nat
          /\ client[c].from + client[c].seen + client[c].lost + Total(queue) = n
      BY <1>2
    <3>3. Total(queue) \in Nat
      BY <1>3
    <3> QED BY <3>1, <3>2, <3>3
  <2>3. \A i \in 1 .. Len(y.queue) : y.queue[i] # Streams!Closed
    <3>1. \A i \in 1 .. Len(Append(kept, item)) :
            \/ i \in 1 .. Len(kept) /\ Append(kept, item)[i] = kept[i]
            \/ Append(kept, item)[i] = item
      BY <1>3
    <3> QED BY <1>1, <1>3, <1>4, <3>1
  <2> QED BY <1>1, <2>2, <2>3, <2>4 DEF Whole
<1>7. y.last \in 0 .. n + 1
  BY <1>1, <1>2
<1>8. Connected(y, n + 1)
  BY <1>1, <1>2, <1>5, <1>6, <1>7 DEF Connected
<1> QED BY <1>1, <1>8 DEF y

\* Who is not subscribed to what is published holds what it held.
LEMMA Unserved ==
  ASSUME NEW x, NEW n \in Nat, NEW m \in Nat, n <= m, Connected(x, n),
         m = n \/ x.at # "subscribed"
  PROVE  Connected(x, m)
<1>1. /\ x.queue \in Seq(Items) /\ x.last \in Nat /\ Rising(x.queue, x.last, n)
      /\ x.last \in 0 .. m
  BY DEF Connected
<1>2. Rising(x.queue, x.last, m)
  BY <1>1, StillRising
<1>3. x.at = "subscribed" => Whole(x, m)
  BY DEF Connected
<1> QED BY <1>1, <1>2, <1>3 DEF Connected

LEMMA PublishSound ==
  ASSUME StreamsSound, NEW e \in Episodes, Streams!Publish(e)
  PROVE  StreamsSound'
<1>1. WorkersPart /\ ShutdownPart /\ ClientsPart
  BY DEF StreamsSound
<1>2. EventsSound(worker[e], durable[e], published[e])
  BY <1>1 DEF WorkersPart
<1>3. /\ published'[e] = published[e] + 1 /\ UNCHANGED <<streamServer, durable, hubClosed>>
      /\ worker'[e] = IF worker[e] = "ending" THEN "ended" ELSE "running"
      /\ \A o \in Episodes : o # e => worker'[o] = worker[o] /\ published'[o] = published[o]
      /\ worker' = [o \in Episodes |-> worker'[o]]
      /\ published' = [o \in Episodes |-> published'[o]]
  BY <1>1 DEF WorkersPart, Streams!Publish
<1>4. WorkersPart'
  <2>1. EventsSound(worker'[e], durable[e], published'[e])
    BY <1>2, <1>3 DEF EventsSound, Streams!Publish
  <2> QED BY <1>1, <1>3, <2>1 DEF WorkersPart
<1>5. ~ Streams!WorkersEnded /\ worker[e] # "absent"
  BY DEF Streams!Publish, Streams!WorkersEnded
<1>6. ShutdownPart' /\ ~hubClosed
  BY <1>1, <1>3, <1>5 DEF ShutdownPart
<1>7. \A o \in Episodes :
        published[o] \in Nat /\ published'[o] \in Nat /\ published[o] <= published'[o]
  BY <1>1, <1>3 DEF WorkersPart, EventsSound
<1>8. ASSUME NEW c \in Clients PROVE ConnectionSound(client'[c], published')
  <2>1. ConnectionSound(client[c], published)
    BY <1>1 DEF ClientsPart
  <2>2. CASE client[c].at = "subscribed" /\ client[c].episode = e
    <3>1. client'[c] = Streams!EnqueueLatest(c, published[e] + 1)
      BY <1>6, <2>2 DEF Streams!Publish, Streams!SubscribersOf, Streams!Subscribed
    <3>2. /\ Connected(client[c], published[e])
          /\ DOMAIN client[c] = {"at", "episode", "queue", "from", "seen", "lost", "last"}
      BY <2>1, <2>2 DEF ConnectionSound
    <3>3. /\ DOMAIN client'[c] = {"at", "episode", "queue", "from", "seen", "lost", "last"}
          /\ client'[c].at = "subscribed" /\ client'[c].episode = e
          /\ Connected(client'[c], published[e] + 1)
      BY <1>7, <2>2, <3>1, <3>2, Enqueued
    <3> QED BY <1>3, <3>3 DEF ConnectionSound
  <2>3. CASE ~(client[c].at = "subscribed" /\ client[c].episode = e)
    <3>1. client'[c] = client[c]
      BY <2>3 DEF Streams!Publish, Streams!SubscribersOf, Streams!Subscribed
    <3>2. ASSUME client[c].at \in {"subscribed", "closing"}
          PROVE  Connected(client[c], published'[client[c].episode])
      <4>1. Connected(client[c], published[client[c].episode]) /\ client[c].episode \in Episodes
        BY <2>1, <3>2 DEF ConnectionSound, Connected
      <4>2. \/ published'[client[c].episode] = published[client[c].episode]
            \/ client[c].at # "subscribed"
        BY <1>3, <2>3, <4>1
      <4> QED BY <1>7, <4>1, <4>2, Unserved
    <3> QED BY <2>1, <3>1, <3>2 DEF ConnectionSound
  <2> QED BY <2>2, <2>3
<1>9. client' = [c \in Clients |-> client'[c]]
  BY DEF Streams!Publish
<1>10. ClientsPart'
  BY <1>8, <1>9 DEF ClientsPart
<1> QED BY <1>4, <1>6, <1>10 DEF StreamsSound

\* One connection changes and nothing else does.
LEMMA OneConnection ==
  ASSUME StreamsSound, NEW c \in Clients, NEW x, client' = [client EXCEPT ![c] = x],
         ConnectionSound(x, published),
         UNCHANGED <<streamServer, durable, published, worker, hubClosed>>
  PROVE  StreamsSound'
<1>1. WorkersPart' /\ ShutdownPart'
  BY DEF StreamsSound, WorkersPart, ShutdownPart, Streams!WorkersEnded
<1>2. ClientsPart
  BY DEF StreamsSound
<1>3. /\ client' = [k \in Clients |-> client'[k]] /\ client'[c] = x
      /\ \A k \in Clients : k # c => client'[k] = client[k]
  BY <1>2 DEF ClientsPart
<1>4. ClientsPart'
  BY <1>2, <1>3 DEF ClientsPart
<1> QED BY <1>1, <1>4 DEF StreamsSound

LEMMA SubscribeSound ==
  ASSUME StreamsSound, NEW c \in Clients, NEW e \in Episodes, Streams!Subscribe(c, e)
  PROVE  StreamsSound'
<1> DEFINE x == [Streams!Away EXCEPT !.at = "subscribed", !.episode = e, !.from = published[e]]
<1>1. /\ DOMAIN x = {"at", "episode", "queue", "from", "seen", "lost", "last"}
      /\ x.at = "subscribed" /\ x.episode = e /\ x.queue = <<>> /\ x.from = published[e]
      /\ x.seen = 0 /\ x.lost = 0 /\ x.last = 0
  BY DEF Streams!Away
<1>2. /\ client' = [client EXCEPT ![c] = x]
      /\ UNCHANGED <<streamServer, durable, published, worker, hubClosed>>
  BY DEF Streams!Subscribe
<1> HIDE DEF x
<1>3. published[e] \in Nat
  BY DEF StreamsSound, WorkersPart, EventsSound
<1>4. x.queue \in Seq(Items) /\ Len(x.queue) = 0
  BY <1>1
<1>5. Rising(x.queue, x.last, published[e])
  BY <1>4 DEF Rising
<1>6. Whole(x, published[e])
  BY <1>1, <1>3, <1>4, TotalOfNone DEF Whole
<1>7. Connected(x, published[e])
  BY <1>1, <1>3, <1>4, <1>5, <1>6 DEF Connected
<1>8. ConnectionSound(x, published)
  BY <1>1, <1>7 DEF ConnectionSound
<1> QED BY <1>2, <1>8, OneConnection

LEMMA DisconnectSound ==
  ASSUME StreamsSound, NEW c \in Clients, Streams!Disconnect(c)
  PROVE  StreamsSound'
<1> DEFINE x == [Streams!Away EXCEPT !.at = "ended"]
<1>1. ConnectionSound(x, published)
  BY DEF ConnectionSound, Streams!Away
<1>2. /\ client' = [client EXCEPT ![c] = x]
      /\ UNCHANGED <<streamServer, durable, published, worker, hubClosed>>
  BY DEF Streams!Disconnect
<1> HIDE DEF x
<1> QED BY <1>1, <1>2, OneConnection

LEMMA ReceiveSound ==
  ASSUME StreamsSound, NEW c \in Clients, Streams!Receive(c)
  PROVE  StreamsSound'
<1> DEFINE was == client[c]
           item == Head(was.queue)
           over == [was EXCEPT !.at = "ended", !.queue = <<>>]
           on == [was EXCEPT !.queue = Tail(@), !.seen = @ + 1, !.lost = @ + item.dropped,
                             !.last = item.n]
           n == published[was.episode]
<1>1. /\ ConnectionSound(was, published) /\ was.at \in {"subscribed", "closing"}
      /\ was.queue # <<>>
      /\ UNCHANGED <<streamServer, durable, published, worker, hubClosed>>
      /\ client' = [client EXCEPT ![c] = IF item = Streams!Closed THEN over ELSE on]
  <2>1. ConnectionSound(was, published)
    BY DEF StreamsSound, ClientsPart
  <2>2. /\ was.at \in {"subscribed", "closing"} /\ was.queue # <<>>
        /\ UNCHANGED <<streamServer, durable, published, worker, hubClosed>>
    BY DEF Streams!Receive
  <2>3. client' = [client EXCEPT ![c] = IF item = Streams!Closed THEN over ELSE on]
    BY DEF Streams!Receive
  <2> QED BY <2>1, <2>2, <2>3
<1>2. /\ DOMAIN was = {"at", "episode", "queue", "from", "seen", "lost", "last"}
      /\ Connected(was, n)
  BY <1>1 DEF ConnectionSound
<1> HIDE DEF was
<1>3. n \in Nat
  BY <1>2 DEF Connected, StreamsSound, WorkersPart, EventsSound
<1> HIDE DEF n
<1>4. ConnectionSound(over, published)
  BY <1>2 DEF ConnectionSound
<1>5. /\ DOMAIN on = {"at", "episode", "queue", "from", "seen", "lost", "last"}
      /\ on.at = was.at /\ on.episode = was.episode /\ on.queue = Tail(was.queue)
      /\ on.from = was.from /\ on.seen = was.seen + 1 /\ on.lost = was.lost + item.dropped
      /\ on.last = item.n
  BY <1>2
<1> HIDE DEF over, on
<1>6. ASSUME item # Streams!Closed PROVE ConnectionSound(on, published)
  <2>1. /\ was.queue \in Seq(Items) /\ was.last \in Nat /\ Rising(was.queue, was.last, n)
        /\ was.from \in Nat /\ was.seen \in Nat /\ was.lost \in Nat /\ was.episode \in Episodes
    BY <1>2 DEF Connected
  <2>2. /\ Tail(was.queue) \in Seq(Items) /\ item \in Items /\ Total(Tail(was.queue)) \in Nat
        /\ Total(was.queue) = 1 + item.dropped + Total(Tail(was.queue))
    BY <1>1, <2>1, TotalOfRest
  <2>3. Rising(Tail(was.queue), item.n, n)
    BY <1>1, <1>3, <1>6, <2>1, RestRising
  <2>4. item.n \in 0 .. n
    <3>1. item = was.queue[1] /\ 1 \in 1 .. Len(was.queue)
      BY <1>1, <2>1
    <3>2. item.n <= n
      BY <1>6, <2>1, <3>1 DEF Rising
    <3> QED BY <1>3, <2>2, <3>2 DEF Items
  <2>5. item.dropped \in Nat
    BY <2>2 DEF Items
  <2>6. ASSUME on.at = "subscribed" PROVE Whole(on, n)
    <3>1. /\ \A i \in 1 .. Len(was.queue) : was.queue[i] # Streams!Closed
          /\ was.from + was.seen + was.lost + Total(was.queue) = n
      BY <1>2, <1>5, <2>6 DEF Connected, Whole
    <3>2. \A i \in 1 .. Len(Tail(was.queue)) : Tail(was.queue)[i] # Streams!Closed
      <4>1. \A i \in 1 .. Len(Tail(was.queue)) :
              Tail(was.queue)[i] = was.queue[i + 1] /\ i + 1 \in 1 .. Len(was.queue)
        BY <1>1, <2>1
      <4> QED BY <3>1, <4>1
    <3>3. \A a, b, d, l, t \in Nat :
            a + b + d + (1 + l + t) = n => a + (b + 1) + (d + l) + t = n
      BY <1>3
    <3>4. was.from + (was.seen + 1) + (was.lost + item.dropped) + Total(Tail(was.queue)) = n
      <4>1. was.from + was.seen + was.lost + (1 + item.dropped + Total(Tail(was.queue))) = n
        BY <2>2, <3>1
      <4>2. /\ was.from \in Nat /\ was.seen \in Nat /\ was.lost \in Nat
            /\ Total(Tail(was.queue)) \in Nat
        BY <2>1, <2>2
      <4> HIDE DEF item
      <4> QED BY <2>5, <3>3, <4>1, <4>2
    <3> QED BY <1>5, <3>2, <3>4 DEF Whole
  <2>7. Connected(on, n)
    <3>1. /\ on.from \in Nat /\ on.seen \in Nat /\ on.lost \in Nat /\ on.last \in 0 .. n
          /\ on.episode \in Episodes
      BY <1>5, <2>1, <2>4, <2>5
    <3>2. on.queue \in Seq(Items) /\ Rising(on.queue, on.last, n)
      BY <1>5, <2>2, <2>3
    <3> QED BY <2>6, <3>1, <3>2 DEF Connected
  <2>8. n = published[on.episode]
    BY <1>5 DEF n
  <2> QED BY <1>1, <1>5, <2>7, <2>8 DEF ConnectionSound
<1>7. CASE item = Streams!Closed
  <2>1. client' = [client EXCEPT ![c] = over]
    BY <1>1, <1>7
  <2> QED BY <1>1, <1>4, <2>1, OneConnection
<1>8. CASE item # Streams!Closed
  <2>1. client' = [client EXCEPT ![c] = on]
    BY <1>1, <1>8
  <2> QED BY <1>1, <1>6, <1>8, <2>1, OneConnection
<1> QED BY <1>7, <1>8

LEMMA CloseHubSound ==
  ASSUME StreamsSound, Streams!CloseHub
  PROVE  StreamsSound'
<1>1. WorkersPart /\ ShutdownPart /\ ClientsPart
  BY DEF StreamsSound
<1>2. UNCHANGED <<durable, published, worker>> /\ WorkersPart'
  BY <1>1 DEF WorkersPart, Streams!CloseHub
<1>3. ShutdownPart'
  BY <1>1, <1>2 DEF ShutdownPart, Streams!WorkersEnded, Streams!CloseHub
<1>4. ASSUME NEW c \in Clients PROVE ConnectionSound(client'[c], published)
  <2> DEFINE was == client[c]
             queue == was.queue
             kept == IF Len(queue) = QueueSize THEN Tail(queue) ELSE queue
             x == [was EXCEPT !.at = "closing", !.queue = Append(
                     IF Len(@) = QueueSize THEN Tail(@) ELSE @, Streams!Closed)]
             n == published[was.episode]
  <2>1. ConnectionSound(was, published)
    BY <1>1 DEF ClientsPart
  <2>2. CASE was.at # "subscribed"
    <3>1. client'[c] = was
      BY <2>2 DEF Streams!CloseHub
    <3> QED BY <2>1, <3>1
  <2>3. CASE was.at = "subscribed"
    <3>1. client'[c] = x
      BY <2>3 DEF Streams!CloseHub
    <3> HIDE DEF was
    <3>2. /\ DOMAIN was = {"at", "episode", "queue", "from", "seen", "lost", "last"}
          /\ Connected(was, n)
      BY <2>1, <2>3 DEF ConnectionSound
    <3>3. /\ DOMAIN x = {"at", "episode", "queue", "from", "seen", "lost", "last"}
          /\ x.at = "closing" /\ x.episode = was.episode
          /\ x.queue = Append(kept, Streams!Closed) /\ x.from = was.from /\ x.seen = was.seen
          /\ x.lost = was.lost /\ x.last = was.last
      BY <3>2
    <3> HIDE DEF x
    <3>4. n \in Nat
      BY <1>1, <3>2 DEF Connected, WorkersPart, EventsSound
    <3> HIDE DEF n
    <3>5. /\ queue \in Seq(Items) /\ Rising(queue, was.last, n) /\ was.last \in Nat
          /\ was.last <= n
      BY <3>2, <3>4 DEF Connected
    <3> HIDE DEF queue
    <3>6. kept \in Seq(Items) /\ Rising(kept, was.last, n)
      <4>1. CASE Len(queue) = QueueSize
        <5>1. queue # <<>>
          <6>1. Len(queue) # 0
            BY <4>1, StreamAssumption
          <6> QED BY <6>1
        <5>2. Rising(Tail(queue), was.last, n) /\ Tail(queue) \in Seq(Items)
          BY <3>4, <3>5, <5>1, RestRising
        <5> QED BY <4>1, <5>2
      <4>2. CASE Len(queue) # QueueSize
        BY <3>5, <4>2
      <4> QED BY <4>1, <4>2
    <3> HIDE DEF kept
    <3>7. Streams!Closed \in Items /\ n <= n
      BY <3>4 DEF Streams!Closed, Items
    <3>8. Rising(x.queue, x.last, n)
      <4>1. Rising(Append(kept, Streams!Closed), was.last, n)
        BY <3>4, <3>5, <3>6, <3>7, MoreRising
      <4> QED BY <3>3, <4>1
    <3>9. x.queue \in Seq(Items)
      BY <3>3, <3>6, <3>7
    <3>10. Connected(x, n)
      BY <3>2, <3>3, <3>8, <3>9 DEF Connected
    <3>11. n = published[x.episode]
      BY <3>3 DEF n
    <3> QED BY <3>1, <3>3, <3>10, <3>11 DEF ConnectionSound
  <2> QED BY <2>2, <2>3
<1>5. client' = [c \in Clients |-> client'[c]]
  BY DEF Streams!CloseHub
<1>6. ClientsPart'
  BY <1>2, <1>4, <1>5 DEF ClientsPart
<1> QED BY <1>2, <1>3, <1>6 DEF StreamsSound

LEMMA StreamsKept == ASSUME StreamsSound, Streams!Next PROVE StreamsSound'
BY ServerMoves, OpenEpisodeSound, AppendEventSound, PublishSound, SubscribeSound,
   ReceiveSound, DisconnectSound, CloseHubSound DEF Streams!Next

LEMMA LossFollows == ASSUME StreamsSound PROVE Streams!StreamsAccountForLoss
<1>1. WorkersPart /\ ShutdownPart /\ ClientsPart
  BY DEF StreamsSound
<1>2. \A e \in Episodes : published[e] <= durable[e]
  BY <1>1 DEF WorkersPart, EventsSound
<1>3. hubClosed => \A e \in Episodes : published[e] = durable[e]
  <2>1. hubClosed => Streams!WorkersEnded
    BY <1>1 DEF ShutdownPart
  <2> QED BY <1>1, <2>1 DEF Streams!WorkersEnded, WorkersPart, EventsSound
<1>4. ASSUME NEW c \in Clients, client[c].at \in {"subscribed", "closing"}
      PROVE  LET queue == client[c].queue
                 e == client[c].episode
             IN  /\ \A item \in Streams!Numbers(c) :
                      item.n > client[c].last /\ item.n <= published[e]
                 /\ \A i, j \in DOMAIN queue :
                      i < j /\ queue[j] # Streams!Closed => queue[i].n < queue[j].n
                 /\ client[c].at = "subscribed" =>
                      client[c].from + client[c].seen + client[c].lost + Streams!Queued(c)
                        = published[e]
  <2> DEFINE queue == client[c].queue
             n == published[client[c].episode]
  <2>1. Connected(client[c], n)
    BY <1>1, <1>4 DEF ClientsPart, ConnectionSound
  <2>2. DOMAIN queue = 1 .. Len(queue) /\ Rising(queue, client[c].last, n)
    BY <2>1 DEF Connected
  <2>3. ASSUME client[c].at = "subscribed"
        PROVE  client[c].from + client[c].seen + client[c].lost + Streams!Queued(c) = n
    BY <2>1, <2>3, QueuedIs DEF Connected, Whole
  <2> QED BY <2>2, <2>3 DEF Rising, Streams!Numbers
<1> QED BY <1>2, <1>3, <1>4 DEF Streams!StreamsAccountForLoss

\* However events, slow readers, disconnections and shutdown interleave, a client receives
\* in order what was made durable first, and what it received, what its items say was
\* dropped and what is queued for it are together everything published since it
\* subscribed; the hub closes on nothing unpublished (api/streaming.py:80).
THEOREM StreamsAlwaysAccount == RecordsSpec => []StreamsAccountForLoss
<1> DEFINE Inv == subject = "streams" => StreamsSound
<1>1. RecordsInit => Inv
  BY StreamsBegin DEF RecordsInit, StreamsInit
<1>2. Inv /\ [RecordsNext]_recordsVars => Inv'
  <2> SUFFICES ASSUME Inv, [RecordsNext]_recordsVars, subject' = "streams" PROVE StreamsSound'
    OBVIOUS
  <2>1. CASE subject = "streams" /\ subject' = "streams" /\ Streams!Next
    BY <2>1, StreamsKept
  <2>2. CASE UNCHANGED <<subject, streamsVars>>
    BY <2>2 DEF streamsVars, StreamsSound, WorkersPart, ShutdownPart, ClientsPart,
                Streams!WorkersEnded
  <2> QED BY <2>1, <2>2, StreamsFrame
<1>3. Inv => StreamsAccountForLoss
  BY LossFollows DEF StreamsAccountForLoss
<1> QED BY <1>1, <1>2, <1>3, PTL DEF RecordsSpec

-----------------------------------------------------------------------------
(* Graph views.                                                            *)

LEMMA ViewsFrame ==
  [RecordsNext]_recordsVars =>
     \/ subject = "views" /\ subject' = "views" /\ Views!Next
     \/ UNCHANGED <<subject, facts>>
BY DEF RecordsNext, recordsVars, GraphStep, ViewsStep, AssetsStep, StreamsStep, WorkflowStep

\* What a recorded fact refers to is recorded.
FactsSound == facts \subseteq Universe /\ \A f \in facts : Views!References(f)

LEMMA Recorded ==
  ASSUME facts \subseteq Universe
  PROVE  /\ \A x \in facts : Views!Get(x.kind, x.id) = x
         /\ \A kind, id : Views!Has(kind, id) =>
              LET x == Views!Get(kind, id) IN x \in facts /\ x.kind = kind /\ x.id = id
<1>1. ASSUME NEW kind, NEW id, NEW y \in facts, y.kind = kind, y.id = id
      PROVE  /\ Views!Get(kind, id) \in facts
             /\ Views!Get(kind, id).kind = kind /\ Views!Get(kind, id).id = id
  BY <1>1 DEF Views!Get
<1>2. ASSUME NEW x \in facts PROVE Views!Get(x.kind, x.id) = x
  BY <1>1, ViewAssumption
<1> QED BY <1>1, <1>2 DEF Views!Has

LEMMA RecordedNext ==
  ASSUME (facts \subseteq Universe)', NEW kind, NEW id, NEW x \in facts', x.kind = kind, x.id = id
  PROVE  Views!Get(kind, id)' = x
<1>1. /\ Views!Get(kind, id)' \in facts'
      /\ Views!Get(kind, id)'.kind = kind /\ Views!Get(kind, id)'.id = id
  BY DEF Views!Get
<1> QED BY <1>1, ViewAssumption

LEMMA ReferredTo ==
  ASSUME NEW f, Views!References(f)
  PROVE  /\ f.kind = "obstacle" => Views!Has("world", f.world)
         /\ f.kind = "episode" =>
              /\ Views!Has("world", f.world) /\ Views!SplitAgrees(f)
              /\ Views!Has("policy", f.policy)
         /\ f.kind = "failure" =>
              /\ Views!Has("episode", f.episode)
              /\ f.obstacle # None =>
                   /\ Views!Has("obstacle", f.obstacle)
                   /\ Views!Get("obstacle", f.obstacle).world = Views!Get("episode", f.episode).world
         /\ f.kind = "correction" => Views!Has("failure", f.failure)
         /\ f.kind = "lesson" => Views!Has("correction", f.correction)
         /\ f.kind = "training"
              => Views!Has("lesson", f.lesson) /\ Views!Has("policy", f.policy)
BY DEF Views!References

\* Recording keeps what was recorded.
LEMMA StillThere ==
  ASSUME facts \subseteq Universe, (facts \subseteq Universe)', facts \subseteq facts',
         NEW kind, NEW id, Views!Has(kind, id)
  PROVE  Views!Has(kind, id)' /\ Views!Get(kind, id)' = Views!Get(kind, id)
<1>1. /\ Views!Get(kind, id) \in facts'
      /\ Views!Get(kind, id).kind = kind /\ Views!Get(kind, id).id = id
  BY Recorded
<1>2. PICK x : x = Views!Get(kind, id)
  OBVIOUS
<1>3. x \in facts' /\ x.kind = kind /\ x.id = id
  BY <1>1, <1>2
<1>4. Views!Get(kind, id)' = x
  BY <1>3, RecordedNext
<1> QED BY <1>2, <1>3, <1>4 DEF Views!Has

LEMMA FactsBegin == Views!Init => FactsSound
BY DEF Views!Init, FactsSound

LEMMA FactsKept ==
  ASSUME FactsSound, Views!Next
  PROVE  FactsSound'
<1>1. PICK f \in Universe : Views!Record(f)
  BY DEF Views!Next
<1>2. facts' = facts \cup {f} /\ Views!References(f)
  BY <1>1 DEF Views!Record
<1>3. facts \subseteq Universe /\ facts' \subseteq Universe /\ facts \subseteq facts'
  BY <1>1, <1>2 DEF FactsSound
<1>4. ASSUME NEW g \in facts' PROVE Views!References(g)'
  <2>1. Views!References(g)
    BY <1>2, <1>4 DEF FactsSound
  <2>2. \A kind, id : Views!Has(kind, id) =>
          Views!Has(kind, id)' /\ Views!Get(kind, id)' = Views!Get(kind, id)
    BY <1>3, StillThere
  <2>3. CASE g.kind = "obstacle"
    BY <2>1, <2>2, <2>3, ReferredTo DEF Views!References
  <2>4. CASE g.kind = "episode"
    BY <2>1, <2>2, <2>4, ReferredTo DEF Views!References, Views!SplitAgrees
  <2>5. CASE g.kind = "failure"
    BY <2>1, <2>2, <2>5, ReferredTo DEF Views!References
  <2>6. CASE g.kind = "correction"
    BY <2>1, <2>2, <2>6, ReferredTo DEF Views!References
  <2>7. CASE g.kind = "lesson"
    BY <2>1, <2>2, <2>7, ReferredTo DEF Views!References
  <2>8. CASE g.kind = "training"
    BY <2>1, <2>2, <2>8, ReferredTo DEF Views!References
  <2>9. CASE g.kind \notin {"obstacle", "episode", "failure", "correction", "lesson", "training"}
    BY <2>9 DEF Views!References
  <2> QED BY <2>3, <2>4, <2>5, <2>6, <2>7, <2>8, <2>9
<1> QED BY <1>3, <1>4 DEF FactsSound

\* A lesson's correction, failure and episode are recorded, and the episode's split is
\* its world's.
LEMMA Traversed ==
  ASSUME FactsSound, NEW l, l.kind = "lesson", Views!References(l)
  PROVE  LET c == Views!Get("correction", l.correction)
             f == Views!Failure(l)
             e == Views!Episode(l)
             w == Views!Get("world", e.world)
         IN  /\ Views!Has("correction", l.correction) /\ c \in facts /\ c.kind = "correction"
             /\ c.id = l.correction
             /\ Views!Has("failure", c.failure) /\ f \in facts /\ f.kind = "failure"
             /\ f.id = c.failure /\ (f.obstacle # None => Views!Has("obstacle", f.obstacle))
             /\ Views!Has("episode", f.episode) /\ e \in facts /\ e.kind = "episode"
             /\ e.id = f.episode
             /\ w \in facts /\ w.kind = "world" /\ w.id = e.world /\ w.split = e.split
<1> DEFINE c == Views!Get("correction", l.correction)
           f == Views!Get("failure", c.failure)
           e == Views!Get("episode", f.episode)
           w == Views!Get("world", e.world)
<1>0. facts \subseteq Universe /\ \A x \in facts : Views!References(x)
  BY DEF FactsSound
<1>1. /\ Views!Has("correction", l.correction) /\ c \in facts /\ c.kind = "correction"
      /\ c.id = l.correction
  BY <1>0, ReferredTo, Recorded
<1> HIDE DEF c
<1>2. /\ Views!Has("failure", c.failure) /\ f \in facts /\ f.kind = "failure"
      /\ f.id = c.failure
  BY <1>0, <1>1, ReferredTo, Recorded
<1> HIDE DEF f
<1>3. /\ Views!Has("episode", f.episode) /\ e \in facts /\ e.kind = "episode"
      /\ e.id = f.episode /\ (f.obstacle # None => Views!Has("obstacle", f.obstacle))
  BY <1>0, <1>2, ReferredTo, Recorded
<1> HIDE DEF e
<1>4. w \in facts /\ w.kind = "world" /\ w.id = e.world /\ w.split = e.split
  BY <1>0, <1>3, ReferredTo, Recorded DEF Views!SplitAgrees
<1> QED BY <1>1, <1>2, <1>3, <1>4 DEF c, f, e, Views!Failure, Views!Episode

LEMMA CurriculumIs ==
  ASSUME FactsSound, NEW l \in Views!Curriculum
  PROVE  /\ l \in facts /\ l \in Universe /\ l.kind = "lesson" /\ l.id \in Nat
         /\ Views!References(l) /\ Views!Eligible(l)
BY ViewAssumption DEF FactsSound, Views!Curriculum, Views!OfKind

LEMMA RowsAreOfCurriculum ==
  ASSUME NEW q, NEW row, row \in Views!LocalRows(q) \/ row \in Views!RemoteRows(q)
  PROVE  row[1] \in Views!Curriculum
BY DEF Views!LocalRows, Views!RemoteRows

\* Whatever the rows, an answer made of the curriculum is of approved training lessons.
LEMMA AnswersAreOfTraining ==
  ASSUME FactsSound, NEW rows, \A row \in rows : row[1] \in Views!Curriculum,
         NEW a \in Views!Answer(rows)
  PROVE  /\ \A e \in a.sources : Views!Get("episode", e).split = "training"
         /\ Views!Get("correction", Views!Get("lesson", a.lesson).correction).approved
<1>1. PICK row \in rows : a = [lesson |-> Views!Min({l.id : l \in Views!Group(rows, row)}),
                               sources |-> {Views!Episode(l).id : l \in Views!Group(rows, row)},
                               trained |-> row[2]]
  BY DEF Views!Answer
<1> DEFINE group == Views!Group(rows, row)
           ids == {l.id : l \in group}
<1>2. group \subseteq Views!Curriculum /\ row[1] \in group
  BY DEF Views!Group
<1>3. a.lesson = Views!Min(ids) /\ a.sources = {Views!Episode(l).id : l \in group}
  BY <1>1
<1> HIDE DEF group
<1>4. ids \subseteq Nat /\ ids # {}
  BY <1>2, CurriculumIs
<1>5. Views!Min(ids) \in ids
  <2>1. \E x \in ids : \A y \in ids : x <= y
    BY <1>4, LeastElement
  <2> QED BY <2>1 DEF Views!Min
<1>6. ASSUME NEW e \in a.sources PROVE Views!Get("episode", e).split = "training"
  <2>1. PICK l \in group : e = Views!Episode(l).id
    BY <1>3, <1>6
  <2>2. Views!Episode(l) \in facts /\ Views!Episode(l).kind = "episode"
    BY <1>2, CurriculumIs, Traversed
  <2>3. Views!Get("episode", e) = Views!Episode(l)
    BY <2>1, <2>2, Recorded DEF FactsSound
  <2>4. Views!Eligible(l)
    BY <1>2, CurriculumIs
  <2> QED BY <2>3, <2>4 DEF Views!Eligible
<1>7. PICK l \in group : l.id = a.lesson
  BY <1>3, <1>5
<1>8. l \in facts /\ l.kind = "lesson" /\ Views!Eligible(l)
  BY <1>2, CurriculumIs
<1>9. Views!Get("lesson", a.lesson) = l
  BY <1>7, <1>8, Recorded DEF FactsSound
<1> QED BY <1>6, <1>8, <1>9 DEF Views!Eligible

LEMMA OnlyTraining == ASSUME FactsSound PROVE Views!TrainingOnly
<1> SUFFICES ASSUME NEW q \in Views!Queries,
                    NEW a \in Views!LocalCurriculum(q) \cup Views!RemoteCurriculum(q)
             PROVE  /\ \A e \in a.sources : Views!Get("episode", e).split = "training"
                    /\ Views!Get("correction", Views!Get("lesson", a.lesson).correction).approved
  BY DEF Views!TrainingOnly
<1>1. CASE a \in Views!LocalCurriculum(q)
  <2>1. \A row \in Views!LocalRows(q) : row[1] \in Views!Curriculum
    BY RowsAreOfCurriculum
  <2>2. a \in Views!Answer(Views!LocalRows(q))
    BY <1>1 DEF Views!LocalCurriculum
  <2> QED BY <2>1, <2>2, AnswersAreOfTraining
<1>2. CASE a \in Views!RemoteCurriculum(q)
  <2>1. \A row \in Views!RemoteRows(q) : row[1] \in Views!Curriculum
    BY RowsAreOfCurriculum
  <2>2. a \in Views!Answer(Views!RemoteRows(q))
    BY <1>2 DEF Views!RemoteCurriculum
  <2> QED BY <2>1, <2>2, AnswersAreOfTraining
<1> QED BY <1>1, <1>2

\* Asked for everything, neither query leaves a lesson out.
LEMMA NothingLeftOut == Views!StoresAgree
<1>1. \A l : Views!Wanted(l, Views!Unfiltered)
  BY DEF Views!Wanted, Views!Unfiltered
<1>2. Views!Unfiltered.exclude = {}
  BY DEF Views!Unfiltered
<1>3. \A l : Views!Matched(l, Views!Unfiltered) = Views!Trained(l)
  BY <1>1, <1>2 DEF Views!Matched
<1>4. Views!LocalRows(Views!Unfiltered) = Views!RemoteRows(Views!Unfiltered)
  <2>1. \A l : Views!Trained(l) \ Views!Unfiltered.exclude = Views!Trained(l)
    BY <1>2
  <2> QED BY <1>1, <1>3, <2>1 DEF Views!LocalRows, Views!RemoteRows
<1> QED BY <1>4 DEF Views!StoresAgree, Views!LocalCurriculum, Views!RemoteCurriculum

LEMMA ProjectionIsClosed == ASSUME FactsSound PROVE Views!ProjectionClosed
<1>0. /\ facts \subseteq Universe /\ \A x \in facts : Views!References(x)
      /\ \A x, y \in facts : x.kind = y.kind /\ x.id = y.id => x = y
  BY ViewAssumption DEF FactsSound
<1>1. \A f \in facts : f.kind = "world" /\ f.id \in Views!TrainingWorlds => f.split = "training"
  BY <1>0 DEF Views!TrainingWorlds, Views!OfKind
<1>2. \A f \in facts : f.kind = "episode" /\ f.id \in Views!ShownEpisodes =>
        f.split = "training" /\ f.world \in Views!TrainingWorlds
  BY <1>0 DEF Views!ShownEpisodes, Views!OfKind
<1>3. \A f \in facts : f.kind = "failure" /\ f.id \in Views!ShownFailures =>
        f.episode \in Views!ShownEpisodes
  BY <1>0 DEF Views!ShownFailures, Views!OfKind
<1>4. \A f \in facts : f.kind = "correction" /\ f.id \in Views!ShownCorrections =>
        f.failure \in Views!ShownFailures
  BY <1>0 DEF Views!ShownCorrections, Views!OfKind
<1>5. \A w \in Views!TrainingWorlds : w \in Views!ShownIds("world")
  BY DEF Views!TrainingWorlds, Views!ShownIds, Views!Operational, Views!OfKind
<1>6. \A e \in Views!ShownEpisodes : e \in Views!ShownIds("episode")
  BY DEF Views!ShownEpisodes, Views!ShownIds, Views!Operational, Views!OfKind
<1>7. \A f \in Views!ShownFailures : f \in Views!ShownIds("failure")
  BY DEF Views!ShownFailures, Views!ShownIds, Views!Operational, Views!OfKind
<1>8. \A c \in Views!ShownCorrections : c \in Views!ShownIds("correction")
  BY DEF Views!ShownCorrections, Views!ShownIds, Views!Operational, Views!OfKind
<1>9. ASSUME NEW f \in Views!Operational
      PROVE  /\ f \in facts
             /\ f.kind = "world" => f.split = "training"
             /\ f.kind = "episode" =>
                  f.split = "training" /\ f.world \in Views!TrainingWorlds
             /\ f.kind = "obstacle" => f.world \in Views!TrainingWorlds
             /\ f.kind = "failure" => f.episode \in Views!ShownEpisodes
             /\ f.kind = "correction" => f.failure \in Views!ShownFailures
             /\ f.kind = "lesson" => f.correction \in Views!ShownCorrections
  BY <1>1, <1>2, <1>3, <1>4 DEF Views!Operational, Views!ShownLesson
<1>10. ASSUME NEW f \in Views!Operational, f.kind = "episode"
       PROVE  f.policy \in Views!ShownIds("policy")
  <2>1. f \in facts /\ Views!References(f)
    BY <1>0, <1>9
  <2>2. Views!Has("policy", f.policy)
    BY <1>10, <2>1, ReferredTo
  <2> QED BY <2>2 DEF Views!Has, Views!ShownIds, Views!Operational
<1>11. ASSUME NEW f \in Views!Operational, f.kind = "failure", f.obstacle # None
       PROVE  f.obstacle \in Views!ShownIds("obstacle")
  <2>1. f \in facts /\ Views!References(f) /\ f.episode \in Views!ShownEpisodes
    BY <1>0, <1>9, <1>11
  <2>2. /\ Views!Has("episode", f.episode) /\ Views!Has("obstacle", f.obstacle)
        /\ Views!Get("obstacle", f.obstacle).world = Views!Get("episode", f.episode).world
    BY <1>11, <2>1, ReferredTo
  <2> DEFINE e == Views!Get("episode", f.episode)
             o == Views!Get("obstacle", f.obstacle)
  <2>3. /\ e \in facts /\ e.kind = "episode" /\ e.id = f.episode
        /\ o \in facts /\ o.kind = "obstacle" /\ o.id = f.obstacle
    BY <1>0, <2>2, Recorded
  <2>4. e.world \in Views!TrainingWorlds
    BY <1>2, <2>1, <2>3
  <2>5. o \in Views!Operational
    BY <2>2, <2>3, <2>4 DEF Views!Operational
  <2> QED BY <2>3, <2>5 DEF Views!ShownIds
<1>12. \A f \in Views!Operational : f.kind \in {"world", "episode"} => f.split = "training"
  BY <1>9
<1>13. ASSUME NEW f \in Views!Operational
       PROVE  CASE f.kind = "obstacle" -> f.world \in Views!ShownIds("world")
                [] f.kind = "episode" ->
                     f.world \in Views!ShownIds("world")
                       /\ f.policy \in Views!ShownIds("policy")
                [] f.kind = "failure" ->
                     /\ f.episode \in Views!ShownIds("episode")
                     /\ f.obstacle # None => f.obstacle \in Views!ShownIds("obstacle")
                [] f.kind = "correction" -> f.failure \in Views!ShownIds("failure")
                [] f.kind = "lesson" -> f.correction \in Views!ShownIds("correction")
                [] OTHER -> TRUE
  BY <1>5, <1>6, <1>7, <1>8, <1>9, <1>10, <1>11
<1> QED BY <1>12, <1>13 DEF Views!ProjectionClosed

\* Where a lesson comes from, and who was trained with it, stays the same.
Steady ==
  /\ \A l \in Views!Curriculum :
       /\ Views!Failure(l)' = Views!Failure(l) /\ Views!Episode(l)' = Views!Episode(l)
       /\ Views!Obstacle(l)' = Views!Obstacle(l) /\ Views!Trained(l)' = Views!Trained(l)
  /\ Views!Curriculum' = Views!Curriculum

LEMMA TraversalStays ==
  ASSUME FactsSound, FactsSound', facts \subseteq facts',
         NEW l, l.kind = "lesson", Views!References(l)
  PROVE  /\ Views!Get("correction", l.correction)' = Views!Get("correction", l.correction)
         /\ Views!Failure(l)' = Views!Failure(l) /\ Views!Episode(l)' = Views!Episode(l)
         /\ Views!Obstacle(l)' = Views!Obstacle(l)
<1>0. facts \subseteq Universe /\ facts' \subseteq Universe
  BY DEF FactsSound
<1>1. \A kind, id : Views!Has(kind, id) => Views!Get(kind, id)' = Views!Get(kind, id)
  BY <1>0, StillThere
<1>2. PICK c : c = Views!Get("correction", l.correction)
  OBVIOUS
<1>3. PICK f : f = Views!Get("failure", c.failure)
  OBVIOUS
<1>4. PICK e : e = Views!Get("episode", f.episode)
  OBVIOUS
<1>5. Views!Failure(l) = f /\ Views!Episode(l) = e
  BY <1>2, <1>3, <1>4 DEF Views!Failure, Views!Episode
<1>6. /\ Views!Has("correction", l.correction) /\ Views!Has("failure", c.failure)
      /\ Views!Has("episode", f.episode) /\ (f.obstacle # None
           => Views!Has("obstacle", f.obstacle))
  BY <1>2, <1>5, Traversed
<1>7. Views!Get("correction", l.correction)' = c
  BY <1>1, <1>2, <1>6
<1>8. Views!Get("failure", c.failure)' = f
  BY <1>1, <1>3, <1>6
<1>9. Views!Get("episode", f.episode)' = e
  BY <1>1, <1>4, <1>6
<1>10. Views!Failure(l)' = f
  BY <1>7, <1>8 DEF Views!Failure
<1>11. Views!Episode(l)' = e
  BY <1>9, <1>10 DEF Views!Episode
<1>12. Views!Obstacle(l)' = Views!Obstacle(l)
  <2>1. CASE f.obstacle = None
    BY <1>5, <1>10, <2>1 DEF Views!Obstacle
  <2>2. CASE f.obstacle # None
    <3>1. Views!Get("obstacle", f.obstacle)' = Views!Get("obstacle", f.obstacle)
      BY <1>1, <1>6, <2>2
    <3> QED BY <1>5, <1>10, <2>2, <3>1 DEF Views!Obstacle
  <2> QED BY <2>1, <2>2
<1> QED BY <1>2, <1>5, <1>7, <1>10, <1>11, <1>12

\* A lesson learned in a held-out world is in no curriculum.
LEMMA HeldOutIneligible ==
  ASSUME FactsSound, NEW l, l.kind = "lesson", Views!References(l), Views!IsHeldOut(l)
  PROVE  ~ Views!Eligible(l)
<1> DEFINE c == Views!Get("correction", l.correction)
           f == Views!Failure(l)
           e == Views!Episode(l)
           w == Views!Get("world", e.world)
<1>0. facts \subseteq Universe /\ \A x, y \in Universe : x.kind = y.kind /\ x.id = y.id => x = y
  BY ViewAssumption DEF FactsSound
<1>1. /\ c \in facts /\ c.kind = "correction" /\ c.id = l.correction
      /\ f \in facts /\ f.kind = "failure" /\ f.id = c.failure
      /\ e \in facts /\ e.kind = "episode" /\ e.id = f.episode
      /\ w \in facts /\ w.kind = "world" /\ w.id = e.world /\ w.split = e.split
  BY Traversed
<1> HIDE DEF c, f, e, w
<1>2. c.id \in Views!HeldOutCorrections
  BY <1>1 DEF Views!IsHeldOut
<1>3. c.failure \in Views!HeldOutFailures
  BY <1>0, <1>1, <1>2 DEF Views!HeldOutCorrections
<1>4. f.episode \in Views!HeldOutEpisodes
  BY <1>0, <1>1, <1>3 DEF Views!HeldOutFailures
<1>5. e.world \in Views!HeldOutWorlds
  BY <1>0, <1>1, <1>4 DEF Views!HeldOutEpisodes
<1>6. e.split = "held_out"
  BY <1>0, <1>1, <1>5 DEF Views!HeldOutWorlds
<1> QED BY <1>6 DEF Views!Eligible, e

LEMMA HeldOutIsSteady ==
  ASSUME FactsSound, FactsSound', NEW n, facts' = facts \cup {n}, n \notin facts,
         Views!References(n), Views!IsHeldOut(n)
  PROVE  Steady
<1>1. facts \subseteq facts' /\ \A x \in facts' : x \in facts \/ x = n
  OBVIOUS
<1>2. n.kind \in {"world", "episode", "failure", "correction", "lesson"}
  BY DEF Views!IsHeldOut
<1>3. ASSUME NEW l, l.kind = "lesson", Views!References(l)
      PROVE  /\ Views!Failure(l)' = Views!Failure(l) /\ Views!Episode(l)' = Views!Episode(l)
             /\ Views!Obstacle(l)' = Views!Obstacle(l)
             /\ Views!Eligible(l)' <=> Views!Eligible(l)
  <2>1. /\ Views!Get("correction", l.correction)' = Views!Get("correction", l.correction)
        /\ Views!Failure(l)' = Views!Failure(l) /\ Views!Episode(l)' = Views!Episode(l)
        /\ Views!Obstacle(l)' = Views!Obstacle(l)
    BY <1>1, <1>3, TraversalStays
  <2> QED BY <2>1 DEF Views!Eligible
<1>4. ASSUME NEW l PROVE Views!Trained(l)' = Views!Trained(l)
  <2>1. n.kind # "training"
    BY <1>2
  <2>2. Views!OfKind("training")' = Views!OfKind("training")
    BY <2>1 DEF Views!OfKind
  <2> QED BY <2>2 DEF Views!Trained
<1>5. \A l \in facts : Views!References(l)
  BY DEF FactsSound
<1>6. Views!Curriculum' = Views!Curriculum
  <2>1. n.kind = "lesson" => ~ Views!Eligible(n)
    BY HeldOutIneligible
  <2>2. ASSUME NEW l PROVE l \in Views!Curriculum' <=> l \in Views!Curriculum
    <3>1. l \in Views!Curriculum <=> l \in facts /\ l.kind = "lesson" /\ Views!Eligible(l)
      BY DEF Views!Curriculum, Views!OfKind
    <3>2. l \in Views!Curriculum' <=> l \in facts' /\ l.kind = "lesson" /\ Views!Eligible(l)'
      BY DEF Views!Curriculum, Views!OfKind
    <3>3. CASE l.kind = "lesson" /\ l \in facts'
      <4>1. Views!References(l)
        BY <1>1, <1>5, <3>3
      <4>2. Views!Eligible(l)' <=> Views!Eligible(l)
        BY <1>3, <3>3, <4>1
      <4>3. l = n => ~ Views!Eligible(l)
        BY <2>1, <3>3
      <4> QED BY <1>1, <3>1, <3>2, <3>3, <4>2, <4>3
    <3>4. CASE ~(l.kind = "lesson" /\ l \in facts')
      BY <1>1, <3>1, <3>2, <3>4
    <3> QED BY <3>3, <3>4
  <2> QED BY <2>2
<1>7. \A l \in Views!Curriculum : l.kind = "lesson" /\ Views!References(l)
  BY CurriculumIs
<1> QED BY <1>3, <1>4, <1>6, <1>7 DEF Steady

LEMMA SameRows ==
  ASSUME Steady, NEW q
  PROVE  Views!LocalRows(q)' = Views!LocalRows(q) /\ Views!RemoteRows(q)' = Views!RemoteRows(q)
<1>1. ASSUME NEW l \in Views!Curriculum
      PROVE  /\ Views!Wanted(l, q)' <=> Views!Wanted(l, q)
             /\ Views!Trained(l)' = Views!Trained(l)
  BY DEF Steady, Views!Wanted
<1>2. ASSUME NEW l \in Views!Curriculum PROVE Views!Matched(l, q)' = Views!Matched(l, q)
  BY <1>1 DEF Views!Matched
<1>3. Views!Curriculum' = Views!Curriculum
  BY DEF Steady
<1>4. \A row \in Views!Curriculum \X (Views!PolicyIds \cup {None}) : row[1] \in Views!Curriculum
  OBVIOUS
<1>5. Views!LocalRows(q)' = Views!LocalRows(q)
  BY <1>1, <1>3, <1>4 DEF Views!LocalRows
<1>6. Views!RemoteRows(q)' = Views!RemoteRows(q)
  BY <1>2, <1>3, <1>4 DEF Views!RemoteRows
<1> QED BY <1>5, <1>6

LEMMA SameAnswer ==
  ASSUME Steady, NEW rows, \A row \in rows : row[1] \in Views!Curriculum
  PROVE  Views!Answer(rows)' = Views!Answer(rows)
<1>1. \A row \in rows : Views!Key(row)' = Views!Key(row)
  BY DEF Steady, Views!Key
<1>2. ASSUME NEW row \in rows PROVE Views!Group(rows, row)' = Views!Group(rows, row)
  BY <1>1 DEF Views!Group
<1>3. ASSUME NEW row \in rows
      PROVE  {Views!Episode(l).id : l \in Views!Group(rows, row)}'
               = {Views!Episode(l).id : l \in Views!Group(rows, row)}
  <2>1. \A l \in Views!Group(rows, row) : Views!Episode(l)' = Views!Episode(l)
    BY DEF Steady, Views!Group
  <2>2. {Views!Episode(l).id : l \in Views!Group(rows, row)}'
          = {Views!Episode(l)'.id : l \in Views!Group(rows, row)}
    BY <1>2
  <2> QED BY <2>1, <2>2
<1>4. \A row \in rows :
        [lesson |-> Views!Min({l.id : l \in Views!Group(rows, row)}),
         sources |-> {Views!Episode(l).id : l \in Views!Group(rows, row)},
         trained |-> row[2]]'
          = [lesson |-> Views!Min({l.id : l \in Views!Group(rows, row)}),
             sources |-> {Views!Episode(l).id : l \in Views!Group(rows, row)},
             trained |-> row[2]]
  BY <1>2, <1>3
<1> QED BY <1>4 DEF Views!Answer

LEMMA SameCurricula ==
  ASSUME Steady, NEW q
  PROVE  /\ Views!LocalCurriculum(q)' = Views!LocalCurriculum(q)
         /\ Views!RemoteCurriculum(q)' = Views!RemoteCurriculum(q)
<1>1. PICK rows : rows = Views!LocalRows(q)
  OBVIOUS
<1>2. PICK others : others = Views!RemoteRows(q)
  OBVIOUS
<1>3. Views!LocalRows(q)' = rows /\ Views!RemoteRows(q)' = others
  BY <1>1, <1>2, SameRows
<1>4. Views!Answer(rows)' = Views!Answer(rows) /\ Views!Answer(others)' = Views!Answer(others)
  BY <1>1, <1>2, RowsAreOfCurriculum, SameAnswer
<1>5. Views!LocalCurriculum(q)' = Views!Answer(rows)'
  BY <1>3 DEF Views!LocalCurriculum, Views!Answer, Views!Group, Views!Key
<1>6. Views!RemoteCurriculum(q)' = Views!Answer(others)'
  BY <1>3 DEF Views!RemoteCurriculum, Views!Answer, Views!Group, Views!Key
<1>7. Views!LocalCurriculum(q) = Views!Answer(rows)
        /\ Views!RemoteCurriculum(q) = Views!Answer(others)
  BY <1>1, <1>2 DEF Views!LocalCurriculum, Views!RemoteCurriculum
<1> QED BY <1>4, <1>5, <1>6, <1>7

\* Whatever is recorded in whatever order, both stores answer the same unfiltered
\* curriculum, of approved corrections of training episodes only, and what the
\* operational projection shows is closed and shows nothing held out
\* (graph_memory/cache.py:96, falkordb.py:259).
THEOREM ViewsAlwaysAgree == RecordsSpec => []ViewsAgree
<1> DEFINE Inv == subject = "views" => FactsSound
<1>1. RecordsInit => Inv
  BY FactsBegin DEF RecordsInit, ViewsInit
<1>2. Inv /\ [RecordsNext]_recordsVars => Inv'
  <2> SUFFICES ASSUME Inv, [RecordsNext]_recordsVars, subject' = "views" PROVE FactsSound'
    OBVIOUS
  <2>1. CASE subject = "views" /\ subject' = "views" /\ Views!Next
    BY <2>1, FactsKept
  <2>2. CASE UNCHANGED <<subject, facts>>
    <3>1. FactsSound
      BY <2>2
    <3> QED BY <2>2, <3>1 DEF FactsSound, Views!References, Views!Has, Views!Get,
       Views!SplitAgrees
  <2> QED BY <2>1, <2>2, ViewsFrame
<1>3. Inv => ViewsAgree
  BY OnlyTraining, NothingLeftOut, ProjectionIsClosed DEF ViewsAgree, Views!ViewsAgree
<1> QED BY <1>1, <1>2, <1>3, PTL DEF RecordsSpec

\* Recording held-out experience, in any state, changes no answer of either store
\* (graph_memory/cache.py:96).
THEOREM HeldOutIsAlwaysInert == RecordsSpec => HeldOutIsInert
<1> DEFINE Inv == subject = "views" => FactsSound
           Step == subject = "views" => Views!HeldOutStep
<1>1. RecordsInit => Inv
  BY FactsBegin DEF RecordsInit, ViewsInit
<1>2. Inv /\ [RecordsNext]_recordsVars => Inv'
  <2> SUFFICES ASSUME Inv, [RecordsNext]_recordsVars, subject' = "views" PROVE FactsSound'
    OBVIOUS
  <2>1. CASE subject = "views" /\ subject' = "views" /\ Views!Next
    BY <2>1, FactsKept
  <2>2. CASE UNCHANGED <<subject, facts>>
    <3>1. FactsSound
      BY <2>2
    <3> QED BY <2>2, <3>1 DEF FactsSound, Views!References, Views!Has, Views!Get,
       Views!SplitAgrees
  <2> QED BY <2>1, <2>2, ViewsFrame
<1>3. Inv /\ Inv' /\ [RecordsNext]_recordsVars => [Step]_facts
  <2> SUFFICES ASSUME Inv, Inv', [RecordsNext]_recordsVars, facts' # facts, subject = "views",
                      \A f \in facts' \ facts : Views!IsHeldOut(f), NEW q \in Views!Queries
               PROVE  /\ Views!LocalCurriculum(q)' = Views!LocalCurriculum(q)
                      /\ Views!RemoteCurriculum(q)' = Views!RemoteCurriculum(q)
    BY DEF Views!HeldOutStep
  <2>1. subject' = "views" /\ Views!Next
    BY ViewsFrame
  <2>2. PICK f \in Universe : Views!Record(f)
    BY <2>1 DEF Views!Next
  <2>3. facts' = facts \cup {f} /\ f \notin facts /\ Views!References(f) /\ Views!IsHeldOut(f)
    BY <2>2 DEF Views!Record
  <2>4. FactsSound /\ FactsSound'
    BY <2>1
  <2> QED BY <2>3, <2>4, HeldOutIsSteady, SameCurricula
<1> QED BY <1>1, <1>2, <1>3, PTL DEF RecordsSpec, HeldOutIsInert
=============================================================================
