------------------------- MODULE ServiceGuardProofs -------------------------
(***************************************************************************)
(* Proofs about ServiceGuard, for every set of process ids and every       *)
(* restart policy, and about SupervisorService, for any number of calling  *)
(* threads and of prefixes.                                                *)
(***************************************************************************)
EXTENDS ServiceGuard, SequenceTheorems, FiniteSetTheorems, TLAPS

----
(* The sequences of ages.                                                  *)

\* Eviction keeps a prefix of the ages: the cut is never beyond the end.
LEMMA RecentCut ==
  ASSUME NEW ages \in Seq(Nat)
  PROVE  LET k == Cardinality({i \in DOMAIN ages : ages[i] <= Window})
         IN  k \in 0 .. Len(ages)
<1> DEFINE K == {i \in DOMAIN ages : ages[i] <= Window}
<1>1. DOMAIN ages = 1 .. Len(ages) /\ Len(ages) \in Nat  BY LenProperties
<1>2. IsFiniteSet(1 .. Len(ages)) /\ Cardinality(1 .. Len(ages)) = Len(ages)
 <2>1. 1 \in Int /\ Len(ages) \in Int  BY <1>1, SMT
 <2>2. /\ IsFiniteSet(1 .. Len(ages))
       /\ Cardinality(1 .. Len(ages))
            = IF 1 > Len(ages) THEN 0 ELSE Len(ages) - 1 + 1
   BY <2>1, FS_Interval, Zenon
 <2> QED  BY <1>1, <2>2, SMT
<1>3. K \subseteq 1 .. Len(ages)  BY <1>1
<1>4. IsFiniteSet(K) /\ Cardinality(K) <= Len(ages)  BY <1>2, <1>3, FS_Subset
<1>5. Cardinality(K) \in Nat  BY <1>4, FS_CardinalityType
<1> QED  BY <1>1, <1>4, <1>5

LEMMA RecentType ==
  ASSUME NEW ages \in Seq(Nat)
  PROVE  /\ Recent(ages) \in Seq(Nat)
         /\ Len(Recent(ages)) <= Len(ages)
         /\ \A i \in 1 .. Len(Recent(ages)) : Recent(ages)[i] = ages[i]
<1> DEFINE k == Cardinality({i \in DOMAIN ages : ages[i] <= Window})
<1>1. k \in 0 .. Len(ages)  BY RecentCut
<1>2. Len(ages) \in Nat  BY LenProperties
<1> HIDE DEF k
<1>3. \A i \in 1 .. k : ages[i] \in Nat  BY <1>1, <1>2, ElementOfSeq, SMT
<1>4. /\ SubSeq(ages, 1, k) \in Seq(Nat)
      /\ Len(SubSeq(ages, 1, k)) = k
      /\ \A i \in 1 .. k : SubSeq(ages, 1, k)[i] = ages[i]
  BY <1>1, <1>2, SMT
<1>5. Recent(ages) = SubSeq(ages, 1, k)  BY DEF Recent, k
<1> QED  BY <1>1, <1>2, <1>4, <1>5

LEMMA NoteNowType ==
  ASSUME NEW ages \in Seq(Nat)
  PROVE  /\ NoteNow(ages) \in Seq(Nat)
         /\ Len(NoteNow(ages)) = Len(ages) + 1
         /\ NoteNow(ages)[1] = 0
         /\ \A i \in 1 .. Len(ages) : NoteNow(ages)[i + 1] = ages[i]
<1>1. <<0>> \in Seq(Nat) /\ Len(<<0>>) = 1 /\ <<0>>[1] = 0  OBVIOUS
<1>2. Len(ages) \in Nat  BY LenProperties
<1>3. /\ <<0>> \o ages \in Seq(Nat)
      /\ Len(<<0>> \o ages) = 1 + Len(ages)
  BY <1>1, ConcatProperties
<1>4. \A i \in 1 .. Len(ages) + 1 :
        (<<0>> \o ages)[i] = IF i <= 1 THEN <<0>>[i] ELSE ages[i - 1]
  BY <1>1, <1>2, ConcatProperties, SMT
<1> QED  BY <1>1, <1>2, <1>3, <1>4, SMT DEF NoteNow

LEMMA AgesOlderType ==
  ASSUME NEW ages \in Seq(Nat)
  PROVE  /\ AgesOlder(ages) \in Seq(Nat)
         /\ Len(AgesOlder(ages)) = Len(ages)
         /\ \A i \in 1 .. Len(ages) : AgesOlder(ages)[i] = Older(ages[i])
<1>1. DOMAIN ages = 1 .. Len(ages) /\ Len(ages) \in Nat  BY LenProperties
<1>2. \A i \in 1 .. Len(ages) : Older(ages[i]) \in Nat  BY <1>1, ElementOfSeq, SMT DEF Older
<1>3. AgesOlder(ages) = [i \in 1 .. Len(ages) |-> Older(ages[i])]  BY <1>1 DEF AgesOlder
<1>4. AgesOlder(ages) \in Seq(Nat) /\ Len(AgesOlder(ages)) = Len(ages)
  BY <1>1, <1>2, <1>3, IsASeq, LenProperties
<1> QED  BY <1>3, <1>4

LEMMA SpawnType ==
  ASSUME NEW ages \in Seq(Nat)
  PROVE  NoteSpawn(ages) \in Seq(Nat)
<1>1. CASE Len(ages) <= MaxCrashes  BY <1>1, NoteNowType DEF NoteSpawn
<1>2. CASE ~(Len(ages) <= MaxCrashes)
 <2>1. MaxCrashes \in Nat /\ Len(ages) \in Nat  BY GuardAssumption, LenProperties
 <2>2. SubSeq(ages, 1, MaxCrashes) \in Seq(Nat)  BY <1>2, <2>1, SMT
 <2> QED  BY <1>2, <2>2, NoteNowType DEF NoteSpawn
<1> QED  BY <1>1, <1>2

LEMMA NoteSpawnShape ==
  ASSUME NEW ages \in Seq(Nat)
  PROVE  /\ NoteSpawn(ages) \in Seq(Nat)
         /\ Len(NoteSpawn(ages)) <= Len(ages) + 1
         /\ \A i \in 2 .. Len(NoteSpawn(ages)) : NoteSpawn(ages)[i] = ages[i - 1]
<1>1. MaxCrashes \in Nat /\ Len(ages) \in Nat  BY GuardAssumption, LenProperties
<1>2. ASSUME NEW s \in Seq(Nat), Len(s) <= Len(ages),
             \A i \in 1 .. Len(s) : s[i] = ages[i]
      PROVE  /\ Len(NoteNow(s)) <= Len(ages) + 1
             /\ \A i \in 2 .. Len(NoteNow(s)) : NoteNow(s)[i] = ages[i - 1]
 <2>1. Len(s) \in Nat /\ Len(NoteNow(s)) = Len(s) + 1  BY NoteNowType, LenProperties
 <2>2. ASSUME NEW i \in 2 .. Len(NoteNow(s))
       PROVE  NoteNow(s)[i] = ages[i - 1]
  <3>1. i - 1 \in 1 .. Len(s) /\ (i - 1) + 1 = i  BY <2>1, SMT
  <3>2. NoteNow(s)[(i - 1) + 1] = s[i - 1]  BY <3>1, NoteNowType
  <3> QED  BY <1>2, <3>1, <3>2
 <2>3. Len(NoteNow(s)) <= Len(ages) + 1  BY <1>1, <1>2, <2>1, SMT
 <2> QED  BY <2>2, <2>3
<1>3. CASE Len(ages) <= MaxCrashes  BY <1>1, <1>2, <1>3, SpawnType DEF NoteSpawn
<1>4. CASE ~(Len(ages) <= MaxCrashes)
 <2> DEFINE cut == SubSeq(ages, 1, MaxCrashes)
 <2>1. /\ cut \in Seq(Nat)
       /\ Len(cut) = MaxCrashes
       /\ \A i \in 1 .. MaxCrashes : cut[i] = ages[i]
   BY <1>1, <1>4, SMT
 <2>2. NoteSpawn(ages) = NoteNow(cut)  BY <1>4 DEF NoteSpawn
 <2> HIDE DEF cut
 <2>3. Len(cut) <= Len(ages) /\ \A i \in 1 .. Len(cut) : cut[i] = ages[i]
   BY <1>1, <1>4, <2>1, SMT
 <2>4. /\ Len(NoteNow(cut)) <= Len(ages) + 1
       /\ \A i \in 2 .. Len(NoteNow(cut)) : NoteNow(cut)[i] = ages[i - 1]
   BY <1>2, <2>1, <2>3
 <2> QED  BY <2>2, <2>4, SpawnType
<1> QED  BY <1>3, <1>4

LEMMA DelayType == ASSUME NEW d \in Nat PROVE NextDelay(d) \in Nat
<1>1. /\ InitialDelay \in Nat /\ FirstDelay \in Nat
      /\ BackoffFactor \in Nat /\ MaxDelay \in Nat
  BY GuardAssumption
<1>2. d * BackoffFactor \in Nat  BY <1>1, SMT
<1> QED  BY <1>1, <1>2 DEF NextDelay, WineBackoff, WaylandBackoff, Capped

----
(* The inductive invariant of the two threads.                             *)

\* The monitor has a child it has not given up on.
Holding == {"publish", "poll", "attach", "wait", "polling"}

\* A service process that runs is the monitor's current child, and the monitor
\* has not come to the point of waiting for it yet: this is what makes
\* NoOrphanService inductive.
ChildIsHeld ==
  \A p \in Pids : proc[p] \in OwnLive => p = mpid /\ mpc \in Holding

ThreadsOK ==
  /\ ~joinable => mpc = "none"
  /\ mpc \in Holding \cup {"reaped"} => mpid \in Pids
  /\ spc \in {"term", "grace", "kill", "reap", "clear"} => spid \in Pids

IInv == TypeOK /\ ThreadsOK /\ ChildIsHeld

LEMMA InitIInv == Init => IInv
<1> SUFFICES ASSUME Init PROVE IInv  OBVIOUS
<1>1. <<>> \in Seq(Nat)  OBVIOUS
<1>2. TypeOK
  BY <1>1, GuardAssumption DEF Init, TypeOK, ProcState, OwnLive, MonitorState, StopState
<1>3. ThreadsOK /\ ChildIsHeld  BY DEF Init, ThreadsOK, ChildIsHeld, Holding, OwnLive
<1> QED  BY <1>2, <1>3 DEF IInv

LEMMA MonitorIInv == IInv /\ Monitor => IInv'
<1> SUFFICES ASSUME IInv, Monitor PROVE IInv'  OBVIOUS
<1> USE GuardAssumption DEF IInv, TypeOK, ThreadsOK, ChildIsHeld, Holding, OwnLive,
        ProcState, MonitorState, StopState, Goto, policyVars, stopVars,
        monitorVars
<1>1. CASE MonitorTop  BY <1>1, RecentType DEF MonitorTop
<1>2. CASE MonitorBackoffOver  BY <1>2 DEF MonitorBackoffOver
<1>3. CASE MonitorSocketFree  BY <1>3 DEF MonitorSocketFree
<1>4. CASE MonitorSpawn  BY <1>4, SpawnType DEF MonitorSpawn
<1>5. CASE MonitorSpawnFails  BY <1>5 DEF MonitorSpawnFails
<1>6. CASE MonitorRetry  BY <1>6 DEF MonitorRetry
<1>7. CASE MonitorPublish  BY <1>7 DEF MonitorPublish
<1>8. CASE MonitorSocketUp  BY <1>8 DEF MonitorSocketUp
<1>9. CASE MonitorSocketTimeout  BY <1>9 DEF MonitorSocketTimeout, Signal, AfterSignal
<1>10. CASE MonitorAttach  BY <1>10 DEF MonitorAttach
<1>11. CASE MonitorNoKqueue  BY <1>11 DEF MonitorNoKqueue
<1>12. CASE MonitorPollReap  BY <1>12 DEF MonitorPollReap, WaitPid
<1>13. CASE MonitorReap  BY <1>13 DEF MonitorReap, WaitPid
<1>14. CASE MonitorNoteCrash  BY <1>14, NoteNowType, DelayType DEF MonitorNoteCrash
<1> QED
  BY <1>1, <1>2, <1>3, <1>4, <1>5, <1>6, <1>7, <1>8, <1>9, <1>10, <1>11, <1>12, <1>13, <1>14 DEF Monitor

LEMMA StopIInv == IInv /\ (Start \/ StopRequest \/ Stop) => IInv'
<1> SUFFICES ASSUME IInv, Start \/ StopRequest \/ Stop PROVE IInv'  OBVIOUS
<1> USE GuardAssumption DEF IInv, TypeOK, ThreadsOK, ChildIsHeld, Holding, OwnLive,
        ProcState, MonitorState, StopState, policyVars, stopVars, monitorVars
<1>1. CASE Start  BY <1>1 DEF Start
<1>2. CASE StopRequest  BY <1>2 DEF StopRequest
<1>3. CASE StopLoad  BY <1>3 DEF StopLoad
<1>4. CASE StopTerm  BY <1>4 DEF StopTerm, Signal, AfterSignal
<1>5. CASE StopGraceOver  BY <1>5 DEF StopGraceOver
<1>6. CASE StopKill  BY <1>6 DEF StopKill, Signal, AfterSignal
<1>7. CASE StopReap  BY <1>7 DEF StopReap, WaitPid
<1>8. CASE StopClear  BY <1>8 DEF StopClear
<1>9. CASE StopJoin  BY <1>9 DEF StopJoin
<1> QED  BY <1>1, <1>2, <1>3, <1>4, <1>5, <1>6, <1>7, <1>8, <1>9 DEF Stop

LEMMA EnvironmentIInv == IInv /\ Environment => IInv'
<1> SUFFICES ASSUME IInv, Environment PROVE IInv'  OBVIOUS
<1> USE GuardAssumption DEF IInv, TypeOK, ThreadsOK, ChildIsHeld, Holding, OwnLive,
        ProcState, MonitorState, StopState, policyVars, stopVars, monitorVars
<1>1. ASSUME NEW p \in Pids, ServiceExits(p) PROVE IInv'  BY <1>1 DEF ServiceExits
<1>2. ASSUME NEW p \in Pids, ServiceBinds(p) PROVE IInv'  BY <1>2 DEF ServiceBinds
<1>3. ASSUME NEW p \in Pids, ForeignStarts(p) PROVE IInv'  BY <1>3 DEF ForeignStarts
<1>4. ASSUME NEW p \in Pids, ForeignExits(p) PROVE IInv'  BY <1>4 DEF ForeignExits
<1>5. CASE ExternalSocket  BY <1>5 DEF ExternalSocket
<1>6. CASE Tick  BY <1>6, AgesOlderType DEF Tick
<1> QED  BY <1>1, <1>2, <1>3, <1>4, <1>5, <1>6 DEF Environment

\* The strengthened invariant holds of every state the guard reaches.
THEOREM InductiveInvariant == Spec => []IInv
<1>1. IInv /\ UNCHANGED vars => IInv'
  BY DEF IInv, TypeOK, ThreadsOK, ChildIsHeld, vars, policyVars, stopVars, monitorVars
<1>2. IInv /\ [Next]_vars => IInv'  BY <1>1, MonitorIInv, StopIInv, EnvironmentIInv DEF Next
<1> QED  BY InitIInv, <1>2, PTL DEF Spec

\* The guard's fields and its threads' locals keep their types, for every set
\* of pids and every restart policy.
THEOREM TypeCorrect == Spec => []TypeOK
<1>1. IInv => TypeOK  BY DEF IInv
<1> QED  BY InductiveInvariant, <1>1, PTL

\* No interleaving of stop() with spawn(), of crashes and of reused pids leaves a
\* service process behind without a monitor: for every set of pids and every
\* restart policy.
THEOREM NoOrphans == Spec => []NoOrphanService
<1>1. IInv => NoOrphanService
  BY DEF IInv, ThreadsOK, ChildIsHeld, Holding, NoOrphanService, ServiceUp
<1> QED  BY InductiveInvariant, <1>1, PTL

----
(* The crash-rate limit.                                                   *)

Sorted(ages) == \A i, j \in 1 .. Len(ages) : i <= j => ages[i] <= ages[j]

\* With the newest crash first, the crashes inside the window are the ones that
\* the eviction keeps.
LEMMA RecentKeepsWindow ==
  ASSUME NEW ages \in Seq(Nat), Sorted(ages),
         NEW i \in 1 .. Len(ages), ages[i] <= Window
  PROVE  i <= Len(Recent(ages))
<1> DEFINE K == {n \in DOMAIN ages : ages[n] <= Window}
<1>1. DOMAIN ages = 1 .. Len(ages) /\ Len(ages) \in Nat /\ Window \in Nat
  BY LenProperties, GuardAssumption
<1>2. \A n \in 1 .. Len(ages) : ages[n] \in Nat  BY ElementOfSeq
<1>3. 1 .. i \subseteq K  BY <1>1, <1>2, SMT DEF Sorted
<1>4. IsFiniteSet(K)
 <2>1. 1 \in Int /\ Len(ages) \in Int  BY <1>1, SMT
 <2>2. IsFiniteSet(1 .. Len(ages))  BY <2>1, FS_Interval, Zenon
 <2>3. K \in SUBSET (1 .. Len(ages))  BY <1>1
 <2> QED  BY <2>2, <2>3, FS_Subset, Zenon
<1>5. Cardinality(1 .. i) = i
 <2>1. 1 \in Int /\ i \in Int /\ i >= 1  BY <1>1, SMT
 <2>2. Cardinality(1 .. i) = IF 1 > i THEN 0 ELSE i - 1 + 1  BY <2>1, FS_Interval, Zenon
 <2> QED  BY <2>1, <2>2, SMT
<1>6. i <= Cardinality(K)
 <2>1. Cardinality(1 .. i) <= Cardinality(K)  BY <1>3, <1>4, FS_Subset, Zenon
 <2> QED  BY <1>5, <2>1
<1>7. Cardinality(K) \in 0 .. Len(ages)  BY RecentCut
<1>8. Recent(ages) = SubSeq(ages, 1, Cardinality(K))  BY DEF Recent
<1> HIDE DEF K
<1>9. Len(SubSeq(ages, 1, Cardinality(K))) = Cardinality(K)  BY <1>1, <1>7, SMT
<1> QED  BY <1>6, <1>8, <1>9

\* While the monitor has a child it has not noted as crashed, the newest spawn
\* has no crash yet.
Offset == IF mpc \in Holding \cup {"reaped"} THEN 1 ELSE 0

\* Every spawn inside the window has ended in a crash that is still counted, but
\* for the one of the current child.
SpawnsAreCounted ==
  \A j \in 1 .. Len(spawnAges) : j > Offset =>
    \/ spawnAges[j] > Window
    \/ j - Offset <= Len(crashAges) /\ crashAges[j - Offset] <= spawnAges[j]

\* Past the check at the top of the loop the count is below the limit.
BelowLimit ==
  mpc \in {"backoff", "sockwait", "spawn"} => Len(crashAges) < MaxCrashes

RateInv ==
  MaxCrashes > 0 =>
    /\ Sorted(crashAges)
    /\ SpawnsAreCounted
    /\ BelowLimit
    /\ SpawnRateBounded

LEMMA InitRateInv == Init => RateInv
BY GuardAssumption DEF Init, RateInv, Sorted, SpawnsAreCounted, BelowLimit,
   SpawnRateBounded, Offset, Holding

\* A step that leaves the ages alone keeps RateInv if it keeps the Offset and does
\* not go past the check at the top.
LEMMA RateInvStutter ==
  ASSUME RateInv, UNCHANGED <<crashAges, spawnAges>>, Offset' = Offset,
         \/ mpc' \notin {"backoff", "sockwait", "spawn"}
         \/ mpc \in {"backoff", "sockwait", "spawn"}
  PROVE  RateInv'
BY DEF RateInv, Sorted, SpawnsAreCounted, BelowLimit, SpawnRateBounded

LEMMA TopRateInv == IInv /\ RateInv /\ MonitorTop => RateInv'
<1> SUFFICES ASSUME IInv, RateInv, MonitorTop, MaxCrashes > 0
             PROVE  /\ Sorted(crashAges)'
                    /\ SpawnsAreCounted'
                    /\ BelowLimit'
                    /\ SpawnRateBounded'
  BY DEF RateInv
<1>1. /\ crashAges \in Seq(Nat) /\ spawnAges \in Seq(Nat)
      /\ MaxCrashes \in Nat /\ Window \in Nat
  BY GuardAssumption DEF IInv, TypeOK
<1>2. Offset = 0 /\ Offset' = 0  BY DEF MonitorTop, Offset, Holding
<1>3. spawnAges' = spawnAges  BY DEF MonitorTop
<1>4. CASE stopRequested  BY <1>2, <1>3, <1>4
     DEF MonitorTop, RateInv, Sorted, SpawnsAreCounted, BelowLimit, SpawnRateBounded
<1>5. CASE ~stopRequested
 <2>1. crashAges' = Recent(crashAges)  BY <1>5 DEF MonitorTop
 <2>2. /\ Recent(crashAges) \in Seq(Nat)
       /\ Len(Recent(crashAges)) <= Len(crashAges)
       /\ \A i \in 1 .. Len(Recent(crashAges)) :
            Recent(crashAges)[i] = crashAges[i]
   BY <1>1, RecentType
 <2>3. /\ \A i \in 1 .. Len(crashAges) : crashAges[i] \in Nat
       /\ \A i \in 1 .. Len(spawnAges) : spawnAges[i] \in Nat
       /\ Len(crashAges) \in Nat /\ Len(Recent(crashAges)) \in Nat
       /\ Len(spawnAges) \in Nat
   BY <1>1, <2>2, ElementOfSeq, LenProperties
 <2>4. Sorted(crashAges)'
  <3>1. Sorted(crashAges)  BY DEF RateInv
  <3>2. \A i \in 1 .. Len(Recent(crashAges)) : i \in 1 .. Len(crashAges)  BY <2>2, <2>3, SMT
  <3>3. Sorted(Recent(crashAges))  BY <2>2, <3>1, <3>2 DEF Sorted
  <3> QED  BY <2>1, <3>3 DEF Sorted
 <2>5. \A i \in 1 .. Len(crashAges) :
         crashAges[i] <= Window => i <= Len(Recent(crashAges))
   BY <1>1, RecentKeepsWindow DEF RateInv
 <2>6. SpawnsAreCounted'
  <3> SUFFICES ASSUME NEW j \in 1 .. Len(spawnAges), ~(spawnAges[j] > Window)
               PROVE  /\ j <= Len(Recent(crashAges))
                      /\ Recent(crashAges)[j] <= spawnAges[j]
    BY <1>2, <1>3, <2>1, <2>3, SMT DEF SpawnsAreCounted
  <3>1. j <= Len(crashAges) /\ crashAges[j] <= spawnAges[j]
    BY <1>1, <1>2, <2>3, SMT DEF RateInv, SpawnsAreCounted
  <3>2. j \in 1 .. Len(crashAges) /\ crashAges[j] <= Window  BY <1>1, <2>3, <3>1, SMT
  <3>3. j <= Len(Recent(crashAges))  BY <2>5, <3>2
  <3> QED  BY <2>2, <2>3, <3>1, <3>3, SMT
 <2>7. BelowLimit'  BY <1>1, <1>5, <2>1, <2>3, SMT DEF MonitorTop, BelowLimit, RateTooHigh
 <2>8. SpawnRateBounded'  BY <1>3 DEF RateInv, SpawnRateBounded
 <2> QED  BY <2>4, <2>6, <2>7, <2>8
<1> QED  BY <1>4, <1>5

LEMMA SpawnRateInv == IInv /\ RateInv /\ MonitorSpawn => RateInv'
<1> SUFFICES ASSUME IInv, RateInv, MonitorSpawn, MaxCrashes > 0
             PROVE  /\ Sorted(crashAges)'
                    /\ SpawnsAreCounted'
                    /\ BelowLimit'
                    /\ SpawnRateBounded'
  BY DEF RateInv
<1>1. /\ crashAges \in Seq(Nat) /\ spawnAges \in Seq(Nat)
      /\ MaxCrashes \in Nat /\ Window \in Nat
  BY GuardAssumption DEF IInv, TypeOK
<1>2. Offset = 0 /\ Offset' = 1  BY DEF MonitorSpawn, Goto, Offset, Holding
<1>3. crashAges' = crashAges /\ spawnAges' = NoteSpawn(spawnAges)  BY DEF MonitorSpawn
<1>4. Len(crashAges) < MaxCrashes  BY DEF MonitorSpawn, Goto, RateInv, BelowLimit
<1>5. /\ NoteSpawn(spawnAges) \in Seq(Nat)
      /\ Len(NoteSpawn(spawnAges)) <= Len(spawnAges) + 1
      /\ \A i \in 2 .. Len(NoteSpawn(spawnAges)) :
           NoteSpawn(spawnAges)[i] = spawnAges[i - 1]
  BY <1>1, NoteSpawnShape
<1>6. /\ Len(crashAges) \in Nat /\ Len(spawnAges) \in Nat
      /\ Len(NoteSpawn(spawnAges)) \in Nat
      /\ \A i \in 1 .. Len(spawnAges) : spawnAges[i] \in Nat
  BY <1>1, <1>5, ElementOfSeq, LenProperties
<1>7. \A j \in 1 .. Len(spawnAges) :
        \/ spawnAges[j] > Window
        \/ j <= Len(crashAges) /\ crashAges[j] <= spawnAges[j]
  BY <1>2, <1>6, SMT DEF RateInv, SpawnsAreCounted
<1>8. Sorted(crashAges)' /\ BelowLimit'
  BY <1>3 DEF RateInv, Sorted, BelowLimit, MonitorSpawn, Goto
<1>9. SpawnsAreCounted'  BY <1>2, <1>3, <1>5, <1>6, <1>7, SMT DEF SpawnsAreCounted
<1>10. SpawnRateBounded'
 <2> SUFFICES ASSUME NEW i \in 1 .. Len(NoteSpawn(spawnAges)), i > MaxCrashes
              PROVE  NoteSpawn(spawnAges)[i] > Window
   BY <1>3, <1>5, LenProperties DEF SpawnRateBounded
 <2>1. /\ i \in 2 .. Len(NoteSpawn(spawnAges))
       /\ i - 1 \in 1 .. Len(spawnAges)
       /\ ~(i - 1 <= Len(crashAges))
   BY <1>1, <1>4, <1>5, <1>6, SMT
 <2> QED  BY <1>5, <1>7, <2>1
<1> QED  BY <1>8, <1>9, <1>10

LEMMA CrashRateInv == IInv /\ RateInv /\ MonitorNoteCrash => RateInv'
<1> SUFFICES ASSUME IInv, RateInv, MonitorNoteCrash, MaxCrashes > 0
             PROVE  /\ Sorted(crashAges)'
                    /\ SpawnsAreCounted'
                    /\ BelowLimit'
                    /\ SpawnRateBounded'
  BY DEF RateInv
<1>1. /\ crashAges \in Seq(Nat) /\ spawnAges \in Seq(Nat)
      /\ MaxCrashes \in Nat /\ Window \in Nat
  BY GuardAssumption DEF IInv, TypeOK
<1>2. Offset = 1 /\ Offset' = 0  BY DEF MonitorNoteCrash, Goto, Offset, Holding
<1>3. crashAges' = NoteNow(crashAges) /\ spawnAges' = spawnAges  BY DEF MonitorNoteCrash
<1>4. /\ Len(NoteNow(crashAges)) = Len(crashAges) + 1
      /\ NoteNow(crashAges)[1] = 0
      /\ \A i \in 1 .. Len(crashAges) :
           NoteNow(crashAges)[i + 1] = crashAges[i]
  BY <1>1, NoteNowType
<1>5. /\ Len(crashAges) \in Nat /\ Len(spawnAges) \in Nat
      /\ \A i \in 1 .. Len(spawnAges) : spawnAges[i] \in Nat
      /\ \A i \in 1 .. Len(crashAges) : crashAges[i] \in Nat
  BY <1>1, ElementOfSeq, LenProperties
<1>6. \A i \in 2 .. Len(crashAges) + 1 :
        NoteNow(crashAges)[i] = crashAges[i - 1] /\ i - 1 \in 1 .. Len(crashAges)
 <2> SUFFICES ASSUME NEW i \in 2 .. Len(crashAges) + 1
              PROVE NoteNow(crashAges)[i] = crashAges[i - 1]
                      /\ i - 1 \in 1 .. Len(crashAges)
   OBVIOUS
 <2>1. i - 1 \in 1 .. Len(crashAges) /\ (i - 1) + 1 = i  BY <1>5, SMT
 <2> QED  BY <1>4, <2>1
<1>7. Sorted(crashAges)'
 <2>1. Sorted(crashAges)  BY DEF RateInv
 <2>2. ASSUME NEW i \in 1 .. Len(crashAges) + 1,
              NEW j \in 1 .. Len(crashAges) + 1, i <= j
       PROVE  NoteNow(crashAges)[i] <= NoteNow(crashAges)[j]
  <3>1. CASE i = 1
   <4>1. j = 1 \/ j \in 2 .. Len(crashAges) + 1  BY <1>5, SMT
   <4>2. NoteNow(crashAges)[j] \in Nat  BY <1>4, <1>5, <1>6, <4>1
   <4> QED  BY <1>4, <3>1, <4>2, SMT
  <3>2. CASE i # 1
   <4>1. i \in 2 .. Len(crashAges) + 1 /\ j \in 2 .. Len(crashAges) + 1
     BY <1>5, <2>2, <3>2, SMT
   <4>2. i - 1 <= j - 1  BY <1>5, <2>2, SMT
   <4> QED  BY <1>6, <2>1, <4>1, <4>2 DEF Sorted
  <3> QED  BY <3>1, <3>2
 <2>3. Sorted(NoteNow(crashAges))  BY <1>4, <2>2 DEF Sorted
 <2> QED  BY <1>3, <2>3 DEF Sorted
<1>8. SpawnsAreCounted'  BY <1>2, <1>3, <1>4, <1>5, <1>6, SMT DEF RateInv, SpawnsAreCounted
<1>9. BelowLimit' /\ SpawnRateBounded'
  BY <1>3 DEF RateInv, BelowLimit, SpawnRateBounded, MonitorNoteCrash, Goto
<1> QED  BY <1>7, <1>8, <1>9

LEMMA TickRateInv == IInv /\ RateInv /\ Tick => RateInv'
<1> SUFFICES ASSUME IInv, RateInv, Tick, MaxCrashes > 0
             PROVE  /\ Sorted(crashAges)'
                    /\ SpawnsAreCounted'
                    /\ BelowLimit'
                    /\ SpawnRateBounded'
  BY DEF RateInv
<1>1. /\ crashAges \in Seq(Nat) /\ spawnAges \in Seq(Nat)
      /\ MaxCrashes \in Nat /\ Window \in Nat
  BY GuardAssumption DEF IInv, TypeOK
<1>2. Offset' = Offset /\ Offset \in {0, 1} /\ mpc' = mpc  BY DEF Tick, Offset
<1>3. crashAges' = AgesOlder(crashAges) /\ spawnAges' = AgesOlder(spawnAges)  BY DEF Tick
<1>4. /\ Len(AgesOlder(crashAges)) = Len(crashAges)
      /\ Len(AgesOlder(spawnAges)) = Len(spawnAges)
      /\ \A i \in 1 .. Len(crashAges) : AgesOlder(crashAges)[i] = Older(crashAges[i])
      /\ \A i \in 1 .. Len(spawnAges) : AgesOlder(spawnAges)[i] = Older(spawnAges[i])
      /\ DOMAIN AgesOlder(spawnAges) = 1 .. Len(spawnAges)
      /\ DOMAIN spawnAges = 1 .. Len(spawnAges)
  BY <1>1, AgesOlderType, LenProperties
<1>5. /\ Len(crashAges) \in Nat /\ Len(spawnAges) \in Nat
      /\ \A i \in 1 .. Len(spawnAges) : spawnAges[i] \in Nat
      /\ \A i \in 1 .. Len(crashAges) : crashAges[i] \in Nat
  BY <1>1, ElementOfSeq, LenProperties
<1>6. /\ \A a, b \in Nat : a <= b => Older(a) <= Older(b)
      /\ \A a \in Nat : a > Window => Older(a) > Window
  BY <1>1, SMT DEF Older
<1>7. Sorted(crashAges)'  BY <1>3, <1>4, <1>5, <1>6 DEF RateInv, Sorted
<1>8. SpawnsAreCounted'  BY <1>2, <1>3, <1>4, <1>5, <1>6, SMT DEF RateInv, SpawnsAreCounted
<1>9. BelowLimit'  BY <1>2, <1>3, <1>4 DEF RateInv, BelowLimit
<1>10. SpawnRateBounded'  BY <1>3, <1>4, <1>5, <1>6 DEF RateInv, SpawnRateBounded
<1> QED  BY <1>7, <1>8, <1>9, <1>10

LEMMA RateInvStep == IInv /\ RateInv /\ [Next]_vars => RateInv'
<1> SUFFICES ASSUME IInv, RateInv, [Next]_vars PROVE RateInv'  OBVIOUS
<1> USE DEF Offset, Holding, Goto, policyVars, stopVars, monitorVars
<1>1. CASE MonitorBackoffOver  BY <1>1, RateInvStutter DEF MonitorBackoffOver
<1>2. CASE MonitorSocketFree  BY <1>2, RateInvStutter DEF MonitorSocketFree
<1>3. CASE MonitorSpawnFails  BY <1>3, RateInvStutter DEF MonitorSpawnFails
<1>4. CASE MonitorRetry  BY <1>4, RateInvStutter DEF MonitorRetry
<1>5. CASE MonitorPublish  BY <1>5, RateInvStutter DEF MonitorPublish
<1>6. CASE MonitorSocketUp  BY <1>6, RateInvStutter DEF MonitorSocketUp
<1>7. CASE MonitorSocketTimeout  BY <1>7, RateInvStutter DEF MonitorSocketTimeout
<1>8. CASE MonitorAttach  BY <1>8, RateInvStutter DEF MonitorAttach
<1>9. CASE MonitorNoKqueue  BY <1>9, RateInvStutter DEF MonitorNoKqueue
<1>10. CASE MonitorPollReap  BY <1>10, RateInvStutter DEF MonitorPollReap
<1>11. CASE MonitorReap  BY <1>11, RateInvStutter DEF MonitorReap
<1>12. CASE Start  BY <1>12, RateInvStutter DEF Start, IInv, ThreadsOK
<1>13. CASE StopRequest  BY <1>13, RateInvStutter DEF StopRequest, IInv, ThreadsOK
<1>14. CASE StopJoin  BY <1>14, RateInvStutter DEF StopJoin, IInv, ThreadsOK
<1>15. CASE StopLoad \/ StopTerm \/ StopGraceOver \/ StopKill \/ StopReap \/ StopClear
  BY <1>15, RateInvStutter DEF StopLoad, StopTerm, StopGraceOver, StopKill, StopReap, StopClear
<1>16. CASE \E p \in Pids : \/ ServiceExits(p) \/ ServiceBinds(p)
                           \/ ForeignStarts(p) \/ ForeignExits(p)
  BY <1>16, RateInvStutter DEF ServiceExits, ServiceBinds, ForeignStarts, ForeignExits
<1>17. CASE ExternalSocket \/ UNCHANGED vars  BY <1>17, RateInvStutter DEF ExternalSocket, vars
<1> QED
  BY <1>1, <1>2, <1>3, <1>4, <1>5, <1>6, <1>7, <1>8, <1>9, <1>10, <1>11, <1>12, <1>13, <1>14, <1>15, <1>16, <1>17,
     TopRateInv, SpawnRateInv, CrashRateInv, TickRateInv
     DEF Next, Monitor, Stop, Environment

\* The restart policy's limit is a limit on restarts: for every policy with a
\* crash limit, no more than that many processes are started in any window.
THEOREM SpawnRate == Spec => []SpawnRateBounded
<1>1. IInv /\ RateInv => SpawnRateBounded  BY GuardAssumption DEF RateInv, SpawnRateBounded
<1> QED  BY InductiveInvariant, InitRateInv, RateInvStep, <1>1, PTL DEF Spec

----
(* The guard implements AbstractGuard.                                     *)

Phase == IF spc # "idle" THEN "stopping"
         ELSE IF joinable THEN "guarding" ELSE "idle"

\* A step that changes neither the running services nor the phase is none of
\* AbstractGuard's.
LEMMA QuietStep ==
  ASSUME Services' = Services, Phase' = Phase
  PROVE  [Promise!Next]_<<Phase, Services>>
OBVIOUS

\* Signals and waits never change which service processes run.
LEMMA SignalKeepsServices ==
  ASSUME IInv, NEW p \in Pids, NEW sig, Signal(p, sig)
  PROVE  Services' = Services
BY DEF IInv, TypeOK, ProcState, OwnLive, Signal, AfterSignal, Services

LEMMA WaitKeepsServices ==
  ASSUME IInv, NEW p \in Pids, WaitPid(p)
  PROVE  Services' = Services
BY DEF IInv, TypeOK, ProcState, OwnLive, WaitPid, Services

LEMMA RefinementStep ==
  ASSUME IInv, [Next]_vars
  PROVE  [Promise!Next]_<<Phase, Services>>
<1> USE DEF Goto, policyVars, stopVars, monitorVars
<1>1. CASE MonitorTop \/ MonitorBackoffOver \/ MonitorSocketFree
           \/ MonitorSpawnFails \/ MonitorRetry \/ MonitorPublish
           \/ MonitorSocketUp \/ MonitorAttach \/ MonitorNoKqueue
           \/ MonitorNoteCrash
 <2>1. UNCHANGED <<proc, spc, joinable>>
   BY <1>1 DEF MonitorTop, MonitorBackoffOver, MonitorSocketFree,
      MonitorSpawnFails, MonitorRetry, MonitorPublish, MonitorSocketUp,
      MonitorAttach, MonitorNoKqueue, MonitorNoteCrash
 <2> QED  BY <2>1, QuietStep DEF Services, Phase
<1>2. CASE MonitorSpawn
 <2>1. Services = {}  BY <1>2 DEF MonitorSpawn, IInv, ChildIsHeld, Holding, Services
 <2>2. PICK p \in Pids : proc' = [proc EXCEPT ![p] = "live"]  BY <1>2 DEF MonitorSpawn
 <2>3. Services' = {p}  BY <2>1, <2>2 DEF IInv, TypeOK, OwnLive, Services
 <2>4. Phase # "idle" /\ Phase' = Phase  BY <1>2 DEF MonitorSpawn, IInv, ThreadsOK, Phase
 <2>5. Promise!ComeUp  BY <2>1, <2>3, <2>4 DEF Promise!ComeUp, Phase
 <2> QED  BY <2>5 DEF Promise!Next
<1>3. CASE MonitorSocketTimeout
 <2>1. mpid \in Pids /\ Signal(mpid, "term") /\ UNCHANGED <<spc, joinable>>
   BY <1>3 DEF MonitorSocketTimeout, IInv, ThreadsOK, Holding
 <2> QED  BY <2>1, SignalKeepsServices, QuietStep DEF Phase
<1>4. CASE MonitorPollReap \/ MonitorReap
 <2>1. mpid \in Pids /\ WaitPid(mpid) /\ UNCHANGED <<spc, joinable>>
   BY <1>4 DEF MonitorPollReap, MonitorReap, IInv, ThreadsOK, Holding
 <2> QED  BY <2>1, WaitKeepsServices, QuietStep DEF Phase
<1>5. CASE Start
 <2>1. Services' = Services /\ Phase = "idle" /\ Phase' = "guarding"
   BY <1>5 DEF Start, Services, Phase
 <2> QED  BY <2>1 DEF Promise!Next, Promise!Launch, Phase
<1>6. CASE StopRequest
 <2>1. Services' = Services /\ Phase # "stopping" /\ Phase' = "stopping"
   BY <1>6 DEF StopRequest, Services, Phase
 <2> QED  BY <2>1 DEF Promise!Next, Promise!RequestStop, Phase
<1>7. CASE StopTerm \/ StopKill
 <2>1. /\ spid \in Pids /\ (Signal(spid, "term") \/ Signal(spid, "kill"))
       /\ Phase = "stopping" /\ Phase' = "stopping"
   BY <1>7 DEF StopTerm, StopKill, IInv, ThreadsOK, Phase
 <2> QED  BY <2>1, SignalKeepsServices, QuietStep
<1>8. CASE StopReap
 <2>1. /\ spid \in Pids /\ WaitPid(spid)
       /\ Phase = "stopping" /\ Phase' = "stopping"
   BY <1>8 DEF StopReap, IInv, ThreadsOK, Phase
 <2> QED  BY <2>1, WaitKeepsServices, QuietStep
<1>9. CASE StopLoad \/ StopGraceOver \/ StopClear
 <2>1. Services' = Services /\ Phase = "stopping" /\ Phase' = "stopping"
   BY <1>9 DEF StopLoad, StopGraceOver, StopClear, Services, Phase
 <2> QED  BY <2>1, QuietStep
<1>10. CASE StopJoin
 <2>1. Services = {}  BY <1>10 DEF StopJoin, IInv, ThreadsOK, ChildIsHeld, Holding, Services
 <2>2. Services' = Services /\ Phase = "stopping" /\ Phase' = "idle"
   BY <1>10 DEF StopJoin, Services, Phase
 <2> QED  BY <2>1, <2>2 DEF Promise!Next, Promise!Stopped, Phase
<1>11. ASSUME NEW p \in Pids, ServiceExits(p)
       PROVE  [Promise!Next]_<<Phase, Services>>
 <2>1. Services = {p}  BY <1>11 DEF ServiceExits, IInv, ChildIsHeld, Services
 <2>2. Services' = {} /\ Phase' = Phase
   BY <1>11, <2>1 DEF ServiceExits, IInv, TypeOK, OwnLive, Services, Phase
 <2> QED  BY <2>1, <2>2 DEF Promise!Next, Promise!GoDown, Phase
<1>12. ASSUME NEW p \in Pids,
              ServiceBinds(p) \/ ForeignStarts(p) \/ ForeignExits(p)
       PROVE  [Promise!Next]_<<Phase, Services>>
 <2>1. Services' = Services /\ Phase' = Phase
   BY <1>12 DEF ServiceBinds, ForeignStarts, ForeignExits, IInv, TypeOK, OwnLive, Services, Phase
 <2> QED  BY <2>1, QuietStep
<1>13. CASE ExternalSocket \/ Tick \/ UNCHANGED vars
 <2>1. Services' = Services /\ Phase' = Phase
   BY <1>13 DEF ExternalSocket, Tick, vars, Services, Phase
 <2> QED  BY <2>1, QuietStep
<1> QED  BY <1>1, <1>2, <1>3, <1>4, <1>5, <1>6, <1>7, <1>8, <1>9, <1>10, <1>11,
     <1>12, <1>13 DEF Next, Monitor, Stop, Environment

\* Every behaviour of the guard is one AbstractGuard allows: at most one service
\* process at a time, none before start() or after stop() has returned.
THEOREM Implementation == Spec => ImplementsAbstractGuard
<1>1. Init => Promise!Init  BY DEF Init, Promise!Init, Services, OwnLive
<1>2. IInv /\ [Next]_vars => [Promise!Next]_<<Phase, Services>>  BY RefinementStep
<1> QED  BY InductiveInvariant, <1>1, <1>2, PTL
     DEF Spec, ImplementsAbstractGuard, Promise!Spec, Phase

----
(* The supervisor, for any number of calling threads and of prefixes.        *)

CONSTANTS Threads, Main, Poll, Free, Calls, Prefixes, MaxEdits
VARIABLES running, lifecycle, guardsMu, poll, guards, stuck, late, compositor, relit, pc, arg,
          listed, prefixes, fresh, edits, terminated

Supervisor == INSTANCE SupervisorService

----
(* Types.                                                                  *)

ArgIsPrefix ==
  \A t \in Threads :
    pc[t] \in {"created", "deleted", "erasing", "remove"} => arg[t] \in Prefixes

TypeInv == Supervisor!TypeOK /\ ArgIsPrefix

LEMMA TypeInit == ASSUME Supervisor!CallersFit, Supervisor!Init PROVE TypeInv
<1>1. running \in BOOLEAN /\ terminated \in BOOLEAN  BY DEF Supervisor!Init
<1>2. edits \in 0 .. MaxEdits  BY DEF Supervisor!Init, Supervisor!CallersFit
<1>3. pc \in [Threads -> Supervisor!ThreadPc] /\ arg \in [Threads -> Prefixes \cup {Free}]
  BY DEF Supervisor!Init, Supervisor!ThreadPc
<1>4. listed \in [Threads \cup {Poll} -> SUBSET Prefixes]  BY DEF Supervisor!Init
<1>5. Supervisor!TypeOK
  BY <1>1, <1>2, <1>3, <1>4 DEF Supervisor!Init, Supervisor!TypeOK, Supervisor!PollPc
<1>6. ArgIsPrefix  BY DEF Supervisor!Init, ArgIsPrefix
<1> QED  BY <1>5, <1>6 DEF TypeInv

LEMMA TypeThreadStep ==
  ASSUME Supervisor!CallersFit, TypeInv, NEW t \in Threads,
         Supervisor!ThreadStep(t) \/ Supervisor!Call(t)
  PROVE  TypeInv'
<1> USE DEF Supervisor!CallersFit, TypeInv, Supervisor!TypeOK, ArgIsPrefix, Supervisor!ThreadPc,
            Supervisor!PollPc, Supervisor!Goto, Supervisor!svcVars,
            Supervisor!diskVars, Supervisor!guardVars, Supervisor!compositorVars,
            Supervisor!Sync, Supervisor!Synced
<1>1. CASE Supervisor!StartExchange(t)
 <2>1. CASE running  BY <1>1, <2>1 DEF Supervisor!StartExchange
 <2>2. CASE ~running  BY <1>1, <2>2 DEF Supervisor!StartExchange
 <2> QED  BY <2>1, <2>2
<1>2. CASE Supervisor!StartPrecheck(t)  BY <1>2 DEF Supervisor!StartPrecheck
<1>3. CASE Supervisor!StartCompositor(t)  BY <1>3 DEF Supervisor!StartCompositor
<1>4. CASE Supervisor!ListPrefixes(t)  BY <1>4 DEF Supervisor!ListPrefixes
<1>5. CASE Supervisor!SyncLock(t)  BY <1>5 DEF Supervisor!SyncLock
<1>6. CASE Supervisor!SyncGuards(t)  BY <1>6 DEF Supervisor!SyncGuards, Supervisor!StopsReturn
<1>7. CASE Supervisor!StartPublish(t)  BY <1>7 DEF Supervisor!StartPublish
<1>8. CASE Supervisor!StopExchange(t)  BY <1>8 DEF Supervisor!StopExchange
<1>9. CASE Supervisor!StopJoin(t)  BY <1>9 DEF Supervisor!StopJoin
<1>10. CASE Supervisor!LockGuards(t)  BY <1>10 DEF Supervisor!LockGuards
<1>11. CASE Supervisor!StopWineGuards(t)
  BY <1>11 DEF Supervisor!StopWineGuards, Supervisor!StopsReturn
<1>12. CASE Supervisor!StopCompositor(t)  BY <1>12 DEF Supervisor!StopCompositor
<1>13. CASE Supervisor!OnPrefixCreated(t)  BY <1>13 DEF Supervisor!OnPrefixCreated
<1>14. CASE Supervisor!DeletedLock(t)  BY <1>14 DEF Supervisor!DeletedLock
<1>15. CASE Supervisor!OnPrefixDeleted(t)
  BY <1>15 DEF Supervisor!OnPrefixDeleted, Supervisor!StopsReturn
<1>16. CASE Supervisor!DeleteOnDisk(t)  BY <1>16 DEF Supervisor!DeleteOnDisk
<1>17. CASE Supervisor!StartTryLock(t)  BY <1>17 DEF Supervisor!StartTryLock
<1>18. CASE Supervisor!CallStop(t)  BY <1>18 DEF Supervisor!CallStop
<1>19. CASE Supervisor!RestartCompositor(t)  BY <1>19 DEF Supervisor!RestartCompositor
<1>20. ASSUME NEW p \in Prefixes, Supervisor!CallOnPrefixCreated(t, p) PROVE TypeInv'
  BY <1>20 DEF Supervisor!CallOnPrefixCreated
<1>21. ASSUME NEW p \in Prefixes, Supervisor!CallOnPrefixDeleted(t, p) PROVE TypeInv'
  BY <1>21 DEF Supervisor!CallOnPrefixDeleted
<1> QED  BY <1>1, <1>2, <1>3, <1>4, <1>5, <1>6, <1>7, <1>8, <1>9, <1>10, <1>11,
     <1>12, <1>13, <1>14, <1>15, <1>16, <1>17, <1>18, <1>19, <1>20, <1>21
     DEF Supervisor!ThreadStep, Supervisor!StartStep, Supervisor!StopStep, Supervisor!PrefixStep,
     Supervisor!Call

LEMMA TypeOtherStep ==
  ASSUME Supervisor!CallersFit, TypeInv,
         \/ Supervisor!PollStep
         \/ \E p \in Prefixes : Supervisor!CreateOnDisk(p)
         \/ Supervisor!CompositorGoesDeaf
         \/ \E p \in Prefixes : Supervisor!GuardSticks(p)
  PROVE  TypeInv'
<1> USE DEF Supervisor!CallersFit, TypeInv, Supervisor!TypeOK, ArgIsPrefix, Supervisor!ThreadPc,
            Supervisor!PollPc, Supervisor!Goto, Supervisor!svcVars,
            Supervisor!diskVars, Supervisor!guardVars, Supervisor!compositorVars,
            Supervisor!Sync, Supervisor!Synced
<1>1. CASE Supervisor!PollTop \/ Supervisor!PollWake
  BY <1>1 DEF Supervisor!PollTop, Supervisor!PollWake
<1>2. CASE Supervisor!PollList \/ Supervisor!PollSyncLock
  BY <1>2 DEF Supervisor!PollList, Supervisor!PollSyncLock
<1>3. CASE Supervisor!PollSyncGuards
  BY <1>3 DEF Supervisor!PollSyncGuards, Supervisor!StopsReturn
<1>4. ASSUME NEW p \in Prefixes, Supervisor!CreateOnDisk(p) PROVE TypeInv'
  BY <1>4 DEF Supervisor!CreateOnDisk
<1>5. CASE Supervisor!CompositorGoesDeaf  BY <1>5 DEF Supervisor!CompositorGoesDeaf
<1>6. ASSUME NEW p \in Prefixes, Supervisor!GuardSticks(p) PROVE TypeInv'
  BY <1>6 DEF Supervisor!GuardSticks
<1> QED  BY <1>1, <1>2, <1>3, <1>4, <1>5, <1>6 DEF Supervisor!PollStep

LEMMA TypeInductive == ASSUME Supervisor!CallersFit PROVE Supervisor!Spec => []TypeInv
<1>1. Supervisor!Init => TypeInv  BY TypeInit
<1>2. TypeInv /\ [Supervisor!Next]_(Supervisor!vars) => TypeInv'
 <2> SUFFICES ASSUME TypeInv, [Supervisor!Next]_(Supervisor!vars) PROVE TypeInv'  OBVIOUS
 <2>1. CASE UNCHANGED Supervisor!vars
   BY <2>1 DEF TypeInv, Supervisor!TypeOK, ArgIsPrefix, Supervisor!vars, Supervisor!svcVars,
      Supervisor!diskVars, Supervisor!guardVars, Supervisor!compositorVars
 <2>2. CASE Supervisor!Next  BY <2>2, TypeThreadStep, TypeOtherStep DEF Supervisor!Next
 <2> QED  BY <2>1, <2>2
<1> QED  BY <1>1, <1>2, PTL DEF Supervisor!Spec

\* The supervisor's fields, its locks and its callers' locals keep their types.
THEOREM SupervisorTypeCorrect ==
  ASSUME Supervisor!CallersFit PROVE Supervisor!Spec => []Supervisor!TypeOK
<1>1. TypeInv => Supervisor!TypeOK  BY DEF TypeInv
<1> QED  BY TypeInductive, <1>1, PTL

----
(* The polling thread is never assigned over.                              *)

\* Only one thread calls start(), as in the instance manager, where it is the
\* main thread.
OneStarter ==
  \A t, u \in Threads : "start" \in Calls[t] /\ "start" \in Calls[u] => t = u

\* Between running_.exchange(true) and the end of start().
Starting == {"precheck", "compositor", "list", "sync", "syncing", "publish"}

StartersStart ==
  \A t \in Threads : pc[t] \in Starting \cup {"exchange"} => "start" \in Calls[t]

\* While start() is under way there is no polling thread: this is what makes
\* PollThreadNotOverwritten inductive.
NoPollWhileStarting == \A t \in Threads : pc[t] \in Starting => poll = "none"

PollInv == StartersStart /\ NoPollWhileStarting /\ ~terminated

LEMMA PollThreadStep ==
  ASSUME OneStarter, TypeInv, PollInv, NEW t \in Threads,
         Supervisor!ThreadStep(t) \/ Supervisor!Call(t)
  PROVE  PollInv'
<1>0. pc \in [Threads -> Supervisor!ThreadPc]  BY DEF TypeInv, Supervisor!TypeOK
<1> USE DEF PollInv, StartersStart, NoPollWhileStarting, Starting, Supervisor!Goto,
            Supervisor!svcVars,
            Supervisor!diskVars, Supervisor!guardVars, Supervisor!compositorVars,
            Supervisor!Sync, Supervisor!Synced
<1>1. CASE Supervisor!StartExchange(t)
 <2>1. CASE running  BY <1>0, <1>1, <2>1 DEF Supervisor!StartExchange
 <2>2. CASE ~running  BY <1>0, <1>1, <2>2 DEF Supervisor!StartExchange
 <2> QED  BY <2>1, <2>2
<1>2. CASE Supervisor!StartPrecheck(t)  BY <1>0, <1>2 DEF Supervisor!StartPrecheck
<1>3. CASE Supervisor!StartCompositor(t)  BY <1>0, <1>3 DEF Supervisor!StartCompositor
<1>4. CASE Supervisor!ListPrefixes(t)  BY <1>0, <1>4 DEF Supervisor!ListPrefixes
<1>5. CASE Supervisor!SyncLock(t)  BY <1>0, <1>5 DEF Supervisor!SyncLock
<1>6. CASE Supervisor!SyncGuards(t)
  BY <1>0, <1>6 DEF Supervisor!SyncGuards, Supervisor!StopsReturn
<1>7. CASE Supervisor!StartPublish(t)  BY <1>0, <1>7 DEF Supervisor!StartPublish, OneStarter
<1>8. CASE Supervisor!StopExchange(t)  BY <1>0, <1>8 DEF Supervisor!StopExchange
<1>9. CASE Supervisor!StopJoin(t)  BY <1>0, <1>9 DEF Supervisor!StopJoin
<1>10. CASE Supervisor!LockGuards(t)  BY <1>0, <1>10 DEF Supervisor!LockGuards
<1>11. CASE Supervisor!StopWineGuards(t)
  BY <1>0, <1>11 DEF Supervisor!StopWineGuards, Supervisor!StopsReturn
<1>12. CASE Supervisor!StopCompositor(t)  BY <1>0, <1>12 DEF Supervisor!StopCompositor
<1>13. CASE Supervisor!OnPrefixCreated(t)  BY <1>0, <1>13 DEF Supervisor!OnPrefixCreated
<1>14. CASE Supervisor!DeletedLock(t)  BY <1>0, <1>14 DEF Supervisor!DeletedLock
<1>15. CASE Supervisor!OnPrefixDeleted(t)
  BY <1>0, <1>15 DEF Supervisor!OnPrefixDeleted, Supervisor!StopsReturn
<1>16. CASE Supervisor!DeleteOnDisk(t)  BY <1>0, <1>16 DEF Supervisor!DeleteOnDisk
<1>17. CASE Supervisor!StartTryLock(t)  BY <1>0, <1>17 DEF Supervisor!StartTryLock
<1>18. CASE Supervisor!CallStop(t)  BY <1>0, <1>18 DEF Supervisor!CallStop
<1>19. CASE Supervisor!RestartCompositor(t)  BY <1>0, <1>19 DEF Supervisor!RestartCompositor
<1>20. ASSUME NEW p \in Prefixes, Supervisor!CallOnPrefixCreated(t, p) PROVE PollInv'
  BY <1>0, <1>20 DEF Supervisor!CallOnPrefixCreated
<1>21. ASSUME NEW p \in Prefixes, Supervisor!CallOnPrefixDeleted(t, p) PROVE PollInv'
  BY <1>0, <1>21 DEF Supervisor!CallOnPrefixDeleted
<1> QED  BY <1>1, <1>2, <1>3, <1>4, <1>5, <1>6, <1>7, <1>8, <1>9, <1>10, <1>11,
     <1>12, <1>13, <1>14, <1>15, <1>16, <1>17, <1>18, <1>19, <1>20, <1>21
     DEF Supervisor!ThreadStep, Supervisor!StartStep, Supervisor!StopStep, Supervisor!PrefixStep,
     Supervisor!Call

LEMMA PollOtherStep ==
  ASSUME PollInv,
         \/ Supervisor!PollStep
         \/ \E p \in Prefixes : Supervisor!CreateOnDisk(p)
         \/ Supervisor!CompositorGoesDeaf
         \/ \E p \in Prefixes : Supervisor!GuardSticks(p)
  PROVE  PollInv'
<1> USE DEF PollInv, StartersStart, NoPollWhileStarting, Starting, Supervisor!Goto,
            Supervisor!svcVars,
            Supervisor!diskVars, Supervisor!guardVars, Supervisor!compositorVars,
            Supervisor!Sync, Supervisor!Synced
<1>1. CASE Supervisor!PollTop \/ Supervisor!PollWake
  BY <1>1 DEF Supervisor!PollTop, Supervisor!PollWake
<1>2. CASE Supervisor!PollList \/ Supervisor!PollSyncLock
  BY <1>2 DEF Supervisor!PollList, Supervisor!PollSyncLock
<1>3. CASE Supervisor!PollSyncGuards
  BY <1>3 DEF Supervisor!PollSyncGuards, Supervisor!StopsReturn
<1>4. ASSUME NEW p \in Prefixes, Supervisor!CreateOnDisk(p) PROVE PollInv'
  BY <1>4 DEF Supervisor!CreateOnDisk
<1>5. CASE Supervisor!CompositorGoesDeaf  BY <1>5 DEF Supervisor!CompositorGoesDeaf
<1>6. ASSUME NEW p \in Prefixes, Supervisor!GuardSticks(p) PROVE PollInv'
  BY <1>6 DEF Supervisor!GuardSticks
<1> QED  BY <1>1, <1>2, <1>3, <1>4, <1>5, <1>6 DEF Supervisor!PollStep

\* With a single starting thread no interleaving of start() with any number of
\* stop() calls makes the program terminate on poll_thread_.
THEOREM PollThreadSafe ==
  ASSUME Supervisor!CallersFit, OneStarter
  PROVE  Supervisor!Spec => []Supervisor!PollThreadNotOverwritten
<1>1. Supervisor!Init => PollInv
  BY DEF Supervisor!Init, PollInv, StartersStart, NoPollWhileStarting, Starting
<1>2. TypeInv /\ PollInv /\ [Supervisor!Next]_(Supervisor!vars) => PollInv'
 <2> SUFFICES ASSUME TypeInv, PollInv, [Supervisor!Next]_(Supervisor!vars) PROVE PollInv'
   OBVIOUS
 <2>1. CASE UNCHANGED Supervisor!vars
   BY <2>1 DEF PollInv, StartersStart, NoPollWhileStarting, Supervisor!vars, Supervisor!svcVars,
      Supervisor!guardVars, Supervisor!compositorVars
 <2>2. CASE Supervisor!Next  BY <2>2, PollThreadStep, PollOtherStep DEF Supervisor!Next
 <2> QED  BY <2>1, <2>2
<1>3. PollInv => Supervisor!PollThreadNotOverwritten
  BY DEF PollInv, Supervisor!PollThreadNotOverwritten
<1> QED  BY TypeInductive, <1>1, <1>2, <1>3, PTL DEF Supervisor!Spec

----
(* A stopped supervisor leaves nothing behind.                             *)

\* The places from which a call still goes through stop_guards() when the
\* supervisor no longer runs.
ToBeStopped == (Starting \ {"precheck"}) \cup {"join", "lockguards", "stopguards"}

\* What is still there when running_ is false has a call under way that takes it
\* down.
SomebodyCleans ==
  ~running =>
    /\ poll # "none" => \E t \in Threads : pc[t] = "join"
    /\ guards \subseteq late \/ \E t \in Threads : pc[t] \in ToBeStopped
    /\ \/ compositor = "off" \/ relit
       \/ \E t \in Threads : pc[t] \in ToBeStopped \cup {"stopcompositor"}

CleanInv == SomebodyCleans

LEMMA CleanThreadStep ==
  ASSUME TypeInv, CleanInv, NEW t \in Threads,
         Supervisor!ThreadStep(t) \/ Supervisor!Call(t)
  PROVE  CleanInv'
<1>0. pc \in [Threads -> Supervisor!ThreadPc]  BY DEF TypeInv, Supervisor!TypeOK
<1> USE DEF CleanInv, SomebodyCleans, ToBeStopped, Starting, Supervisor!Goto, Supervisor!svcVars,
            Supervisor!diskVars,
            Supervisor!guardVars, Supervisor!compositorVars, Supervisor!Sync, Supervisor!Synced
<1>1. CASE Supervisor!StartExchange(t)
 <2>1. CASE running  BY <1>0, <1>1, <2>1 DEF Supervisor!StartExchange
 <2>2. CASE ~running  BY <1>0, <1>1, <2>2 DEF Supervisor!StartExchange
 <2> QED  BY <2>1, <2>2
<1>2. CASE Supervisor!StartPrecheck(t)  BY <1>0, <1>2 DEF Supervisor!StartPrecheck
<1>3. CASE Supervisor!StartCompositor(t)  BY <1>0, <1>3 DEF Supervisor!StartCompositor
<1>4. CASE Supervisor!ListPrefixes(t)  BY <1>0, <1>4 DEF Supervisor!ListPrefixes
<1>5. CASE Supervisor!SyncLock(t)  BY <1>0, <1>5 DEF Supervisor!SyncLock
<1>6. CASE Supervisor!SyncGuards(t)
  BY <1>0, <1>6 DEF Supervisor!SyncGuards, Supervisor!StopsReturn
<1>7. CASE Supervisor!StartPublish(t)  BY <1>0, <1>7 DEF Supervisor!StartPublish
<1>8. CASE Supervisor!StopExchange(t)  BY <1>0, <1>8 DEF Supervisor!StopExchange
<1>9. CASE Supervisor!StopJoin(t)  BY <1>0, <1>9 DEF Supervisor!StopJoin
<1>10. CASE Supervisor!LockGuards(t)  BY <1>0, <1>10 DEF Supervisor!LockGuards
<1>11. CASE Supervisor!StopWineGuards(t)
  BY <1>0, <1>11 DEF Supervisor!StopWineGuards, Supervisor!StopsReturn
<1>12. CASE Supervisor!StopCompositor(t)  BY <1>0, <1>12 DEF Supervisor!StopCompositor
<1>13. CASE Supervisor!OnPrefixCreated(t)  BY <1>0, <1>13 DEF Supervisor!OnPrefixCreated
<1>14. CASE Supervisor!DeletedLock(t)  BY <1>0, <1>14 DEF Supervisor!DeletedLock
<1>15. CASE Supervisor!OnPrefixDeleted(t)
  BY <1>0, <1>15 DEF Supervisor!OnPrefixDeleted, Supervisor!StopsReturn
<1>16. CASE Supervisor!DeleteOnDisk(t)  BY <1>0, <1>16 DEF Supervisor!DeleteOnDisk
<1>17. CASE Supervisor!StartTryLock(t)  BY <1>0, <1>17 DEF Supervisor!StartTryLock
<1>18. CASE Supervisor!CallStop(t)  BY <1>0, <1>18 DEF Supervisor!CallStop
<1>19. CASE Supervisor!RestartCompositor(t)  BY <1>0, <1>19 DEF Supervisor!RestartCompositor
<1>20. ASSUME NEW p \in Prefixes, Supervisor!CallOnPrefixCreated(t, p) PROVE CleanInv'
  BY <1>0, <1>20 DEF Supervisor!CallOnPrefixCreated
<1>21. ASSUME NEW p \in Prefixes, Supervisor!CallOnPrefixDeleted(t, p) PROVE CleanInv'
  BY <1>0, <1>21 DEF Supervisor!CallOnPrefixDeleted
<1> QED  BY <1>1, <1>2, <1>3, <1>4, <1>5, <1>6, <1>7, <1>8, <1>9, <1>10, <1>11,
     <1>12, <1>13, <1>14, <1>15, <1>16, <1>17, <1>18, <1>19, <1>20, <1>21
     DEF Supervisor!ThreadStep, Supervisor!StartStep, Supervisor!StopStep, Supervisor!PrefixStep,
     Supervisor!Call

LEMMA CleanOtherStep ==
  ASSUME CleanInv,
         \/ Supervisor!PollStep
         \/ \E p \in Prefixes : Supervisor!CreateOnDisk(p)
         \/ Supervisor!CompositorGoesDeaf
         \/ \E p \in Prefixes : Supervisor!GuardSticks(p)
  PROVE  CleanInv'
<1> USE DEF CleanInv, SomebodyCleans, ToBeStopped, Starting, Supervisor!Goto, Supervisor!svcVars,
            Supervisor!diskVars,
            Supervisor!guardVars, Supervisor!compositorVars, Supervisor!Sync, Supervisor!Synced
<1>1. CASE Supervisor!PollTop \/ Supervisor!PollWake
  BY <1>1 DEF Supervisor!PollTop, Supervisor!PollWake
<1>2. CASE Supervisor!PollList \/ Supervisor!PollSyncLock
  BY <1>2 DEF Supervisor!PollList, Supervisor!PollSyncLock
<1>3. CASE Supervisor!PollSyncGuards
  BY <1>3 DEF Supervisor!PollSyncGuards, Supervisor!StopsReturn
<1>4. ASSUME NEW p \in Prefixes, Supervisor!CreateOnDisk(p) PROVE CleanInv'
  BY <1>4 DEF Supervisor!CreateOnDisk
<1>5. CASE Supervisor!CompositorGoesDeaf  BY <1>5 DEF Supervisor!CompositorGoesDeaf
<1>6. ASSUME NEW p \in Prefixes, Supervisor!GuardSticks(p) PROVE CleanInv'
  BY <1>6 DEF Supervisor!GuardSticks
<1> QED  BY <1>1, <1>2, <1>3, <1>4, <1>5, <1>6 DEF Supervisor!PollStep

\* A stop() that overtakes any number of start() calls, or is overtaken by them,
\* leaves no polling thread, no guard and no compositor once every call has
\* returned, but those on_prefix_created() or a restart of the compositor has
\* brought up since.
THEOREM StopLeavesNothing ==
  ASSUME Supervisor!CallersFit PROVE Supervisor!Spec => []Supervisor!StoppedIsClean
<1>1. Supervisor!Init => CleanInv  BY DEF Supervisor!Init, CleanInv, SomebodyCleans
<1>2. TypeInv /\ CleanInv /\ [Supervisor!Next]_(Supervisor!vars) => CleanInv'
 <2> SUFFICES ASSUME TypeInv, CleanInv, [Supervisor!Next]_(Supervisor!vars) PROVE CleanInv'
   OBVIOUS
 <2>1. CASE UNCHANGED Supervisor!vars
   BY <2>1 DEF CleanInv, SomebodyCleans, Supervisor!vars, Supervisor!svcVars,
      Supervisor!guardVars, Supervisor!compositorVars
 <2>2. CASE Supervisor!Next  BY <2>2, CleanThreadStep, CleanOtherStep DEF Supervisor!Next
 <2> QED  BY <2>1, <2>2
<1>3. CleanInv => Supervisor!StoppedIsClean
  BY DEF CleanInv, SomebodyCleans, Supervisor!StoppedIsClean, Supervisor!Quiescent, ToBeStopped,
     Starting
<1> QED  BY TypeInductive, <1>1, <1>2, <1>3, PTL DEF Supervisor!Spec

=============================================================================
