------------------------ MODULE PluginKernelProofs ------------------------
(* The boot is right for every plugin array: types, the order of the       *)
(* installation, the arrays refused for a cycle, the plugins whose place   *)
(* in the array is kept, and the owners of tables and jobs.                *)
EXTENDS PluginKernel, FiniteSetTheorems, TLAPS

\* What a sequence and its elements become with one element more.
LEMMA AppendFacts ==
  ASSUME NEW S, NEW s \in Seq(S), NEW e \in S
  PROVE  /\ Append(s, e) \in Seq(S)
         /\ DOMAIN s = 1 .. Len(s) /\ Len(s) \in Nat
         /\ DOMAIN Append(s, e) = 1 .. Len(s) + 1
         /\ \A k \in 1 .. Len(s) : Append(s, e)[k] = s[k]
         /\ Append(s, e)[Len(s) + 1] = e
         /\ Elements(s) \subseteq S
         /\ Elements(Append(s, e)) = Elements(s) \cup {e}
<1>1. /\ Append(s, e) \in Seq(S)
      /\ DOMAIN s = 1 .. Len(s) /\ Len(s) \in Nat
      /\ DOMAIN Append(s, e) = 1 .. Len(s) + 1
      /\ \A k \in 1 .. Len(s) : Append(s, e)[k] = s[k] /\ s[k] \in S
      /\ Append(s, e)[Len(s) + 1] = e
  OBVIOUS
<1>2. Elements(s) \subseteq S
  BY <1>1 DEF Elements
<1>3. ASSUME NEW x PROVE x \in Elements(Append(s, e)) <=> x \in Elements(s) \cup {e}
  BY <1>1 DEF Elements
<1> QED
  BY <1>1, <1>2, <1>3

\* A sequence without repetitions over 1..n is of length n exactly when it
\* holds the whole of 1..n.
LEMMA FullLength ==
  ASSUME NEW n \in Nat, NEW s \in Seq(1 .. n),
         \A k, l \in DOMAIN s : s[k] = s[l] => k = l
  PROVE  Len(s) = n <=> Elements(s) = 1 .. n
<1>1. /\ Len(s) \in Nat /\ DOMAIN s = 1 .. Len(s)
      /\ s \in [1 .. Len(s) -> 1 .. n]
  OBVIOUS
<1>2. s \in Bijection(1 .. Len(s), Elements(s))
  BY <1>1 DEF Bijection, Injection, Surjection, IsInjective, Elements
<1>3. ExistsBijection(1 .. Len(s), Elements(s))
  BY <1>2 DEF ExistsBijection
<1>4. Cardinality(Elements(s)) = Len(s)
  BY <1>1, <1>3, FS_CountingElements
<1>5. IsFiniteSet(1 .. n) /\ Cardinality(1 .. n) = n
  BY FS_Interval
<1>6. Elements(s) \in SUBSET (1 .. n)
  BY <1>1 DEF Elements
<1> QED
  BY <1>4, <1>5, <1>6, FS_Subset

-----------------------------------------------------------------------------
NoRepeats(s) == \A k, l \in DOMAIN s : s[k] = s[l] => k = l

Unmet(i) == Requires(i) \ Elements(sorted)

\* Before the sort starts, and before the installation does.
StartInv == /\ stage = "validate" => sorted = << >> /\ at = 1
            /\ stage \in {"validate", "sort", "merge"} => installed = << >>

CountInv == stage = "sort" => \A i \in Positions : inDegree[i] = Cardinality(Unmet(i))

SortedAfterRequirements ==
    \A k \in DOMAIN sorted : \A r \in Requires(sorted[k]) :
      \E l \in DOMAIN sorted : l < k /\ sorted[l] = r

PhaseInv == stage \in {"sort", "merge", "install"} => PhasesAllow

SortInv == /\ StartInv
           /\ NoRepeats(sorted)
           /\ CountInv
           /\ SortedAfterRequirements
           /\ PhaseInv

\* The positions of the plugin array.
LEMMA ArrayFacts ==
  ASSUME TypeOK
  PROVE  /\ Len(plugins) \in Nat
         /\ Positions = 1 .. Len(plugins)
         /\ IsFiniteSet(Positions)
         /\ \A i \in Positions : plugins[i] \in Plugin
<1>1. plugins \in Seq(Plugin)
  BY DEF TypeOK
<1>2. Len(plugins) \in Nat /\ Positions = 1 .. Len(plugins)
  BY <1>1 DEF Positions
<1> QED
  BY <1>1, <1>2, FS_Interval DEF Positions

\* The requirements still unmet are finite in number.
LEMMA UnmetFacts ==
  ASSUME TypeOK, NEW i \in Positions
  PROVE  /\ IsFiniteSet(Requires(i)) /\ Cardinality(Requires(i)) \in Nat
         /\ IsFiniteSet(Unmet(i)) /\ Cardinality(Unmet(i)) \in Nat
         /\ Cardinality(Unmet(i)) = 0 <=> Unmet(i) = {}
<1>1. Requires(i) \in SUBSET Positions /\ Unmet(i) \in SUBSET Positions
  BY DEF Requires, Unmet
<1>2. IsFiniteSet(Requires(i)) /\ IsFiniteSet(Unmet(i))
  BY <1>1, ArrayFacts, FS_Subset
<1> QED
  BY <1>2, FS_CardinalityType, FS_EmptySet

\* No step changes the array.
LEMMA ArrayIsFixed ==
  ASSUME [Next]_vars
  PROVE  /\ plugins' = plugins /\ Positions' = Positions
         /\ \A i : Requires(i)' = Requires(i)
         /\ \A i : PhaseRank(i)' = PhaseRank(i)
         /\ PhasesAllow' = PhasesAllow
<1>1. plugins' = plugins
  BY DEF Next, vars, order, world, Reject, Accept, Skip, Consume, ScanAgain, Stuck,
         EndSort, MergeSchemas, RejectSchemas, Install, LackCapability, ThrowInApp, Boot
<1>2. Positions' = Positions
  BY <1>1 DEF Positions
<1>3. \A i : Requires(i)' = Requires(i)
  BY <1>1, <1>2 DEF Requires
<1>4. \A i : PhaseRank(i)' = PhaseRank(i)
  BY <1>1 DEF PhaseRank
<1> QED
  BY <1>1, <1>2, <1>3, <1>4 DEF PhasesAllow

\* The invariant of the sort holds at first.
LEMMA InitSort == Init => TypeOK /\ SortInv
<1> SUFFICES ASSUME Init PROVE TypeOK /\ SortInv
  OBVIOUS
<1>1. plugins \in Seq(Plugin)
  BY KernelAssumption DEF Init
<1>2. Len(plugins) \in Nat /\ Positions = 1 .. Len(plugins)
  BY <1>1 DEF Positions
<1>3. TypeOK
  <2>1. /\ progress \in BOOLEAN
        /\ stage = "validate" /\ error = "none"
    BY DEF Init
  <2>2. /\ inDegree \in [Positions -> Nat] /\ at \in 1 .. Len(plugins) + 1
        /\ sorted \in Seq(Positions) /\ installed \in Seq(Positions)
    BY <1>2 DEF Init
  <2>3. /\ mounted \subseteq Positions /\ tables \subseteq Tables
        /\ services \subseteq Ids /\ jobs \subseteq Jobs \X Positions
    BY DEF Init
  <2> QED
    BY <1>1, <2>1, <2>2, <2>3 DEF TypeOK
<1>4. sorted = << >> /\ DOMAIN sorted = {}
  BY DEF Init
<1>5. SortInv
  BY <1>4 DEF Init, SortInv, NoRepeats, StartInv, CountInv, SortedAfterRequirements, PhaseInv
<1> QED
  BY <1>3, <1>5

\* What the scan does when it takes a plugin.
LEMMA ConsumeFacts ==
  ASSUME TypeOK, SortInv, Consume
  PROVE  /\ at \in Positions /\ at \notin Elements(sorted) /\ Unmet(at) = {}
         /\ sorted' \in Seq(Positions)
         /\ DOMAIN sorted = 1 .. Len(sorted) /\ Len(sorted) \in Nat
         /\ DOMAIN sorted' = 1 .. Len(sorted) + 1
         /\ \A k \in 1 .. Len(sorted) : sorted'[k] = sorted[k]
         /\ sorted'[Len(sorted) + 1] = at
         /\ Elements(sorted)' = Elements(sorted) \cup {at}
<1>1. at \in Positions /\ Ready(at) /\ sorted' = Append(sorted, at)
  BY DEF Consume
<1>2. sorted \in Seq(Positions)
  BY DEF TypeOK
<1>3. Unmet(at) = {}
  BY <1>1, UnmetFacts DEF Consume, Ready, SortInv, CountInv
<1>4. Elements(sorted)' = Elements(sorted')
  BY DEF Elements
<1> QED
  BY <1>1, <1>2, <1>3, <1>4, AppendFacts DEF Ready

\* The count of each plugin follows its unmet requirements.
LEMMA ConsumeCounts ==
  ASSUME TypeOK, SortInv, Consume, NEW i \in Positions
  PROVE  /\ inDegree'[i] = Cardinality(Unmet(i)')
         /\ inDegree'[i] \in Nat
<1>1. stage = "sort" /\ inDegree[i] = Cardinality(Unmet(i))
  BY DEF Consume, SortInv, CountInv
<1>2. inDegree'[i] = IF at \in Requires(i) THEN inDegree[i] - 1 ELSE inDegree[i]
  BY DEF Consume
<1>3. Requires(i)' = Requires(i)
  BY ArrayIsFixed DEF Next
<1>4. Unmet(i)' = Unmet(i) \ {at}
  BY <1>3, ConsumeFacts DEF Unmet
<1>5. at \in Unmet(i) <=> at \in Requires(i)
  BY ConsumeFacts DEF Unmet
<1>6. /\ IsFiniteSet(Unmet(i)) /\ IsFiniteSet(Unmet(i) \ {at})
      /\ Cardinality(Unmet(i) \ {at})
           = IF at \in Unmet(i) THEN Cardinality(Unmet(i)) - 1 ELSE Cardinality(Unmet(i))
  BY UnmetFacts, FS_RemoveElement
<1>7. Cardinality(Unmet(i) \ {at}) \in Nat
  BY <1>6, FS_CardinalityType
<1> QED
  BY <1>1, <1>2, <1>4, <1>5, <1>6, <1>7

\* Taking a plugin into the order keeps the invariant of the sort.
LEMMA ConsumeSort ==
  ASSUME TypeOK, SortInv, Consume
  PROVE  SortInv'
<1>1. NoRepeats(sorted)'
  <2> SUFFICES ASSUME NEW k \in DOMAIN sorted', NEW l \in DOMAIN sorted',
                      sorted'[k] = sorted'[l]
               PROVE  k = l
    BY DEF NoRepeats
  <2>1. \A m \in 1 .. Len(sorted) : sorted'[m] # at
    BY ConsumeFacts DEF Elements
  <2>2. CASE k \in 1 .. Len(sorted) /\ l \in 1 .. Len(sorted)
    BY <2>2, ConsumeFacts DEF SortInv, NoRepeats
  <2>3. CASE ~(k \in 1 .. Len(sorted) /\ l \in 1 .. Len(sorted))
    BY <2>1, <2>3, ConsumeFacts
  <2> QED
    BY <2>2, <2>3
<1>2. ASSUME NEW k \in DOMAIN sorted', NEW r \in Requires(sorted'[k])
      PROVE  \E l \in DOMAIN sorted' : l < k /\ sorted'[l] = r
  <2>1. CASE k \in 1 .. Len(sorted)
    <3>1. sorted'[k] = sorted[k] /\ k \in DOMAIN sorted
      BY <2>1, ConsumeFacts
    <3>2. PICK l \in DOMAIN sorted : l < k /\ sorted[l] = r
      BY <3>1 DEF SortInv, SortedAfterRequirements
    <3> QED
      BY <3>2, ConsumeFacts
  <2>2. CASE k = Len(sorted) + 1
    <3>1. r \in Elements(sorted)
      BY <2>2, ConsumeFacts DEF Unmet
    <3>2. PICK l \in DOMAIN sorted : sorted[l] = r
      BY <3>1 DEF Elements
    <3> QED
      BY <2>2, <3>2, ConsumeFacts
  <2> QED
    BY <2>1, <2>2, ConsumeFacts
<1>3. /\ stage' = "sort" /\ stage = "sort" /\ installed' = installed
      /\ PhasesAllow' = PhasesAllow /\ \A i : Requires(i)' = Requires(i)
      /\ Positions' = Positions
  BY ArrayIsFixed DEF Next, Consume, world
<1>4. StartInv' /\ PhaseInv'
  BY <1>3 DEF SortInv, StartInv, PhaseInv
<1>5. CountInv'
  BY <1>3, ConsumeCounts DEF CountInv
<1>6. SortedAfterRequirements'
  BY <1>2, <1>3 DEF SortedAfterRequirements
<1> QED
  BY <1>1, <1>4, <1>5, <1>6 DEF SortInv

\* Every step keeps the invariant of the sort.
LEMMA SortStep == TypeOK /\ SortInv /\ [Next]_vars => SortInv'
<1> SUFFICES ASSUME TypeOK, SortInv, [Next]_vars PROVE SortInv'
  OBVIOUS
<1>0. /\ plugins' = plugins /\ Positions' = Positions /\ PhasesAllow' = PhasesAllow
      /\ \A i : Requires(i)' = Requires(i)
  BY ArrayIsFixed
<1>1. CASE Accept
  <2>1. /\ sorted = << >> /\ sorted' = sorted /\ DOMAIN sorted = {} /\ installed' = << >>
        /\ stage' = "sort" /\ PhasesAllow
    BY <1>1 DEF Accept, SortInv, StartInv, WellFormed, world
  <2>2. Elements(sorted)' = {}
    BY <2>1 DEF Elements
  <2>3. \A i \in Positions : inDegree'[i] = Cardinality(Unmet(i)')
    BY <1>0, <1>1, <2>2 DEF Accept, Unmet
  <2> QED
    BY <1>0, <2>1, <2>3
       DEF SortInv, NoRepeats, StartInv, CountInv, SortedAfterRequirements, PhaseInv
<1>2. CASE Consume
  BY <1>2, ConsumeSort
<1>3. CASE sorted' = sorted /\ inDegree' = inDegree /\ ~Accept
  <2>1. NoRepeats(sorted)' /\ \A i : Unmet(i)' = Unmet(i)
    BY <1>0, <1>3 DEF SortInv, NoRepeats, Unmet, Elements
  <2>2. /\ stage' = "validate" => stage = "validate" /\ at' = at
        /\ stage' = "sort" => stage = "sort"
        /\ stage' \in {"merge", "install"} => stage \in {"sort", "merge", "install"}
        /\ stage' \in {"validate", "sort", "merge"} =>
             installed' = installed /\ stage \in {"validate", "sort", "merge"}
    BY <1>3 DEF Next, vars, order, world, Reject, Consume, Skip, ScanAgain, Stuck, EndOfScan,
                EndSort, MergeSchemas, RejectSchemas, Install, LackCapability, ThrowInApp,
                Boot, Refuse, IsNext
  <2>3. StartInv'
    BY <1>3, <2>2 DEF SortInv, StartInv
  <2>4. CountInv'
    BY <1>0, <1>3, <2>1, <2>2 DEF SortInv, CountInv
  <2>5. SortedAfterRequirements'
    BY <1>0, <1>3 DEF SortInv, SortedAfterRequirements
  <2>6. PhaseInv'
    BY <1>0, <2>2 DEF SortInv, PhaseInv
  <2> QED
    BY <2>1, <2>3, <2>4, <2>5, <2>6 DEF SortInv
<1> QED
  BY <1>1, <1>2, <1>3
     DEF Next, vars, order, world, Reject, Skip, ScanAgain, Stuck, EndSort, MergeSchemas,
         RejectSchemas, Install, LackCapability, ThrowInApp, Boot

\* What the array says of a plugin's services, jobs and tables.
LEMMA JobTypes ==
  ASSUME TypeOK, NEW i \in Positions
  PROVE  /\ plugins[i].provides \subseteq Ids /\ plugins[i].uses \subseteq Ids
         /\ plugins[i].jobs \subseteq Jobs /\ plugins[i].tables \subseteq Tables
         /\ OptionalJobs(i) \subseteq Jobs
<1>1. /\ plugins[i].provides \subseteq Ids /\ plugins[i].uses \subseteq Ids
      /\ plugins[i].jobs \subseteq Jobs /\ plugins[i].tables \subseteq Tables
      /\ plugins[i].optional \subseteq Ids \X Jobs
  BY ArrayFacts DEF Plugin
<1> QED
  BY <1>1 DEF OptionalJobs

\* Every step keeps the types; the counts need the invariant of the sort.
LEMMA TypeStep == TypeOK /\ SortInv /\ [Next]_vars => TypeOK'
<1> SUFFICES ASSUME TypeOK, SortInv, [Next]_vars PROVE TypeOK'
  OBVIOUS
<1> USE DEF TypeOK, order, world
<1>0. /\ plugins' = plugins /\ Positions' = Positions
      /\ Len(plugins) \in Nat /\ Positions = 1 .. Len(plugins)
  BY ArrayIsFixed, ArrayFacts
<1>1. CASE UNCHANGED vars
  BY <1>0, <1>1 DEF vars
<1>2. CASE Reject
  BY <1>0, <1>2 DEF Reject, Refuse
<1>3. CASE Accept
  <2>1. \A i \in Positions : Cardinality(Requires(i)) \in Nat
    BY UnmetFacts
  <2> QED
    BY <1>0, <1>3, <2>1 DEF Accept
<1>4. CASE Skip
  BY <1>0, <1>4 DEF Skip
<1>5. CASE Consume
  <2>1. inDegree' \in [Positions -> Nat]
    BY <1>5, ConsumeCounts DEF Consume
  <2>2. sorted' \in Seq(Positions)
    BY <1>5, ConsumeFacts
  <2>3. at' \in 1 .. Len(plugins) + 1 /\ progress' \in BOOLEAN
    BY <1>0, <1>5 DEF Consume
  <2> QED
    BY <1>0, <1>5, <2>1, <2>2, <2>3 DEF Consume
<1>6. CASE ScanAgain
  <2>1. progress' \in BOOLEAN /\ at' = 1
    BY <1>6 DEF ScanAgain
  <2>2. UNCHANGED <<plugins, stage, error, inDegree, sorted, world>>
    BY <1>6 DEF ScanAgain
  <2> QED
    BY <1>0, <2>1, <2>2
<1>7. CASE Stuck
  BY <1>0, <1>7 DEF Stuck, Refuse
<1>8. CASE EndSort
  BY <1>0, <1>8 DEF EndSort
<1>9. CASE MergeSchemas
  <2>1. UNION {plugins[i].tables : i \in Positions} \subseteq Tables
    BY JobTypes
  <2> QED
    BY <1>0, <1>9, <2>1 DEF MergeSchemas
<1>10. CASE RejectSchemas
  BY <1>0, <1>10 DEF RejectSchemas, Refuse
<1>11. ASSUME NEW i \in Positions, Install(i) PROVE TypeOK'
  <2>1. installed' \in Seq(Positions) /\ mounted' \subseteq Positions /\ services' \subseteq Ids
    BY <1>11, JobTypes DEF Install
  <2>2. jobs' \subseteq Jobs \X Positions
    BY <1>11, JobTypes DEF Install
  <2> QED
    BY <1>0, <1>11, <2>1, <2>2 DEF Install
<1>12. ASSUME NEW i \in Positions, LackCapability(i) PROVE TypeOK'
  BY <1>0, <1>12 DEF LackCapability, Refuse
<1>13. ASSUME NEW i \in Positions, ThrowInApp(i) PROVE TypeOK'
  <2>1. mounted' \subseteq Positions /\ services' \subseteq Ids
    BY <1>13, JobTypes DEF ThrowInApp
  <2>2. jobs' \subseteq Jobs \X Positions
    BY <1>13, JobTypes DEF ThrowInApp
  <2> QED
    BY <1>0, <1>13, <2>1, <2>2 DEF ThrowInApp, Refuse
<1>14. CASE Boot
  BY <1>0, <1>14 DEF Boot
<1> QED
  BY <1>1, <1>2, <1>3, <1>4, <1>5, <1>6, <1>7, <1>8, <1>9, <1>10, <1>11, <1>12, <1>13, <1>14
     DEF Next

\* The variables keep their types: no requirement is counted down twice.
THEOREM TypeCorrect == Spec => []TypeOK
<1>1. TypeOK /\ SortInv /\ [Next]_vars => TypeOK' /\ SortInv'
  BY TypeStep, SortStep
<1> QED
  BY InitSort, <1>1, PTL DEF Spec

-----------------------------------------------------------------------------
\* A scan that has sorted nothing has passed only over plugins that wait.
ScanInv == stage = "sort" /\ ~progress => \A i \in Positions : i < at => ~Ready(i)

\* No plugin on a cycle is ever sorted.
CyclesNeverStart == \A S \in SUBSET Positions : Cycle(S) => S \cap Elements(sorted) = {}

SortIsComplete == stage \in {"merge", "install", "booted"} => Elements(sorted) = Positions

CycleWasFound == error = "cycle" => \E S \in SUBSET Positions : Cycle(S)

CycleInv == ScanInv /\ CyclesNeverStart /\ SortIsComplete /\ CycleWasFound

\* Nothing was scanned or refused at first.
LEMMA InitCycle == Init => CycleInv
<1> SUFFICES ASSUME Init PROVE CycleInv
  OBVIOUS
<1>1. Elements(sorted) = {}
  BY DEF Init, Elements
<1> QED
  BY <1>1 DEF Init, CycleInv, ScanInv, CyclesNeverStart, SortIsComplete, CycleWasFound

\* What a scan without progress has passed stays unready.
LEMMA ScanStep == TypeOK /\ SortInv /\ ScanInv /\ [Next]_vars => ScanInv'
<1> SUFFICES ASSUME TypeOK, SortInv, ScanInv, [Next]_vars,
                    stage' = "sort", ~progress',
                    NEW i \in Positions, i < at'
             PROVE  ~Ready(i)'
  BY ArrayIsFixed DEF ScanInv
<1>0. i \in Nat /\ i >= 1
  BY ArrayFacts
<1>1. CASE Accept
  BY <1>0, <1>1 DEF Accept, SortInv, StartInv
<1>2. CASE Skip
  <2>1. stage = "sort" /\ ~progress /\ ~Ready(at) /\ at' = at + 1
    BY <1>2 DEF Skip
  <2>2. Ready(i)' <=> Ready(i)
    BY <1>2 DEF Skip, Ready, Elements
  <2>3. at \in Nat
    BY <1>2, ArrayFacts DEF Skip
  <2>4. CASE i = at
    BY <2>1, <2>2, <2>4
  <2>5. CASE i < at
    BY <2>1, <2>2, <2>5 DEF ScanInv
  <2> QED
    BY <1>0, <2>1, <2>3, <2>4, <2>5
<1>3. CASE Consume
  BY <1>3 DEF Consume
<1>4. CASE ScanAgain
  BY <1>0, <1>4 DEF ScanAgain
<1>5. CASE UNCHANGED <<stage, order>>
  <2>1. Ready(i)' <=> Ready(i)
    BY <1>5 DEF Ready, order, Elements
  <2>2. stage = "sort" /\ ~progress /\ at' = at
    BY <1>5 DEF order
  <2> QED
    BY <2>1, <2>2 DEF ScanInv
<1> QED
  BY <1>1, <1>2, <1>3, <1>4, <1>5
     DEF Next, vars, Reject, Stuck, EndSort, MergeSchemas, RejectSchemas, Install,
         LackCapability, ThrowInApp, Boot, Refuse

\* Every step keeps the cycles out of the order.
LEMMA CycleStep == TypeOK /\ SortInv /\ CycleInv /\ [Next]_vars => CycleInv'
<1> SUFFICES ASSUME TypeOK, SortInv, CycleInv, [Next]_vars PROVE CycleInv'
  OBVIOUS
<1>0. Positions' = Positions /\ \A S : Cycle(S)' <=> Cycle(S)
  BY ArrayIsFixed DEF Cycle
<1>1. ScanInv'
  BY ScanStep DEF CycleInv
<1>2. CyclesNeverStart'
  <2>1. CASE sorted' = sorted
    BY <1>0, <2>1 DEF CycleInv, CyclesNeverStart, Elements
  <2>2. CASE Consume
    <3> SUFFICES ASSUME NEW S \in SUBSET Positions, Cycle(S), at \in S
                 PROVE  FALSE
      BY <1>0, <2>2, ConsumeFacts DEF CycleInv, CyclesNeverStart
    <3>1. PICK r \in Requires(at) : r \in S
      BY DEF Cycle
    <3>2. r \in Elements(sorted)
      BY <2>2, <3>1, ConsumeFacts DEF Unmet
    <3> QED
      BY <3>1, <3>2 DEF CycleInv, CyclesNeverStart
  <2> QED
    BY <2>1, <2>2 DEF Next, vars, order, Reject, Accept, Skip, ScanAgain, Stuck, EndSort,
       MergeSchemas, RejectSchemas, Install, LackCapability, ThrowInApp, Boot
<1>3. Len(sorted) = Len(plugins) <=> Elements(sorted) = Positions
  <2>1. Len(plugins) \in Nat /\ Positions = 1 .. Len(plugins) /\ sorted \in Seq(1 .. Len(plugins))
    BY ArrayFacts DEF TypeOK
  <2>2. \A k, l \in DOMAIN sorted : sorted[k] = sorted[l] => k = l
    BY DEF SortInv, NoRepeats
  <2> QED
    BY <2>1, <2>2, FullLength
<1>4. SortIsComplete'
  <2>1. CASE EndSort
    BY <1>0, <1>3, <2>1 DEF EndSort, AllSorted, SortIsComplete, order, Elements
  <2>2. CASE ~EndSort
    <3>1. stage' \in {"merge", "install", "booted"} =>
            stage \in {"merge", "install", "booted"} /\ sorted' = sorted
      BY <2>2 DEF Next, vars, order, Reject, Accept, Skip, Consume, ScanAgain, Stuck,
         MergeSchemas, RejectSchemas, Install, LackCapability, ThrowInApp, Boot, IsNext, Refuse
    <3> QED
      BY <1>0, <3>1 DEF CycleInv, SortIsComplete, Elements
  <2> QED
    BY <2>1, <2>2
<1>5. CycleWasFound'
  <2>1. CASE Stuck
    <3> DEFINE S == Positions \ Elements(sorted)
    <3>1. S # {} /\ S \in SUBSET Positions
      BY <1>3, <2>1, AppendFacts DEF Stuck, AllSorted, TypeOK, Elements
    <3>2. at = Len(plugins) + 1 /\ stage = "sort" /\ ~progress
      BY <2>1, ArrayFacts DEF Stuck, EndOfScan, TypeOK
    <3>3. ASSUME NEW i \in S PROVE Requires(i) \cap S # {}
      <4>1. ~Ready(i) /\ i \in Positions /\ i \notin Elements(sorted)
        BY <3>2, ArrayFacts DEF CycleInv, ScanInv
      <4>2. Unmet(i) # {}
        BY <4>1, <3>2, UnmetFacts DEF Ready, SortInv, CountInv
      <4>3. Unmet(i) \subseteq Requires(i) \cap S
        BY DEF Unmet, Requires
      <4> QED
        BY <4>2, <4>3
    <3>4. Cycle(S)
      BY <3>1, <3>3 DEF Cycle
    <3> QED
      BY <1>0, <3>1, <3>4 DEF CycleWasFound
  <2>2. CASE ~Stuck
    <3>1. error' = "cycle" => error = "cycle"
      BY <2>2 DEF Next, vars, Reject, Accept, Skip, Consume, ScanAgain, EndSort,
         MergeSchemas, RejectSchemas, Install, LackCapability, ThrowInApp, Boot, Refuse
    <3> QED
      BY <1>0, <3>1 DEF CycleInv, CycleWasFound
  <2> QED
    BY <2>1, <2>2
<1> QED
  BY <1>1, <1>2, <1>4, <1>5 DEF CycleInv

IndInv == TypeOK /\ SortInv /\ CycleInv

\* Types, sort and cycles together hold in every behaviour.
LEMMA IndInvHolds == Spec => []IndInv
<1>1. Init => IndInv
  BY InitSort, InitCycle DEF IndInv
<1>2. IndInv /\ [Next]_vars => IndInv'
  BY TypeStep, SortStep, CycleStep DEF IndInv
<1> QED
  BY <1>1, <1>2, PTL DEF Spec

\* The kernel reports a circular `requires` exactly when there is one.
THEOREM CyclesAreReported == Spec => []RefusedExactlyOnCycle
<1>1. IndInv => RefusedExactlyOnCycle
  BY DEF IndInv, CycleInv, CycleWasFound, CyclesNeverStart, SortIsComplete,
         RefusedExactlyOnCycle, Cycle
<1> QED
  BY <1>1, IndInvHolds, PTL

-----------------------------------------------------------------------------
\* The scan has sorted every well-listed plugin it has passed.
PassedAreSorted ==
    stage = "sort" => \A S \in SUBSET Positions : WellListed(S) =>
                        \A i \in S : i < at => i \in Elements(sorted)

ListInv == PassedAreSorted /\ WellListedKeepTheirPlace

\* No plugin is in the order at first.
LEMMA InitList == Init => ListInv
BY DEF Init, ListInv, PassedAreSorted, WellListedKeepTheirPlace

\* Every step keeps the well-listed plugins in their places.
LEMMA ListStep == IndInv /\ ListInv /\ [Next]_vars => ListInv'
<1> SUFFICES ASSUME TypeOK, SortInv, ListInv, [Next]_vars PROVE ListInv'
  BY DEF IndInv
<1>0. /\ Positions' = Positions /\ \A S : WellListed(S)' <=> WellListed(S)
      /\ \A i \in Positions : i \in Nat /\ i >= 1
  BY ArrayIsFixed, ArrayFacts DEF WellListed
<1>1. CASE Consume
  <2>1. at \in Positions /\ at' = at + 1 /\ stage = "sort"
    BY <1>1 DEF Consume
  <2>2. PassedAreSorted'
    <3> SUFFICES ASSUME NEW S \in SUBSET Positions, WellListed(S), NEW i \in S, i < at + 1
                 PROVE  i \in Elements(sorted) \cup {at}
      BY <1>0, <1>1, <2>1, ConsumeFacts DEF PassedAreSorted
    <3> QED
      BY <1>0, <2>1 DEF ListInv, PassedAreSorted
  <2>3. WellListedKeepTheirPlace'
    <3> SUFFICES ASSUME NEW S \in SUBSET Positions, WellListed(S), NEW i \in S,
                        NEW k \in DOMAIN sorted', i < sorted'[k]
                 PROVE  \E l \in DOMAIN sorted' : l < k /\ sorted'[l] = i
      BY <1>0 DEF WellListedKeepTheirPlace
    <3>1. CASE k \in 1 .. Len(sorted)
      <4>1. k \in DOMAIN sorted /\ sorted'[k] = sorted[k]
        BY <1>1, <3>1, ConsumeFacts
      <4>2. PICK l \in DOMAIN sorted : l < k /\ sorted[l] = i
        BY <4>1 DEF ListInv, WellListedKeepTheirPlace
      <4> QED
        BY <1>1, <4>2, ConsumeFacts
    <3>2. CASE k = Len(sorted) + 1
      <4>1. i < at
        BY <1>1, <3>2, ConsumeFacts
      <4>2. i \in Elements(sorted)
        BY <2>1, <4>1 DEF ListInv, PassedAreSorted
      <4>3. PICK l \in DOMAIN sorted : sorted[l] = i
        BY <4>2 DEF Elements
      <4> QED
        BY <1>1, <3>2, <4>3, ConsumeFacts
    <3> QED
      BY <1>1, <3>1, <3>2, ConsumeFacts
  <2> QED
    BY <2>2, <2>3 DEF ListInv
<1>2. CASE sorted' = sorted /\ ~Consume
  <2>1. WellListedKeepTheirPlace'
    BY <1>0, <1>2 DEF ListInv, WellListedKeepTheirPlace
  <2>2. CASE Skip
    <3> SUFFICES ASSUME NEW S \in SUBSET Positions, WellListed(S), NEW i \in S, i < at + 1
                 PROVE  i \in Elements(sorted)
      BY <1>0, <1>2, <2>1, <2>2 DEF ListInv, PassedAreSorted, Skip, Elements
    <3>1. stage = "sort" /\ at \in Positions /\ ~Ready(at)
      BY <2>2 DEF Skip
    <3>2. \A j \in S : j < at => j \in Elements(sorted)
      BY <3>1 DEF ListInv, PassedAreSorted
    <3>3. CASE i = at
      <4>1. \A r \in Requires(i) : r \in S /\ r < at
        BY <3>3 DEF WellListed
      <4>2. Unmet(i) = {}
        BY <3>2, <4>1 DEF Unmet
      <4>3. inDegree[i] = 0
        BY <3>1, <4>2, UnmetFacts DEF SortInv, CountInv
      <4> QED
        BY <3>1, <3>3, <4>3 DEF Ready
    <3> QED
      BY <1>0, <3>1, <3>2, <3>3
  <2>3. CASE Accept \/ ScanAgain
    <3>1. at' = 1
      BY <2>3 DEF Accept, ScanAgain, SortInv, StartInv
    <3> QED
      BY <1>0, <2>1, <3>1 DEF ListInv, PassedAreSorted
  <2>4. CASE ~Skip /\ ~Accept /\ ~ScanAgain
    <3>1. stage' = "sort" => stage = "sort" /\ at' = at
      BY <1>2, <2>4 DEF Next, vars, order, Reject, Stuck, EndSort, MergeSchemas,
         RejectSchemas, Install, LackCapability, ThrowInApp, Boot, Refuse
    <3> QED
      BY <1>0, <1>2, <2>1, <3>1 DEF ListInv, PassedAreSorted, Elements
  <2> QED
    BY <2>2, <2>3, <2>4
<1> QED
  BY <1>1, <1>2 DEF Next, vars, order, Reject, Accept, Skip, ScanAgain, Stuck, EndSort,
     MergeSchemas, RejectSchemas, Install, LackCapability, ThrowInApp, Boot

\* A plugin whose requirements, and theirs, are all listed before it is not
\* overtaken by a plugin listed after it.
THEOREM PlacesAreKept == Spec => []WellListedKeepTheirPlace
<1>1. IndInv /\ ListInv /\ [Next]_vars /\ IndInv' => ListInv'
  BY ListStep
<1>2. ListInv => WellListedKeepTheirPlace
  BY DEF ListInv
<1> QED
  BY InitList, IndInvHolds, <1>1, <1>2, PTL DEF Spec

-----------------------------------------------------------------------------
\* Every plugin installed is in no later phase than those still to come.
RemainingAreLater ==
    \A k \in DOMAIN installed : \A j \in Remaining :
      PhaseRank(installed[k]) <= PhaseRank(j)

ServicesArePublished ==
    \A i \in Elements(installed) : plugins[i].provides \subseteq services

InstallInv == /\ RequirementsFirst
              /\ PhasesInOrder
              /\ RemainingAreLater
              /\ ServicesArePublished
              /\ DeclaredUseIsServed

\* When the turn of a plugin comes, its requirements have been installed.
LEMMA RequirementsAreInstalled ==
  ASSUME IndInv, NEW i \in Positions, IsNext(i)
  PROVE  Requires(i) \subseteq Elements(installed)
<1> SUFFICES ASSUME NEW r \in Requires(i), r \notin Elements(installed)
             PROVE  FALSE
  OBVIOUS
<1>1. /\ stage = "install" /\ Elements(sorted) = Positions /\ PhasesAllow
      /\ NoRepeats(sorted) /\ SortedAfterRequirements /\ sorted \in Seq(Positions)
  BY DEF IndInv, IsNext, CycleInv, SortIsComplete, SortInv, PhaseInv, TypeOK
<1>2. r \in Remaining /\ PhaseRank(r) <= PhaseRank(i)
  BY <1>1 DEF Remaining, Requires, PhasesAllow
<1>3. PICK k \in DOMAIN sorted : sorted[k] = i
  BY <1>1 DEF Elements
<1>4. PICK l \in DOMAIN sorted : l < k /\ sorted[l] = r
  BY <1>1, <1>3 DEF SortedAfterRequirements
<1>5. k \in Nat /\ l \in Nat
  BY <1>1
<1>6. r # i
  BY <1>1, <1>3, <1>4, <1>5 DEF NoRepeats
<1>7. GroupedBefore(i, r)
  BY <1>2, <1>6 DEF IsNext
<1>8. PhaseRank(i) \in Nat /\ PhaseRank(r) \in Nat
  BY DEF PhaseRank
<1>9. PICK m, n \in DOMAIN sorted : m < n /\ sorted[m] = i /\ sorted[n] = r
  BY <1>2, <1>7, <1>8 DEF GroupedBefore, Precedes
<1>10. m = k /\ n = l
  BY <1>1, <1>3, <1>4, <1>9 DEF NoRepeats
<1> QED
  BY <1>4, <1>5, <1>9, <1>10

\* Nothing is installed at first.
LEMMA InitInstall == Init => InstallInv
<1> SUFFICES ASSUME Init PROVE InstallInv
  OBVIOUS
<1>1. DOMAIN installed = {} /\ Elements(installed) = {} /\ error = "none"
  BY DEF Init, Elements
<1> QED
  BY <1>1 DEF InstallInv, RequirementsFirst, PhasesInOrder, RemainingAreLater,
              ServicesArePublished, DeclaredUseIsServed

\* Installing the next plugin keeps the order of the installation.
LEMMA InstallStep ==
  ASSUME IndInv, InstallInv, NEW i \in Positions, Install(i)
  PROVE  InstallInv'
<1>0. /\ plugins' = plugins /\ Positions' = Positions
      /\ \A j : Requires(j)' = Requires(j) /\ PhaseRank(j)' = PhaseRank(j)
  BY ArrayIsFixed DEF Next
<1>1. /\ IsNext(i) /\ installed' = Append(installed, i) /\ i \in Remaining
      /\ mounted' = mounted \cup {i} /\ error' = error
      /\ services' = services \cup plugins[i].provides /\ MissingServices(i) = {}
  BY DEF Install, IsNext
<1>2. /\ DOMAIN installed = 1 .. Len(installed) /\ Len(installed) \in Nat
      /\ DOMAIN installed' = 1 .. Len(installed) + 1
      /\ \A k \in 1 .. Len(installed) : installed'[k] = installed[k]
      /\ installed'[Len(installed) + 1] = i
      /\ Elements(installed)' = Elements(installed) \cup {i}
  <2>1. installed \in Seq(Positions)
    BY DEF IndInv, TypeOK
  <2>2. Elements(installed)' = Elements(installed')
    BY DEF Elements
  <2> QED
    BY <1>1, <2>1, <2>2, AppendFacts
<1>3. \A k \in DOMAIN installed : installed[k] # i
  BY <1>1 DEF Remaining, Elements
<1>4. RequirementsFirst'
  <2> SUFFICES ASSUME NEW k \in DOMAIN installed', NEW r \in Requires(installed'[k])
               PROVE  \E l \in DOMAIN installed' : l < k /\ installed'[l] = r
    BY <1>0 DEF RequirementsFirst
  <2>1. CASE k \in 1 .. Len(installed)
    <3>1. k \in DOMAIN installed /\ installed'[k] = installed[k]
      BY <1>2, <2>1
    <3>2. PICK l \in DOMAIN installed : l < k /\ installed[l] = r
      BY <3>1 DEF InstallInv, RequirementsFirst
    <3> QED
      BY <1>2, <3>2
  <2>2. CASE k = Len(installed) + 1
    <3>1. r \in Elements(installed)
      BY <1>1, <1>2, <2>2, RequirementsAreInstalled
    <3>2. PICK l \in DOMAIN installed : installed[l] = r
      BY <3>1 DEF Elements
    <3> QED
      BY <1>2, <2>2, <3>2
  <2> QED
    BY <1>2, <2>1, <2>2
<1>5. \A j \in Remaining \ {i} : PhaseRank(i) <= PhaseRank(j)
  <2>1. \A j : PhaseRank(j) \in Nat
    BY DEF PhaseRank
  <2> QED
    BY <1>1, <2>1 DEF IsNext, GroupedBefore
<1>6. Remaining' = Remaining \ {i}
  BY <1>0, <1>2 DEF Remaining
<1>7. PhasesInOrder'
  <2> SUFFICES ASSUME NEW k \in DOMAIN installed', NEW l \in DOMAIN installed', k < l
               PROVE  /\ installed'[k] # installed'[l]
                      /\ PhaseRank(installed'[k]) <= PhaseRank(installed'[l])
    BY <1>0 DEF PhasesInOrder
  <2>1. k \in DOMAIN installed /\ installed'[k] = installed[k]
    BY <1>2
  <2>2. CASE l \in 1 .. Len(installed)
    BY <1>2, <2>1, <2>2 DEF InstallInv, PhasesInOrder
  <2>3. CASE l = Len(installed) + 1
    BY <1>1, <1>2, <1>3, <2>1, <2>3 DEF InstallInv, RemainingAreLater
  <2> QED
    BY <1>2, <2>2, <2>3
<1>8. RemainingAreLater'
  <2> SUFFICES ASSUME NEW k \in DOMAIN installed', NEW j \in Remaining \ {i}
               PROVE  PhaseRank(installed'[k]) <= PhaseRank(j)
    BY <1>0, <1>6 DEF RemainingAreLater
  <2>1. CASE k \in 1 .. Len(installed)
    BY <1>2, <2>1 DEF InstallInv, RemainingAreLater
  <2>2. CASE k = Len(installed) + 1
    BY <1>2, <1>5, <2>2
  <2> QED
    BY <1>2, <2>1, <2>2
<1>9. ServicesArePublished'
  BY <1>0, <1>1, <1>2 DEF InstallInv, ServicesArePublished
<1>10. DeclaredUseIsServed'
  <2>1. \A j : Undeclared(j)' = Undeclared(j)
    BY <1>0 DEF Undeclared
  <2>2. plugins[i].uses \subseteq services
    BY <1>1 DEF MissingServices
  <2> QED
    BY <1>0, <1>1, <1>2, <2>1, <2>2 DEF InstallInv, DeclaredUseIsServed
<1> QED
  BY <1>4, <1>7, <1>8, <1>9, <1>10 DEF InstallInv

\* A boot that fails for a missing service fails in an undeclared use.
LEMMA ThrowStep ==
  ASSUME IndInv, InstallInv, NEW i \in Positions, ThrowInApp(i)
  PROVE  InstallInv'
<1>0. /\ plugins' = plugins /\ Positions' = Positions
      /\ \A j : Requires(j)' = Requires(j) /\ PhaseRank(j)' = PhaseRank(j)
  BY ArrayIsFixed DEF Next
<1>1. /\ IsNext(i) /\ installed' = installed /\ mounted' = mounted \cup {i}
      /\ services \subseteq services'
      /\ error' = "service" => MissingServices(i) # {}
  BY DEF ThrowInApp, Refuse
<1>2. Elements(installed)' = Elements(installed) /\ Remaining' = Remaining
  BY <1>0, <1>1 DEF Elements, Remaining
<1>3. MissingServices(i) # {} => Undeclared(i) # {}
  <2>1. UNION {plugins[r].provides : r \in Requires(i)} \subseteq services
    BY <1>1, RequirementsAreInstalled DEF InstallInv, ServicesArePublished
  <2> QED
    BY <2>1 DEF MissingServices, Undeclared
<1>4. \A j : Undeclared(j)' = Undeclared(j)
  BY <1>0 DEF Undeclared
<1>5. DeclaredUseIsServed'
  BY <1>0, <1>1, <1>2, <1>3, <1>4 DEF InstallInv, DeclaredUseIsServed
<1>6. RequirementsFirst'
  BY <1>0, <1>1 DEF InstallInv, RequirementsFirst
<1>7. PhasesInOrder' /\ RemainingAreLater'
  BY <1>0, <1>1, <1>2 DEF InstallInv, PhasesInOrder, RemainingAreLater
<1>8. ServicesArePublished'
  BY <1>0, <1>1, <1>2 DEF InstallInv, ServicesArePublished
<1> QED
  BY <1>5, <1>6, <1>7, <1>8 DEF InstallInv

\* Every step keeps the order of the installation.
LEMMA InstallInvStep == IndInv /\ InstallInv /\ [Next]_vars => InstallInv'
<1> SUFFICES ASSUME IndInv, InstallInv, [Next]_vars PROVE InstallInv'
  OBVIOUS
<1>1. CASE \E i \in Positions : Install(i)
  BY <1>1, InstallStep
<1>2. CASE \E i \in Positions : ThrowInApp(i)
  BY <1>2, ThrowStep
<1>3. CASE UNCHANGED <<installed, mounted, services>> /\ (error' = "service" => error = "service")
  <2>1. /\ plugins' = plugins /\ Positions' = Positions
        /\ \A j : Requires(j)' = Requires(j) /\ PhaseRank(j)' = PhaseRank(j)
    BY ArrayIsFixed
  <2>2. Elements(installed)' = Elements(installed) /\ Remaining' = Remaining
    BY <1>3, <2>1 DEF Elements, Remaining
  <2>3. \A j : Undeclared(j)' = Undeclared(j)
    BY <2>1 DEF Undeclared
  <2>4. RequirementsFirst'
    BY <1>3, <2>1 DEF InstallInv, RequirementsFirst
  <2>5. PhasesInOrder' /\ RemainingAreLater'
    BY <1>3, <2>1, <2>2 DEF InstallInv, PhasesInOrder, RemainingAreLater
  <2>6. ServicesArePublished' /\ DeclaredUseIsServed'
    BY <1>3, <2>1, <2>2, <2>3 DEF InstallInv, ServicesArePublished, DeclaredUseIsServed
  <2> QED
    BY <2>4, <2>5, <2>6 DEF InstallInv
<1> QED
  BY <1>1, <1>2, <1>3 DEF Next, vars, world, Reject, Accept, Skip, Consume, ScanAgain, Stuck,
     EndSort, MergeSchemas, RejectSchemas, LackCapability, Boot, Refuse

\* The order of the installation holds in every behaviour.
LEMMA InstallInvHolds == Spec => []InstallInv
<1>1. IndInv /\ InstallInv /\ [Next]_vars => InstallInv'
  BY InstallInvStep
<1> QED
  BY InitInstall, IndInvHolds, <1>1, PTL DEF Spec

\* Every plugin runs after the plugins it requires, whatever the array.
THEOREM RequirementsRunFirst == Spec => []RequirementsFirst
<1>1. InstallInv => RequirementsFirst
  BY DEF InstallInv
<1> QED
  BY <1>1, InstallInvHolds, PTL

\* Plugins are installed once, phase by phase.
THEOREM PhasesAreKept == Spec => []PhasesInOrder
<1>1. InstallInv => PhasesInOrder
  BY DEF InstallInv
<1> QED
  BY <1>1, InstallInvHolds, PTL

\* A plugin that requires the providers of the services it gets finds them.
THEOREM DeclaredServicesAreThere == Spec => []DeclaredUseIsServed
<1>1. InstallInv => DeclaredUseIsServed
  BY DEF InstallInv
<1> QED
  BY <1>1, InstallInvHolds, PTL

\* The order in which installPlugins runs the plugins is right, whatever the grouping by
\* phase moves.
THEOREM InstallationIsOrdered == Spec => []InstallIsOrdered
BY RequirementsRunFirst, PhasesAreKept, PTL DEF InstallIsOrdered

\* The sort of validateAndOrder refuses cycles only, and is stable as far as it can be.
THEOREM TheSortIsRight == Spec => []SortIsRight
BY CyclesAreReported, PlacesAreKept, PTL DEF SortIsRight

-----------------------------------------------------------------------------
(* The jobs, and what a boot has in place when it succeeds. *)

JobsArePlaced == \A i \in Elements(installed) : plugins[i].jobs \X {i} \subseteq jobs

TablesArePlaced ==
    stage \in {"install", "booted"} => \A i \in Positions : plugins[i].tables \subseteq tables

NoneRemains == stage = "booted" => Remaining = {}

PlacedInv == OneOwnerEach /\ JobsArePlaced /\ TablesArePlaced /\ NoneRemains

\* No job and no table is placed at first.
LEMMA InitPlaced == Init => PlacedInv
<1> SUFFICES ASSUME Init PROVE PlacedInv
  OBVIOUS
<1>1. Elements(installed) = {} /\ jobs = {} /\ stage = "validate"
  BY DEF Init, Elements
<1> QED
  BY <1>1 DEF PlacedInv, OneOwnerEach, JobsArePlaced, TablesArePlaced, NoneRemains

\* Jobs of one owner that has none of the names yet leave every name its one owner.
LEMMA NewJobsHaveOneOwner ==
  ASSUME TypeOK, OneOwnerEach, NEW i \in Positions,
         NEW N, N \cap JobNames = {}, jobs' = jobs \cup (N \X {i}), mounted' = mounted \cup {i}
  PROVE  OneOwnerEach'
<1>1. \A j \in jobs : j[1] \in JobNames /\ j[2] \in mounted
  BY DEF JobNames, OneOwnerEach
<1>2. \A j \in N \X {i} : j[1] \in N /\ j[2] = i /\ j = <<j[1], i>>
  OBVIOUS
<1>3. ASSUME NEW j1 \in jobs', NEW j2 \in jobs', j1[1] = j2[1] PROVE j1 = j2
  <2>1. CASE j1 \in jobs /\ j2 \in jobs
    BY <1>3, <2>1 DEF OneOwnerEach
  <2>2. CASE j1 \in N \X {i} /\ j2 \in N \X {i}
    BY <1>2, <1>3, <2>2
  <2> QED
    BY <1>1, <1>2, <1>3, <2>1, <2>2
<1>4. ASSUME NEW j \in jobs' PROVE j[2] \in mounted'
  BY <1>1, <1>2
<1> QED
  BY <1>3, <1>4 DEF OneOwnerEach

\* Every step keeps the jobs and the tables with their owners.
LEMMA PlacedStep == TypeOK /\ PlacedInv /\ [Next]_vars => PlacedInv'
<1> SUFFICES ASSUME TypeOK, PlacedInv, [Next]_vars PROVE PlacedInv'
  OBVIOUS
<1>0. plugins' = plugins /\ Positions' = Positions
  BY ArrayIsFixed
<1>1. ASSUME NEW i \in Positions, Install(i) PROVE PlacedInv'
  <2>1. /\ installed' = Append(installed, i) /\ stage = "install" /\ UNCHANGED <<stage, tables>>
        /\ mounted' = mounted \cup {i}
        /\ jobs' = jobs \cup ((plugins[i].jobs \cup (OptionalJobs(i) \ JobNames)) \X {i})
        /\ plugins[i].jobs \cap JobNames = {}
    BY <1>1 DEF Install, IsNext, JobsClash
  <2>2. Elements(installed)' = Elements(installed) \cup {i}
    <3>1. installed \in Seq(Positions)
      BY DEF TypeOK
    <3>2. Elements(installed)' = Elements(installed')
      BY DEF Elements
    <3> QED
      BY <2>1, <3>1, <3>2, AppendFacts
  <2>3. OneOwnerEach'
    <3>1. PICK N : N = plugins[i].jobs \cup (OptionalJobs(i) \ JobNames)
      OBVIOUS
    <3>2. N \cap JobNames = {} /\ jobs' = jobs \cup (N \X {i})
      BY <2>1, <3>1
    <3> QED
      BY <2>1, <3>2, NewJobsHaveOneOwner DEF PlacedInv
  <2>4. JobsArePlaced'
    BY <1>0, <2>1, <2>2 DEF PlacedInv, JobsArePlaced
  <2>5. TablesArePlaced' /\ NoneRemains'
    BY <1>0, <2>1 DEF PlacedInv, TablesArePlaced, NoneRemains
  <2> QED
    BY <2>3, <2>4, <2>5 DEF PlacedInv
<1>2. ASSUME NEW i \in Positions, ThrowInApp(i) PROVE PlacedInv'
  <2>1. /\ UNCHANGED <<installed, tables>> /\ stage' = "refused"
        /\ mounted' = mounted \cup {i}
    BY <1>2 DEF ThrowInApp, Refuse
  <2>2. PICK J \in SUBSET (plugins[i].jobs \ JobNames) : jobs' = jobs \cup (J \X {i})
    BY <1>2 DEF ThrowInApp
  <2>3. OneOwnerEach'
    BY <2>1, <2>2, NewJobsHaveOneOwner DEF PlacedInv
  <2>4. JobsArePlaced'
    BY <1>0, <2>1, <2>2 DEF PlacedInv, JobsArePlaced, Elements
  <2>5. TablesArePlaced' /\ NoneRemains'
    BY <2>1 DEF TablesArePlaced, NoneRemains
  <2> QED
    BY <2>3, <2>4, <2>5 DEF PlacedInv
<1>3. CASE UNCHANGED <<installed, mounted, jobs>>
  <2>1. OneOwnerEach' /\ JobsArePlaced'
    BY <1>0, <1>3 DEF PlacedInv, OneOwnerEach, JobsArePlaced, Elements
  <2>2. Remaining' = Remaining
    BY <1>0, <1>3 DEF Remaining, Elements
  <2>3. CASE UNCHANGED <<stage, tables>>
    BY <1>0, <2>1, <2>2, <2>3 DEF PlacedInv, TablesArePlaced, NoneRemains
  <2>4. CASE stage' \notin {"install", "booted"}
    BY <2>1, <2>4 DEF PlacedInv, TablesArePlaced, NoneRemains
  <2>5. CASE MergeSchemas
    BY <1>0, <2>1, <2>2, <2>5 DEF MergeSchemas, PlacedInv, TablesArePlaced, NoneRemains
  <2>6. CASE Boot
    BY <1>0, <2>1, <2>2, <2>6 DEF Boot, world, PlacedInv, TablesArePlaced, NoneRemains
  <2>7. CASE \E i \in Positions : Install(i) \/ ThrowInApp(i)
    BY <1>1, <1>2, <2>7
  <2> QED
    BY <2>3, <2>4, <2>5, <2>6, <2>7
    DEF Next, vars, world, Reject, Accept, Skip, Consume, ScanAgain, Stuck, EndSort,
        RejectSchemas, LackCapability, Refuse
<1> QED
  BY <1>1, <1>2, <1>3 DEF Next, vars, world, Reject, Accept, Skip, Consume, ScanAgain, Stuck,
     EndSort, MergeSchemas, RejectSchemas, LackCapability, Boot

\* A boot leaves what the manifests say: declared uses are served, each job has one owner
\* that has run, and one that succeeds has every table, service and job in place.
THEOREM BootsAreWhole == Spec => []BootIsWhole
<1>1. IndInv /\ InstallInv /\ PlacedInv => BootIsWhole
  <2> SUFFICES ASSUME IndInv, InstallInv, PlacedInv, stage = "booted"
               PROVE  /\ Elements(installed) = Positions
                      /\ \A i \in Positions : /\ plugins[i].tables \subseteq tables
                                              /\ plugins[i].provides \subseteq services
                                              /\ plugins[i].jobs \X {i} \subseteq jobs
    BY DEF InstallInv, PlacedInv, BootIsWhole, BootedIsComplete
  <2>1. Elements(installed) = Positions
    BY DEF PlacedInv, NoneRemains, Remaining, IndInv, TypeOK, Elements
  <2> QED
    BY <2>1 DEF PlacedInv, TablesArePlaced, JobsArePlaced, InstallInv, ServicesArePublished
<1>2. IndInv /\ PlacedInv /\ [Next]_vars => PlacedInv'
  BY PlacedStep DEF IndInv
<1> QED
  BY <1>1, <1>2, InitPlaced, IndInvHolds, InstallInvHolds, PTL DEF Spec
=============================================================================
