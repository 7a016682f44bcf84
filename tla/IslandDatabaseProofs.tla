------------------------- MODULE IslandDatabaseProofs -------------------------
(* Proofs about IslandDatabase, for any bodies, islands and threshold.     *)
EXTENDS IslandDatabase, FiniteSetTheorems, TLAPS

(***************************************************************************)
(* Reach(i, b) is the connected component of b: two bodies of an island    *)
(* have the same component or disjoint ones.                               *)
(***************************************************************************)

\* What b reaches contains b, lies in the island and is closed under contacts.
LEMMA ReachClosed ==
    ASSUME NEW i, NEW b \in Bodies, island_index[b] = i
    PROVE  /\ b \in Reach(i, b)
           /\ Reach(i, b) \subseteq {a \in Bodies : island_index[a] = i}
           /\ \A c \in net : c \cap Reach(i, b) # {} =>
                (c \cap {a \in Bodies : island_index[a] = i}) \subseteq Reach(i, b)
  BY DEF Reach

\* A closed set of bodies of the island that contains b contains what b reaches.
LEMMA ReachLeast ==
    ASSUME NEW i, NEW b \in Bodies, NEW S,
           S \subseteq {a \in Bodies : island_index[a] = i}, b \in S,
           \A c \in net : c \cap S # {} => (c \cap {a \in Bodies : island_index[a] = i}) \subseteq S
    PROVE  Reach(i, b) \subseteq S
  BY DEF Reach

\* The bodies b reaches reach the same bodies.
LEMMA ReachSame ==
    ASSUME NEW i, NEW b \in Bodies, island_index[b] = i, NEW a \in Reach(i, b)
    PROVE  Reach(i, a) = Reach(i, b)
  <1> DEFINE inside == {x \in Bodies : island_index[x] = i}
             rest == inside \ Reach(i, a)
  <1>1. a \in Bodies /\ island_index[a] = i
    BY ReachClosed
  <1>2. Reach(i, a) \subseteq Reach(i, b)
    BY <1>1, ReachClosed, ReachLeast
  <1>3. b \in Reach(i, a)
    <2> SUFFICES ASSUME b \notin Reach(i, a) PROVE FALSE
      OBVIOUS
    <2>1. b \in rest /\ rest \subseteq inside
      OBVIOUS
    <2>2. \A c \in net : c \cap rest # {} => (c \cap inside) \subseteq rest
      BY <1>1, ReachClosed
    <2>3. Reach(i, b) \subseteq rest
      <3> HIDE DEF rest
      <3> QED
        BY <2>1, <2>2, ReachLeast
    <2>4. a \in Reach(i, a)
      BY <1>1, ReachClosed
    <2> QED
      BY <2>3, <2>4
  <1>4. Reach(i, b) \subseteq Reach(i, a)
    BY <1>1, <1>3, ReachClosed, ReachLeast
  <1> QED
    BY <1>2, <1>4

(***************************************************************************)
(* The inductive invariant, one lemma for each kind of step.               *)
(***************************************************************************)

LEMMA InitIslandInv == Init => IslandInv
  BY ThresholdAssumption, IslandsAssumption DEF Init, IslandInv, MembersMatch, Flags

\* A new island has one body, which was in none.
LEMMA AllocStep ==
    ASSUME IslandInv, NEW b \in Bodies, NEW d, AllocBody(b, d)
    PROVE  IslandInv'
  <1> USE DEF IslandInv, MembersMatch
  <1>1. b \notin dynamic /\ island_index[b] = Static /\ \A i \in Islands : b \notin members[i]
    BY DEF AllocBody
  <1>2. CASE d
    <2>1. PICK i \in Islands :
            /\ Reserve({i})
            /\ used' = used \cup {i}
            /\ island_index' = [island_index EXCEPT ![b] = i]
            /\ members' = [members EXCEPT ![i] = {b}]
            /\ flags' = [flags EXCEPT ![i] = InitialFlags]
      BY <1>2 DEF AllocBody
    <2>2. i \notin used /\ members[i] = {} /\ i # Static
      BY <2>1, IslandsAssumption DEF Reserve
    <2>3. /\ bodies' \subseteq Bodies /\ dynamic' = dynamic \cup {b} /\ dynamic' \subseteq bodies'
          /\ low_time' \in [Bodies -> 0..SleepThreshold]
          /\ contact_new' = contact_new /\ sleep_enabled' = sleep_enabled
      BY <1>2, ThresholdAssumption DEF AllocBody, contactVars, configVars
    <2>4. flags' \in [Islands -> SUBSET Flags] /\ "try" \notin InitialFlags
      BY <2>1 DEF InitialFlags, Flags
    <2>5. /\ island_index' \in [Bodies -> Islands \cup {Static}] /\ used' \subseteq Islands
          /\ members' \in [Islands -> SUBSET Bodies]
      BY <2>1
    <2>6. MembersMatch'
      <3>1. \A a \in Bodies : island_index'[a] # Static <=> a \in dynamic'
        BY <1>1, <2>1, <2>2, <2>3
      <3>2. \A j \in Islands : members'[j] = {a \in dynamic' : island_index'[a] = j}
        BY <1>1, <2>1, <2>2, <2>3
      <3>3. \A j \in Islands : j \in used' <=> members'[j] # {}
        BY <1>1, <2>1, <2>2
      <3> QED
        BY <3>1, <3>2, <3>3
    <2>7. \A j \in Islands : "try" \in flags'[j] => j # i /\ "try" \in flags[j]
      BY <2>1, <2>4
    <2>8. \A j \in Islands : "try" \in flags'[j] =>
            j \in used' /\ sleep_enabled' /\ \A a \in members'[j] : low_time'[a] = SleepThreshold
      BY <1>1, <2>1, <2>3, <2>7 DEF AllocBody
    <2> QED
      BY <2>3, <2>4, <2>5, <2>6, <2>8
  <1>3. CASE ~d
    <2>1. /\ bodies' = bodies \cup {b} /\ dynamic' = dynamic /\ contact_new' = contact_new
          /\ low_time' = [low_time EXCEPT ![b] = 0] /\ sleep_enabled' = sleep_enabled
          /\ island_index' = [island_index EXCEPT ![b] = Static]
          /\ UNCHANGED <<used, members, flags>>
      BY <1>3 DEF AllocBody, contactVars, configVars
    <2>2. low_time' \in [Bodies -> 0..SleepThreshold]
      BY <2>1, ThresholdAssumption
    <2> QED
      BY <1>1, <2>1, <2>2
  <1> QED
    BY <1>2, <1>3

\* A step that leaves the bodies, their islands and the lists alone, and neither tags
\* an island to sleep nor takes time from a body of one that is.
LEMMA QuietStep ==
    ASSUME IslandInv,
           UNCHANGED <<bodies, dynamic, island_index, used, members>>,
           low_time' \in [Bodies -> 0..SleepThreshold],
           flags' \in [Islands -> SUBSET Flags],
           contact_new' \subseteq SUBSET Bodies,
           \A i \in Islands : "try" \in flags'[i] =>
              sleep_enabled' /\ i \in used /\ \A b \in members[i] : low_time'[b] = SleepThreshold
    PROVE  IslandInv'
  BY DEF IslandInv, MembersMatch

LEMMA OtherStep ==
    ASSUME IslandInv, UNCHANGED <<bodies, dynamic, low_time, island_index, used, members, flags, contact_new, sleep_enabled>>
    PROVE  IslandInv'
  BY DEF IslandInv, MembersMatch

LEMMA FlushStep ==
    ASSUME IslandInv, Flush
    PROVE  IslandInv'
  BY ThresholdAssumption, IslandsAssumption DEF Flush, IslandInv, MembersMatch, Flags, configVars

\* What ForgetBody does to the parts of the invariant.
LEMMA ForgetParts ==
    ASSUME IslandInv, NEW b \in Bodies, ForgetBody(b)
    PROVE  /\ bodies' \subseteq Bodies /\ dynamic' = dynamic \ {b} /\ dynamic' \subseteq bodies'
           /\ low_time' \in [Bodies -> 0..SleepThreshold]
           /\ \A a \in Bodies : a # b => low_time'[a] = low_time[a] /\ island_index'[a] = island_index[a]
           /\ island_index' \in [Bodies -> Islands \cup {Static}] /\ island_index'[b] = Static
  BY ThresholdAssumption DEF IslandInv, ForgetBody

LEMMA RemoveDynamicStep ==
    ASSUME IslandInv, NEW b \in Bodies, RemoveDynamic(b)
    PROVE  IslandInv'
  <1> DEFINE i == island_index[b]
  <1> USE DEF IslandInv, MembersMatch
  <1>1. i \in Islands /\ b \in dynamic /\ b \in members[i] /\ i # Static
    BY DEF RemoveDynamic
  <1>2. ForgetBody(b)
    BY DEF RemoveDynamic
  <1>3. /\ members' = [members EXCEPT ![i] = @ \ {b}]
        /\ contact_new' = contact_new /\ sleep_enabled' = sleep_enabled
        /\ IF members[i] = {b}
           THEN used' = used \ {i} /\ flags' = [flags EXCEPT ![i] = {}]
           ELSE used' = used /\ flags' = flags
    BY DEF RemoveDynamic, configVars
  <1>4. /\ members' \in [Islands -> SUBSET Bodies] /\ used' \subseteq Islands
        /\ flags' \in [Islands -> SUBSET Flags]
    BY <1>3
  <1>5. MembersMatch'
    <2>1. \A a \in Bodies : island_index'[a] # Static <=> a \in dynamic'
      BY <1>2, ForgetParts
    <2>2. \A j \in Islands : members'[j] = members[j] \ {b}
      BY <1>1, <1>3
    <2>3. \A j \in Islands : members'[j] = {a \in dynamic' : island_index'[a] = j}
      BY <1>2, <2>2, ForgetParts
    <2>4. \A j \in Islands : j \in used' <=> members'[j] # {}
      BY <1>1, <1>3, <2>2
    <2> QED
      BY <2>1, <2>3, <2>4
  <1>6. \A j \in Islands : "try" \in flags'[j] => "try" \in flags[j] /\ j \in used'
    BY <1>1, <1>3
  <1>7. \A j \in Islands : members'[j] \subseteq members[j] \ {b}
    BY <1>1, <1>3
  <1>8. \A j \in Islands : "try" \in flags'[j] =>
            j \in used' /\ sleep_enabled' /\ \A a \in members'[j] : low_time'[a] = SleepThreshold
    BY <1>2, <1>3, <1>6, <1>7, ForgetParts
  <1> QED
    BY <1>2, <1>3, <1>4, <1>5, <1>8, ForgetParts

LEMMA RemoveStaticStep ==
    ASSUME IslandInv, NEW b \in Bodies, RemoveStatic(b)
    PROVE  IslandInv'
  <1> USE DEF IslandInv, MembersMatch
  <1>1. island_index[b] = Static /\ b \notin dynamic /\ \A j \in Islands : b \notin members[j]
    BY DEF RemoveStatic
  <1>2. ForgetBody(b) /\ UNCHANGED <<used, members, contact_new, sleep_enabled>>
    BY DEF RemoveStatic, configVars
  <1>3. /\ flags' \in [Islands -> SUBSET Flags]
        /\ \A j \in Islands : "try" \in flags'[j] => "try" \in flags[j]
    BY DEF RemoveStatic, Flags
  <1>4. MembersMatch'
    BY <1>1, <1>2, ForgetParts
  <1>5. \A j \in Islands : "try" \in flags'[j] =>
            j \in used' /\ sleep_enabled' /\ \A a \in members'[j] : low_time'[a] = SleepThreshold
    BY <1>1, <1>2, <1>3, ForgetParts
  <1> QED
    BY <1>2, <1>3, <1>4, <1>5, ForgetParts

\* The new islands of a split have the components of the old one, one each.
LEMMA SplitStep ==
    ASSUME IslandInv, NEW i \in Islands, SplitIsland(i)
    PROVE  IslandInv'
  <1> DEFINE parts == {Reach(i, b) : b \in members[i]}
  <1>1. PICK f \in Injection(parts, Islands \ used) :
          LET new == Range(f)
              part(j) == CHOOSE p \in parts : f[p] = j
          IN  /\ used' = (used \ {i}) \cup new
              /\ members' = [j \in Islands |->
                      IF j \in new THEN part(j) ELSE IF j = i THEN {} ELSE members[j]]
              /\ flags' = [j \in Islands |->
                      IF j \in new THEN InitialFlags ELSE IF j = i THEN {} ELSE flags[j]]
              /\ island_index' = [b \in Bodies |->
                      IF b \in members[i] THEN f[Reach(i, b)] ELSE island_index[b]]
    BY DEF SplitIsland
  <1>2. UNCHANGED <<bodies, dynamic, low_time, contact_new, sleep_enabled>>
    BY DEF SplitIsland, bodyVars, contactVars, configVars
  <1> DEFINE new == {f[p] : p \in parts}
  <1>3. Range(f) = new /\ f \in [parts -> Islands \ used]
        /\ \A p, q \in parts : f[p] = f[q] => p = q
    BY DEF Injection, IsInjective, Range
  <1>4. \A b \in members[i] : b \in Bodies /\ b \in dynamic /\ island_index[b] = i
    BY DEF IslandInv, MembersMatch
  <1>5. \A b \in members[i] : Reach(i, b) \in parts /\ b \in Reach(i, b) /\ Reach(i, b) \subseteq members[i]
    <2>1. {a \in Bodies : island_index[a] = i} \subseteq members[i]
      BY IslandsAssumption DEF IslandInv, MembersMatch
    <2> QED
      BY <1>4, <2>1, ReachClosed
  <1>6. \A b \in members[i] : \A p \in parts : b \in p => p = Reach(i, b)
    BY <1>4, ReachSame
  <1>8. \A j \in new : \E p \in parts :
            f[p] = j /\ members'[j] = p /\ j \in Islands
    <2> SUFFICES ASSUME NEW p \in parts
                 PROVE  members'[f[p]] = p /\ f[p] \in Islands
      OBVIOUS
    <2>1. f[p] \in Islands
      BY <1>3
    <2>2. (CHOOSE q \in parts : f[q] = f[p]) = p
      BY <1>3
    <2> QED
      BY <1>1, <1>3, <2>1, <2>2
  <1>9. \A j \in Islands \ new : members'[j] = IF j = i THEN {} ELSE members[j]
    BY <1>1, <1>3
  <1>10. \A b \in members[i] : island_index'[b] = f[Reach(i, b)] /\ f[Reach(i, b)] \in new
    BY <1>1, <1>4, <1>5
  <1>11. \A b \in Bodies \ members[i] : island_index'[b] = island_index[b]
    BY <1>1
  <1> HIDE DEF parts
  <1>12. members' \in [Islands -> SUBSET Bodies]
    <2>1. \A j \in Islands : members'[j] \subseteq Bodies
      BY <1>4, <1>5, <1>8, <1>9 DEF IslandInv, parts
    <2> QED
      BY <1>1, <2>1
  <1>13. island_index' \in [Bodies -> Islands \cup {Static}] /\ used' \subseteq Islands
    BY <1>1, <1>3, <1>5 DEF IslandInv
  <1>14. flags' \in [Islands -> SUBSET Flags]
        /\ \A j \in Islands : "try" \in flags'[j] => j \notin new /\ j # i /\ "try" \in flags[j]
    BY <1>1, <1>3 DEF IslandInv, InitialFlags, Flags
  <1>15. \A b \in Bodies : island_index'[b] # Static <=> b \in dynamic
    <2>1. \A j \in new : j # Static
      BY <1>3, IslandsAssumption
    <2> QED
      BY <1>4, <1>10, <1>11, <2>1 DEF IslandInv, MembersMatch
  <1>16. \A j \in Islands : members'[j] = {a \in dynamic : island_index'[a] = j}
    <2>1. ASSUME NEW j \in new PROVE members'[j] = {a \in dynamic : island_index'[a] = j}
      <3>1. PICK p \in parts : f[p] = j /\ members'[j] = p
        BY <1>8
      <3>2. j \in Islands \ used
        BY <1>3
      <3>3. \A a \in p : a \in members[i] /\ Reach(i, a) = p
        BY <1>5, <1>6 DEF parts
      <3>4. \A a \in p : a \in dynamic /\ island_index'[a] = j
        BY <1>4, <1>10, <3>1, <3>3
      <3>5. \A a \in dynamic : island_index'[a] = j => a \in members[i]
        BY <1>11, <3>2 DEF IslandInv, MembersMatch
      <3>6. \A a \in members[i] : island_index'[a] = j => a \in p
        BY <1>3, <1>5, <1>10, <3>1
      <3> QED
        BY <3>1, <3>4, <3>5, <3>6
    <2>2. ASSUME NEW j \in Islands \ new PROVE members'[j] = {a \in dynamic : island_index'[a] = j}
      <3>1. \A a \in members[i] : island_index'[a] # j
        BY <1>10
      <3>2. CASE j = i
        BY <1>9, <1>11, <3>1, <3>2 DEF IslandInv, MembersMatch
      <3>3. CASE j # i
        BY <1>4, <1>9, <1>11, <3>1, <3>3 DEF IslandInv, MembersMatch
      <3> QED
        BY <3>2, <3>3
    <2> QED
      BY <2>1, <2>2
  <1>17. \A j \in Islands : j \in used' <=> members'[j] # {}
    <2>1. ASSUME NEW j \in new PROVE j \in used' /\ members'[j] # {}
      <3>1. PICK p \in parts : f[p] = j /\ members'[j] = p
        BY <1>8
      <3>2. p # {}
        BY <1>5 DEF parts
      <3> QED
        BY <1>1, <1>3, <3>1, <3>2
    <2>2. ASSUME NEW j \in Islands \ new PROVE j \in used' <=> members'[j] # {}
      BY <1>1, <1>3, <1>9 DEF IslandInv, MembersMatch
    <2> QED
      BY <2>1, <2>2
  <1>18. \A j \in Islands : "try" \in flags'[j] =>
            j \in used' /\ sleep_enabled' /\ \A a \in members'[j] : low_time'[a] = SleepThreshold
    BY <1>1, <1>2, <1>9, <1>14 DEF IslandInv
  <1> QED
    BY <1>2, <1>12, <1>13, <1>14, <1>15, <1>16, <1>17, <1>18 DEF IslandInv, MembersMatch

\* Two islands become one.
LEMMA MergeStep ==
    ASSUME IslandInv, NEW c, NEW expand \in Islands, NEW merge \in Islands, MergeIslands(c, expand, merge)
    PROVE  IslandInv'
  <1> USE DEF IslandInv, MembersMatch
  <1>1. /\ UNCHANGED <<bodies, dynamic, low_time, sleep_enabled>>
        /\ used' = used \ {merge} /\ expand # merge
        /\ members' = [members EXCEPT ![expand] = @ \cup members[merge], ![merge] = {}]
        /\ flags' = [flags EXCEPT
            ![expand] = IF sleep_enabled /\ SleepInterrupted(expand, merge) THEN {"awake", "reset"} ELSE @,
            ![merge] = {}]
        /\ island_index' = [b \in Bodies |-> IF b \in members[merge] THEN expand ELSE island_index[b]]
        /\ contact_new' \subseteq SUBSET Bodies
    BY DEF MergeIslands, bodyVars, configVars
  <1>2. expand # Static /\ merge # Static
    BY IslandsAssumption
  <1>3. PICK z \in Bodies : island_index[z] = expand
    <2>1. c \subseteq Bodies /\ expand \in {island_index[b] : b \in c}
      BY DEF MergeIslands, Ends
    <2> QED
      BY <2>1
  <1>4. expand \in used
    BY <1>2, <1>3
  <1>5. /\ members' \in [Islands -> SUBSET Bodies] /\ used' \subseteq Islands
        /\ island_index' \in [Bodies -> Islands \cup {Static}]
        /\ flags' \in [Islands -> SUBSET Flags]
    BY <1>1 DEF Flags
  <1>6. MembersMatch'
    <2>1. \A b \in Bodies : island_index'[b] # Static <=> b \in dynamic'
      BY <1>1, <1>2
    <2>2. \A i \in Islands : members'[i] = {b \in dynamic' : island_index'[b] = i}
      BY <1>1
    <2>3. \A i \in Islands : i \in used' <=> members'[i] # {}
      BY <1>1, <1>4
    <2> QED
      BY <2>1, <2>2, <2>3
  <1>7. \A i \in Islands : "try" \in flags'[i] => i # expand /\ i # merge /\ "try" \in flags[i]
    <2>1. "try" \notin flags'[expand]
      BY <1>1 DEF SleepInterrupted
    <2> QED
      BY <1>1, <2>1
  <1>8. \A i \in Islands : "try" \in flags'[i] =>
            i \in used' /\ sleep_enabled' /\ \A a \in members'[i] : low_time'[a] = SleepThreshold
    BY <1>1, <1>7
  <1> QED
    BY <1>1, <1>5, <1>6, <1>8

\* The other steps of a frame, and those between frames.
LEMMA ConfigStep ==
    ASSUME IslandInv, UpdateConfig
    PROVE  IslandInv'
  <1>1. UNCHANGED <<bodies, dynamic, low_time, island_index, used, members, contact_new>>
    BY DEF UpdateConfig, contactVars
  <1>2. CASE pending = sleep_enabled
    BY <1>1, <1>2, OtherStep DEF UpdateConfig
  <1>3. CASE pending # sleep_enabled
    <2>1. flags' = [i \in Islands |->
                    IF i \notin used THEN {}
                    ELSE IF pending THEN (flags[i] \cup {"awake", "reset"}) \ {"try"}
                    ELSE (flags[i] \cup {"awake"}) \ {"reset", "try"}]
      BY <1>3 DEF UpdateConfig
    <2>2. flags' \in [Islands -> SUBSET Flags] /\ \A i \in Islands : "try" \notin flags'[i]
      BY <2>1 DEF IslandInv, Flags
    <2> QED
      BY <1>1, <2>2, QuietStep DEF IslandInv
  <1> QED
    BY <1>2, <1>3

LEMMA PushStep ==
    ASSUME IslandInv, NEW touch \in SUBSET Pairs(bodies), PushContacts(touch)
    PROVE  IslandInv'
  <1>1. UNCHANGED <<bodies, dynamic, low_time, island_index, used, members, flags, sleep_enabled>>
    BY DEF PushContacts, islandVars, configVars
  <1>2. contact_new' \subseteq SUBSET Bodies
    BY DEF PushContacts, Pairs, IslandInv
  <1> QED
    BY <1>1, <1>2 DEF IslandInv, MembersMatch

LEMMA GiveStep ==
    ASSUME IslandInv, NEW c, NEW i, AddContact(c) \/ AddLocalContact(c, i) \/ LocalContactAssertionFails(c, i)
    PROVE  IslandInv'
  <1>1. /\ UNCHANGED <<bodies, dynamic, low_time, island_index, used, members, flags, sleep_enabled>>
        /\ contact_new' \subseteq contact_new
    BY DEF AddContact, AddLocalContact, LocalContactAssertionFails, bodyVars, islandVars, contactVars, configVars
  <1> QED
    BY <1>1 DEF IslandInv, MembersMatch

LEMMA RemoveContactsStep ==
    ASSUME IslandInv, RemoveContacts
    PROVE  IslandInv'
  <1>1. UNCHANGED <<bodies, dynamic, low_time, island_index, used, members, contact_new, sleep_enabled>>
    BY DEF RemoveContacts, bodyVars, configVars
  <1>2. /\ flags' \in [Islands -> SUBSET Flags]
        /\ \A i \in Islands : "try" \in flags'[i] => "try" \in flags[i]
    BY DEF RemoveContacts, IslandInv, Flags
  <1> QED
    BY <1>1, <1>2 DEF IslandInv, MembersMatch

LEMMA AsleepStep ==
    ASSUME IslandInv, NEW i \in Islands, FallAsleep(i)
    PROVE  IslandInv'
  <1>1. UNCHANGED <<bodies, dynamic, low_time, island_index, used, members, contact_new, sleep_enabled>>
    BY DEF FallAsleep, contactVars, configVars
  <1>2. /\ flags' \in [Islands -> SUBSET Flags]
        /\ \A j \in Islands : "try" \in flags'[j] => "try" \in flags[j]
    BY DEF FallAsleep, IslandInv
  <1> QED
    BY <1>1, <1>2 DEF IslandInv, MembersMatch

\* An island is tagged to sleep in the step that gives its last body the full time.
LEMMA SolveStep ==
    ASSUME IslandInv, NEW i \in Islands, i \in used, NEW quiet, SolveIsland(i, quiet)
    PROVE  IslandInv'
  <1>1. UNCHANGED <<bodies, dynamic, island_index, used, members, contact_new, sleep_enabled>>
    BY DEF SolveIsland, contactVars, configVars
  <1>2. CASE ~sleep_enabled
    <2>1. UNCHANGED <<low_time, flags>>
      BY <1>2 DEF SolveIsland
    <2> QED
      BY <1>1, <2>1, OtherStep
  <1>3. CASE sleep_enabled
    <2>1. /\ low_time' = [b \in Bodies |-> IF b \in members[i] THEN LowTime(i, b, quiet) ELSE low_time[b]]
          /\ flags' = [flags EXCEPT ![i] = (@ \ {"reset"}) \cup
                    (IF \A b \in members[i] : low_time'[b] = SleepThreshold THEN {"try"} ELSE {})]
          /\ "try" \notin flags[i]
      BY <1>3 DEF SolveIsland, Drowsy
    <2>2. \A b \in Bodies : LowTime(i, b, quiet) \in 0..SleepThreshold
      <3> SUFFICES ASSUME NEW b \in Bodies PROVE LowTime(i, b, quiet) \in 0..SleepThreshold
        OBVIOUS
      <3>1. low_time[b] \in 0..SleepThreshold
        BY DEF IslandInv
      <3> QED
        BY <3>1, ThresholdAssumption DEF LowTime
    <2>3. low_time' \in [Bodies -> 0..SleepThreshold]
      BY <2>1, <2>2 DEF IslandInv
    <2>4. flags' \in [Islands -> SUBSET Flags]
      BY <2>1 DEF IslandInv, Flags
    <2>5. \A j \in Islands : j # i => \A b \in members[j] : low_time'[b] = low_time[b]
      BY <2>1 DEF IslandInv, MembersMatch
    <2>6. \A j \in Islands : "try" \in flags'[j] =>
            j \in used /\ \A b \in members[j] : low_time'[b] = SleepThreshold
      <3>1. ASSUME "try" \in flags'[i] PROVE \A b \in members[i] : low_time'[b] = SleepThreshold
        BY <2>1, <3>1 DEF IslandInv
      <3>2. ASSUME NEW j \in Islands, j # i, "try" \in flags'[j] PROVE "try" \in flags[j]
        BY <2>1, <3>2 DEF IslandInv
      <3> QED
        BY <2>5, <3>1, <3>2 DEF IslandInv
    <2> QED
      BY <1>1, <1>3, <2>3, <2>4, <2>6, QuietStep DEF IslandInv
  <1> QED
    BY <1>2, <1>3

(***************************************************************************)
(* The theorems.                                                           *)
(***************************************************************************)

LEMMA IslandInvStep ==
    ASSUME IInv, Next
    PROVE  IslandInv'
  <1> USE DEF IInv
  <1>1. ASSUME NEW b \in Bodies, NEW d \in Kinds, AllocBody(b, d) PROVE IslandInv'
    BY <1>1, AllocStep
  <1>2. CASE \E b \in Bodies : TagForRemoval(b)
    BY <1>2, OtherStep DEF TagForRemoval, islandVars, contactVars, configVars
  <1>3. CASE SetPending \/ Tick
    BY <1>3, OtherStep DEF SetPending, Tick, bodyVars, islandVars, contactVars, configVars
  <1>4. CASE Flush
    BY <1>4, FlushStep
  <1>5. CASE Remove
    <2>1. PICK b \in Bodies : RemoveDynamic(b) \/ RemoveStatic(b) \/ RemoveStaticTouchingStatic(b)
      BY <1>5 DEF Remove
    <2>2. CASE RemoveStaticTouchingStatic(b)
      BY <2>2, OtherStep DEF RemoveStaticTouchingStatic, bodyVars, islandVars, contactVars, configVars
    <2> QED
      BY <2>1, <2>2, RemoveDynamicStep, RemoveStaticStep
  <1>6. CASE UpdateConfig
    BY <1>6, ConfigStep
  <1>7. CASE \E touch \in SUBSET Pairs(bodies) : PushContacts(touch)
    BY <1>7, PushStep
  <1>8. CASE GiveToIsland
    BY <1>8, GiveStep, MergeStep DEF GiveToIsland
  <1>9. CASE RemoveContacts
    BY <1>9, RemoveContactsStep
  <1>10. CASE \E i \in Islands : SplitIsland(i)
    BY <1>10, SplitStep
  <1>11. CASE DispatchIslands \/ Validate
    BY <1>11, OtherStep DEF DispatchIslands, Validate, bodyVars, islandVars, contactVars, configVars
  <1>12. CASE \E i \in Islands : FallAsleep(i)
    BY <1>12, AsleepStep
  <1>13. ASSUME NEW i \in Islands, NEW quiet \in SUBSET members[i], SolveIsland(i, quiet)
         PROVE  IslandInv'
    <2>1. i \in used
      BY <1>13 DEF SolveIsland
    <2> QED
      BY <1>13, <2>1, SolveStep
  <1> QED
    BY <1>1, <1>2, <1>3, <1>4, <1>5, <1>6, <1>7, <1>8, <1>9, <1>10, <1>11, <1>12, <1>13 DEF Next, Frame

\* Islands are solved when nothing else happens to them.
LEMMA ToSolveStep ==
    ASSUME IInv, Next
    PROVE  to_solve' \subseteq used' /\ (pc' # "solve" => to_solve' = {})
  <1>1. CASE pc = "solve"
    <2>1. \/ Validate
          \/ \E i \in Islands : FallAsleep(i) \/ \E quiet \in SUBSET members[i] : SolveIsland(i, quiet)
      BY <1>1 DEF Next, Frame, AllocBody, TagForRemoval, SetPending, Flush, Tick, Remove, Removing,
                  RemoveDynamic, RemoveStatic, RemoveStaticTouchingStatic, UpdateConfig, PushContacts,
                  GiveToIsland, AddContact, AddLocalContact, LocalContactAssertionFails, MergeIslands,
                  RemoveContacts, SplitIsland, DispatchIslands
    <2>2. /\ used' = used /\ to_solve' \subseteq to_solve
          /\ pc' = "solve" \/ to_solve = {}
      BY <1>1, <2>1 DEF Validate, FallAsleep, SolveIsland, islandVars
    <2> QED
      BY <2>2 DEF IInv
  <1>2. CASE pc # "solve"
    <2>1. to_solve = {}
      BY <1>2 DEF IInv
    <2>2. CASE DispatchIslands
      BY <2>2 DEF DispatchIslands, islandVars
    <2>3. CASE ~DispatchIslands
      <3>1. to_solve' = to_solve
        BY <1>2, <2>3 DEF Next, Frame, AllocBody, TagForRemoval, SetPending, Flush, Tick, Remove, Removing,
                  RemoveDynamic, RemoveStatic, RemoveStaticTouchingStatic, UpdateConfig, PushContacts,
                  GiveToIsland, AddContact, AddLocalContact, LocalContactAssertionFails, MergeIslands,
                  RemoveContacts, SplitIsland, Validate, FallAsleep, SolveIsland
      <3> QED
        BY <2>1, <3>1
    <2> QED
      BY <2>2, <2>3
  <1> QED
    BY <1>1, <1>2

LEMMA StutterStep ==
    ASSUME IInv, UNCHANGED vars
    PROVE  IInv'
  <1>1. IslandInv'
    BY OtherStep DEF IInv, vars, bodyVars, islandVars, contactVars, configVars
  <1> QED
    BY <1>1 DEF IInv, vars, islandVars

\* The inductive invariant holds: for any bodies, islands and threshold, islands and
\* their lists fit together after every step of a frame.
THEOREM InvariantHolds == Spec => []IInv
  <1>1. Init => IInv
    BY InitIslandInv DEF Init, IInv
  <1>2. IInv /\ [Next]_vars => IInv'
    BY IslandInvStep, ToSolveStep, StutterStep DEF IInv
  <1> QED
    BY <1>1, <1>2, PTL DEF Spec

\* A dynamic body is on the list of its island and on no other, and an island is in use
\* exactly as long as it has bodies, through every merge, split and removal.
THEOREM MembersTheorem == Spec => []MembersMatch
  <1>1. IInv => MembersMatch
    BY DEF IInv, IslandInv
  <1> QED
    BY <1>1, InvariantHolds, PTL

\* A body with a pending reset is dynamic, on the list of its island, which is in use.
LEMMA PendingBody ==
    ASSUME IInv, NEW b \in Bodies, ResetPending(b)
    PROVE  /\ island_index[b] \in Islands /\ island_index[b] \in used
           /\ b \in members[island_index[b]] /\ island_index[b] # Static
  BY DEF IInv, IslandInv, MembersMatch, ResetPending

\* Between frames and while bodies are removed a body that stays keeps its reset.
LEMMA PendingKeptAround ==
    ASSUME IInv, NEW b \in Bodies, b \in bodies', ResetPending(b), NEW a \in Bodies, NEW d,
           (AllocBody(a, d) /\ a # b) \/ (RemoveDynamic(a) /\ a # b) \/ (RemoveStatic(a) /\ a # b)
    PROVE  ResetPending(b)'
  <1> DEFINE k == island_index[b]
  <1>1. k \in Islands /\ k \in used /\ b \in members[k] /\ k # Static /\ "reset" \in flags[k]
    BY PendingBody DEF ResetPending
  <1>2. island_index \in [Bodies -> Islands \cup {Static}] /\ flags \in [Islands -> SUBSET Flags]
    BY DEF IInv, IslandInv
  <1>3. CASE AllocBody(a, d) /\ a # b
    <2>1. CASE d
      <3>1. PICK i \in Islands : /\ i \notin used
                                 /\ island_index' = [island_index EXCEPT ![a] = i]
                                 /\ flags' = [flags EXCEPT ![i] = InitialFlags]
        BY <1>3, <2>1 DEF AllocBody, Reserve
      <3> QED
        BY <1>1, <1>2, <1>3, <3>1 DEF ResetPending
    <2>2. CASE ~d
      BY <1>1, <1>2, <1>3, <2>2 DEF AllocBody, ResetPending
    <2> QED
      BY <2>1, <2>2
  <1>4. CASE RemoveDynamic(a) /\ a # b
    <2>1. island_index'[b] = k
      BY <1>2, <1>4 DEF RemoveDynamic, ForgetBody
    <2>2. CASE members[island_index[a]] = {a}
      <3>1. k # island_index[a] /\ flags' = [flags EXCEPT ![island_index[a]] = {}]
        BY <1>1, <1>4, <2>2 DEF RemoveDynamic
      <3> QED
        BY <1>1, <1>2, <2>1, <3>1 DEF ResetPending
    <2>3. CASE members[island_index[a]] # {a}
      <3>1. flags' = flags
        BY <1>4, <2>3 DEF RemoveDynamic
      <3> QED
        BY <1>1, <2>1, <3>1 DEF ResetPending
    <2> QED
      BY <2>2, <2>3
  <1>5. CASE RemoveStatic(a) /\ a # b
    <2>1. island_index'[b] = k
      BY <1>2, <1>5 DEF RemoveStatic, ForgetBody
    <2>2. "reset" \in flags'[k]
      BY <1>1, <1>5 DEF RemoveStatic
    <2> QED
      BY <1>1, <2>1, <2>2 DEF ResetPending
  <1> QED
    BY <1>3, <1>4, <1>5

\* With sleeping on, the islands a split makes are to be reset.
LEMMA PendingKeptSplit ==
    ASSUME IInv, NEW b \in Bodies, ResetPending(b), NEW i \in Islands, SplitIsland(i), sleep_enabled'
    PROVE  ResetPending(b)'
  <1> DEFINE parts == {Reach(i, a) : a \in members[i]}
             k == island_index[b]
  <1>1. PICK f \in Injection(parts, Islands \ used) :
          /\ flags' = [j \in Islands |->
                  IF j \in Range(f) THEN InitialFlags ELSE IF j = i THEN {} ELSE flags[j]]
          /\ island_index' = [a \in Bodies |->
                  IF a \in members[i] THEN f[Reach(i, a)] ELSE island_index[a]]
    BY DEF SplitIsland
  <1>2. k \in Islands /\ k \in used /\ b \in members[k] /\ k # Static /\ "reset" \in flags[k]
    BY PendingBody DEF ResetPending
  <1>3. f \in [parts -> Islands \ used] /\ \A p \in parts : f[p] \in Range(f)
    BY DEF Injection, Range
  <1>4. CASE b \in members[i]
    <2>1. Reach(i, b) \in parts
      BY <1>4
    <2>2. island_index'[b] \in Range(f) /\ island_index'[b] \in Islands
      BY <1>1, <1>3, <1>4, <2>1
    <2>3. flags'[island_index'[b]] = {"awake", "reset"}
      BY <1>1, <2>2 DEF SplitIsland, configVars, InitialFlags
    <2> QED
      BY <2>2, <2>3, IslandsAssumption DEF ResetPending
  <1>5. CASE b \notin members[i]
    <2>1. k # i /\ island_index'[b] = k
      BY <1>1, <1>2, <1>5
    <2>2. k \notin Range(f)
      BY <1>2, <1>3 DEF Range
    <2> QED
      BY <1>1, <1>2, <2>1, <2>2 DEF ResetPending
  <1> QED
    BY <1>4, <1>5

\* A merge keeps the reset of the bodies of both islands, or is the one that loses it.
LEMMA PendingKeptMerge ==
    ASSUME IInv, NEW b \in Bodies, ResetPending(b), sleep_enabled',
           NEW c, NEW expand \in Islands, NEW merge \in Islands, MergeIslands(c, expand, merge)
    PROVE  ResetPending(b)' \/ ResetMergedAway(b)
  <1> DEFINE k == island_index[b]
  <1>1. k \in Islands /\ k # Static /\ b \in members[k] /\ "reset" \in flags[k]
    BY PendingBody DEF ResetPending
  <1>2. /\ pc = "merge" /\ expand # merge /\ sleep_enabled
        /\ flags' = [flags EXCEPT
            ![expand] = IF sleep_enabled /\ SleepInterrupted(expand, merge) THEN {"awake", "reset"} ELSE @,
            ![merge] = {}]
        /\ island_index' = [a \in Bodies |-> IF a \in members[merge] THEN expand ELSE island_index[a]]
    BY DEF MergeIslands, configVars
  <1>3. flags \in [Islands -> SUBSET Flags]
    BY DEF IInv, IslandInv
  <1>4. CASE k = merge
    <2>1. island_index'[b] = expand /\ expand # Static
      BY <1>1, <1>2, <1>4, IslandsAssumption
    <2>2. CASE SleepInterrupted(expand, merge)
      BY <1>2, <1>3, <2>1, <2>2 DEF ResetPending
    <2>3. CASE ~SleepInterrupted(expand, merge)
      BY <1>2, <1>4, <2>1, <2>3 DEF ResetMergedAway
    <2> QED
      BY <2>2, <2>3
  <1>5. CASE k # merge
    <2>1. b \notin members[merge]
      BY <1>5 DEF IInv, IslandInv, MembersMatch
    <2>2. island_index'[b] = k
      BY <1>2, <2>1
    <2>3. "reset" \in flags'[k]
      BY <1>1, <1>2, <1>3, <1>5
    <2> QED
      BY <1>1, <2>2, <2>3 DEF ResetPending
  <1> QED
    BY <1>4, <1>5

\* The reset of an island that is solved reaches each of its bodies; one put to sleep
\* instead was tagged.
LEMMA PendingSolved ==
    ASSUME IInv, NEW b \in Bodies, ResetPending(b), ~ResetPending(b)', sleep_enabled',
           NEW i \in Islands, NEW quiet, FallAsleep(i) \/ SolveIsland(i, quiet)
    PROVE  low_time'[b] <= 1 \/ ResetSleptAway(b)
  <1> DEFINE k == island_index[b]
  <1>1. k \in Islands /\ k # Static /\ b \in members[k] /\ "reset" \in flags[k]
    BY PendingBody DEF ResetPending
  <1>2. island_index' = island_index /\ sleep_enabled
    BY DEF FallAsleep, SolveIsland, configVars
  <1>3. flags \in [Islands -> SUBSET Flags]
    BY DEF IInv, IslandInv
  <1>4. k = i
    <2>1. \A j \in Islands : j # i => flags'[j] = flags[j]
      BY <1>2, <1>3 DEF FallAsleep, SolveIsland
    <2> QED
      BY <1>1, <1>2, <2>1 DEF ResetPending
  <1>5. CASE FallAsleep(i)
    BY <1>4, <1>5 DEF FallAsleep, Drowsy, ResetSleptAway
  <1>6. CASE SolveIsland(i, quiet)
    <2>1. low_time'[b] = LowTime(i, b, quiet)
      BY <1>1, <1>2, <1>4, <1>6 DEF SolveIsland
    <2>2. LowTime(i, b, quiet) \in {0, 1}
      BY <1>1, <1>4 DEF LowTime
    <2> QED
      BY <2>1, <2>2
  <1> QED
    BY <1>5, <1>6

\* A reset that an island owes its bodies is made, through any merges, splits, removals
\* and switches of sleeping, but for the two ways in which the code loses it.
THEOREM ResetsReachTheorem == Spec => ResetsReachBodies
  <1> DEFINE Made == \A b \in bodies \cap bodies' : ResetPending(b) /\ ~ResetPending(b)' /\ sleep_enabled' =>
                          low_time'[b] <= 1 \/ ResetMergedAway(b) \/ ResetSleptAway(b)
  <1>1. ASSUME IInv, Next PROVE Made
    <2> SUFFICES ASSUME NEW b \in bodies, b \in bodies', ResetPending(b), ~ResetPending(b)', sleep_enabled'
                 PROVE  low_time'[b] <= 1 \/ ResetMergedAway(b) \/ ResetSleptAway(b)
      OBVIOUS
    <2>0. b \in Bodies /\ flags \in [Islands -> SUBSET Flags]
      BY <1>1 DEF IInv, IslandInv
    <2>1. ASSUME NEW a \in Bodies, NEW d \in Kinds, AllocBody(a, d) PROVE FALSE
      BY <1>1, <2>0, <2>1, PendingKeptAround DEF AllocBody
    <2>2. CASE Flush
      BY <2>2 DEF Flush
    <2>3. ASSUME NEW a \in Bodies, RemoveDynamic(a) \/ RemoveStatic(a) PROVE FALSE
      <3>1. a # b
        BY <2>3 DEF RemoveDynamic, RemoveStatic, ForgetBody
      <3> QED
        BY <1>1, <2>0, <2>3, <3>1, PendingKeptAround
    <2>4. CASE UpdateConfig
      <3>1. island_index[b] \in Islands /\ island_index[b] \in used
        BY <1>1, <2>0, PendingBody
      <3>2. island_index' = island_index /\ sleep_enabled' = pending
        BY <2>4 DEF UpdateConfig
      <3>3. flags' = flags \/ "reset" \in flags'[island_index[b]]
        BY <2>0, <2>4, <3>1, <3>2 DEF UpdateConfig
      <3> QED
        BY <3>2, <3>3 DEF ResetPending
    <2>5. CASE GiveToIsland
      <3>1. ASSUME NEW c \in contact_new, NEW expand \in Islands, NEW merge \in Islands,
                   MergeIslands(c, expand, merge)
            PROVE  ResetMergedAway(b)
        BY <1>1, <2>0, <3>1, PendingKeptMerge
      <3>2. ASSUME NEW c \in contact_new, NEW i \in Islands,
                   AddContact(c) \/ AddLocalContact(c, i) \/ LocalContactAssertionFails(c, i)
            PROVE  FALSE
        BY <3>2 DEF AddContact, AddLocalContact, LocalContactAssertionFails, islandVars, ResetPending
      <3>3. ASSUME NEW c \in contact_new, AddContact(c) PROVE FALSE
        BY <3>3 DEF AddContact, ResetPending
      <3> QED
        BY <2>5, <3>1, <3>2, <3>3 DEF GiveToIsland
    <2>6. CASE RemoveContacts
      <3>1. island_index[b] \in Islands
        BY <1>1, <2>0, PendingBody
      <3> QED
        BY <2>6, <3>1 DEF RemoveContacts, ResetPending
    <2>7. ASSUME NEW i \in Islands, SplitIsland(i) PROVE FALSE
      BY <1>1, <2>0, <2>7, PendingKeptSplit
    <2>8. ASSUME NEW i \in Islands, NEW quiet, FallAsleep(i) \/ SolveIsland(i, quiet)
          PROVE  low_time'[b] <= 1 \/ ResetSleptAway(b)
      BY <1>1, <2>0, <2>8, PendingSolved
    <2>9. CASE UNCHANGED <<island_index, flags>>
      BY <2>9 DEF ResetPending
    <2>10. \/ UNCHANGED <<island_index, flags>>
           \/ \E a \in Bodies, d \in Kinds : AllocBody(a, d)
           \/ Flush \/ UpdateConfig \/ GiveToIsland \/ RemoveContacts
           \/ \E a \in Bodies : RemoveDynamic(a) \/ RemoveStatic(a)
           \/ \E i \in Islands : SplitIsland(i)
           \/ \E i \in Islands : FallAsleep(i) \/ \E quiet \in SUBSET members[i] : SolveIsland(i, quiet)
      BY <1>1 DEF Next, Frame, Remove, TagForRemoval, SetPending, Tick, RemoveStaticTouchingStatic,
                  PushContacts, DispatchIslands, Validate, islandVars
    <2> QED
      BY <2>1, <2>2, <2>3, <2>4, <2>5, <2>6, <2>7, <2>8, <2>9, <2>10
  <1>2. IInv /\ [Next]_vars => [Made]_vars
    BY <1>1
  <1> QED
    BY <1>2, InvariantHolds, PTL DEF Spec, ResetsReachBodies

\* Only a merge gives an island more bodies than it had, and a tagged one loses its tag.
LEMMA MergeInterrupts ==
    ASSUME IInv, NEW c, NEW expand \in Islands, NEW merge \in Islands, MergeIslands(c, expand, merge),
           NEW i \in Islands, "try" \in flags[i], "try" \in flags'[i]
    PROVE  members'[i] \subseteq members[i]
  <1> USE DEF IInv, IslandInv
  <1>1. /\ expand # merge
        /\ members' = [members EXCEPT ![expand] = @ \cup members[merge], ![merge] = {}]
        /\ flags' = [flags EXCEPT
            ![expand] = IF sleep_enabled /\ SleepInterrupted(expand, merge) THEN {"awake", "reset"} ELSE @,
            ![merge] = {}]
    BY DEF MergeIslands
  <1>2. i # expand
    BY <1>1 DEF SleepInterrupted
  <1> QED
    BY <1>1, <1>2

\* dynamics.h: an island sleeps only if it is uninterrupted for a frame.  While it keeps
\* its tag no body joins it, whichever of the two islands of a merge it is.
THEOREM NoneJoinsDrowsyTheorem == Spec => NoneJoinsDrowsy
  <1> DEFINE Kept == \A i \in Islands : "try" \in flags[i] /\ "try" \in flags'[i] => members'[i] \subseteq members[i]
  <1>1. IInv /\ [Next]_vars => Kept
    <2> SUFFICES ASSUME IInv, [Next]_vars,
                        NEW i \in Islands, "try" \in flags[i], "try" \in flags'[i]
                 PROVE  members'[i] \subseteq members[i]
      OBVIOUS
    <2> USE DEF IInv, IslandInv
    <2>1. ASSUME NEW b \in Bodies, NEW d \in Kinds, AllocBody(b, d) PROVE members'[i] \subseteq members[i]
      <3>1. CASE d
        <4>1. PICK j \in Islands : /\ members' = [members EXCEPT ![j] = {b}]
                                   /\ flags' = [flags EXCEPT ![j] = InitialFlags]
          BY <2>1, <3>1 DEF AllocBody
        <4>2. i # j
          BY <4>1 DEF InitialFlags
        <4> QED
          BY <4>1, <4>2
      <3>2. CASE ~d
        BY <2>1, <3>2 DEF AllocBody
      <3> QED
        BY <3>1, <3>2
    <2>2. CASE Flush
      BY <2>2 DEF Flush
    <2>3. ASSUME NEW b \in Bodies, RemoveDynamic(b) PROVE members'[i] \subseteq members[i]
      BY <2>3 DEF RemoveDynamic
    <2>4. CASE GiveToIsland
      BY <2>4, MergeInterrupts DEF GiveToIsland, AddContact, AddLocalContact, LocalContactAssertionFails, islandVars
    <2>5. ASSUME NEW j \in Islands, SplitIsland(j) PROVE members'[i] \subseteq members[i]
      <3> DEFINE parts == {Reach(j, b) : b \in members[j]}
      <3>1. PICK f \in Injection(parts, Islands \ used) :
              LET new == Range(f)
                  part(k) == CHOOSE p \in parts : f[p] = k
              IN  /\ members' = [k \in Islands |->
                          IF k \in new THEN part(k) ELSE IF k = j THEN {} ELSE members[k]]
                  /\ flags' = [k \in Islands |->
                          IF k \in new THEN InitialFlags ELSE IF k = j THEN {} ELSE flags[k]]
        BY <2>5 DEF SplitIsland
      <3>2. i \notin Range(f) /\ i # j
        BY <3>1 DEF InitialFlags
      <3> QED
        BY <3>1, <3>2
    <2>6. CASE UNCHANGED members
      BY <2>6
    <2>7. ASSUME [Next]_vars
          PROVE  \/ UNCHANGED members
                 \/ \E b \in Bodies, d \in Kinds : AllocBody(b, d)
                 \/ Flush
                 \/ \E b \in Bodies : RemoveDynamic(b)
                 \/ GiveToIsland
                 \/ \E j \in Islands : SplitIsland(j)
      BY <2>7 DEF Next, Frame, Remove, TagForRemoval, SetPending, Tick, RemoveStatic, RemoveStaticTouchingStatic,
                  UpdateConfig, PushContacts, RemoveContacts, DispatchIslands, FallAsleep, SolveIsland,
                  Validate, islandVars, vars
    <2> QED
      BY <2>1, <2>2, <2>3, <2>4, <2>5, <2>6, <2>7
  <1> QED
    BY <1>1, InvariantHolds, PTL DEF Spec, NoneJoinsDrowsy

(***************************************************************************)
(* The net of contacts: how its bits and the lists of the islands follow   *)
(* it through the phases of a frame.                                       *)
(***************************************************************************)

\* A contact is between two bodies.
LEMMA PairBodies ==
    ASSUME NEW c \in Pairs(Bodies)
    PROVE  c \subseteq Bodies /\ IsFiniteSet(c) /\ \E x, y \in c : x # y /\ c = {x, y}
<1>1. c \subseteq Bodies /\ IsFiniteSet(c) /\ Cardinality(c) = 2
  BY BodiesAssumption, FS_Subset DEF Pairs
<1>2. c # {}
  BY <1>1, FS_EmptySet
<1>3. PICK x \in c : TRUE
  BY <1>2
<1>4. IsFiniteSet(c \ {x}) /\ Cardinality(c \ {x}) = 1
  BY <1>1, FS_RemoveElement
<1>5. PICK y : c \ {x} = {y}
  BY <1>4, FS_Singleton
<1> QED BY <1>1, <1>5

\* The contacts of fewer bodies are contacts.
LEMMA PairsGrow == ASSUME NEW S, NEW T, S \subseteq T PROVE Pairs(S) \subseteq Pairs(T)
  BY DEF Pairs

LEMMA PairsWithout ==
    ASSUME NEW S, NEW c \in Pairs(S), NEW b, b \notin c
    PROVE  c \in Pairs(S \ {b})
  BY DEF Pairs

\* The islands at the ends of a contact are those with a member in it.
LEMMA EndsMembers ==
    ASSUME IInv, NEW c \in SUBSET Bodies, NEW i \in Islands
    PROVE  i \in Ends(c) <=> c \cap members[i] # {}
  BY IslandsAssumption DEF Ends, IInv, IslandInv, MembersMatch

LEMMA EndsUsed ==
    ASSUME IInv, NEW c \in SUBSET Bodies, NEW i \in Ends(c), i # Static
    PROVE  i \in Islands /\ i \in used
  BY DEF Ends, IInv, IslandInv, MembersMatch

LEMMA BrokenUsed ==
    ASSUME IInv, NEW broken \in SUBSET SUBSET Bodies
    PROVE  (UNION {Ends(c) : c \in broken}) \ {Static} \subseteq used
<1> SUFFICES ASSUME NEW i \in (UNION {Ends(c) : c \in broken}) \ {Static} PROVE i \in used
  OBVIOUS
<1>1. PICK c \in broken : i \in Ends(c)
  OBVIOUS
<1>2. c \in SUBSET Bodies /\ i # Static
  OBVIOUS
<1> QED BY <1>1, <1>2, EndsUsed

\* The bits, phase by phase.
LEMMA BitsStep ==
    ASSUME IInv, BitsMatch, [Next]_vars
    PROVE  BitsMatch'
<1> USE DEF BitsMatch
<1>0. bodies \subseteq Bodies
  BY DEF IInv, IslandInv
<1>1. ASSUME NEW b \in Bodies, NEW d \in Kinds, AllocBody(b, d) PROVE BitsMatch'
  <2>1. /\ pc = "idle" /\ pc' = "idle" /\ bodies' = bodies \cup {b} /\ used \subseteq used'
        /\ UNCHANGED <<marked, net, persistent, frame_usage, contact_new, to_split>>
    BY <1>1 DEF AllocBody, contactVars
  <2>2. Pairs(bodies) \subseteq Pairs(bodies')
    BY <2>1, PairsGrow
  <2> QED BY <2>1, <2>2
<1>2. CASE (\E b \in Bodies : TagForRemoval(b)) \/ SetPending
  BY <1>2 DEF TagForRemoval, SetPending, bodyVars, contactVars, islandVars
<1>3. CASE Flush
  BY <1>3 DEF Flush, NoBits
<1>4. CASE Tick
  <2>1. Pairs(bodies) \subseteq Pairs(Bodies)
    BY <1>0, PairsGrow
  <2> QED BY <1>4, <2>1 DEF Tick, NoBits, bodyVars, islandVars
<1>5. ASSUME NEW b \in Bodies, RemoveDynamic(b) \/ RemoveStatic(b) PROVE BitsMatch'
  <2>1. pc = "remove" /\ pc' = "remove" /\ to_split = {} /\ contact_new' = contact_new /\ frame_usage' = frame_usage
    BY <1>5 DEF RemoveDynamic, RemoveStatic, Removing
  <2>2. /\ bodies' = bodies \ {b} /\ marked' = marked \ {b} /\ net' = net \ ContactsOf(b)
        /\ persistent' = persistent \ ContactsOf(b)
    BY <1>5 DEF RemoveDynamic, RemoveStatic, ForgetBody
  <2>3. net' \subseteq Pairs(bodies')
    <3> SUFFICES ASSUME NEW c \in net' PROVE c \in Pairs(bodies')
      OBVIOUS
    <3>1. c \in Pairs(bodies) /\ b \notin c
      BY <2>2 DEF ContactsOf
    <3> QED BY <2>2, <3>1, PairsWithout
  <2>4. to_split' \subseteq used'
    <3>1. CASE RemoveDynamic(b)
      <4> DEFINE i == island_index[b]
      <4>1. i \in used
        BY <3>1 DEF RemoveDynamic, IInv, IslandInv, MembersMatch
      <4> QED BY <3>1, <4>1 DEF RemoveDynamic
    <3>2. CASE RemoveStatic(b)
      <4>1. used' = used
        BY <3>2 DEF RemoveStatic
      <4>2. \A a \in Touching(b) : a \in Bodies
        BY PairBodies, PairsGrow, <1>0 DEF Touching, ContactsOf
      <4>3. \A a \in Touching(b) : island_index[a] \in used
        BY <3>2, <4>2 DEF RemoveStatic, IInv, IslandInv, MembersMatch
      <4> QED BY <3>2, <4>1, <4>3 DEF RemoveStatic
    <3> QED BY <1>5, <3>1, <3>2
  <2> QED BY <2>1, <2>2, <2>3, <2>4
<1>6. CASE \E b \in Bodies : RemoveStaticTouchingStatic(b)
  BY <1>6 DEF RemoveStaticTouchingStatic, Removing, bodyVars, islandVars, contactVars
<1>7. CASE UpdateConfig
  BY <1>7 DEF UpdateConfig, contactVars
<1>8. ASSUME NEW touch \in SUBSET Pairs(bodies), PushContacts(touch) PROVE BitsMatch'
  <2>1. Pairs(bodies) \subseteq Pairs(Bodies)
    BY <1>0, PairsGrow
  <2> QED BY <1>8, <2>1 DEF PushContacts, islandVars
<1>9. ASSUME NEW c \in contact_new, NEW i, AddContact(c) \/ AddLocalContact(c, i) \/ LocalContactAssertionFails(c, i)
      PROVE BitsMatch'
  BY <1>9 DEF AddContact, AddLocalContact, LocalContactAssertionFails, bodyVars, islandVars, contactVars
<1>10. ASSUME NEW c \in contact_new, NEW i, NEW j, MergeIslands(c, i, j) PROVE BitsMatch'
  BY <1>10 DEF MergeIslands, bodyVars
<1>11. CASE RemoveContacts
  <2>1. to_split' \subseteq used
    <3>1. to_split' = (UNION {Ends(c) : c \in persistent \ frame_usage}) \ {Static}
      BY <1>11 DEF RemoveContacts
    <3>2. persistent \ frame_usage \subseteq SUBSET Bodies
      <4>1. persistent \subseteq Pairs(Bodies)
        BY <1>0, <1>11, PairsGrow DEF RemoveContacts
      <4> QED BY <4>1, PairBodies
    <3> QED BY <3>1, <3>2, BrokenUsed
  <2> QED BY <1>11, <2>1 DEF RemoveContacts, bodyVars
<1>12. ASSUME NEW i \in Islands, SplitIsland(i) PROVE BitsMatch'
  <2>1. UNCHANGED <<bodies, marked, net, persistent, frame_usage, contact_new, pc>>
    BY <1>12 DEF SplitIsland, bodyVars, contactVars
  <2>2. used \ {i} \subseteq used' /\ to_split' = to_split \ {i} /\ pc \in {"remove", "split"}
    BY <1>12 DEF SplitIsland
  <2> QED BY <2>1, <2>2
<1>13. CASE DispatchIslands
  BY <1>13 DEF DispatchIslands, bodyVars, islandVars
<1>14. ASSUME NEW i \in Islands, NEW quiet, FallAsleep(i) \/ SolveIsland(i, quiet) PROVE BitsMatch'
  BY <1>14 DEF FallAsleep, SolveIsland, contactVars
<1>15. CASE Validate
  BY <1>15 DEF Validate, bodyVars, islandVars, contactVars
<1>16. CASE UNCHANGED vars
  BY <1>16 DEF vars, bodyVars, islandVars, contactVars
<1> QED BY <1>1, <1>2, <1>3, <1>4, <1>5, <1>6, <1>7, <1>8, <1>9, <1>10, <1>11, <1>12, <1>13, <1>14, <1>15, <1>16
        DEF Next, Frame, Remove, GiveToIsland

\* A step that changes neither the members nor the contacts of islands.
LEMMA ListsQuiet ==
    ASSUME ListsMatch, UNCHANGED <<members, used, links, to_split>>, Settled' = Settled,
           to_split = {} \/ frame_usage' = frame_usage
    PROVE  ListsMatch'
BY DEF ListsMatch, Listed, Own

LEMMA ListsAlloc ==
    ASSUME IInv, BitsMatch, ListsMatch, NEW b \in Bodies, NEW d \in Kinds, AllocBody(b, d)
    PROVE  ListsMatch'
<1>1. /\ b \notin bodies /\ to_split = {} /\ to_split' = {} /\ Settled' = Settled /\ bodies \subseteq Bodies
      /\ pc = "idle"
  BY DEF AllocBody, Settled, BitsMatch, contactVars, IInv, IslandInv
<1>2. CASE ~d
  BY <1>1, <1>2, ListsQuiet DEF AllocBody
<1>3. CASE d
  <2>1. PICK i \in Islands : /\ Reserve({i}) /\ used' = used \cup {i}
                             /\ members' = [members EXCEPT ![i] = {b}]
                             /\ links' = [links EXCEPT ![i] = {}]
    BY <1>3 DEF AllocBody
  <2>2. i \notin used /\ members \in [Islands -> SUBSET Bodies]
    BY <2>1 DEF Reserve, IInv, IslandInv
  <2>3. \A c \in Settled : c \cap {b} = {}
    BY <1>1 DEF BitsMatch, Settled, Pairs
  <2>4. \A j \in Islands : members'[j] = IF j = i THEN {b} ELSE members[j]
    BY <2>1, <2>2
  <2>5. \A j \in used : links'[j] = links[j] /\ j # i /\ j \in Islands
    BY <2>1, <2>2 DEF IInv, IslandInv
  <2>6. members[i] = {}
    BY <2>2 DEF IInv, IslandInv, MembersMatch
  <2>7. \A c \in Settled : \A j, k \in Islands :
            c \cap members'[j] # {} /\ c \cap members'[k] # {} => j = k
    BY <2>3, <2>4 DEF ListsMatch
  <2>8. ASSUME NEW j \in used PROVE links'[j] = Own(j)'
    <3>1. links[j] = Own(j)
      BY <1>1 DEF ListsMatch, Listed
    <3> QED BY <1>1, <2>4, <2>5, <3>1 DEF Own
  <2>9. links'[i] = Own(i)'
    <3>1. i \in DOMAIN links
      BY DEF ListsMatch
    <3> QED BY <1>1, <2>1, <2>3, <2>4, <3>1 DEF Own
  <2>10. links' \in [Islands -> SUBSET Pairs(Bodies)]
    BY <2>1 DEF ListsMatch
  <2> QED BY <1>1, <2>1, <2>7, <2>8, <2>9, <2>10 DEF ListsMatch, Listed
<1> QED BY <1>2, <1>3

\* What becomes of the lists and members when a body is removed: its contacts leave
\* the lists, and it leaves the members.
LEMMA ListsForget ==
    ASSUME BitsMatch, ListsMatch, NEW b \in Bodies, Removing(b), ForgetBody(b), contact_new' = contact_new,
           frame_usage' = frame_usage, used' \subseteq used,
           links' \in [Islands -> SUBSET Pairs(Bodies)],
           \A j \in used' : links'[j] = links[j] \ ContactsOf(b),
           \A j \in Islands : members'[j] = members[j] \ {b},
           \A j \in to_split' : links'[j] # {},
           used \subseteq Islands
    PROVE  ListsMatch'
<1>1. /\ to_split = {} /\ contact_new = {} /\ contact_new' = {} /\ net \subseteq frame_usage
      /\ net' = net \ ContactsOf(b) /\ net' \subseteq frame_usage'
  BY DEF Removing, BitsMatch, ForgetBody
<1>2. Settled = net /\ Settled' = net'
  BY <1>1 DEF Settled
<1>3. \A c \in net' : c \in net /\ b \notin c
  BY <1>1 DEF ContactsOf
<1>4. \A c \in Settled' : \A i, j \in Islands : c \cap members'[i] # {} /\ c \cap members'[j] # {} => i = j
  BY <1>2, <1>3 DEF ListsMatch
<1>5. ASSUME NEW j \in used' PROVE Listed(j)' = Own(j)'
  <2>1. links[j] = Own(j) /\ j \in Islands
    BY <1>1 DEF ListsMatch, Listed
  <2>2. Own(j) = {c \in net : c \cap members[j] # {}} /\ Own(j)' = {c \in net' : c \cap members'[j] # {}}
    BY <1>2 DEF Own
  <2>3. links'[j] = {c \in net' : c \cap members[j] # {}}
    BY <1>1, <2>1, <2>2
  <2>4. links'[j] = Own(j)'
    BY <1>3, <2>1, <2>2, <2>3
  <2>5. links'[j] \subseteq frame_usage'
    BY <1>1, <2>3
  <2> QED BY <2>4, <2>5 DEF Listed
<1> QED BY <1>4, <1>5 DEF ListsMatch

LEMMA ListsRemoveDynamic ==
    ASSUME IInv, BitsMatch, ListsMatch, NEW b \in Bodies, RemoveDynamic(b)
    PROVE  ListsMatch'
<1> DEFINE i == island_index[b]
<1>1. /\ Removing(b) /\ i # Static /\ ForgetBody(b) /\ contact_new' = contact_new /\ frame_usage' = frame_usage
      /\ members' = [members EXCEPT ![i] = @ \ {b}]
      /\ links' = [links EXCEPT ![i] = links[i] \ ContactsOf(b)]
      /\ used' \subseteq used
      /\ to_split' = {} \/ (to_split' = {i} /\ links[i] \ ContactsOf(b) # {})
  BY DEF RemoveDynamic
<1>2. /\ i \in Islands /\ b \in members[i] /\ members \in [Islands -> SUBSET Bodies]
      /\ \A j \in Islands : b \in members[j] => j = i
      /\ used \subseteq Islands
  BY <1>1 DEF IInv, IslandInv, MembersMatch
<1>3. links \in [Islands -> SUBSET Pairs(Bodies)] /\ contact_new = {} /\ to_split = {}
  BY <1>1 DEF ListsMatch, BitsMatch, Removing
<1>4. \A j \in Islands : members'[j] = members[j] \ {b}
  BY <1>1, <1>2
<1>5. links' \in [Islands -> SUBSET Pairs(Bodies)]
  BY <1>1, <1>3
<1>6. ASSUME NEW j \in used' PROVE links'[j] = links[j] \ ContactsOf(b)
  <2>1. CASE j = i
    BY <1>1, <1>2, <1>3, <2>1
  <2>2. CASE j # i
    <3>1. j \in used /\ j \in Islands /\ links[j] = Own(j)
      BY <1>1, <1>2, <1>3 DEF ListsMatch, Listed
    <3>2. \A c \in Own(j) : b \notin c
      BY <1>2, <2>2, <3>1 DEF Own, ListsMatch
    <3>3. links'[j] = links[j]
      BY <1>1, <2>2
    <3> QED BY <3>1, <3>2, <3>3 DEF ContactsOf
  <2> QED BY <2>1, <2>2
<1>7. \A j \in to_split' : links'[j] # {}
  BY <1>1, <1>2, <1>3
<1> HIDE DEF i
<1> QED BY <1>1, <1>2, <1>4, <1>5, <1>6, <1>7, ListsForget

LEMMA ListsRemoveStatic ==
    ASSUME IInv, BitsMatch, ListsMatch, NEW b \in Bodies, RemoveStatic(b)
    PROVE  ListsMatch'
<1>1. /\ Removing(b) /\ ForgetBody(b) /\ contact_new' = contact_new /\ frame_usage' = frame_usage
      /\ used' = used /\ members' = members /\ island_index[b] = Static
      /\ links' = [i \in Islands |-> links[i] \ ContactsOf(b)]
      /\ \A j \in to_split' : links[j] \ ContactsOf(b) # {}
  BY DEF RemoveStatic
<1>2. used \subseteq Islands /\ \A j \in Islands : b \notin members[j]
  BY <1>1 DEF IInv, IslandInv, MembersMatch
<1>3. links' \in [Islands -> SUBSET Pairs(Bodies)]
  BY <1>1 DEF ListsMatch
<1>4. to_split' \subseteq used'
  BY BitsStep DEF BitsMatch, Next, Frame, Remove
<1> QED BY <1>1, <1>2, <1>3, <1>4, ListsForget

\* A new contact settles in an island.
LEMMA ListsSettle ==
    ASSUME BitsMatch, ListsMatch, NEW c \in contact_new, c \in Pairs(Bodies), contact_new' = contact_new \ {c},
           net' = net, to_split = {}, to_split' = {}, used' \subseteq used, used \subseteq Islands,
           links' \in [Islands -> SUBSET Pairs(Bodies)],
           \A i, j \in Islands : c \cap members'[i] # {} /\ c \cap members'[j] # {} => i = j,
           \A e \in Settled : \A i, j \in Islands : e \cap members'[i] # {} /\ e \cap members'[j] # {} => i = j,
           \A i \in used' : links'[i] =
                {e \in Settled : e \cap members'[i] # {}} \cup (IF c \cap members'[i] # {} THEN {c} ELSE {})
    PROVE  ListsMatch'
<1>1. Settled' = Settled \cup {c}
  BY DEF Settled, BitsMatch
<1>2. \A e \in Settled' : \A i, j \in Islands : e \cap members'[i] # {} /\ e \cap members'[j] # {} => i = j
  BY <1>1
<1>3. ASSUME NEW i \in used' PROVE links'[i] = Own(i)'
  BY <1>1 DEF Own
<1> QED BY <1>2, <1>3 DEF ListsMatch, Listed

LEMMA ListsAdd ==
    ASSUME IInv, BitsMatch, ListsMatch, NEW c, AddContact(c)
    PROVE  ListsMatch'
<1>1. /\ pc = "merge" /\ c \in contact_new /\ Static \in Ends(c) /\ contact_new' = contact_new \ {c}
      /\ links' = [i \in Islands |-> IF i \in Ends(c) THEN links[i] \cup {c} ELSE links[i]]
      /\ UNCHANGED <<net, used, members, to_split>>
  BY DEF AddContact
<1>2. /\ to_split = {} /\ used \subseteq Islands /\ c \in Pairs(Bodies) /\ c \in SUBSET Bodies
  <2>1. c \in Pairs(bodies) /\ bodies \subseteq Bodies
    BY <1>1 DEF BitsMatch, IInv, IslandInv
  <2> QED BY <1>1, <2>1, PairsGrow, PairBodies DEF BitsMatch, IInv, IslandInv
<1>3. links' \in [Islands -> SUBSET Pairs(Bodies)]
  BY <1>1, <1>2 DEF ListsMatch
<1>4. \A i, j \in Islands : c \cap members[i] # {} /\ c \cap members[j] # {} => i = j
  <2>1. PICK x, y \in c : x # y /\ c = {x, y}
    BY <1>2, PairBodies
  <2>2. PICK s \in c : island_index[s] = Static
    BY <1>1 DEF Ends
  <2>3. \A i \in Islands : s \notin members[i]
    BY <2>2, IslandsAssumption DEF IInv, IslandInv, MembersMatch
  <2>4. \A i, j \in Islands : \A z \in members[i] \cap members[j] : i = j
    BY DEF IInv, IslandInv, MembersMatch
  <2>5. PICK o : \A z \in c : z # s => z = o
    BY <2>1, <2>2
  <2> QED BY <2>3, <2>4, <2>5
<1>5. ASSUME NEW i \in used
      PROVE  links'[i] = {e \in Settled : e \cap members[i] # {}} \cup (IF c \cap members[i] # {} THEN {c} ELSE {})
  <2>1. links[i] = Own(i) /\ i \in Islands
    BY <1>2 DEF ListsMatch, Listed
  <2>2. i \in Ends(c) <=> c \cap members[i] # {}
    BY <1>2, <2>1, EndsMembers
  <2>3. links'[i] = IF i \in Ends(c) THEN links[i] \cup {c} ELSE links[i]
    BY <1>1, <2>1
  <2> QED BY <2>1, <2>2, <2>3 DEF Own
<1> QED BY <1>1, <1>2, <1>3, <1>4, <1>5, ListsSettle DEF ListsMatch

LEMMA ListsAddLocal ==
    ASSUME IInv, BitsMatch, ListsMatch, NEW c, NEW k \in Islands, AddLocalContact(c, k)
    PROVE  ListsMatch'
<1>1. /\ pc = "merge" /\ c \in contact_new /\ Ends(c) = {k} /\ contact_new' = contact_new \ {c}
      /\ links' = [links EXCEPT ![k] = links[k] \cup {c}]
      /\ UNCHANGED <<net, used, members, to_split>>
  BY DEF AddLocalContact
<1>2. /\ to_split = {} /\ used \subseteq Islands /\ c \in Pairs(Bodies) /\ c \in SUBSET Bodies
  <2>1. c \in Pairs(bodies) /\ bodies \subseteq Bodies
    BY <1>1 DEF BitsMatch, IInv, IslandInv
  <2> QED BY <1>1, <2>1, PairsGrow, PairBodies DEF BitsMatch, IInv, IslandInv
<1>3. links' \in [Islands -> SUBSET Pairs(Bodies)]
  BY <1>1, <1>2 DEF ListsMatch
<1>4. \A i \in Islands : c \cap members[i] # {} <=> i = k
  BY <1>1, <1>2, EndsMembers
<1>5. ASSUME NEW i \in used
      PROVE  links'[i] = {e \in Settled : e \cap members[i] # {}} \cup (IF c \cap members[i] # {} THEN {c} ELSE {})
  <2>1. links[i] = Own(i) /\ i \in Islands /\ i \in DOMAIN links
    BY <1>2 DEF ListsMatch, Listed
  <2>2. i = k <=> c \cap members[i] # {}
    BY <1>4, <2>1
  <2>3. links'[i] = IF i = k THEN links[i] \cup {c} ELSE links[i]
    BY <1>1, <2>1
  <2> QED BY <2>1, <2>2, <2>3 DEF Own
<1> QED BY <1>1, <1>2, <1>3, <1>4, <1>5, ListsSettle DEF ListsMatch

LEMMA ListsMerge ==
    ASSUME IInv, BitsMatch, ListsMatch, NEW c, NEW expand \in Islands, NEW merge \in Islands,
           MergeIslands(c, expand, merge)
    PROVE  ListsMatch'
<1>1. /\ pc = "merge" /\ c \in contact_new /\ Ends(c) = {expand, merge} /\ contact_new' = contact_new \ {c}
      /\ expand # merge
      /\ members' = [members EXCEPT ![expand] = members[expand] \cup members[merge], ![merge] = {}]
      /\ links' = [links EXCEPT ![expand] = links[expand] \cup links[merge] \cup {c}, ![merge] = {}]
      /\ used' = used \ {merge} /\ UNCHANGED <<net, to_split>>
  BY DEF MergeIslands
<1>2. /\ to_split = {} /\ used \subseteq Islands /\ c \in Pairs(Bodies) /\ c \in SUBSET Bodies
  <2>1. c \in Pairs(bodies) /\ bodies \subseteq Bodies
    BY <1>1 DEF BitsMatch, IInv, IslandInv
  <2> QED BY <1>1, <2>1, PairsGrow, PairBodies DEF BitsMatch, IInv, IslandInv
<1>3. /\ links \in [Islands -> SUBSET Pairs(Bodies)] /\ members \in [Islands -> SUBSET Bodies]
      /\ expand \in used /\ merge \in used
  <2>1. expand # Static /\ merge # Static
    BY IslandsAssumption
  <2> QED BY <1>1, <1>2, <2>1, EndsUsed DEF ListsMatch, IInv, IslandInv
<1>4. links' \in [Islands -> SUBSET Pairs(Bodies)]
  <2>1. links[expand] \cup links[merge] \cup {c} \in SUBSET Pairs(Bodies)
    BY <1>2, <1>3
  <2> QED BY <1>1, <1>3, <2>1
<1>5. \A i \in Islands : members'[i] =
        IF i = expand THEN members[expand] \cup members[merge] ELSE IF i = merge THEN {} ELSE members[i]
  BY <1>1, <1>3
<1>6. \A i \in Islands : c \cap members[i] # {} <=> i \in {expand, merge}
  BY <1>1, <1>2, EndsMembers
<1>7. \A i \in Islands : c \cap members'[i] # {} <=> i = expand
  BY <1>5, <1>6
<1>8. \A e \in Settled : \A i, j \in Islands : e \cap members'[i] # {} /\ e \cap members'[j] # {} => i = j
  <2>1. \A e \in Settled : \A i, j \in Islands : e \cap members[i] # {} /\ e \cap members[j] # {} => i = j
    BY DEF ListsMatch
  <2>2. \A e \in Settled : \A i \in Islands : e \cap members'[i] # {} =>
            \/ i # merge /\ e \cap members[i] # {}
            \/ i = expand /\ e \cap members[merge] # {}
    BY <1>5
  <2> QED BY <2>1, <2>2
<1>9. ASSUME NEW i \in used'
      PROVE  links'[i] = {e \in Settled : e \cap members'[i] # {}} \cup (IF c \cap members'[i] # {} THEN {c} ELSE {})
  <2>1. i \in Islands /\ i \in used /\ i # merge
    BY <1>1, <1>2
  <2>2. \A j \in used : links[j] = {e \in Settled : e \cap members[j] # {}}
    BY <1>2 DEF ListsMatch, Listed, Own
  <2>3. CASE i = expand
    <3>1. links'[i] = links[expand] \cup links[merge] \cup {c}
      BY <1>1, <1>3, <2>1, <2>3
    <3>2. members'[i] = members[expand] \cup members[merge] /\ c \cap members'[i] # {}
      BY <1>5, <1>7, <2>3
    <3>3. {e \in Settled : e \cap members'[i] # {}} = links[expand] \cup links[merge]
      BY <1>3, <2>2, <3>2
    <3> QED BY <3>1, <3>2, <3>3
  <2>4. CASE i # expand
    <3>1. links'[i] = links[i]
      BY <1>1, <1>3, <2>1, <2>4
    <3> QED BY <1>5, <1>7, <2>1, <2>2, <2>4, <3>1
  <2> QED BY <2>3, <2>4
<1> QED BY <1>1, <1>2, <1>4, <1>7, <1>8, <1>9, ListsSettle

\* The islands tagged for a split are those that a lost contact belonged to.
LEMMA ListsRemoveContacts ==
    ASSUME IInv, BitsMatch, ListsMatch, RemoveContacts
    PROVE  ListsMatch'
<1> DEFINE broken == persistent \ frame_usage
<1>1. /\ pc = "merge" /\ contact_new = {} /\ contact_new' = {} /\ net' = net \ broken
      /\ to_split' = (UNION {Ends(c) : c \in broken}) \ {Static} /\ frame_usage' = frame_usage
      /\ UNCHANGED <<members, links, used>>
  BY DEF RemoveContacts
<1>2. to_split = {} /\ net = persistent \cup frame_usage /\ net \subseteq SUBSET Bodies /\ used \subseteq Islands
  <2>1. net \subseteq Pairs(Bodies)
    BY PairsGrow DEF BitsMatch, IInv, IslandInv
  <2> QED BY <1>1, <2>1, PairBodies DEF BitsMatch, IInv, IslandInv
<1>3. Settled = net /\ Settled' = net'
  BY <1>1 DEF Settled
<1>4. \A i \in Islands : i \in to_split' <=> \E c \in broken : c \cap members[i] # {}
  <2> SUFFICES ASSUME NEW i \in Islands PROVE i \in to_split' <=> \E c \in broken : c \cap members[i] # {}
    OBVIOUS
  <2>1. i # Static /\ broken \subseteq SUBSET Bodies
    BY <1>2, IslandsAssumption
  <2>2. i \in to_split' <=> \E c \in broken : i \in Ends(c)
    <3>1. i \in to_split' <=> i \in UNION {Ends(c) : c \in broken}
      BY <1>1, <2>1
    <3> HIDE DEF broken
    <3>2. i \in UNION {Ends(c) : c \in broken} <=> \E c \in broken : i \in Ends(c)
      OBVIOUS
    <3> QED BY <3>1, <3>2
  <2> QED BY <2>1, <2>2, EndsMembers
<1>5. \A i \in used : links[i] = {c \in net : c \cap members[i] # {}}
  BY <1>2, <1>3 DEF ListsMatch, Listed, Own
<1>6. ASSUME NEW i \in used PROVE Listed(i)' = Own(i)'
  <2>1. Own(i)' = {c \in net' : c \cap members[i] # {}}
    BY <1>1, <1>3 DEF Own
  <2>2. net' = frame_usage
    BY <1>1, <1>2
  <2>3. CASE i \in to_split'
    <3>1. Listed(i)' = links[i] \cap frame_usage
      BY <1>1, <2>3 DEF Listed
    <3>2. frame_usage \subseteq net
      BY <1>2
    <3> QED BY <1>5, <2>1, <2>2, <3>1, <3>2
  <2>4. CASE i \notin to_split'
    <3>1. Listed(i)' = links[i]
      BY <1>1, <2>4 DEF Listed
    <3>2. \A c \in net : c \cap members[i] # {} => c \in net'
      BY <1>1, <1>2, <1>4, <2>4
    <3>3. net' \subseteq net
      BY <1>1
    <3> QED BY <1>5, <2>1, <3>1, <3>2, <3>3
  <2> QED BY <2>3, <2>4
<1>7. \A i \in to_split' : links'[i] # {}
  <2> SUFFICES ASSUME NEW i \in to_split' PROVE links[i] # {}
    BY <1>1
  <2>1. i \in used
    BY BitsStep DEF Next, Frame, BitsMatch, RemoveContacts
  <2>2. PICK c \in broken : c \cap members[i] # {}
    BY <1>2, <1>4, <2>1
  <2> QED BY <1>2, <1>5, <2>1, <2>2
<1>8. \A c \in Settled' : \A i, j \in Islands : c \cap members'[i] # {} /\ c \cap members'[j] # {} => i = j
  BY <1>1, <1>3 DEF ListsMatch
<1> QED BY <1>1, <1>6, <1>7, <1>8 DEF ListsMatch

\* What a split does: each component of the island i becomes one of the islands new.
SplitInto(i, new) ==
    /\ used' = (used \ {i}) \cup new
    /\ \A j \in new :
        /\ \E b \in members[i] : members'[j] = Reach(i, b)
        /\ members'[j] \subseteq members[i] /\ members'[j] # {}
        /\ links'[j] = {c \in links[i] \cap frame_usage : c \cap members'[j] # {}}
        /\ flags'[j] = InitialFlags
    /\ \A j, k \in new : j # k => members'[j] \cap members'[k] = {}
    /\ \A b \in members[i] : \E j \in new : b \in members'[j]
    /\ members'[i] = {} /\ flags'[i] = {}
    /\ \A j \in Islands \ (new \cup {i}) :
        members'[j] = members[j] /\ links'[j] = links[j] /\ flags'[j] = flags[j]

LEMMA SplitParts ==
    ASSUME IInv, BitsMatch, NEW i \in Islands, SplitIsland(i)
    PROVE  \E new \in SUBSET (Islands \ used) : SplitInto(i, new)
<1> DEFINE parts == {Reach(i, b) : b \in members[i]}
           kept == {c \in links[i] : c \in frame_usage}
<1>1. PICK f \in Injection(parts, Islands \ used) :
        LET new == Range(f)
            part(j) == CHOOSE p \in parts : f[p] = j
        IN  /\ used' = (used \ {i}) \cup new
            /\ members' = [j \in Islands |->
                    IF j \in new THEN part(j) ELSE IF j = i THEN {} ELSE members[j]]
            /\ links' = [j \in Islands |->
                    IF j \in new THEN {c \in kept : c \cap part(j) # {}} ELSE IF j = i THEN {} ELSE links[j]]
            /\ flags' = [j \in Islands |->
                    IF j \in new THEN InitialFlags ELSE IF j = i THEN {} ELSE flags[j]]
  BY DEF SplitIsland
<1> DEFINE new == {f[p] : p \in parts}
<1>2. Range(f) = new /\ f \in [parts -> Islands \ used] /\ \A p, q \in parts : f[p] = f[q] => p = q
  BY DEF Injection, IsInjective, Range
<1>3. i \in used /\ \A b \in members[i] : b \in Bodies /\ island_index[b] = i
  BY DEF SplitIsland, BitsMatch, IInv, IslandInv, MembersMatch
<1>4. \A b \in members[i] : Reach(i, b) \in parts /\ b \in Reach(i, b) /\ Reach(i, b) \subseteq members[i]
  <2>1. {a \in Bodies : island_index[a] = i} \subseteq members[i]
    BY IslandsAssumption DEF IInv, IslandInv, MembersMatch
  <2> QED BY <1>3, <2>1, ReachClosed
<1>5. \A p \in parts : \A b \in p : Reach(i, b) = p
  BY <1>3, ReachSame
<1>6. new \subseteq Islands \ used
  BY <1>2
<1>7. \A p \in parts :
        /\ members'[f[p]] = p /\ links'[f[p]] = {c \in links[i] \cap frame_usage : c \cap p # {}}
        /\ flags'[f[p]] = InitialFlags
  <2> SUFFICES ASSUME NEW p \in parts
               PROVE  /\ members'[f[p]] = p /\ links'[f[p]] = {c \in kept : c \cap p # {}}
                      /\ flags'[f[p]] = InitialFlags
    OBVIOUS
  <2>1. f[p] \in Islands /\ f[p] \in Range(f)
    BY <1>2
  <2>2. (CHOOSE q \in parts : f[q] = f[p]) = p
    BY <1>2
  <2> QED BY <1>1, <2>1, <2>2
<1>8. members'[i] = {} /\ flags'[i] = {}
  BY <1>1, <1>2, <1>3
<1>9. \A j \in Islands \ (new \cup {i}) : members'[j] = members[j] /\ links'[j] = links[j] /\ flags'[j] = flags[j]
  BY <1>1, <1>2
<1>10. used' = (used \ {i}) \cup new
  BY <1>1, <1>2
<1>11. ASSUME NEW j \in new
       PROVE  \E p \in parts :
                /\ f[p] = j /\ members'[j] = p /\ flags'[j] = InitialFlags
                /\ links'[j] = {c \in links[i] \cap frame_usage : c \cap p # {}}
  BY <1>7
<1>12. ASSUME NEW j \in new
       PROVE  /\ \E b \in members[i] : members'[j] = Reach(i, b)
              /\ members'[j] \subseteq members[i] /\ members'[j] # {}
              /\ links'[j] = {c \in links[i] \cap frame_usage : c \cap members'[j] # {}}
              /\ flags'[j] = InitialFlags
  <2>1. PICK p \in parts :
                /\ f[p] = j /\ members'[j] = p /\ flags'[j] = InitialFlags
                /\ links'[j] = {c \in links[i] \cap frame_usage : c \cap p # {}}
    BY <1>11
  <2>2. PICK b \in members[i] : p = Reach(i, b)
    OBVIOUS
  <2> QED BY <1>4, <2>1, <2>2
<1>13. ASSUME NEW j \in new, NEW k \in new, j # k PROVE members'[j] \cap members'[k] = {}
  <2>1. PICK p \in parts : f[p] = j /\ members'[j] = p
    BY <1>7
  <2>2. PICK q \in parts : f[q] = k /\ members'[k] = q
    BY <1>7
  <2>3. p # q
    BY <1>13, <2>1, <2>2
  <2> QED BY <1>5, <2>1, <2>2, <2>3
<1>14. \A b \in members[i] : \E j \in new : b \in members'[j]
  BY <1>4, <1>7
<1> HIDE DEF new
<1> QED BY <1>6, <1>8, <1>9, <1>10, <1>12, <1>13, <1>14 DEF SplitInto

LEMMA ListsSplit ==
    ASSUME IInv, BitsMatch, ListsMatch, NEW i \in Islands, SplitIsland(i)
    PROVE  ListsMatch'
<1>1. /\ i \in to_split /\ to_split' = to_split \ {i} /\ to_split \subseteq used /\ used \subseteq Islands
      /\ UNCHANGED <<net, contact_new, frame_usage>>
  BY DEF SplitIsland, contactVars, BitsMatch, IInv, IslandInv
<1>2. PICK new \in SUBSET (Islands \ used) : SplitInto(i, new)
  BY SplitParts
<1> USE DEF SplitInto
<1>3. Settled' = Settled /\ Settled = net /\ Listed(i) = links[i] \cap frame_usage /\ Listed(i) = Own(i)
      /\ Settled \subseteq Pairs(Bodies)
  <2>1. Settled = net
    BY DEF SplitIsland, BitsMatch, Settled
  <2>2. net \subseteq Pairs(Bodies)
    BY PairsGrow DEF BitsMatch, IInv, IslandInv
  <2> QED BY <1>1, <2>1, <2>2 DEF Settled, Listed, ListsMatch
<1>4. links \in [Islands -> SUBSET Pairs(Bodies)]
  BY DEF ListsMatch
<1>5. links' \in [Islands -> SUBSET Pairs(Bodies)]
  <2>1. PICK f : links' = [j \in Islands |-> f[j]]
    <3>1. PICK g \in Injection({Reach(i, b) : b \in members[i]}, Islands \ used) :
            links' = [j \in Islands |-> IF j \in Range(g)
                        THEN {c \in {c \in links[i] : c \in frame_usage} : c \cap (CHOOSE p \in {Reach(i, b) : b \in members[i]} : g[p] = j) # {}}
                        ELSE IF j = i THEN {} ELSE links[j]]
      BY DEF SplitIsland
    <3> QED BY <3>1
  <2>2. \A j \in Islands : links'[j] \subseteq Pairs(Bodies)
    <3>1. \A j \in new : links'[j] \subseteq links[i]
      BY <1>2
    <3>2. links'[i] \subseteq links[i]
      BY DEF SplitIsland
    <3> QED BY <1>2, <1>4, <3>1, <3>2
  <2> QED BY <2>1, <2>2
\* A contact between two of the new islands would have joined their components.
<1>6. ASSUME NEW j \in new, NEW k \in new, NEW c \in Settled, c \cap members'[j] # {}, c \cap members'[k] # {}
      PROVE  j = k
  <2>1. PICK b \in members[i] : members'[j] = Reach(i, b)
    BY <1>2
  <2>2. b \in Bodies /\ island_index[b] = i
    BY DEF IInv, IslandInv, MembersMatch
  <2>3. c \cap {a \in Bodies : island_index[a] = i} \subseteq members'[j]
    BY <1>3, <1>6, <2>1, <2>2, ReachClosed
  <2>4. members'[k] \subseteq {a \in Bodies : island_index[a] = i}
    BY <1>2 DEF IInv, IslandInv, MembersMatch
  <2> QED BY <1>2, <1>6, <2>3, <2>4
<1>7. \A c \in Settled' : \A j, k \in Islands : c \cap members'[j] # {} /\ c \cap members'[k] # {} => j = k
  <2> SUFFICES ASSUME NEW c \in Settled, NEW j \in Islands, NEW k \in Islands,
                      c \cap members'[j] # {}, c \cap members'[k] # {}
               PROVE  j = k
    BY <1>3
  <2>1. j # i /\ k # i
    BY <1>2
  <2>2. CASE j \in new /\ k \in new
    BY <1>6, <2>2
  <2>3. CASE j \in new /\ k \notin new
    <3>1. c \cap members[i] # {} /\ c \cap members[k] # {}
      BY <1>2, <2>1, <2>3
    <3> QED BY <2>1, <3>1 DEF ListsMatch
  <2>4. CASE j \notin new /\ k \in new
    <3>1. c \cap members[i] # {} /\ c \cap members[j] # {}
      BY <1>2, <2>1, <2>4
    <3> QED BY <2>1, <3>1 DEF ListsMatch
  <2>5. CASE j \notin new /\ k \notin new
    BY <1>2, <2>1, <2>5 DEF ListsMatch
  <2> QED BY <2>2, <2>3, <2>4, <2>5
<1>8. ASSUME NEW j \in used' PROVE Listed(j)' = Own(j)'
  <2>1. CASE j \in new
    <3>1. j \notin to_split'
      BY <1>1, <2>1
    <3>2. links'[j] = {c \in Own(i) : c \cap members'[j] # {}}
      BY <1>2, <1>3, <2>1
    <3>3. \A c \in Settled : c \cap members'[j] # {} => c \in Own(i)
      BY <1>2, <2>1 DEF Own
    <3> QED BY <1>3, <3>1, <3>2, <3>3 DEF Own, Listed
  <2>2. CASE j \notin new
    <3>1. j \in used /\ j # i /\ j \in Islands
      BY <1>1, <1>2, <2>2
    <3>2. links'[j] = links[j] /\ members'[j] = members[j] /\ (j \in to_split' <=> j \in to_split)
      BY <1>1, <1>2, <2>2, <3>1
    <3>3. Listed(j)' = Listed(j)
      BY <1>1, <3>2 DEF Listed
    <3>4. Own(j)' = Own(j)
      BY <1>3, <3>2 DEF Own
    <3> QED BY <3>1, <3>3, <3>4 DEF ListsMatch
  <2> QED BY <2>1, <2>2
<1>9. \A j \in to_split' : links'[j] # {}
  <2> SUFFICES ASSUME NEW j \in to_split, j # i PROVE links'[j] # {}
    BY <1>1
  <2>1. j \in Islands \ (new \cup {i})
    BY <1>1
  <2> QED BY <1>2, <2>1 DEF ListsMatch
<1> QED BY <1>5, <1>7, <1>8, <1>9 DEF ListsMatch

LEMMA ListsStep ==
    ASSUME IInv, BitsMatch, ListsMatch, [Next]_vars
    PROVE  ListsMatch'
<1>1. ASSUME NEW b \in Bodies, NEW d \in Kinds, AllocBody(b, d) PROVE ListsMatch'
  BY <1>1, ListsAlloc
<1>2. CASE (\E b \in Bodies : TagForRemoval(b)) \/ SetPending
  BY <1>2, ListsQuiet DEF TagForRemoval, SetPending, contactVars, islandVars, Settled
<1>3. CASE Flush
  <2>1. to_split' = {}
    BY <1>3 DEF Flush, BitsMatch
  <2> QED BY <1>3, <2>1 DEF Flush, ListsMatch, Settled
<1>4. CASE Tick
  <2>1. to_split = {}
    BY <1>4 DEF Tick, BitsMatch
  <2> QED BY <1>4, <2>1, ListsQuiet DEF Tick, islandVars, Settled
<1>5. ASSUME NEW b \in Bodies, RemoveDynamic(b) \/ RemoveStatic(b) PROVE ListsMatch'
  BY <1>5, ListsRemoveDynamic, ListsRemoveStatic
<1>6. CASE \E b \in Bodies : RemoveStaticTouchingStatic(b)
  BY <1>6, ListsQuiet DEF RemoveStaticTouchingStatic, islandVars, contactVars, Settled
<1>7. CASE UpdateConfig
  BY <1>7, ListsQuiet DEF UpdateConfig, contactVars, Settled
<1>8. ASSUME NEW touch \in SUBSET Pairs(bodies), PushContacts(touch) PROVE ListsMatch'
  <2>1. contact_new = {} /\ persistent = net /\ to_split = {}
    BY <1>8 DEF PushContacts, BitsMatch
  <2>2. net' = net \cup touch /\ contact_new' = touch \ persistent
    BY <1>8 DEF PushContacts
  <2>3. Settled' = Settled
    BY <2>1, <2>2 DEF Settled
  <2> QED BY <1>8, <2>1, <2>3, ListsQuiet DEF PushContacts, islandVars
<1>9. ASSUME NEW c \in contact_new, NEW i \in Islands, AddContact(c) \/ AddLocalContact(c, i) \/ LocalContactAssertionFails(c, i)
      PROVE ListsMatch'
  <2>1. CASE LocalContactAssertionFails(c, i)
    BY <2>1, ListsQuiet DEF LocalContactAssertionFails, islandVars, contactVars, Settled
  <2> QED BY <1>9, <2>1, ListsAdd, ListsAddLocal
<1>10. ASSUME NEW c \in contact_new, NEW i \in Islands, NEW j \in Islands, MergeIslands(c, i, j) PROVE ListsMatch'
  BY <1>10, ListsMerge
<1>11. CASE RemoveContacts
  BY <1>11, ListsRemoveContacts
<1>12. ASSUME NEW i \in Islands, SplitIsland(i) PROVE ListsMatch'
  BY <1>12, ListsSplit
<1>13. CASE DispatchIslands
  BY <1>13, ListsQuiet DEF DispatchIslands, islandVars, Settled
<1>14. ASSUME NEW i \in Islands, NEW quiet, FallAsleep(i) \/ SolveIsland(i, quiet) PROVE ListsMatch'
  BY <1>14, ListsQuiet DEF FallAsleep, SolveIsland, contactVars, Settled
<1>15. CASE Validate
  BY <1>15, ListsQuiet DEF Validate, islandVars, contactVars, Settled
<1>16. CASE UNCHANGED vars
  BY <1>16, ListsQuiet DEF vars, islandVars, contactVars, Settled
<1>17. ASSUME NEW c \in contact_new, AddContact(c) PROVE ListsMatch'
  BY <1>17, ListsAdd
<1> QED BY <1>1, <1>2, <1>3, <1>4, <1>5, <1>6, <1>7, <1>8, <1>9, <1>10, <1>11, <1>12, <1>13, <1>14, <1>15, <1>16, <1>17
        DEF Next, Frame, Remove, GiveToIsland

(***************************************************************************)
(* Bodies and islands agree on who is awake.                               *)
(***************************************************************************)

\* A step that wakes no body, moves none and neither puts an island to sleep nor gives
\* it members.
LEMMA AwakeQuiet ==
    ASSUME AwakeMatch, UNCHANGED <<sleep_enabled, awake, moved, members>>, used' \subseteq used,
           \A i \in used' : ("awake" \in flags[i] => "awake" \in flags'[i])
                         /\ ("try" \in flags'[i] => "try" \in flags[i]),
           pc' \notin {"idle", "solve"} \/ (pc' = pc /\ flags' = flags),
           pc' \notin {"merge", "split"} \/ moved = {},
           to_solve' = to_solve, to_solve \subseteq used',
           pc' = "merge" => pc = "merge" /\ contact_new' \subseteq contact_new
    PROVE  AwakeMatch'
BY DEF AwakeMatch

LEMMA AwakeAlloc ==
    ASSUME IInv, BitsMatch, AwakeMatch, NEW b \in Bodies, NEW d \in Kinds, AllocBody(b, d)
    PROVE  AwakeMatch'
<1>1. /\ pc = "idle" /\ pc' = pc /\ to_solve = {} /\ to_solve' = {} /\ sleep_enabled' = sleep_enabled
      /\ awake' = IF sleep_enabled THEN awake \cup {b} ELSE awake
      /\ moved' = moved \cup {b} /\ b \notin bodies
  BY DEF AllocBody, configVars, IInv
<1>2. /\ \A i \in Islands : b \notin members[i]
      /\ members \in [Islands -> SUBSET Bodies] /\ flags \in [Islands -> SUBSET Flags] /\ used \subseteq Islands
  BY <1>1 DEF IInv, IslandInv, MembersMatch
<1>3. CASE ~d
  <2>1. UNCHANGED <<used, members, flags>>
    BY <1>3 DEF AllocBody
  <2> QED BY <1>1, <1>2, <2>1 DEF AwakeMatch
<1>4. CASE d
  <2>1. PICK i \in Islands : /\ Reserve({i}) /\ used' = used \cup {i}
                             /\ members' = [members EXCEPT ![i] = {b}]
                             /\ flags' = [flags EXCEPT ![i] = InitialFlags]
    BY <1>4 DEF AllocBody
  <2>2. i \notin used
    BY <2>1 DEF Reserve
  <2>3. members'[i] = {b} /\ flags'[i] = InitialFlags
    BY <1>2, <2>1
  <2>4. \A j \in used : j # i /\ members'[j] = members[j] /\ flags'[j] = flags[j] /\ b \notin members[j]
    BY <1>2, <2>1, <2>2
  <2>5. "try" \notin InitialFlags /\ (sleep_enabled => "awake" \in InitialFlags)
    BY DEF InitialFlags
  <2> QED BY <1>1, <2>1, <2>3, <2>4, <2>5 DEF AwakeMatch
<1> QED BY <1>3, <1>4

LEMMA AwakeRemove ==
    ASSUME IInv, AwakeMatch, NEW b \in Bodies, RemoveDynamic(b) \/ RemoveStatic(b)
    PROVE  AwakeMatch'
<1>1. /\ pc = "remove" /\ pc' = "remove" /\ to_solve = {} /\ to_solve' = {} /\ sleep_enabled' = sleep_enabled
      /\ awake' = awake \ {b} /\ moved' = moved \ {b} /\ used' \subseteq used /\ used \subseteq Islands
  BY DEF RemoveDynamic, RemoveStatic, Removing, ForgetBody, configVars, IInv, IslandInv
<1>2. \A i \in Islands : members'[i] \subseteq members[i] \ {b}
  <2>1. CASE RemoveStatic(b)
    BY <2>1 DEF RemoveStatic, IInv, IslandInv, MembersMatch
  <2>2. CASE RemoveDynamic(b)
    BY <2>2 DEF RemoveDynamic, IInv, IslandInv, MembersMatch
  <2> QED BY <2>1, <2>2
<1>3. \A i \in used' : ("awake" \in flags[i] => "awake" \in flags'[i])
                    /\ ("try" \in flags'[i] => "try" \in flags[i])
  <2>1. CASE RemoveStatic(b)
    BY <2>1, <1>1 DEF RemoveStatic
  <2>2. CASE RemoveDynamic(b)
    BY <2>2, <1>1 DEF RemoveDynamic, IInv, IslandInv
  <2> QED BY <2>1, <2>2
<1> QED BY <1>1, <1>2, <1>3 DEF AwakeMatch

LEMMA AwakeConfig ==
    ASSUME IInv, AwakeMatch, UpdateConfig
    PROVE  AwakeMatch'
<1>1. /\ pc' = "contacts" /\ UNCHANGED <<moved, members, used, to_solve>> /\ to_solve = {} /\ used \subseteq Islands
      /\ sleep_enabled' = pending
  BY DEF UpdateConfig, IInv, IslandInv
<1>2. CASE pending = sleep_enabled
  BY <1>1, <1>2 DEF UpdateConfig, AwakeMatch
<1>3. CASE pending # sleep_enabled
  <2>1. \A i \in used : "awake" \in flags'[i] /\ "try" \notin flags'[i]
    BY <1>1, <1>3 DEF UpdateConfig
  <2> QED BY <1>1, <2>1 DEF AwakeMatch
<1> QED BY <1>2, <1>3

\* A pair of bodies neither of which moved is no new contact.
LEMMA AwakePush ==
    ASSUME IInv, BitsMatch, AwakeMatch, NEW touch \in SUBSET Pairs(bodies), PushContacts(touch)
    PROVE  AwakeMatch'
<1>1. /\ pc = "contacts" /\ pc' = "merge" /\ moved' = {} /\ contact_new' = touch \ net
      /\ UNCHANGED <<awake, used, members, flags, sleep_enabled, to_solve>> /\ to_solve = {} /\ used \subseteq Islands
      /\ bodies \subseteq Bodies
  BY DEF PushContacts, islandVars, configVars, BitsMatch, IInv, IslandInv
<1>2. ASSUME sleep_enabled, NEW c \in contact_new', NEW i \in used, NEW j \in used,
             c \cap members[i] # {}, c \cap members[j] # {}, i # j
      PROVE  "awake" \in flags[i] \cup flags[j]
  <2>1. c \in Pairs(bodies) /\ c \cap moved # {}
    BY <1>1 DEF PushContacts
  <2>2. PICK x, y \in c : x # y /\ c = {x, y}
    BY <1>1, <2>1, PairBodies, PairsGrow
  <2>3. PICK b \in c : b \in moved
    BY <2>1
  <2>4. \A z \in members[i] : z \notin members[j]
    BY <1>1, <1>2 DEF IInv, IslandInv, MembersMatch
  <2>5. b \in members[i] \/ b \in members[j]
    BY <1>2, <2>2, <2>4
  <2> QED BY <1>2, <2>3, <2>5 DEF AwakeMatch
<1> QED BY <1>1, <1>2 DEF AwakeMatch

\* The first to be awake of two merging islands wakes the other.
LEMMA AwakeMerge ==
    ASSUME IInv, BitsMatch, AwakeMatch, NEW c, NEW expand \in Islands, NEW merge \in Islands,
           MergeIslands(c, expand, merge)
    PROVE  AwakeMatch'
<1>1. /\ pc = "merge" /\ pc' = "merge" /\ c \in contact_new /\ Ends(c) = {expand, merge} /\ expand # merge
      /\ contact_new' = contact_new \ {c} /\ used' = used \ {merge}
      /\ members' = [members EXCEPT ![expand] = members[expand] \cup members[merge], ![merge] = {}]
      /\ flags' = [flags EXCEPT
            ![expand] = IF sleep_enabled /\ SleepInterrupted(expand, merge) THEN {"awake", "reset"} ELSE flags[expand],
            ![merge] = {}]
      /\ UNCHANGED <<awake, moved, sleep_enabled, to_solve>> /\ to_solve = {} /\ moved = {}
  BY DEF MergeIslands, bodyVars, configVars, IInv, AwakeMatch
<1>2. /\ members \in [Islands -> SUBSET Bodies] /\ flags \in [Islands -> SUBSET Flags] /\ used \subseteq Islands
      /\ c \in SUBSET Bodies /\ expand \in used /\ merge \in used
  <2>1. net \subseteq Pairs(Bodies)
    BY PairsGrow DEF BitsMatch, IInv, IslandInv
  <2>2. c \in SUBSET Bodies
    BY <1>1, <2>1, PairBodies DEF BitsMatch
  <2>3. expand # Static /\ merge # Static
    BY IslandsAssumption
  <2> QED BY <1>1, <2>2, <2>3, EndsUsed DEF IInv, IslandInv
<1>3. c \cap members[expand] # {} /\ c \cap members[merge] # {}
  BY <1>1, <1>2, EndsMembers
<1>4. \A i \in Islands : members'[i] =
        IF i = expand THEN members[expand] \cup members[merge] ELSE IF i = merge THEN {} ELSE members[i]
  BY <1>1, <1>2
<1>5. /\ flags'[expand] = IF sleep_enabled /\ SleepInterrupted(expand, merge) THEN {"awake", "reset"} ELSE flags[expand]
      /\ \A i \in Islands : i # expand /\ i # merge => flags'[i] = flags[i]
  BY <1>1, <1>2
<1>6. sleep_enabled => "awake" \in flags[expand] \cup flags[merge]
  BY <1>1, <1>2, <1>3 DEF AwakeMatch
<1>7. sleep_enabled => "awake" \in flags'[expand]
  BY <1>5, <1>6 DEF SleepInterrupted
<1>8. "try" \notin flags'[expand]
  <2>1. "try" \in flags[expand] => sleep_enabled
    BY DEF IInv, IslandInv
  <2> QED BY <1>5, <2>1 DEF SleepInterrupted
<1>9. \A i \in used' : i \in used /\ i # merge /\ i \in Islands
  BY <1>1, <1>2
<1>10. sleep_enabled => \A i \in used' : "awake" \notin flags'[i] => members'[i] \cap (awake \cup moved) = {}
  BY <1>4, <1>5, <1>7, <1>9 DEF AwakeMatch
<1>11. \A i \in used' : "try" \in flags'[i] => members'[i] \subseteq awake
  BY <1>4, <1>5, <1>8, <1>9 DEF AwakeMatch
<1>12. ASSUME sleep_enabled, NEW e \in contact_new', NEW i \in used', NEW j \in used',
              e \cap members'[i] # {}, e \cap members'[j] # {}, i # j
       PROVE  "awake" \in flags'[i] \cup flags'[j]
  <2>1. CASE i = expand \/ j = expand
    BY <1>7, <1>12, <2>1
  <2>2. CASE i # expand /\ j # expand
    <3>1. members'[i] = members[i] /\ members'[j] = members[j] /\ flags'[i] = flags[i] /\ flags'[j] = flags[j]
      BY <1>4, <1>5, <1>9, <2>2
    <3>2. pc = "merge" /\ e \in contact_new /\ i \in used /\ j \in used
      BY <1>1, <1>9, <1>12
    <3> QED BY <1>12, <3>1, <3>2 DEF AwakeMatch
  <2> QED BY <2>1, <2>2
<1>13. pc' = "merge" /\ sleep_enabled' = sleep_enabled /\ awake' = awake /\ moved' = moved /\ moved = {} /\ to_solve' = {}
  BY <1>1
<1> QED BY <1>10, <1>11, <1>12, <1>13 DEF AwakeMatch

LEMMA AwakeSplit ==
    ASSUME IInv, BitsMatch, AwakeMatch, NEW i \in Islands, SplitIsland(i)
    PROVE  AwakeMatch'
<1>1. /\ pc \in {"remove", "split"} /\ pc' = pc /\ to_solve = {} /\ to_solve' = {} /\ used \subseteq Islands
      /\ UNCHANGED <<awake, moved, sleep_enabled>>
  BY DEF SplitIsland, bodyVars, contactVars, configVars, IInv, IslandInv
<1>2. PICK new \in SUBSET (Islands \ used) : SplitInto(i, new)
  BY SplitParts
<1> USE DEF SplitInto
<1>3. "try" \notin InitialFlags /\ (sleep_enabled => "awake" \in InitialFlags)
  BY DEF InitialFlags
<1>4. \A j \in used' : \/ flags'[j] = InitialFlags
                       \/ j \in used /\ members'[j] = members[j] /\ flags'[j] = flags[j]
  BY <1>1, <1>2
<1> QED BY <1>1, <1>3, <1>4 DEF AwakeMatch

LEMMA AwakeDispatch ==
    ASSUME IInv, AwakeMatch, DispatchIslands
    PROVE  AwakeMatch'
<1>1. /\ pc = "split" /\ pc' = "solve" /\ UNCHANGED <<awake, moved, members, flags, used, sleep_enabled>>
      /\ to_solve' = {i \in used : sleep_enabled => "awake" \in flags[i]}
  BY DEF DispatchIslands, bodyVars, islandVars, configVars
<1> QED BY <1>1 DEF AwakeMatch

LEMMA AwakeFallAsleep ==
    ASSUME IInv, AwakeMatch, NEW i \in Islands, FallAsleep(i)
    PROVE  AwakeMatch'
<1>1. /\ pc = "solve" /\ pc' = "solve" /\ i \in to_solve /\ "try" \in flags[i] /\ to_solve' = to_solve \ {i}
      /\ flags' = [flags EXCEPT ![i] = {}]
      /\ awake' = (awake \ members[i]) \cup (members[i] \ awake)
      /\ UNCHANGED <<moved, members, used, sleep_enabled>>
  BY DEF FallAsleep, Drowsy, configVars
<1>2. i \in used /\ members[i] \subseteq awake /\ members[i] \cap moved = {} /\ used \subseteq Islands
      /\ flags \in [Islands -> SUBSET Flags] /\ to_solve \subseteq used
  BY <1>1 DEF IInv, IslandInv, AwakeMatch
<1>3. awake' = awake \ members[i]
  BY <1>1, <1>2
<1>4. \A j \in Islands : j # i => members[j] \cap members[i] = {}
  BY DEF IInv, IslandInv, MembersMatch
<1>5. flags'[i] = {} /\ \A j \in used : j # i => flags'[j] = flags[j] /\ (members[j] \subseteq awake => members[j] \subseteq awake')
  BY <1>1, <1>2, <1>3, <1>4
<1>6. members[i] \cap (awake' \cup moved) = {}
  BY <1>2, <1>3
<1> QED BY <1>1, <1>2, <1>3, <1>5, <1>6 DEF AwakeMatch

LEMMA AwakeSolve ==
    ASSUME IInv, AwakeMatch, NEW i \in Islands, NEW quiet, SolveIsland(i, quiet)
    PROVE  AwakeMatch'
<1>1. /\ pc = "solve" /\ pc' = "solve" /\ i \in to_solve /\ to_solve' = to_solve \ {i}
      /\ moved' = moved \cup members[i]
      /\ UNCHANGED <<members, used, sleep_enabled>>
  BY DEF SolveIsland, configVars
<1>2. i \in used /\ used \subseteq Islands /\ flags \in [Islands -> SUBSET Flags] /\ to_solve \subseteq used
  BY <1>1 DEF IInv, IslandInv
<1>3. \A j \in Islands : j # i => members[j] \cap members[i] = {}
  BY DEF IInv, IslandInv, MembersMatch
<1>4. \A j \in used : j # i => members[j] \cap moved' = members[j] \cap moved
  BY <1>1, <1>2, <1>3
<1>5. CASE ~sleep_enabled
  <2>1. UNCHANGED <<awake, flags>>
    BY <1>5 DEF SolveIsland
  <2>2. \A j \in used : "try" \notin flags[j]
    BY <1>2, <1>5 DEF IInv, IslandInv
  <2> QED BY <1>1, <1>2, <1>4, <1>5, <2>1, <2>2 DEF AwakeMatch
<1>6. CASE sleep_enabled
  <2>1. /\ awake' = awake \cup members[i]
        /\ \A j \in used : j # i => flags'[j] = flags[j]
        /\ "awake" \in flags[i] => "awake" \in flags'[i]
    BY <1>2, <1>6 DEF SolveIsland
  <2>2. "awake" \in flags'[i]
    BY <1>1, <1>6, <2>1 DEF AwakeMatch
  <2>3. \A j \in used : j # i => members[j] \cap awake' = members[j] \cap awake
    BY <1>2, <1>3, <2>1
  <2>4. \A j \in used : "awake" \notin flags'[j] => members[j] \cap (awake' \cup moved') = {}
    BY <1>4, <1>6, <2>1, <2>2, <2>3 DEF AwakeMatch
  <2>5. \A j \in used : "try" \in flags'[j] => members[j] \subseteq awake'
    BY <2>1 DEF AwakeMatch
  <2>6. \A j \in used \ to_solve' : "awake" \in flags'[j] => members[j] \subseteq awake'
    BY <1>1, <1>6, <2>1 DEF AwakeMatch
  <2>7. \A j \in to_solve' : members[j] \cap moved' = {} /\ "awake" \in flags'[j]
    BY <1>1, <1>2, <1>4, <1>6, <2>1 DEF AwakeMatch
  <2> QED BY <1>1, <2>4, <2>5, <2>6, <2>7 DEF AwakeMatch
<1> QED BY <1>5, <1>6

LEMMA AwakeStep ==
    ASSUME IInv, BitsMatch, AwakeMatch, [Next]_vars
    PROVE  AwakeMatch'
<1>0. to_solve \subseteq used /\ (pc # "solve" => to_solve = {}) /\ used \subseteq Islands
  BY DEF IInv, IslandInv
<1>1. ASSUME NEW b \in Bodies, NEW d \in Kinds, AllocBody(b, d) PROVE AwakeMatch'
  BY <1>1, AwakeAlloc
<1>2. CASE (\E b \in Bodies : TagForRemoval(b)) \/ SetPending
  <2>1. /\ pc = "idle" /\ pc' = pc
        /\ UNCHANGED <<awake, moved, members, used, flags, sleep_enabled, to_solve, contact_new>>
    BY <1>2 DEF TagForRemoval, SetPending, bodyVars, islandVars, contactVars, configVars
  <2> QED BY <1>0, <2>1, AwakeQuiet
<1>3. CASE Flush
  BY <1>0, <1>3 DEF Flush, configVars, AwakeMatch
<1>4. CASE Tick
  BY <1>0, <1>4, AwakeQuiet DEF Tick, bodyVars, islandVars, configVars
<1>5. ASSUME NEW b \in Bodies, RemoveDynamic(b) \/ RemoveStatic(b) PROVE AwakeMatch'
  BY <1>5, AwakeRemove
<1>6. CASE \E b \in Bodies : RemoveStaticTouchingStatic(b)
  <2>1. pc' = "undefined" /\ UNCHANGED <<awake, moved, members, used, flags, sleep_enabled, to_solve>>
    BY <1>6 DEF RemoveStaticTouchingStatic, bodyVars, islandVars, configVars
  <2> QED BY <1>0, <2>1, AwakeQuiet
<1>7. CASE UpdateConfig
  BY <1>7, AwakeConfig
<1>8. ASSUME NEW touch \in SUBSET Pairs(bodies), PushContacts(touch) PROVE AwakeMatch'
  BY <1>8, AwakePush
<1>9. ASSUME NEW c \in contact_new, NEW i \in Islands, AddContact(c) \/ AddLocalContact(c, i) PROVE AwakeMatch'
  <2>1. /\ pc = "merge" /\ pc' = pc /\ contact_new' \subseteq contact_new
        /\ UNCHANGED <<awake, moved, members, used, flags, sleep_enabled, to_solve>>
    BY <1>9 DEF AddContact, AddLocalContact, bodyVars, configVars
  <2> QED BY <1>0, <2>1, AwakeQuiet DEF AwakeMatch
<1>10. ASSUME NEW c \in contact_new, NEW i \in Islands, LocalContactAssertionFails(c, i) PROVE AwakeMatch'
  <2>1. pc' = "stopped" /\ UNCHANGED <<awake, moved, members, used, flags, sleep_enabled, to_solve>>
    BY <1>10 DEF LocalContactAssertionFails, bodyVars, islandVars, configVars
  <2> QED BY <1>0, <2>1, AwakeQuiet
<1>11. ASSUME NEW c \in contact_new, NEW i \in Islands, NEW j \in Islands, MergeIslands(c, i, j) PROVE AwakeMatch'
  BY <1>11, AwakeMerge
<1>12. CASE RemoveContacts
  <2>1. pc = "merge" /\ pc' = "split" /\ UNCHANGED <<awake, moved, members, used, sleep_enabled, to_solve>>
    BY <1>12 DEF RemoveContacts, bodyVars, configVars
  <2>2. \A i \in used : ("awake" \in flags[i] => "awake" \in flags'[i]) /\ ("try" \in flags'[i] => "try" \in flags[i])
    BY <1>0, <1>12 DEF RemoveContacts
  <2> QED BY <1>0, <2>1, <2>2, AwakeQuiet DEF AwakeMatch
<1>13. ASSUME NEW i \in Islands, SplitIsland(i) PROVE AwakeMatch'
  BY <1>13, AwakeSplit
<1>14. CASE DispatchIslands
  BY <1>14, AwakeDispatch
<1>15. ASSUME NEW i \in Islands, NEW quiet, FallAsleep(i) \/ SolveIsland(i, quiet) PROVE AwakeMatch'
  BY <1>15, AwakeFallAsleep, AwakeSolve
<1>16. CASE Validate
  <2>1. /\ pc = "solve" /\ pc' \in {"idle", "stopped"} /\ to_solve = {}
        /\ UNCHANGED <<awake, moved, members, used, flags, sleep_enabled, to_solve>>
    BY <1>16 DEF Validate, bodyVars, islandVars, configVars
  <2> QED BY <2>1 DEF AwakeMatch
<1>17. CASE UNCHANGED vars
  BY <1>17 DEF vars, bodyVars, islandVars, contactVars, configVars, AwakeMatch
<1>18. ASSUME NEW c \in contact_new, AddContact(c) PROVE AwakeMatch'
  <2>1. /\ pc = "merge" /\ pc' = pc /\ contact_new' \subseteq contact_new
        /\ UNCHANGED <<awake, moved, members, used, flags, sleep_enabled, to_solve>>
    BY <1>18 DEF AddContact, bodyVars, configVars
  <2> QED BY <1>0, <2>1, AwakeQuiet DEF AwakeMatch
<1> QED BY <1>1, <1>2, <1>3, <1>4, <1>5, <1>6, <1>7, <1>8, <1>9, <1>10, <1>11, <1>12, <1>13, <1>14, <1>15, <1>16, <1>17, <1>18
        DEF Next, Frame, Remove, GiveToIsland

LEMMA InitNetInv == Init => NetInv
<1> SUFFICES ASSUME Init PROVE NetInv
  OBVIOUS
<1>1. BitsMatch
  BY DEF Init, BitsMatch, NoBits
<1>2. ListsMatch
  BY DEF Init, ListsMatch, Settled
<1>3. AwakeMatch
  BY DEF Init, AwakeMatch
<1> QED BY <1>1, <1>2, <1>3 DEF NetInv

\* The net, its bits, the lists of the islands and who is awake fit together after
\* every step of a frame.
THEOREM NetInvariantHolds == Spec => []NetInv
<1>1. IInv /\ NetInv /\ [Next]_vars => NetInv'
  BY BitsStep, ListsStep, AwakeStep DEF NetInv
<1> QED BY <1>1, InitNetInv, InvariantHolds, PTL DEF Spec

\* Between frames, and while islands are split, the usage bits name exactly the contacts.
THEOREM UsageKeptTheorem == Spec => []UsageKept
<1>1. NetInv => UsageKept
  BY DEF NetInv, BitsMatch, UsageKept
<1> QED BY <1>1, NetInvariantHolds, PTL

\* When islands are solved no contact has bodies in two of them, and the list of an
\* island is the contacts of its bodies.
THEOREM TouchingTogetherTheorem == Spec => []TouchingTogether
<1>1. IInv /\ NetInv => TouchingTogether
  <2> SUFFICES ASSUME IInv, NetInv, pc \in {"solve", "idle"}
               PROVE  /\ \A c \in net : Cardinality(Ends(c) \ {Static}) <= 1
                      /\ \A i \in used : links[i] = {c \in net : i \in Ends(c)}
    BY DEF TouchingTogether
  <2>1. contact_new = {} /\ to_split = {} /\ Settled = net /\ used \subseteq Islands
    BY DEF NetInv, BitsMatch, Settled, IInv, IslandInv
  <2>2. net \subseteq SUBSET Bodies
    <3>1. net \subseteq Pairs(Bodies)
      BY PairsGrow DEF NetInv, BitsMatch, IInv, IslandInv
    <3> QED BY <3>1, PairBodies
  <2>3. ASSUME NEW c \in net PROVE Cardinality(Ends(c) \ {Static}) <= 1
    <3>1. \A i, j \in Ends(c) \ {Static} : i = j
      <4> SUFFICES ASSUME NEW i \in Ends(c), NEW j \in Ends(c), i # Static, j # Static PROVE i = j
        OBVIOUS
      <4>1. c \in SUBSET Bodies /\ c \in Settled
        BY <2>1, <2>2
      <4>2. i \in Islands /\ j \in Islands
        BY <4>1, EndsUsed
      <4>3. c \cap members[i] # {} /\ c \cap members[j] # {}
        BY <4>1, <4>2, EndsMembers
      <4> QED BY <4>1, <4>2, <4>3 DEF NetInv, ListsMatch
    <3>2. CASE Ends(c) \ {Static} = {}
      BY <3>2, FS_EmptySet
    <3>3. CASE Ends(c) \ {Static} # {}
      <4>1. PICK i : Ends(c) \ {Static} = {i}
        BY <3>1, <3>3
      <4> QED BY <4>1, FS_Singleton
    <3> QED BY <3>2, <3>3
  <2>4. ASSUME NEW i \in used PROVE links[i] = {c \in net : i \in Ends(c)}
    <3>1. links[i] = Own(i)
      BY <2>1 DEF NetInv, ListsMatch, Listed
    <3>2. \A c \in net : i \in Ends(c) <=> c \cap members[i] # {}
      BY <2>1, <2>2, EndsMembers
    <3> QED BY <2>1, <3>1, <3>2 DEF Own
  <2> QED BY <2>3, <2>4
<1> QED BY <1>1, InvariantHolds, NetInvariantHolds, PTL

\* When a frame is over a body is awake exactly if its island is, and an island about to
\* sleep has only bodies that are awake, so that toggling RB_AWAKE puts them to sleep.
THEOREM SleepAgreesTheorem == Spec => []SleepAgrees
<1>1. IInv /\ NetInv => SleepAgrees
  <2> SUFFICES ASSUME IInv, NetInv PROVE SleepAgrees
    OBVIOUS
  <2>1. ASSUME pc = "idle", sleep_enabled, NEW i \in used
        PROVE  IF "awake" \in flags[i] THEN members[i] \subseteq awake ELSE members[i] \cap awake = {}
    <3>1. to_solve = {}
      BY <2>1 DEF IInv
    <3> QED BY <2>1, <3>1 DEF NetInv, AwakeMatch
  <2>2. \A i \in used : Drowsy(i) => members[i] \subseteq awake
    BY DEF NetInv, AwakeMatch, Drowsy
  <2> QED BY <2>1, <2>2 DEF SleepAgrees
<1> QED BY <1>1, InvariantHolds, NetInvariantHolds, PTL

\* A static body taken away wakes every island that rested on it, with its timers to
\* be reset, or has it split.
THEOREM LostSupportTheorem == Spec => LostSupportWakes
<1> DEFINE Wakes ==
        \A b \in bodies \ bodies', a \in bodies' :
            pc = "remove" /\ sleep_enabled /\ island_index[b] = Static
            /\ {a, b} \in net /\ island_index'[a] # Static =>
                \/ {"awake", "reset"} \subseteq flags'[island_index'[a]]
                \/ island_index'[a] \in to_split'
<1>1. IInv /\ [Next]_vars => Wakes
  <2> SUFFICES ASSUME IInv, [Next]_vars, NEW b \in bodies \ bodies', NEW a \in bodies',
                      pc = "remove", island_index[b] = Static, {a, b} \in net, island_index'[a] # Static
               PROVE  {"awake", "reset"} \subseteq flags'[island_index'[a]] \/ island_index'[a] \in to_split'
    OBVIOUS
  <2>1. PICK x \in Bodies : RemoveDynamic(x) \/ RemoveStatic(x)
    BY DEF Next, Frame, AllocBody, TagForRemoval, SetPending, Flush, Tick, Remove, RemoveStaticTouchingStatic,
           UpdateConfig, PushContacts, GiveToIsland, AddContact, AddLocalContact, LocalContactAssertionFails,
           MergeIslands, RemoveContacts, SplitIsland, DispatchIslands, FallAsleep, SolveIsland, Validate, bodyVars, vars
  <2>2. x = b /\ ForgetBody(b) /\ a \in bodies /\ a # b
    BY <2>1 DEF RemoveDynamic, RemoveStatic, ForgetBody
  <2>3. RemoveStatic(b)
    BY <2>1, <2>2 DEF RemoveDynamic
  <2>4. /\ a \in Bodies /\ island_index'[a] = island_index[a] /\ island_index[a] \in Islands
    BY <2>2 DEF ForgetBody, IInv, IslandInv
  <2>5. a \in Touching(b)
    BY <2>2 DEF Touching, ContactsOf
  <2>6. island_index[a] \in {island_index[z] : z \in Touching(b)}
    BY <2>5
  <2> QED BY <2>3, <2>4, <2>6 DEF RemoveStatic
<1> QED BY <1>1, InvariantHolds, PTL DEF Spec, LostSupportWakes

(***************************************************************************)
(* Islands are connected, as long as no dynamic body is removed.           *)
(***************************************************************************)

\* An island keeps connected if it loses no contact between two of its members.
LEMMA ConnectedKept ==
    ASSUME NEW i, Connected(i), members'[i] = members[i],
           \A c \in Settled : c \in Settled' \/ \A x, y \in c \cap members[i] : x = y
    PROVE  Connected(i)'
<1> SUFFICES ASSUME NEW S \in SUBSET members[i], S # {},
                    \A c \in Settled' : c \cap S # {} => c \cap members[i] \subseteq S
             PROVE  S = members[i]
  BY DEF Connected
<1>1. ASSUME NEW c \in Settled, c \cap S # {} PROVE c \cap members[i] \subseteq S
  BY <1>1
<1> QED BY <1>1 DEF Connected

LEMMA ConnectedQuiet ==
    ASSUME ConnectedInv, UNCHANGED <<members, used, to_split>>, Settled \subseteq Settled',
           marked' \cap dynamic' = {}, pc' # "stopped"
    PROVE  ConnectedInv'
<1>1. \A i \in used \ to_split : Connected(i)'
  BY ConnectedKept DEF ConnectedInv
<1> QED BY <1>1 DEF ConnectedInv

LEMMA ConnectedAlloc ==
    ASSUME IInv, BitsMatch, ConnectedInv, NEW b \in Bodies, NEW d \in Kinds, AllocBody(b, d)
    PROVE  ConnectedInv'
<1>1. /\ to_split' = to_split /\ Settled' = Settled /\ marked' \cap dynamic' = {} /\ pc' # "stopped"
  BY DEF AllocBody, Settled, BitsMatch, contactVars, ConnectedInv
<1>2. CASE ~d
  BY <1>1, <1>2, ConnectedQuiet DEF AllocBody
<1>3. CASE d
  <2>1. PICK i \in Islands : Reserve({i}) /\ used' = used \cup {i} /\ members' = [members EXCEPT ![i] = {b}]
    BY <1>3 DEF AllocBody
  <2>2. members'[i] = {b} /\ \A j \in used : members'[j] = members[j]
    BY <2>1 DEF Reserve, IInv, IslandInv
  <2>3. Connected(i)'
    BY <2>2 DEF Connected
  <2>4. \A j \in used \ to_split : Connected(j)'
    BY <1>1, <2>2, ConnectedKept DEF ConnectedInv
  <2> QED BY <1>1, <2>1, <2>3, <2>4 DEF ConnectedInv
<1> QED BY <1>2, <1>3

LEMMA ConnectedRemoveStatic ==
    ASSUME IInv, BitsMatch, ConnectedInv, NEW b \in Bodies, RemoveStatic(b)
    PROVE  ConnectedInv'
<1>1. /\ to_split = {} /\ contact_new = {} /\ contact_new' = {} /\ net' = net \ ContactsOf(b) /\ pc' # "stopped"
      /\ UNCHANGED <<used, members>> /\ marked' = marked \ {b} /\ dynamic' = dynamic \ {b}
  BY DEF RemoveStatic, Removing, ForgetBody, BitsMatch
<1>2. /\ \A i \in used : b \notin members[i]
      /\ net \subseteq Pairs(Bodies)
  BY PairsGrow DEF RemoveStatic, IInv, IslandInv, MembersMatch, BitsMatch
<1>3. ASSUME NEW i \in used, NEW c \in Settled PROVE c \in Settled' \/ \A x, y \in c \cap members[i] : x = y
  <2>1. CASE b \notin c
    BY <1>1, <2>1 DEF Settled, ContactsOf
  <2>2. CASE b \in c
    <3>1. PICK x, y \in c : x # y /\ c = {x, y}
      BY <1>2, PairBodies DEF Settled
    <3> QED BY <1>2, <2>2, <3>1
  <2> QED BY <2>1, <2>2
<1>4. \A i \in used : Connected(i)'
  BY <1>1, <1>3, ConnectedKept DEF ConnectedInv
<1> QED BY <1>1, <1>4 DEF ConnectedInv

\* A contact between two connected islands connects them.
LEMMA ConnectedMerge ==
    ASSUME IInv, BitsMatch, ConnectedInv, NEW c, NEW expand \in Islands, NEW merge \in Islands,
           MergeIslands(c, expand, merge)
    PROVE  ConnectedInv'
<1>1. /\ pc = "merge" /\ pc' = pc /\ c \in contact_new /\ Ends(c) = {expand, merge} /\ expand # merge
      /\ members' = [members EXCEPT ![expand] = members[expand] \cup members[merge], ![merge] = {}]
      /\ contact_new' = contact_new \ {c} /\ net' = net
      /\ used' = used \ {merge} /\ to_split = {} /\ to_split' = {} /\ UNCHANGED <<marked, dynamic>>
  BY DEF MergeIslands, BitsMatch, bodyVars
<1>2. /\ members \in [Islands -> SUBSET Bodies] /\ used \subseteq Islands
      /\ c \in SUBSET Bodies /\ expand \in used /\ merge \in used
  <2>1. net \subseteq Pairs(Bodies)
    BY PairsGrow DEF BitsMatch, IInv, IslandInv
  <2>2. c \in SUBSET Bodies
    BY <1>1, <2>1, PairBodies DEF BitsMatch
  <2>3. expand # Static /\ merge # Static
    BY IslandsAssumption
  <2> QED BY <1>1, <2>2, <2>3, EndsUsed DEF IInv, IslandInv
<1>3. c \cap members[expand] # {} /\ c \cap members[merge] # {}
  BY <1>1, <1>2, EndsMembers
<1>4. Settled \subseteq Settled' /\ c \in Settled'
  BY <1>1 DEF Settled, BitsMatch
<1>5. members'[expand] = members[expand] \cup members[merge] /\ \A i \in used' : i # expand => members'[i] = members[i]
  BY <1>1, <1>2
<1>6. Connected(expand) /\ Connected(merge)
  BY <1>1, <1>2 DEF ConnectedInv
<1>7. Connected(expand)'
  <2> SUFFICES ASSUME NEW S \in SUBSET (members[expand] \cup members[merge]), S # {},
                      \A e \in Settled' : e \cap S # {} => e \cap (members[expand] \cup members[merge]) \subseteq S
               PROVE  S = members[expand] \cup members[merge]
    BY <1>5 DEF Connected
  <2>1. ASSUME NEW i \in {expand, merge}, S \cap members[i] # {} PROVE members[i] \subseteq S
    <3>1. \A e \in Settled : e \cap (S \cap members[i]) # {} => e \cap members[i] \subseteq S \cap members[i]
      BY <1>4
    <3>2. S \cap members[i] = members[i]
      BY <1>6, <2>1, <3>1 DEF Connected
    <3> QED BY <3>2
  <2>2. members[expand] \subseteq S <=> members[merge] \subseteq S
    <3>1. ASSUME NEW i \in {expand, merge}, NEW j \in {expand, merge}, members[i] \subseteq S
          PROVE  members[j] \subseteq S
      <4>1. c \cap S # {}
        BY <1>3, <3>1
      <4>2. c \cap members[j] \subseteq S
        BY <1>4, <4>1
      <4> QED BY <1>3, <2>1, <4>2
    <3> QED BY <3>1
  <2> QED BY <2>1, <2>2
<1>8. \A i \in used' : Connected(i)'
  <2> SUFFICES ASSUME NEW i \in used', i # expand PROVE Connected(i)'
    BY <1>7
  <2>1. Connected(i)
    BY <1>1 DEF ConnectedInv
  <2> QED BY <1>4, <1>5, <2>1, ConnectedKept
<1> QED BY <1>1, <1>8 DEF ConnectedInv

LEMMA ConnectedRemoveContacts ==
    ASSUME IInv, BitsMatch, ListsMatch, ConnectedInv, RemoveContacts
    PROVE  ConnectedInv'
<1>1. /\ pc = "merge" /\ pc' = "split" /\ to_split = {} /\ contact_new = {} /\ contact_new' = {}
      /\ UNCHANGED <<members, used, marked, dynamic>>
  BY DEF RemoveContacts, BitsMatch, bodyVars
<1>2. ASSUME NEW i \in used \ to_split', NEW c \in Settled, c \cap members[i] # {} PROVE c \in Settled'
  <2>1. c \in links[i] /\ c \in net
    BY <1>1, <1>2 DEF ListsMatch, Listed, Own, Settled
  <2>2. Listed(i)' = Own(i)'
    BY <1>1, ListsRemoveContacts DEF ListsMatch
  <2>3. links' = links
    BY DEF RemoveContacts
  <2> QED BY <2>1, <2>2, <2>3 DEF Listed, Own
<1>3. ASSUME NEW i \in used \ to_split' PROVE Connected(i)'
  <2>1. Connected(i) /\ members'[i] = members[i]
    BY <1>1 DEF ConnectedInv
  <2>2. \A c \in Settled : c \in Settled' \/ \A x, y \in c \cap members[i] : x = y
    BY <1>2
  <2> QED BY <2>1, <2>2, ConnectedKept
<1> QED BY <1>1, <1>3 DEF ConnectedInv

\* The islands a split makes are connected: a closed part of one is closed in the old island.
LEMMA ConnectedSplit ==
    ASSUME IInv, BitsMatch, ConnectedInv, NEW i \in Islands, SplitIsland(i)
    PROVE  ConnectedInv'
<1>1. /\ pc \in {"remove", "split"} /\ pc' = pc /\ i \in to_split /\ to_split' = to_split \ {i}
      /\ contact_new = {} /\ Settled' = Settled /\ Settled = net /\ used \subseteq Islands
      /\ UNCHANGED <<marked, dynamic>>
  BY DEF SplitIsland, BitsMatch, bodyVars, contactVars, Settled, IInv, IslandInv
<1>2. PICK new \in SUBSET (Islands \ used) : SplitInto(i, new)
  BY SplitParts
<1>3. \A b \in members[i] : b \in Bodies /\ island_index[b] = i
  BY DEF IInv, IslandInv, MembersMatch
<1>4. members[i] = {a \in Bodies : island_index[a] = i}
  BY IslandsAssumption DEF IInv, IslandInv, MembersMatch
<1>5. ASSUME NEW j \in new PROVE Connected(j)'
  <2>1. PICK b \in members[i] : members'[j] = Reach(i, b)
    BY <1>2 DEF SplitInto
  <2> SUFFICES ASSUME NEW S \in SUBSET Reach(i, b), S # {},
                      \A c \in net : c \cap S # {} => c \cap Reach(i, b) \subseteq S
               PROVE  S = Reach(i, b)
    BY <1>1, <2>1 DEF Connected
  <2>2. /\ Reach(i, b) \subseteq members[i]
        /\ \A c \in net : c \cap Reach(i, b) # {} => c \cap members[i] \subseteq Reach(i, b)
    BY <1>3, <1>4, ReachClosed
  <2>3. \A c \in net : c \cap S # {} => c \cap members[i] \subseteq S
    BY <2>2
  <2>4. PICK a \in S : TRUE
    OBVIOUS
  <2>5. a \in Bodies /\ island_index[a] = i /\ Reach(i, a) = Reach(i, b)
    BY <1>3, <2>2, <2>4, ReachSame
  <2>6. Reach(i, a) \subseteq S
    BY <1>4, <2>2, <2>3, <2>5, ReachLeast
  <2> QED BY <2>5, <2>6
<1>6. ASSUME NEW j \in used \ {i}, j \notin to_split PROVE Connected(j)'
  <2>1. members'[j] = members[j] /\ Connected(j)
    BY <1>1, <1>2, <1>6 DEF SplitInto, ConnectedInv
  <2> QED BY <1>1, <2>1, ConnectedKept
<1>7. \A j \in used' \ to_split' : j \in new \/ (j \in used \ {i} /\ j \notin to_split)
  BY <1>1, <1>2 DEF SplitInto
<1> QED BY <1>1, <1>5, <1>6, <1>7 DEF ConnectedInv

\* A connected island without contacts has one member.
LEMMA AloneWithoutContacts ==
    ASSUME NEW i, Connected(i), Own(i) = {}, NEW a \in members[i], NEW b \in members[i]
    PROVE  a = b
<1>1. \A c \in Settled : ~(c \cap {a} # {})
  BY DEF Own
<1>2. {a} = members[i]
  BY <1>1 DEF Connected
<1> QED BY <1>2

\* The assertion of is_db_merge_islands about a contact inside an island.
LEMMA LocalContactSound ==
    ASSUME IInv, BitsMatch, ListsMatch, ConnectedInv, NEW c, NEW i \in Islands
    PROVE  ~LocalContactAssertionFails(c, i)
<1> SUFFICES ASSUME LocalContactAssertionFails(c, i) PROVE FALSE
  OBVIOUS
<1>1. c \in contact_new /\ Ends(c) = {i} /\ i # Static /\ links[i] = {} /\ to_split = {}
  BY DEF LocalContactAssertionFails, BitsMatch
<1>2. c \in Pairs(Bodies)
  BY <1>1, PairsGrow DEF BitsMatch, IInv, IslandInv
<1>3. PICK x, y \in c : x # y /\ x \in Bodies /\ y \in Bodies
  BY <1>2, PairBodies
<1>4. island_index[x] = i /\ island_index[y] = i
  BY <1>1 DEF Ends
<1>5. x \in members[i] /\ y \in members[i] /\ i \in used
  BY <1>1, <1>3, <1>4 DEF IInv, IslandInv, MembersMatch
<1>6. Own(i) = {} /\ Connected(i)
  BY <1>1, <1>5 DEF ListsMatch, Listed, ConnectedInv
<1> QED BY <1>3, <1>5, <1>6, AloneWithoutContacts

\* The assertions of is_db_validate.
LEMMA FrameValid ==
    ASSUME IInv, BitsMatch, ListsMatch, ConnectedInv, pc = "solve"
    PROVE  Valid
<1>1. /\ to_split = {} /\ Settled = net /\ used \subseteq Islands /\ dynamic \subseteq bodies /\ bodies \subseteq Bodies
      /\ net \subseteq SUBSET Bodies
  <2>1. net \subseteq Pairs(Bodies)
    BY PairsGrow DEF BitsMatch, IInv, IslandInv
  <2> QED BY <2>1, PairBodies DEF BitsMatch, Settled, IInv, IslandInv
<1>2. ASSUME NEW i \in used
      PROVE  /\ members[i] = {b \in bodies : island_index[b] = i}
             /\ links[i] = {} => Cardinality(members[i]) = 1 /\ \A b \in members[i] : ContactsOf(b) = {}
             /\ links[i] \subseteq net
             /\ \A c \in links[i] : Ends(c) \subseteq {i, Static}
  <2>1. i \in Islands /\ i # Static /\ members[i] # {} /\ links[i] = Own(i) /\ Connected(i)
    BY <1>1, IslandsAssumption DEF IInv, IslandInv, MembersMatch, ListsMatch, Listed, ConnectedInv
  <2>2. members[i] = {b \in bodies : island_index[b] = i}
    BY <1>1, <2>1 DEF IInv, IslandInv, MembersMatch
  <2>3. ASSUME links[i] = {} PROVE Cardinality(members[i]) = 1 /\ \A b \in members[i] : ContactsOf(b) = {}
    <3>1. \A b \in members[i] : ContactsOf(b) = {}
      BY <1>1, <2>1, <2>3 DEF Own, ContactsOf
    <3>2. PICK b : b \in members[i]
      BY <2>1
    <3>3. Own(i) = {} /\ Connected(i)
      BY <2>1, <2>3
    <3>4. \A a \in members[i] : a = b
      BY <3>2, <3>3, AloneWithoutContacts
    <3>5. members[i] = {b}
      BY <3>2, <3>4
    <3> QED BY <3>1, <3>5, FS_Singleton
  <2>4. ASSUME NEW c \in links[i] PROVE c \in net /\ Ends(c) \subseteq {i, Static}
    <3>1. c \in Settled /\ c \in SUBSET Bodies /\ c \cap members[i] # {}
      BY <1>1, <2>1 DEF Own
    <3>2. ASSUME NEW j \in Ends(c), j # Static PROVE j = i
      <4>1. j \in Islands
        BY <3>1, <3>2, EndsUsed
      <4>2. c \cap members[j] # {}
        BY <3>1, <4>1, EndsMembers
      <4> QED BY <2>1, <3>1, <4>1, <4>2 DEF ListsMatch
    <3> QED BY <1>1, <3>1, <3>2
  <2> QED BY <2>2, <2>3, <2>4
<1>3. \A b \in bodies : island_index[b] \in used \cup {Static}
  BY <1>1 DEF IInv, IslandInv, MembersMatch
<1> QED BY <1>2, <1>3 DEF Valid

LEMMA ConnectedStep ==
    ASSUME TRUE \notin Removable, IInv, BitsMatch, ListsMatch, ConnectedInv, [Next]_vars
    PROVE  ConnectedInv'
<1>0. marked \cap dynamic = {} /\ pc # "stopped"
  BY DEF ConnectedInv
<1>1. ASSUME NEW b \in Bodies, NEW d \in Kinds, AllocBody(b, d) PROVE ConnectedInv'
  BY <1>1, ConnectedAlloc
<1>2. ASSUME NEW b \in Bodies, TagForRemoval(b) PROVE ConnectedInv'
  <2>1. b \notin dynamic
    BY <1>2, KindsAssumption DEF TagForRemoval
  <2> QED BY <1>0, <1>2, <2>1, ConnectedQuiet DEF TagForRemoval, contactVars, islandVars, Settled
<1>3. CASE SetPending
  BY <1>0, <1>3, ConnectedQuiet DEF SetPending, bodyVars, contactVars, islandVars, Settled
<1>4. CASE Flush
  BY <1>4 DEF Flush, ConnectedInv
<1>5. CASE Tick
  BY <1>0, <1>5, ConnectedQuiet DEF Tick, bodyVars, islandVars, Settled
<1>6. ASSUME NEW b \in Bodies, RemoveDynamic(b) PROVE FALSE
  BY <1>0, <1>6 DEF RemoveDynamic, Removing, IInv, IslandInv, MembersMatch
<1>7. ASSUME NEW b \in Bodies, RemoveStatic(b) PROVE ConnectedInv'
  BY <1>7, ConnectedRemoveStatic
<1>8. CASE \E b \in Bodies : RemoveStaticTouchingStatic(b)
  BY <1>0, <1>8, ConnectedQuiet DEF RemoveStaticTouchingStatic, bodyVars, islandVars, contactVars, Settled
<1>9. CASE UpdateConfig
  BY <1>0, <1>9, ConnectedQuiet DEF UpdateConfig, contactVars, Settled
<1>10. ASSUME NEW touch \in SUBSET Pairs(bodies), PushContacts(touch) PROVE ConnectedInv'
  <2>1. persistent = net
    BY <1>10 DEF PushContacts, BitsMatch
  <2>2. net' = net \cup touch /\ contact_new' = touch \ persistent
    BY <1>10 DEF PushContacts
  <2>3. Settled \subseteq Settled'
    BY <2>1, <2>2 DEF Settled
  <2> QED BY <1>0, <1>10, <2>3, ConnectedQuiet DEF PushContacts, islandVars
<1>11. ASSUME NEW c \in contact_new, AddContact(c) PROVE ConnectedInv'
  BY <1>0, <1>11, ConnectedQuiet DEF AddContact, bodyVars, Settled
<1>12. ASSUME NEW c \in contact_new, NEW i \in Islands, AddLocalContact(c, i) PROVE ConnectedInv'
  BY <1>0, <1>12, ConnectedQuiet DEF AddLocalContact, bodyVars, Settled
<1>13. ASSUME NEW c \in contact_new, NEW i \in Islands, LocalContactAssertionFails(c, i) PROVE FALSE
  BY <1>13, LocalContactSound
<1>14. ASSUME NEW c \in contact_new, NEW i \in Islands, NEW j \in Islands, MergeIslands(c, i, j) PROVE ConnectedInv'
  BY <1>14, ConnectedMerge
<1>15. CASE RemoveContacts
  BY <1>15, ConnectedRemoveContacts
<1>16. ASSUME NEW i \in Islands, SplitIsland(i) PROVE ConnectedInv'
  BY <1>16, ConnectedSplit
<1>17. CASE DispatchIslands
  BY <1>0, <1>17, ConnectedQuiet DEF DispatchIslands, bodyVars, islandVars, Settled
<1>18. ASSUME NEW i \in Islands, NEW quiet, FallAsleep(i) \/ SolveIsland(i, quiet) PROVE ConnectedInv'
  BY <1>0, <1>18, ConnectedQuiet DEF FallAsleep, SolveIsland, contactVars, Settled
<1>19. CASE Validate
  <2>1. Valid
    BY <1>19, FrameValid DEF Validate
  <2> QED BY <1>0, <1>19, <2>1, ConnectedQuiet DEF Validate, bodyVars, islandVars, contactVars, Settled
<1>20. CASE UNCHANGED vars
  BY <1>0, <1>20, ConnectedQuiet DEF vars, bodyVars, islandVars, contactVars, Settled
<1> QED BY <1>1, <1>2, <1>3, <1>4, <1>5, <1>6, <1>7, <1>8, <1>9, <1>10, <1>11, <1>12, <1>13, <1>14, <1>15, <1>16,
           <1>17, <1>18, <1>19, <1>20
        DEF Next, Frame, Remove, GiveToIsland

\* Islands stay connected through merges, splits and the removal of static bodies.
THEOREM ConnectedInvariantHolds ==
    ASSUME TRUE \notin Removable
    PROVE  Spec => []ConnectedInv
<1>1. Init => ConnectedInv
  BY DEF Init, ConnectedInv
<1>2. IInv /\ NetInv /\ ConnectedInv /\ [Next]_vars => ConnectedInv'
  BY ConnectedStep DEF NetInv
<1> QED BY <1>1, <1>2, InvariantHolds, NetInvariantHolds, PTL DEF Spec

\* When islands are solved they are the connected components of the contacts between
\* dynamic bodies, as long as no dynamic body is removed.
THEOREM IslandsAreComponentsTheorem ==
    ASSUME TRUE \notin Removable
    PROVE  Spec => []IslandsAreComponents
<1>1. IInv /\ NetInv /\ ConnectedInv => IslandsAreComponents
  <2> SUFFICES ASSUME IInv, NetInv, ConnectedInv, pc \in {"solve", "idle"}, NEW i \in used, NEW b \in members[i]
               PROVE  Reach(i, b) = members[i]
    BY DEF IslandsAreComponents
  <2>1. Settled = net /\ to_split = {} /\ i \in Islands
    BY DEF NetInv, BitsMatch, Settled, IInv, IslandInv
  <2>2. b \in Bodies /\ island_index[b] = i /\ members[i] = {a \in Bodies : island_index[a] = i}
    BY <2>1, IslandsAssumption DEF IInv, IslandInv, MembersMatch
  <2>3. /\ b \in Reach(i, b) /\ Reach(i, b) \subseteq members[i]
        /\ \A c \in net : c \cap Reach(i, b) # {} => c \cap members[i] \subseteq Reach(i, b)
    BY <2>2, ReachClosed
  <2>4. Connected(i)
    BY <2>1 DEF ConnectedInv
  <2> QED BY <2>1, <2>3, <2>4 DEF Connected
<1> QED BY <1>1, InvariantHolds, NetInvariantHolds, ConnectedInvariantHolds, PTL

\* No assertion of a frame fails, neither those of merges and splits nor the validation
\* at its end, as long as no dynamic body is removed.
THEOREM AssertionsTheorem ==
    ASSUME TRUE \notin Removable
    PROVE  Spec => []AssertionsHold
<1>1. IInv /\ NetInv /\ ConnectedInv => AssertionsHold
  <2> SUFFICES ASSUME IInv, NetInv, ConnectedInv PROVE AssertionsHold
    OBVIOUS
  <2>1. ASSUME pc = "merge", sleep_enabled, NEW c \in contact_new, NEW i \in Ends(c), NEW j \in Ends(c),
               i # Static, j # Static, i # j
        PROVE  "awake" \in flags[i] \cup flags[j]
    <3>1. c \in SUBSET Bodies
      <4>1. c \in Pairs(Bodies)
        BY <2>1, PairsGrow DEF NetInv, BitsMatch, IInv, IslandInv
      <4> QED BY <4>1, PairBodies
    <3>2. i \in Islands /\ i \in used /\ j \in Islands /\ j \in used
      BY <2>1, <3>1, EndsUsed
    <3>3. c \cap members[i] # {} /\ c \cap members[j] # {}
      BY <3>1, <3>2, EndsMembers
    <3> QED BY <2>1, <3>2, <3>3 DEF NetInv, AwakeMatch
  <2>2. ASSUME NEW i \in to_split, NEW b \in members[i] PROVE ContactsOf(b) \subseteq frame_usage
    BY DEF NetInv, BitsMatch, ContactsOf
  <2>3. \A i \in to_split : links[i] # {}
    BY DEF NetInv, ListsMatch
  <2> QED BY <2>1, <2>2, <2>3 DEF AssertionsHold, ConnectedInv
<1> QED BY <1>1, InvariantHolds, NetInvariantHolds, ConnectedInvariantHolds, PTL
===============================================================================
