--------------------------- MODULE ServicesProofs ---------------------------
(***************************************************************************)
(* The services around the workflow, for any commands, runs, policies,     *)
(* approvals and rule files, and any number of crashes and failing writes. *)
(* One part per service; the services share no state.                      *)
(***************************************************************************)
EXTENDS CommandPolicy, ActionLayer, RoutingRules, AlertPolicyStore, FiniteSetTheorems, SequenceTheorems, TLAPS

-----------------------------------------------------------------------------
(* Agent routing and role routing                                          *)

\* The router in memory is that of the file once it was read, and the routes are those of
\* the file whose time was noted; while a time is to be noted, those that were just read.
\* What is about to be read is newer than the last time that was noted.
RoutingInv ==
    /\ RoutingFollowsFiles
    /\ reload = "stat" /\ ~overtaken => routes = policyFile.content
    /\ reload = "read" => seenTime # policyFile.time
    /\ seenTime <= policyFile.time
    /\ seenTime \in Nat /\ policyFile.time \in Nat \ {0}

\* An edit of the role routing is newer than every time that was noted, a note is made
\* of the file as it is then.
LEMMA StepRouting ==
    ASSUME RoutingInv, RoutingNext
    PROVE  RoutingInv'
  <1> USE DEF RoutingInv, RoutingFollowsFiles, routerVars, registryVars, roleVars
  <1>1. CASE RouterNext /\ UNCHANGED <<registryVars, roleVars>>
    <2>1. (put = Down /\ ~unread => router = RouterLoaded(routerFile))'
      BY <1>1, RoutingAssumption DEF RouterNext, PutOpens, PutWrites, PutFails, ReloadRouter, RouterRestart, EditRouter, ReadRouter
    <2>2. QED
      BY <1>1, <2>1
  <1>2. CASE RegistryNext /\ UNCHANGED <<routerVars, roleVars>>
    BY <1>2
  <1>3. CASE RoleNext /\ UNCHANGED <<routerVars, registryVars>>
    <2>1. CASE BeginReload
      BY <1>3, <2>1 DEF BeginReload
    <2>2. CASE ReadPolicy
      BY <1>3, <2>2 DEF ReadPolicy
    <2>3. CASE NoteTime
      BY <1>3, <2>3 DEF NoteTime
    <2>4. CASE RoleRestart
      BY <1>3, <2>4 DEF RoleRestart
    <2>5. ASSUME NEW content \in RolePolicies \cup {Unreadable}, EditPolicy(content) PROVE RoutingInv'
      <3>1. policyFile'.time = policyFile.time + 1 /\ UNCHANGED <<routes, seenTime, reload>>
        BY <2>5 DEF EditPolicy
      <3>2. reload = "stat" => overtaken'
        BY <2>5 DEF EditPolicy
      <3>3. seenTime' # policyFile'.time /\ seenTime' <= policyFile'.time /\ policyFile'.time \in Nat \ {0}
        BY <3>1
      <3>4. QED
        BY <1>3, <3>1, <3>2, <3>3
    <2>6. QED
      BY <1>3, <2>1, <2>2, <2>3, <2>4, <2>5 DEF RoleNext
  <1>4. QED
    BY <1>1, <1>2, <1>3 DEF RoutingNext

\* Through reloads, failing writes, restarts and edits of the files, the rules in force are
\* those of the file (AgentRouter.update_config, reload; RoleRoutingPolicyService).
THEOREM RulesFollowFiles == RoutingSpec => []RoutingFollowsFiles
  <1>1. RoutingInit => RoutingInv
    BY DEF RoutingInit, RouterInit, RegistryInit, RoleInit, RoutingInv, RoutingFollowsFiles
  <1>2. RoutingInv /\ [RoutingNext]_routingVars => RoutingInv'
    <2>1. ASSUME RoutingInv, UNCHANGED routingVars PROVE RoutingInv'
      BY <2>1 DEF RoutingInv, RoutingFollowsFiles, routingVars, routerVars, registryVars, roleVars
    <2>2. QED
      BY <2>1, StepRouting
  <1>3. RoutingInv => RoutingFollowsFiles
    BY DEF RoutingInv
  <1>4. QED
    BY <1>1, <1>2, <1>3, PTL DEF RoutingSpec

\* A file that cannot be loaded leaves the router in the code.
LEMMA RouterFromFile ==
    ASSUME NEW content
    PROVE  \E config \in RouterConfigs : RouterLoaded(content) = RouterLoaded(config)
  <1>1. CASE content \in RouterConfigs
    BY <1>1
  <1>2. CASE content \notin RouterConfigs
    <2>1. RouterLoaded(content) = RouterLoaded(DefaultRouter)
      BY <1>2, RoutingAssumption, Zenon DEF RouterLoaded
    <2>2. QED
      BY <2>1, RoutingAssumption
  <1>3. QED
    BY <1>1, <1>2

\* Each part of the rules: its own operations, and none of the others'.
LEMMA StepRoutingTypes ==
    ASSUME RoutingTypeOK, RoutingNext
    PROVE  RoutingTypeOK'
  <1> USE DEF RoutingTypeOK, routerVars, registryVars, roleVars
  <1>1. CASE RouterNext /\ UNCHANGED <<registryVars, roleVars>>
    <2>1. UNCHANGED router \/ router' = RouterLoaded(routerFile')
      BY <1>1 DEF RouterNext, PutOpens, PutWrites, PutFails, ReloadRouter, RouterRestart, EditRouter, ReadRouter
    <2>2. (\E content \in RouterConfigs : router = RouterLoaded(content))'
      BY <2>1, RouterFromFile
    <2>3. (routerFile \in RouterConfigs \cup {Unreadable} /\ put \in RouterConfigs \cup {Down})'
      BY <1>1, RoutingAssumption
      DEF RouterNext, PutOpens, PutWrites, PutFails, ReloadRouter, RouterRestart, EditRouter, ReadRouter
    <2>4. unread' \in BOOLEAN
      BY <1>1, Zenon
      DEF RouterNext, PutOpens, PutWrites, PutFails, ReloadRouter, RouterRestart, EditRouter, ReadRouter
    <2>5. writeFaults' \in 0 .. MaxWriteFaults
      <3>1. UNCHANGED writeFaults \/ PutFails
        BY <1>1 DEF RouterNext, PutOpens, PutWrites, ReloadRouter, RouterRestart, EditRouter
      <3>2. PutFails => writeFaults < MaxWriteFaults /\ writeFaults' = writeFaults + 1
        BY DEF PutFails
      <3>3. QED
        BY <3>1, <3>2, RoutingAssumption
    <2>6. matrix' \in Matrices
      BY <1>1, RoutingAssumption
      DEF RouterNext, PutOpens, PutWrites, PutFails, ReloadRouter, RouterRestart, EditRouter, MatrixLoaded
    <2>7. QED
      BY <1>1, <2>2, <2>3, <2>4, <2>5, <2>6
  <1>2. CASE RegistryNext /\ UNCHANGED <<routerVars, roleVars>>
    <2>1. registryFile' \in RegistryTexts \cup {Unreadable, Malformed}
      BY <1>2, RoutingAssumption
      DEF RegistryNext, StartCenter, ReloadRules, StopCenter, RestartLayer, EditRegistry, LoadRules, Accepted
    <2>2. registry' \in RegistryTexts \cup {Down}
      BY <1>2
      DEF RegistryNext, StartCenter, ReloadRules, StopCenter, RestartLayer, EditRegistry, LoadRules, Accepted
    <2>3. engineFrom' = engineFrom \/ engineFrom' = registry' \/ engineFrom' = Down
      BY <1>2 DEF RegistryNext, StartCenter, ReloadRules, StopCenter, RestartLayer, EditRegistry
    <2>4. layerFrom' \in RegistryTexts \cup {Unreadable, Malformed, Down}
      BY <1>2 DEF RegistryNext, StartCenter, ReloadRules, StopCenter, RestartLayer, EditRegistry
    <2>5. QED
      BY <1>2, <2>1, <2>2, <2>3, <2>4
  <1>3. CASE RoleNext /\ UNCHANGED <<routerVars, registryVars>>
    <2>1. (/\ policyFile.content \in RolePolicies \cup {Unreadable}
           /\ {seenTime, policyFile.time} \subseteq 0 .. MaxPolicyEdits + 1)'
      BY <1>3, RoutingAssumption
      DEF RoleNext, BeginReload, ReadPolicy, NoteTime, RoleRestart, EditPolicy
    <2>2. (/\ routes \in RolePolicies \cup {Down} /\ reload \in {"none", "read", "stat"}
           /\ overtaken \in BOOLEAN)'
      BY <1>3 DEF RoleNext, BeginReload, ReadPolicy, NoteTime, RoleRestart, EditPolicy
    <2>3. QED
      BY <1>3, <2>1, <2>2
  <1>4. QED
    BY <1>1, <1>2, <1>3 DEF RoutingNext

\* The files and what the processes hold of them stay what can be read and loaded.
THEOREM RoutingTypeCorrect == RoutingSpec => []RoutingTypeOK
  <1>1. RoutingInit => RoutingTypeOK
    <2> SUFFICES ASSUME RoutingInit PROVE RoutingTypeOK
      OBVIOUS
    <2>1. \E content \in RouterConfigs : router = RouterLoaded(content)
      BY RouterFromFile DEF RoutingInit, RouterInit
    <2>2. policyFile.content \in RolePolicies \cup {Unreadable} /\ policyFile.time = 1
      BY DEF RoutingInit, RoleInit
    <2>3. matrix \in Matrices
      BY RoutingAssumption DEF RoutingInit, RouterInit, MatrixLoaded
    <2>4. /\ routerFile \in RouterConfigs \cup {Unreadable} /\ put \in RouterConfigs \cup {Down}
          /\ writeFaults \in 0 .. MaxWriteFaults
      BY RoutingAssumption DEF RoutingInit, RouterInit
    <2>5. /\ registryFile \in RegistryTexts \cup {Unreadable, Malformed}
          /\ {registry, engineFrom} \subseteq RegistryTexts \cup {Down}
          /\ layerFrom \in RegistryTexts \cup {Unreadable, Malformed, Down}
      BY DEF RoutingInit, RegistryInit
    <2>6. /\ routes \in RolePolicies \cup {Down} /\ reload \in {"none", "read", "stat"}
          /\ {seenTime, policyFile.time} \subseteq 0 .. MaxPolicyEdits + 1
      BY <2>2, RoutingAssumption DEF RoutingInit, RoleInit
    <2>7. unread \in BOOLEAN /\ overtaken \in BOOLEAN
      BY Zenon DEF RoutingInit, RouterInit, RoleInit
    <2>8. QED
      BY <2>1, <2>2, <2>3, <2>4, <2>5, <2>6, <2>7 DEF RoutingTypeOK
  <1>2. RoutingTypeOK /\ [RoutingNext]_routingVars => RoutingTypeOK'
    <2>1. ASSUME RoutingTypeOK, UNCHANGED routingVars PROVE RoutingTypeOK'
      BY <2>1 DEF RoutingTypeOK, routingVars, routerVars, registryVars, roleVars
    <2>2. QED
      BY <2>1, StepRoutingTypes
  <1>3. QED
    BY <1>1, <1>2, PTL DEF RoutingSpec

-----------------------------------------------------------------------------
(* The rule that decides                                                   *)

\* The minimum of a set of numbers that is not empty is in it, and below all of it.
LEMMA LeastNumber ==
    ASSUME NEW S \in SUBSET Nat, S # {}
    PROVE  Min(S) \in S /\ \A y \in S : Min(S) <= y
  <1>1. PICK x \in S : \A y \in S : ~(<<y, x>> \in OpToRel(<, Nat))
    BY NatLessThanWellFounded, WFMin
  <1>2. \A y \in S : ~(y < x)
    BY <1>1 DEF OpToRel
  <1>3. \A y \in S : x <= y
    BY <1>2
  <1>4. QED
    BY <1>3 DEF Min

\* Rules of a list have numbers for places, and there are finitely many of them.
LEMMA ListPlaces ==
    ASSUME NEW rules, Listed(rules)
    PROVE  /\ DOMAIN rules = 1 .. Len(rules) /\ DOMAIN rules \subseteq Nat
           /\ IsFiniteSet(DOMAIN rules)
           /\ \A i \in DOMAIN rules : rules[i].priority \in Int
  <1>1. Len(rules) \in Nat /\ DOMAIN rules = 1 .. Len(rules)
    BY DEF Listed
  <1>2. IsFiniteSet(1 .. Len(rules))
    BY <1>1, FS_Interval
  <1>3. QED
    BY <1>1, <1>2 DEF Listed

\* Of two rules of a list one comes before the other.
LEMMA OnePrecedes ==
    ASSUME NEW rules, Listed(rules), NEW i \in DOMAIN rules, NEW j \in DOMAIN rules
    PROVE  /\ ~Precedes(rules, i, i)
           /\ i # j => Precedes(rules, i, j) \/ Precedes(rules, j, i)
           /\ Precedes(rules, i, j) => ~Precedes(rules, j, i)
           /\ \A k \in DOMAIN rules : Precedes(rules, i, j) /\ Precedes(rules, j, k) => Precedes(rules, i, k)
  BY ListPlaces DEF Precedes

\* What comes before a kept rule has a lower place.
LEMMA PlacesGrow ==
    ASSUME NEW rules, Listed(rules), NEW kept \in SUBSET DOMAIN rules,
           NEW i \in kept, NEW j \in kept
    PROVE  /\ Place(rules, kept, i) \in 1 .. Cardinality(kept)
           /\ Precedes(rules, i, j) => Place(rules, kept, i) < Place(rules, kept, j)
  <1> DEFINE Above(k) == {l \in kept : Precedes(rules, l, k)}
  <1>1. IsFiniteSet(kept) /\ Cardinality(kept) \in Nat
    BY ListPlaces, FS_Subset, FS_CardinalityType
  <1>2. \A k \in kept : /\ IsFiniteSet(Above(k)) /\ Cardinality(Above(k)) \in Nat
                        /\ Place(rules, kept, k) = Cardinality(Above(k)) + 1
    BY <1>1, FS_Subset, FS_CardinalityType DEF Place
  <1>3. Cardinality(Above(i)) <= Cardinality(kept) - 1
    <2>1. Above(i) \in SUBSET (kept \ {i})
      BY OnePrecedes
    <2>2. IsFiniteSet(kept \ {i}) /\ Cardinality(kept \ {i}) = Cardinality(kept) - 1
      BY <1>1, FS_RemoveElement
    <2>3. QED
      BY <2>1, <2>2, FS_Subset
  <1>4. ASSUME Precedes(rules, i, j) PROVE Cardinality(Above(i)) < Cardinality(Above(j))
    <2>1. Above(i) \in SUBSET (Above(j) \ {i}) /\ i \in Above(j)
      BY <1>4, OnePrecedes
    <2> HIDE DEF Above
    <2>2. IsFiniteSet(Above(j) \ {i}) /\ Cardinality(Above(j) \ {i}) = Cardinality(Above(j)) - 1
      BY <1>2, <2>1, FS_RemoveElement
    <2>3. Cardinality(Above(i)) <= Cardinality(Above(j) \ {i})
      BY <2>1, <2>2, FS_Subset
    <2>4. QED
      BY <1>2, <2>2, <2>3
  <1> HIDE DEF Above
  <1>5. QED
    BY <1>1, <1>2, <1>3, <1>4

\* No place is taken twice, and none is left free: as many rules as places.
LEMMA PlacesTaken ==
    ASSUME NEW rules, Listed(rules), NEW kept \in SUBSET DOMAIN rules
    PROVE  /\ \A i, j \in kept : Place(rules, kept, i) = Place(rules, kept, j) => i = j
           /\ \A n \in 1 .. Cardinality(kept) : \E i \in kept : Place(rules, kept, i) = n
  <1> DEFINE places == 1 .. Cardinality(kept)
             f == [i \in kept |-> Place(rules, kept, i)]
  <1>1. IsFiniteSet(kept) /\ Cardinality(kept) \in Nat
    BY ListPlaces, FS_Subset, FS_CardinalityType
  <1>2. \A i, j \in kept : Place(rules, kept, i) = Place(rules, kept, j) => i = j
    <2> SUFFICES ASSUME NEW i \in kept, NEW j \in kept, i # j
                 PROVE  Place(rules, kept, i) # Place(rules, kept, j)
      OBVIOUS
    <2>1. Precedes(rules, i, j) \/ Precedes(rules, j, i)
      BY OnePrecedes
    <2>2. /\ Place(rules, kept, i) \in Nat /\ Place(rules, kept, j) \in Nat
          /\ Precedes(rules, i, j) => Place(rules, kept, i) < Place(rules, kept, j)
          /\ Precedes(rules, j, i) => Place(rules, kept, j) < Place(rules, kept, i)
      BY PlacesGrow
    <2>3. QED
      BY <2>1, <2>2
  <1>3. f \in [kept -> places]
    BY PlacesGrow
  <1>4. f \in Injection(kept, places)
    BY <1>2, <1>3 DEF Injection, IsInjective
  <1>5. IsFiniteSet(places) /\ Cardinality(places) = Cardinality(kept)
    BY <1>1, FS_Interval
  <1>6. f \in Surjection(kept, places)
    <2> HIDE DEF f, places
    <2>1. QED
      BY <1>4, <1>5, FS_Injection
  <1>7. \A n \in places : \E i \in kept : f[i] = n
    <2> HIDE DEF f, places
    <2>1. QED
      BY <1>6 DEF Surjection
  <1>8. QED
    BY <1>2, <1>7

\* Where the n-th of the kept rules is in the file.
Nth(rules, kept, n) == CHOOSE i \in kept : Place(rules, kept, i) = n

\* Rules that are the kept ones, each at its place.
Placed(rules, kept, ranked) ==
    /\ DOMAIN ranked = 1 .. Cardinality(kept)
    /\ \A n \in DOMAIN ranked : /\ Nth(rules, kept, n) \in kept
                                /\ Place(rules, kept, Nth(rules, kept, n)) = n
                                /\ ranked[n] = rules[Nth(rules, kept, n)]
    /\ \A i \in kept : /\ Place(rules, kept, i) \in DOMAIN ranked
                       /\ Nth(rules, kept, Place(rules, kept, i)) = i

\* Ranked puts every kept rule at its place.
LEMMA RankedRules ==
    ASSUME NEW rules, Listed(rules), NEW kept \in SUBSET DOMAIN rules
    PROVE  Placed(rules, kept, Ranked(rules, kept))
  <1>1. \A n \in 1 .. Cardinality(kept) : /\ Nth(rules, kept, n) \in kept
                                          /\ Place(rules, kept, Nth(rules, kept, n)) = n
    BY PlacesTaken DEF Nth
  <1>2. /\ DOMAIN Ranked(rules, kept) = 1 .. Cardinality(kept)
        /\ \A n \in 1 .. Cardinality(kept) : Ranked(rules, kept)[n] = rules[Nth(rules, kept, n)]
    BY DEF Ranked, Nth
  <1>3. \A i \in kept : Place(rules, kept, i) \in 1 .. Cardinality(kept)
    BY PlacesGrow
  <1>4. \A i \in kept : Nth(rules, kept, Place(rules, kept, i)) = i
    BY <1>1, <1>3, PlacesTaken
  <1>5. QED
    BY <1>1, <1>2, <1>3, <1>4 DEF Placed

\* The first of the ranked rules at `fitting' is the one of `fits' that decides.
FirstIsDecider(rules, fits, ranked, fitting) ==
    /\ fitting # {}
    /\ \E i \in fits : Decides(rules, fits, i) /\ ranked[Min(fitting)] = rules[i]

\* The first of the ranked rules that fit is the one that decides.
LEMMA FirstDecides ==
    ASSUME NEW rules, Listed(rules), NEW kept \in SUBSET DOMAIN rules,
           NEW fits \in SUBSET kept, fits # {},
           NEW ranked, Placed(rules, kept, ranked),
           NEW fitting, fitting = {n \in DOMAIN ranked : Nth(rules, kept, n) \in fits}
    PROVE  FirstIsDecider(rules, fits, ranked, fitting)
  <1>1. /\ DOMAIN ranked = 1 .. Cardinality(kept)
        /\ \A n \in DOMAIN ranked : /\ Place(rules, kept, Nth(rules, kept, n)) = n
                                    /\ ranked[n] = rules[Nth(rules, kept, n)]
        /\ \A i \in kept : /\ Place(rules, kept, i) \in DOMAIN ranked
                           /\ Nth(rules, kept, Place(rules, kept, i)) = i
    BY DEF Placed
  <1>2. fitting \in SUBSET Nat
    BY <1>1
  <1>3. \A i \in fits : Place(rules, kept, i) \in fitting
    BY <1>1
  <1>4. Min(fitting) \in fitting /\ \A n \in fitting : Min(fitting) <= n
    BY <1>2, <1>3, LeastNumber
  <1> DEFINE m == Min(fitting)
             i == Nth(rules, kept, m)
  <1>5. m \in fitting /\ m \in DOMAIN ranked /\ i \in fits /\ \A n \in fitting : m <= n
    BY <1>4
  <1> HIDE DEF m
  <1>6. ranked[m] = rules[i] /\ Place(rules, kept, i) = m
    BY <1>1, <1>5
  <1> HIDE DEF i
  <1>7. ASSUME NEW j \in fits PROVE ~Precedes(rules, j, i)
    <2>1. Place(rules, kept, i) <= Place(rules, kept, j)
      BY <1>3, <1>5, <1>6
    <2>2. /\ Precedes(rules, j, i) => Place(rules, kept, j) < Place(rules, kept, i)
          /\ Place(rules, kept, j) \in Nat /\ Place(rules, kept, i) \in Nat
      BY <1>5, PlacesGrow
    <2>3. QED
      BY <2>1, <2>2
  <1>8. Decides(rules, fits, i)
    <2>1. ASSUME NEW j \in fits
          PROVE  \/ rules[i].priority < rules[j].priority
                 \/ rules[i].priority = rules[j].priority /\ i <= j
      <3>1. i \in DOMAIN rules /\ j \in DOMAIN rules
        BY <1>5
      <3>2. ~Precedes(rules, j, i)
        BY <1>7
      <3>3. QED
        BY <3>1, <3>2, ListPlaces DEF Precedes
    <2>2. QED
      BY <1>5, <2>1 DEF Decides
  <1>9. QED
    BY <1>5, <1>6, <1>8 DEF m, FirstIsDecider

\* An agent router in memory that is that of its file takes the agent of the deciding rule.
LEMMA RouterDecides ==
    ASSUME NEW config \in RouterConfigs, router = RouterLoaded(config), NEW words
    PROVE  LET fits == {i \in DOMAIN config.rules : Triggered(config.rules[i], words)}
           IN  \/ \E i \in fits : /\ Decides(config.rules, fits, i)
                                  /\ RouteCommand(words) = config.rules[i].agent
               \/ fits = {} /\ RouteCommand(words) = config.default
  <1> DEFINE rules == config.rules
             kept == {i \in DOMAIN rules : rules[i].keywords # {}}
             fits == {i \in DOMAIN rules : Triggered(rules[i], words)}
             ranked == Ranked(rules, kept)
             fitting == {n \in DOMAIN ranked : Triggered(ranked[n], words)}
  <1>1. Listed(rules)
    BY RulesAreListed
  <1>2. router.rules = ranked /\ router.default = config.default
    BY DEF RouterLoaded
  <1>3. RouteCommand(words) = FirstFit(ranked, fitting, [agent |-> config.default]).agent
    BY <1>2 DEF RouteCommand
  <1>4. fits \subseteq kept
    BY DEF Triggered
  <1>5. Placed(rules, kept, ranked)
    <2> HIDE DEF rules
    <2>1. kept \in SUBSET DOMAIN rules
      OBVIOUS
    <2> HIDE DEF kept
    <2>2. QED
      BY <1>1, <2>1, RankedRules
  <1>6. fitting = {n \in DOMAIN ranked : Nth(rules, kept, n) \in fits}
    <2> HIDE DEF rules
    <2>1. \A n \in DOMAIN ranked : Nth(rules, kept, n) \in DOMAIN rules /\ ranked[n] = rules[Nth(rules, kept, n)]
      BY <1>5 DEF Placed
    <2>2. QED
      BY <2>1
  <1>7. CASE fits = {}
    <2>1. fitting = {}
      BY <1>6, <1>7
    <2> HIDE DEF fitting, ranked, fits, rules
    <2>2. QED
      BY <1>3, <1>7, <2>1 DEF FirstFit, fits, rules
  <1>8. CASE fits # {}
    <2> HIDE DEF fitting, fits, kept, ranked, rules
    <2>1. FirstIsDecider(rules, fits, ranked, fitting)
      <3>1. kept \in SUBSET DOMAIN rules
        BY DEF kept
      <3>2. QED
        BY <1>1, <1>4, <1>6, <1>8, <1>5, <3>1, FirstDecides
    <2>2. PICK i \in fits : Decides(rules, fits, i) /\ fitting # {} /\ ranked[Min(fitting)] = rules[i]
      BY <2>1 DEF FirstIsDecider
    <2>3. RouteCommand(words) = rules[i].agent
      BY <1>3, <2>2 DEF FirstFit
    <2>4. QED
      BY <2>2, <2>3 DEF fits, rules
  <1>9. QED
    BY <1>7, <1>8

\* Likewise the target of a module.
LEMMA MatrixDecides ==
    ASSUME matrix \in Matrices, NEW signals
    PROVE  LET fits == {i \in DOMAIN matrix.rules :
                          Fitting(matrix.rules[i], signals) /\ matrix.rules[i].complete}
           IN  \/ \E i \in fits : /\ Decides(matrix.rules, fits, i)
                                  /\ SelectTarget(signals) = matrix.rules[i].target
               \/ fits = {} /\ SelectTarget(signals) = matrix.target
  <1> DEFINE rules == matrix.rules
             kept == DOMAIN rules
             Fits(r) == Fitting(r, signals) /\ r.complete
             fits == {i \in DOMAIN rules : Fits(rules[i])}
             ranked == Ranked(rules, kept)
             fitting == {n \in DOMAIN ranked : Fits(ranked[n])}
  <1>1. Listed(rules)
    BY RulesAreListed
  <1>2. SelectTarget(signals) = FirstFit(ranked, fitting, [target |-> matrix.target]).target
    BY DEF SelectTarget
  <1>3. Placed(rules, kept, ranked)
    <2> HIDE DEF rules
    <2>1. QED
      BY <1>1, RankedRules
  <1>4. fitting = {n \in DOMAIN ranked : Nth(rules, kept, n) \in fits}
    <2>1. \A n \in DOMAIN ranked : Nth(rules, kept, n) \in DOMAIN rules /\ ranked[n] = rules[Nth(rules, kept, n)]
      BY <1>3 DEF Placed
    <2> HIDE DEF Fits, ranked, rules
    <2>2. QED
      BY <2>1
  <1>5. CASE fits = {}
    <2>1. fitting = {}
      BY <1>4, <1>5
    <2> HIDE DEF fitting, ranked
    <2>2. QED
      BY <1>2, <1>5, <2>1 DEF FirstFit
  <1>6. CASE fits # {}
    <2> HIDE DEF fitting, fits, ranked, rules
    <2>1. fits \subseteq kept
      BY DEF fits
    <2>2. FirstIsDecider(rules, fits, ranked, fitting)
      BY <1>1, <1>4, <1>6, <1>3, <2>1, FirstDecides
    <2>3. PICK i \in fits : Decides(rules, fits, i) /\ fitting # {} /\ ranked[Min(fitting)] = rules[i]
      BY <2>2 DEF FirstIsDecider
    <2>4. SelectTarget(signals) = rules[i].target
      BY <1>2, <2>3 DEF FirstFit
    <2>5. QED
      BY <2>3, <2>4 DEF fits, rules
  <1>7. QED
    BY <1>5, <1>6

\* The two processes take the same executors from a text whose sections are named plainly.
LEMMA ExecutorsAlike ==
    ASSUME NEW text, \A i \in DOMAIN text : text[i].plain
    PROVE  ExecutorsOf(text, TRUE) = ExecutorsOf(text, FALSE)
  <1>1. SectionOf(text, "subproject", TRUE) = SectionOf(text, "subproject", FALSE)
    BY DEF SectionOf
  <1>2. SectionOf(text, "main", TRUE) = SectionOf(text, "main", FALSE)
    BY DEF SectionOf
  <1>3. QED
    BY <1>1, <1>2 DEF ExecutorsOf

\* The rule that decides is that of the file, for any list of rules: the router is that of
\* its file (RoutingInv), and ranking neither loses a rule nor moves one past another
\* (AgentRouter.route, DevRoutingMatrixService._select_rule); and from the same text the
\* two processes take the same executors.
THEOREM RulesDecided == RoutingSpec => []RulesDecideAlike
  <1>1. RoutingFollowsFiles /\ RoutingTypeOK => RulesDecideAlike
    <2> SUFFICES ASSUME RoutingFollowsFiles, RoutingTypeOK PROVE RulesDecideAlike
      OBVIOUS
    <2>1. ASSUME put = Down, ~unread, routerFile # Unreadable, NEW words \in SUBSET Words
          PROVE  LET fits == {i \in DOMAIN routerFile.rules : Triggered(routerFile.rules[i], words)}
                 IN  \/ \E i \in fits : /\ Decides(routerFile.rules, fits, i)
                                        /\ RouteCommand(words) = routerFile.rules[i].agent
                     \/ fits = {} /\ RouteCommand(words) = routerFile.default
      <3>1. routerFile \in RouterConfigs /\ router = RouterLoaded(routerFile)
        BY <2>1 DEF RoutingTypeOK, RoutingFollowsFiles
      <3>2. QED
        BY ONLY <3>1, RouterDecides
    <2>2. ASSUME NEW signals \in MatrixSignals
          PROVE  LET fits == {i \in DOMAIN matrix.rules :
                                Fitting(matrix.rules[i], signals) /\ matrix.rules[i].complete}
                 IN  \/ \E i \in fits : /\ Decides(matrix.rules, fits, i)
                                        /\ SelectTarget(signals) = matrix.rules[i].target
                     \/ fits = {} /\ SelectTarget(signals) = matrix.target
      <3>1. matrix \in Matrices
        BY DEF RoutingTypeOK
      <3>2. QED
        BY ONLY <3>1, MatrixDecides
    <2>3. ASSUME {engineFrom, layerFrom} \cap {Down, Malformed} = {},
                 engineFrom = (IF layerFrom = Unreadable THEN DefaultRegistry ELSE layerFrom),
                 \A i \in DOMAIN engineFrom : engineFrom[i].plain
          PROVE  CenterExecutors(engineFrom) = LayerExecutors(layerFrom)
      <3>1. engineFrom \in RegistryTexts
        BY <2>3 DEF RoutingTypeOK
      <3>2. CASE layerFrom = Unreadable
        <4>1. LayerExecutors(layerFrom) = DefaultExecutors
          BY <3>2, RoutingAssumption DEF LayerExecutors
        <4>2. QED
          BY <2>3, <3>2, <4>1, DefaultsAgree
      <3>3. CASE layerFrom # Unreadable
        <4>1. engineFrom = layerFrom
          BY <2>3, <3>3
        <4>2. ExecutorsOf(engineFrom, TRUE) = ExecutorsOf(engineFrom, FALSE)
          BY <2>3, ExecutorsAlike
        <4>3. QED
          BY <3>1, <4>1, <4>2 DEF CenterExecutors, LayerExecutors
      <3>4. QED
        BY <3>2, <3>3
    <2>4. QED
      BY <2>1, <2>2, <2>3, Zenon DEF RulesDecideAlike
  <1>2. QED
    BY <1>1, RulesFollowFiles, RoutingTypeCorrect, PTL

-----------------------------------------------------------------------------
(* Commands of a task: types                                               *)

Finished == {"success", "failed"}

\* The records a step of the command policy may write.
LEMMA FlowTypes ==
    /\ \A source \in 0 .. MaxPolicyRuns, by \in 0 .. MaxCommands :
          NewFlow(source, by) \in [status : {"none", "running", "canceled", "ended"},
                                   source : 0 .. MaxPolicyRuns, by : 0 .. MaxCommands, told : BOOLEAN]
    /\ \A status \in Finished, flow \in 0 .. MaxPolicyRuns : [status |-> status, flow |-> flow] \in OrderType
    /\ \A intent \in Intents : [status |-> "running", intent |-> intent] \in OrderType
    /\ NoFlow \in 0 .. MaxPolicyRuns /\ Flows \subseteq 0 .. MaxPolicyRuns /\ Clarify \in 0 .. Clarify
    /\ 0 .. MaxPolicyRuns \subseteq 0 .. Clarify /\ MaxPolicyRuns \in Nat
    /\ NoFlow \notin Flows /\ 0 \notin Orders
    /\ Orders \subseteq 0 .. MaxCommands /\ MaxCommands \in Nat
  <1>1. MaxPolicyRuns \in Nat /\ MaxCommands \in Nat
    BY CommandPolicyAssumption
  <1>2. \A status \in Finished, flow \in 0 .. MaxPolicyRuns : [status |-> status, flow |-> flow] \in OrderType
    BY DEF Finished, OrderType
  <1>3. \A intent \in Intents : [status |-> "running", intent |-> intent] \in OrderType
    BY DEF OrderType
  <1>4. QED
    BY <1>1, <1>2, <1>3 DEF NewFlow, NoFlow, Flows, Clarify, Orders

\* Every step of the command policy keeps its types.
LEMMA StepCommandTypes ==
    ASSUME CommandTypeOK, call.at = "await" => call.flow \in Flows, CommandNext
    PROVE  CommandTypeOK'
  <1> DEFINE FlowRow == [status : {"none", "running", "canceled", "ended"},
                         source : 0 .. MaxPolicyRuns, by : 0 .. MaxCommands, told : BOOLEAN]
             Stations == {"none", "agent", "link", "await", "rows", "task"}
             Call == [order : 0 .. MaxCommands, at : Stations, flow : 0 .. MaxPolicyRuns]
             Ok == /\ flows' \in [Flows -> FlowRow]
                   /\ task' \in Metadata /\ taskRow' \in Metadata
                   /\ orders' \in [Orders -> OrderType] /\ orderRows' \in [Orders -> OrderType]
                   /\ call' \in Call /\ raised' \subseteq Flows
                   /\ restartPolicy' \in Restarting /\ commandCrashes' \in 0 .. MaxCommandCrashes
  <1> SUFFICES Ok
    BY DEF CommandTypeOK
  <1>1. /\ flows \in [Flows -> FlowRow] /\ task \in Metadata /\ taskRow \in Metadata
        /\ orders \in [Orders -> OrderType] /\ orderRows \in [Orders -> OrderType]
        /\ call \in Call /\ raised \subseteq Flows
        /\ restartPolicy \in Restarting /\ commandCrashes \in 0 .. MaxCommandCrashes
    BY DEF CommandTypeOK
  <1>2. /\ \A source \in 0 .. MaxPolicyRuns, by \in 0 .. MaxCommands : NewFlow(source, by) \in FlowRow
        /\ NoCall \in Call /\ call.flow \in 0 .. MaxPolicyRuns
        /\ NoFlow \in 0 .. MaxPolicyRuns
    BY <1>1, FlowTypes DEF NoCall, NoFlow
  <1>3. \A at \in Stations, o \in Orders, f \in 0 .. MaxPolicyRuns : [order |-> o, at |-> at, flow |-> f] \in Call
    BY FlowTypes
  <1>4. \A at \in Stations : [call EXCEPT !.at = at] \in Call
    BY <1>1
  <1>5. \A t \in Metadata : /\ \A f \in 0 .. MaxPolicyRuns : [t EXCEPT !.latest = f] \in Metadata
                            /\ \A f \in 0 .. MaxPolicyRuns : [t EXCEPT !.latest = f, !.state = f] \in Metadata
                            /\ [t EXCEPT !.shows = Clarify] \in Metadata /\ t.latest \in 0 .. MaxPolicyRuns
    BY FlowTypes DEF Metadata
  <1>6. \A f \in 0 .. MaxPolicyRuns : [latest |-> f, state |-> f, shows |-> f] \in Metadata
    BY FlowTypes DEF Metadata
  <1>7. \A g, h : h \in FlowRow => [flows EXCEPT ![g] = h] \in [Flows -> FlowRow]
    BY <1>1
  <1>8. \A o, r : r \in OrderType => [orders EXCEPT ![o] = r] \in [Orders -> OrderType]
    BY <1>1
  <1>9. /\ \A status \in Finished, flow \in 0 .. MaxPolicyRuns : [status |-> status, flow |-> flow] \in OrderType
        /\ \A intent \in Intents : [status |-> "running", intent |-> intent] \in OrderType
    BY FlowTypes
  <1> HIDE DEF FlowRow, Call
  <1>10. ASSUME NEW o \in Orders PROVE
             /\ \A intent \in Intents : Submit(o, intent) => Ok
             /\ Dispatch(o) \/ AskBack(o) \/ CreateFlow(o) \/ RestartFlow(o) => Ok
    <2>1. ASSUME NEW intent \in Intents, Submit(o, intent) PROVE Ok
      BY <1>1, <1>8, <1>9, <2>1 DEF Submit
    <2>2. CASE Dispatch(o)
      BY <1>1, <1>2, <1>3, <2>2 DEF Dispatch
    <2>3. CASE AskBack(o)
      BY <1>1, <1>2, <1>3, <1>5, <1>8, <1>9, <2>3 DEF AskBack, Finished
    <2>4. CASE CreateFlow(o)
      <3>1. NextFlow \in 0 .. MaxPolicyRuns /\ o \in 0 .. MaxCommands
        BY <2>4, FlowTypes DEF CreateFlow
      <3>2. QED
        BY <1>1, <1>2, <1>3, <1>5, <1>7, <2>4, <3>1 DEF CreateFlow
    <2>5. CASE RestartFlow(o)
      <3>1. NextFlow \in 0 .. MaxPolicyRuns /\ o \in 0 .. MaxCommands
        BY <2>5, FlowTypes DEF RestartFlow
      <3>2. QED
        BY <1>1, <1>2, <1>3, <1>7, <2>5, <3>1 DEF RestartFlow
    <2>6. QED
      BY <2>1, <2>2, <2>3, <2>4, <2>5
  <1>11. ASSUME NEW f \in Flows PROVE
             /\ ClientRestarts(f) => Ok
             /\ \A s \in {"canceled", "ended"} : FlowEnds(f, s) => Ok
    <2>1. CASE ClientRestarts(f)
      <3>1. f \in 0 .. MaxPolicyRuns /\ 0 \in 0 .. MaxCommands
        BY FlowTypes
      <3>2. QED
        BY <1>1, <1>2, <1>7, <2>1, <3>1 DEF ClientRestarts
    <2>2. ASSUME NEW s \in {"canceled", "ended"}, FlowEnds(f, s) PROVE Ok
      <3>1. [flows[f] EXCEPT !.status = s] \in FlowRow
        BY <1>1, <2>2 DEF FlowRow
      <3>2. QED
        BY <1>1, <1>7, <2>2, <3>1 DEF FlowEnds
    <2>3. QED
      BY <2>1, <2>2
  <1>12. CASE LinkFlow
    <2>1. flows' \in [Flows -> FlowRow]
      BY <1>1, <1>5, <1>12 DEF LinkFlow, FlowRow
    <2>2. task' \in Metadata
      BY <1>1, <1>2, <1>5, <1>12 DEF LinkFlow
    <2>3. call' \in Call
      BY <1>4, <1>12 DEF LinkFlow
    <2>4. QED
      BY <1>1, <1>12, <2>1, <2>2, <2>3 DEF LinkFlow
  <1>13. ASSUME Told PROVE flows' \in [Flows -> FlowRow]
    BY <1>1, <1>13 DEF Told, FlowRow
  <1>14. ASSUME NEW status \in Finished, Finishes(status) PROVE
             /\ orders' \in [Orders -> OrderType] /\ call' \in Call
             /\ UNCHANGED <<restartPolicy, taskRow, orderRows, commandCrashes>>
    BY <1>2, <1>4, <1>8, <1>9, <1>14 DEF Finishes
  <1>15. ASSUME NEW status \in Finished, OrderAnswered(status) \/ AgentAnswers(status) PROVE Ok
    BY <1>1, <1>2, <1>6, <1>13, <1>14, <1>15 DEF OrderAnswered, AgentAnswers
  <1>16. CASE Refused
    <2>1. Finishes("failed") /\ "failed" \in Finished
      BY <1>16 DEF Refused, Finished
    <2>2. task' \in Metadata /\ flows' \in [Flows -> FlowRow]
      BY <1>1, <1>2, <1>5, <1>13, <1>16 DEF Refused
    <2>3. QED
      BY <1>1, <1>14, <1>16, <2>1, <2>2 DEF Refused
  <1>17. CASE Raises
    <2>1. raised' \subseteq Flows
      BY <1>1, <1>17 DEF Raises
    <2>2. call' \in Call
      BY <1>4, <1>17 DEF Raises
    <2>3. orders' \in [Orders -> OrderType]
      BY <1>2, <1>8, <1>9, <1>17 DEF Raises, Finished
    <2>4. QED
      BY <1>1, <1>17, <2>1, <2>2, <2>3 DEF Raises
  <1>18. CASE WriteOrder \/ WriteTask \/ CommandCrash
    <2>1. \A o : o \in Orders => orders[o] \in OrderType
      BY <1>1
    <2>2. CASE WriteOrder
      <3>1. orderRows' \in [Orders -> OrderType]
        BY <1>1, <2>1, <2>2 DEF WriteOrder
      <3>2. call' \in Call
        BY <1>4, <2>2 DEF WriteOrder
      <3>3. QED
        BY <1>1, <2>2, <3>1, <3>2 DEF WriteOrder
    <2>3. CASE WriteTask
      <3>1. call' \in Call
        BY <1>2, <2>3 DEF WriteTask
      <3>2. QED
        BY <1>1, <2>3, <3>1 DEF WriteTask
    <2>4. CASE CommandCrash
      <3>1. commandCrashes' \in 0 .. MaxCommandCrashes
        <4>1. MaxCommandCrashes \in Nat /\ commandCrashes \in 0 .. MaxCommandCrashes
          BY <1>1, CommandPolicyAssumption
        <4>2. commandCrashes' = commandCrashes + 1 /\ commandCrashes < MaxCommandCrashes
          BY <2>4 DEF CommandCrash
        <4>3. QED
          BY <4>1, <4>2
      <3>2. call' \in Call
        BY <1>2, <2>4 DEF CommandCrash
      <3>3. QED
        BY <1>1, <2>4, <3>1, <3>2 DEF CommandCrash
    <2>5. QED
      BY <1>18, <2>2, <2>3, <2>4
  <1> HIDE DEF Ok
  <1>19. QED
    BY <1>10, <1>11, <1>12, <1>15, <1>16, <1>17, <1>18 DEF CommandNext, Finished

-----------------------------------------------------------------------------
(* Commands of a task: the invariant                                       *)

Used == {f \in Flows : flows[f].status # "none"}

\* Runs are created in the order of their numbers; one that is not is nobody's.
InOrder ==
    /\ \E n \in Nat : Used = 1 .. n
    /\ \A f \in Flows : flows[f].status = "none" =>
            flows[f].source = NoFlow /\ flows[f].by = 0 /\ ~flows[f].told

\* What the command that is executed has to do with the rest: it is running until its answer
\* is there; its run exists, is new until it is linked, and the task's latest from then on.
CallSound ==
    /\ call.at = "none" => call = NoCall
    /\ call.at # "none" => call.order \in Orders
    /\ call.at \in {"agent", "link", "await"} => orders[call.order].status = "running"
    /\ call.at \in {"rows", "task"} => orders[call.order].status \in Finished
    /\ call.at = "agent" => call.flow = NoFlow
    /\ call.at \in {"link", "await"} => call.flow \in Used
    /\ call.at = "await" => task.latest = call.flow
    /\ call.at = "link" =>
         /\ flows[call.flow].status = "running"
         /\ flows[call.flow].source = NoFlow /\ flows[call.flow].by = call.order
         /\ task.latest \in Flows /\ flows[task.latest].status = "canceled"

\* A command makes its run when it begins, or begins again.
Begun(o) == call.order = o \/ orders[o].status \in Finished

MadeOnce == \A o \in Orders : Cardinality(MadeBy(o)) <= commandCrashes + IF Begun(o) THEN 1 ELSE 0

\* The latest run has not been restarted by a command in this life of the process.
RestartedOnce ==
    \A f \in Flows :
        /\ Cardinality(RestartsOf(f)) <= commandCrashes + IF task.latest = f THEN 0 ELSE 1
        /\ RestartsOf(f) # {} => flows[f].status = "canceled"

\* The run that a finished command names has its snapshot, in memory already.
AnswersTold ==
    \A o \in Orders : orders[o].status \in Finished => orders[o].flow = NoFlow \/ flows[orders[o].flow].told

\* Until a crash, while no run is orchestrated, the task shows its latest run, and so does
\* its row unless it is about to be written.
ShownInTask ==
    commandCrashes = 0 =>
        /\ call.at \in {"none", "agent"} => task = taskRow
        /\ call.at \notin {"link", "await"} => task.state = task.latest \/ task.latest \in raised

CommandInv ==
    /\ CommandTypeOK /\ InOrder /\ CallSound
    /\ MadeOnce /\ RestartedOnce
    /\ StoredRunsExist /\ AnswersTold /\ ShownInTask

\* The next run is a new one.
LEMMA NextIsNew ==
    ASSUME CommandTypeOK, InOrder, NextFlow \in Flows
    PROVE  NextFlow \notin Used /\ Used \cup {NextFlow} = 1 .. NextFlow /\ NextFlow \in Nat
  <1>1. PICK n \in Nat : Used = 1 .. n
    BY DEF InOrder
  <1>2. Cardinality(1 .. n) = n
    BY <1>1, FS_Interval
  <1>3. NextFlow = n + 1
    BY <1>1, <1>2 DEF NextFlow, Used
  <1>4. QED
    BY <1>1, <1>3

\* A run is created, ends, is linked or gets its snapshot: it never disappears, a snapshot
\* stays, and canceled is for good.
LEMMA StepFlows ==
    ASSUME CommandTypeOK, InOrder, CallSound, CommandNext
    PROVE  /\ InOrder' /\ Used \subseteq Used'
           /\ \A f \in Flows : /\ flows[f].told => flows'[f].told
                               /\ flows[f].status = "canceled" => flows'[f].status = "canceled"
  <1> DEFINE Goal == /\ InOrder' /\ Used \subseteq Used'
                     /\ \A f \in Flows : /\ flows[f].told => flows'[f].told
                                         /\ flows[f].status = "canceled" => flows'[f].status = "canceled"
  <1>0. flows \in [Flows -> [status : {"none", "running", "canceled", "ended"},
                             source : 0 .. MaxPolicyRuns, by : 0 .. MaxCommands, told : BOOLEAN]]
    BY DEF CommandTypeOK
  <1>1. ASSUME \A f \in Flows : /\ flows'[f].status = "none" <=> flows[f].status = "none"
                                /\ flows[f].status = "none" => flows'[f] = flows[f]
                                /\ flows[f].told => flows'[f].told
                                /\ flows[f].status = "canceled" => flows'[f].status = "canceled"
        PROVE  Goal
    <2>1. Used' = Used
      BY <1>1 DEF Used
    <2>2. QED
      BY <1>1, <2>1 DEF InOrder
  <1>2. ASSUME NextFlow \in Flows, NEW s, NEW o, flows' = [flows EXCEPT ![NextFlow] = NewFlow(s, o)]
        PROVE  Goal
    <2>1. PICK m \in Nat : m = NextFlow /\ m \notin Used /\ Used \cup {m} = 1 .. m /\ m \in Flows
      BY <1>2, NextIsNew
    <2>2. flows' = [flows EXCEPT ![m] = NewFlow(s, o)] /\ flows'[m].status = "running"
      BY <1>0, <1>2, <2>1 DEF NewFlow
    <2>3. \A f \in Flows : f # m => flows'[f] = flows[f]
      BY <1>0, <2>2
    <2>4. Used' = Used \cup {m}
      BY <2>1, <2>2, <2>3 DEF Used
    <2>5. flows[m].status = "none" /\ flows[m].status # "canceled"
      BY <2>1 DEF Used
    <2>6. \A f \in Flows : /\ flows[f].told => flows'[f].told \/ f = m
                           /\ flows[f].status = "canceled" => flows'[f].status = "canceled"
      BY <2>3, <2>5
    <2>7. ~flows[m].told
      BY <2>1, <2>5 DEF InOrder
    <2>8. QED
      BY <2>1, <2>2, <2>3, <2>4, <2>6, <2>7 DEF InOrder
  <1>3. ASSUME UNCHANGED flows PROVE Goal
    BY <1>1, <1>3
  <1>4. ASSUME NEW f \in Flows, NEW status \in {"canceled", "ended"}, FlowEnds(f, status) PROVE Goal
    <2>1. flows[f].status = "running" /\ flows' = [flows EXCEPT ![f].status = status]
      BY <1>4 DEF FlowEnds
    <2>2. QED
      BY <1>0, <1>1, <2>1
  <1>5. ASSUME Told, call.at = "await" PROVE Goal
    <2>1. call.flow \in Flows /\ flows[call.flow].status # "none"
      BY <1>5 DEF CallSound, Used
    <2>2. QED
      BY <1>0, <1>1, <1>5, <2>1 DEF Told
  <1>6. ASSUME LinkFlow PROVE Goal
    <2>1. call.flow \in Flows /\ flows[call.flow].status # "none"
      BY <1>6 DEF CallSound, Used, LinkFlow
    <2>2. QED
      BY <1>0, <1>1, <1>6, <2>1 DEF LinkFlow
  <1> HIDE DEF Goal
  <1>7. ASSUME NEW o \in Orders,
               (\E intent \in Intents : Submit(o, intent)) \/ Dispatch(o) \/ AskBack(o) \/ CreateFlow(o) \/ RestartFlow(o)
        PROVE  Goal
    BY <1>2, <1>3, <1>7 DEF Submit, Dispatch, AskBack, CreateFlow, RestartFlow
  <1>8. ASSUME NEW f \in Flows, ClientRestarts(f) PROVE Goal
    BY <1>2, <1>8 DEF ClientRestarts
  <1>9. ASSUME NEW status \in {"success", "failed"}, OrderAnswered(status) \/ AgentAnswers(status) PROVE Goal
    BY <1>3, <1>5, <1>9 DEF OrderAnswered, AgentAnswers
  <1>10. ASSUME Refused \/ Raises \/ WriteOrder \/ WriteTask \/ CommandCrash PROVE Goal
    BY <1>3, <1>5, <1>10 DEF Refused, Raises, WriteOrder, WriteTask, CommandCrash
  <1>11. Goal
    BY <1>4, <1>6, <1>7, <1>8, <1>9, <1>10 DEF CommandNext
  <1>12. QED
    BY <1>11 DEF Goal

\* From its beginning to its rows the command that is executed keeps its place.
LEMMA StepCall ==
    ASSUME CommandTypeOK, InOrder, CallSound, CommandNext
    PROVE  CallSound'
  <1> DEFINE Goal == CallSound'
  <1>0. /\ call \in [order : 0 .. MaxCommands, at : {"none", "agent", "link", "await", "rows", "task"},
                     flow : 0 .. MaxPolicyRuns]
        /\ flows \in [Flows -> [status : {"none", "running", "canceled", "ended"},
                                source : 0 .. MaxPolicyRuns, by : 0 .. MaxCommands, told : BOOLEAN]]
        /\ task \in [latest : 0 .. MaxPolicyRuns, state : 0 .. MaxPolicyRuns, shows : 0 .. Clarify]
        /\ DOMAIN orders = Orders
    BY DEF CommandTypeOK, Metadata
  <1>1. Used \subseteq Used'
    BY StepFlows
  <1>2. ASSUME call' = NoCall PROVE Goal
    BY <1>2 DEF CallSound, NoCall
  <1>3. ASSUME NEW o \in Orders, NEW intent \in Intents, Submit(o, intent) PROVE Goal
    BY <1>2, <1>3 DEF Submit
  <1>4. ASSUME LoopFree, UNCHANGED <<task, orders, call>> PROVE Goal
    BY <1>0, <1>1, <1>4 DEF CallSound, LoopFree
  <1>5. ASSUME NEW o \in Orders, Dispatch(o) PROVE Goal
    BY <1>0, <1>5 DEF Dispatch, OrderBegins, CallSound, NoFlow
  <1>6. ASSUME NEW o \in Orders, AskBack(o) PROVE Goal
    BY <1>0, <1>6 DEF AskBack, CallSound, Finished
  <1>7. ASSUME NEW o \in Orders, CreateFlow(o) \/ RestartFlow(o) PROVE Goal
    <2>1. PICK m \in Flows : m = NextFlow /\ m \notin Used
      BY <1>7, NextIsNew DEF CreateFlow, RestartFlow
    <2>2. /\ flows' = [flows EXCEPT ![m] = NewFlow(NoFlow, o)]
          /\ orders[o].status = "running" /\ UNCHANGED orders
      BY <1>7, <2>1 DEF CreateFlow, RestartFlow, Orchestrates, OrderBegins
    <2>3. flows'[m] = NewFlow(NoFlow, o) /\ \A f \in Flows : f # m => flows'[f] = flows[f]
      BY <1>0, <2>2
    <2>4. flows'[m].status = "running" /\ flows'[m].source = NoFlow /\ flows'[m].by = o /\ m \in Used'
      BY <2>3 DEF NewFlow, Used
    <2>5. CASE CreateFlow(o)
      <3>1. call' = [order |-> o, at |-> "await", flow |-> m] /\ task'.latest = m
        BY <1>0, <2>1, <2>5 DEF CreateFlow
      <3>2. QED
        BY <2>2, <2>4, <3>1 DEF CallSound
    <2>6. CASE RestartFlow(o)
      <3>1. call' = [order |-> o, at |-> "link", flow |-> m] /\ UNCHANGED task
        BY <2>1, <2>6 DEF RestartFlow
      <3>2. task.latest \in Flows /\ flows[task.latest].status = "canceled" /\ task.latest # m
        BY <1>0, <2>1, <2>6 DEF RestartFlow, Restartable, Used, NoFlow, Flows
      <3>3. QED
        BY <2>2, <2>3, <2>4, <3>1, <3>2 DEF CallSound
    <2>7. QED
      BY <1>7, <2>5, <2>6
  <1>8. ASSUME LinkFlow PROVE Goal
    <2>1. /\ call' = [call EXCEPT !.at = "await"] /\ task' = [task EXCEPT !.latest = call.flow]
          /\ call.at = "link" /\ UNCHANGED orders
      BY <1>8 DEF LinkFlow
    <2>2. call'.at = "await" /\ call'.order = call.order /\ call'.flow = call.flow /\ task'.latest = call.flow
      BY <1>0, <2>1
    <2>3. QED
      BY <1>1, <2>1, <2>2 DEF CallSound
  <1>9. ASSUME NEW status \in Finished, call.at # "none", call' = [call EXCEPT !.at = "rows"],
               orders'[call.order].status = status
        PROVE  Goal
    <2>1. call'.at = "rows" /\ call'.order = call.order
      BY <1>0, <1>9
    <2>2. QED
      BY <1>9, <2>1 DEF CallSound
  <1>10. ASSUME NEW status \in Finished, Finishes(status), call.at # "none" PROVE Goal
    <2>1. orders'[call.order].status = status
      BY <1>0, <1>10 DEF Finishes, CallSound
    <2>2. QED
      BY <1>9, <1>10, <2>1 DEF Finishes
  <1>11. ASSUME Raises PROVE Goal
    <2>1. orders'[call.order].status = "failed"
      BY <1>0, <1>11 DEF Raises, CallSound
    <2>2. QED
      BY <1>9, <1>11, <2>1 DEF Raises, Finished
  <1>12. ASSUME WriteOrder PROVE Goal
    <2>1. call'.at = "task" /\ call'.order = call.order /\ UNCHANGED orders /\ call.at = "rows"
      BY <1>0, <1>12 DEF WriteOrder
    <2>2. QED
      BY <2>1 DEF CallSound
  <1> HIDE DEF Goal
  <1>13. ASSUME NEW f \in Flows, ClientRestarts(f) \/ \E s \in {"canceled", "ended"} : FlowEnds(f, s) PROVE Goal
    BY <1>4, <1>13 DEF ClientRestarts, FlowEnds
  <1>14. ASSUME NEW status \in {"success", "failed"}, OrderAnswered(status) \/ AgentAnswers(status) PROVE Goal
    BY <1>10, <1>14 DEF OrderAnswered, AgentAnswers, Finished
  <1>15. ASSUME Refused PROVE Goal
    BY <1>10, <1>15 DEF Refused, Finished
  <1>16. ASSUME WriteTask \/ CommandCrash PROVE Goal
    BY <1>2, <1>16 DEF WriteTask, CommandCrash
  <1>17. Goal
    BY <1>3, <1>5, <1>6, <1>7, <1>8, <1>11, <1>12, <1>13, <1>14, <1>15, <1>16 DEF CommandNext
  <1>18. QED
    BY <1>17 DEF Goal

\* Who made a run, and from which one, is written when the run is created or linked.
LEMMA StepOrigins ==
    ASSUME CommandTypeOK, InOrder, CallSound, CommandNext
    PROVE  \/ \A f \in Flows : flows'[f].by = flows[f].by /\ flows'[f].source = flows[f].source
           \/ \E o \in Orders, m \in Flows :
                 /\ CreateFlow(o) \/ RestartFlow(o)
                 /\ m \notin Used /\ flows' = [flows EXCEPT ![m] = NewFlow(NoFlow, o)]
                 /\ call'.order = o /\ call.order = 0 /\ orders[o].status = "running"
                 /\ task'.latest \in {task.latest, m}
           \/ \E m \in Flows : \E f : m \notin Used /\ flows' = [flows EXCEPT ![m] = NewFlow(f, 0)]
                 /\ UNCHANGED <<task, orders, call, commandCrashes>>
           \/ LinkFlow
  <1> DEFINE Goal ==
           \/ \A f \in Flows : flows'[f].by = flows[f].by /\ flows'[f].source = flows[f].source
           \/ \E o \in Orders, m \in Flows :
                 /\ CreateFlow(o) \/ RestartFlow(o)
                 /\ m \notin Used /\ flows' = [flows EXCEPT ![m] = NewFlow(NoFlow, o)]
                 /\ call'.order = o /\ call.order = 0 /\ orders[o].status = "running"
                 /\ task'.latest \in {task.latest, m}
           \/ \E m \in Flows : \E f : m \notin Used /\ flows' = [flows EXCEPT ![m] = NewFlow(f, 0)]
                 /\ UNCHANGED <<task, orders, call, commandCrashes>>
           \/ LinkFlow
  <1>0. /\ flows \in [Flows -> [status : {"none", "running", "canceled", "ended"},
                                source : 0 .. MaxPolicyRuns, by : 0 .. MaxCommands, told : BOOLEAN]]
        /\ task \in [latest : 0 .. MaxPolicyRuns, state : 0 .. MaxPolicyRuns, shows : 0 .. Clarify]
    BY DEF CommandTypeOK, Metadata
  <1>1. ASSUME UNCHANGED flows PROVE Goal
    BY <1>1
  <1>2. ASSUME Told PROVE Goal
    BY <1>0, <1>2 DEF Told
  <1>3. ASSUME NEW f \in Flows, NEW s, FlowEnds(f, s) PROVE Goal
    BY <1>0, <1>3 DEF FlowEnds
  <1>4. ASSUME NEW f \in Flows, ClientRestarts(f) PROVE Goal
    <2>1. PICK m \in Flows : m = NextFlow /\ m \notin Used
      BY <1>4, NextIsNew DEF ClientRestarts
    <2>2. QED
      BY <1>4, <2>1 DEF ClientRestarts
  <1>5. ASSUME NEW o \in Orders, CreateFlow(o) \/ RestartFlow(o) PROVE Goal
    <2>1. PICK m \in Flows : m = NextFlow /\ m \notin Used
      BY <1>5, NextIsNew DEF CreateFlow, RestartFlow
    <2>2. call'.order = o /\ call.order = 0 /\ orders[o].status = "running"
      BY <1>5 DEF CreateFlow, RestartFlow, Orchestrates, OrderBegins, NoCall
    <2>3. task'.latest \in {task.latest, m} /\ flows' = [flows EXCEPT ![m] = NewFlow(NoFlow, o)]
      BY <1>0, <1>5, <2>1 DEF CreateFlow, RestartFlow
    <2>4. QED
      BY <1>5, <2>1, <2>2, <2>3
  <1> HIDE DEF Goal
  <1>6. ASSUME LinkFlow PROVE Goal
    BY <1>6 DEF Goal
  <1>7. ASSUME NEW o \in Orders, (\E intent \in Intents : Submit(o, intent)) \/ Dispatch(o) \/ AskBack(o) PROVE Goal
    BY <1>1, <1>7 DEF Submit, Dispatch, AskBack
  <1>8. ASSUME NEW status \in {"success", "failed"}, OrderAnswered(status) \/ AgentAnswers(status) PROVE Goal
    BY <1>1, <1>2, <1>8 DEF OrderAnswered, AgentAnswers
  <1>9. ASSUME Refused \/ Raises \/ WriteOrder \/ WriteTask \/ CommandCrash PROVE Goal
    BY <1>1, <1>2, <1>9 DEF Refused, Raises, WriteOrder, WriteTask, CommandCrash
  <1>10. Goal
    BY <1>3, <1>4, <1>5, <1>6, <1>7, <1>8, <1>9 DEF CommandNext
  <1>11. QED
    BY <1>10 DEF Goal

\* The sets that are counted are finite.
LEMMA CountsAreNumbers ==
    ASSUME NEW S \in SUBSET Flows
    PROVE  IsFiniteSet(S) /\ Cardinality(S) \in Nat
  <1>1. IsFiniteSet(Flows)
    BY FlowTypes, FS_Interval DEF Flows
  <1>2. QED
    BY <1>1, FS_Subset, FS_CardinalityType

\* A crash lets everything begin again; otherwise what has begun, or is done, stays so, until
\* the task's latest run is another one.
LEMMA StepBegun ==
    ASSUME CommandTypeOK, InOrder, CallSound, CommandNext, NEW o \in Orders, Begun(o)
    PROVE  Begun(o)' \/ CommandCrash
  <1>0. DOMAIN orders = Orders /\ NoOrder.status = "none"
    BY DEF CommandTypeOK, NoOrder
  <1>1. ASSUME NEW status \in Finished, Finishes(status) PROVE Begun(o)'
    BY <1>0, <1>1, StepCall DEF Begun, Finishes, CallSound
  <1>2. CASE Raises
    BY <1>0, <1>2 DEF Begun, Raises, Finished
  <1>3. CASE WriteOrder \/ LinkFlow
    BY <1>3 DEF Begun, WriteOrder, LinkFlow, CommandTypeOK
  <1>4. CASE WriteTask
    BY <1>4, FlowTypes DEF Begun, WriteTask, CallSound
  <1>5. ASSUME NEW p \in Orders, Dispatch(p) \/ AskBack(p) \/ CreateFlow(p) \/ RestartFlow(p) PROVE Begun(o)'
    <2>1. call.order # o
      BY <1>5, FlowTypes DEF Dispatch, AskBack, CreateFlow, RestartFlow, Orchestrates, OrderBegins, NoCall
    <2>2. orders[o].status \in Finished
      BY <2>1 DEF Begun
    <2>3. orders'[o].status \in Finished
      BY <1>0, <1>5, <2>2 DEF Dispatch, AskBack, CreateFlow, RestartFlow, Finished
    <2>4. QED
      BY <2>3 DEF Begun
  <1>6. ASSUME NEW p \in Orders, NEW intent \in Intents, Submit(p, intent) PROVE Begun(o)'
    BY <1>0, <1>6 DEF Submit, Begun, Finished
  <1>7. ASSUME UNCHANGED <<orders, call>> PROVE Begun(o)'
    BY <1>7 DEF Begun
  <1>8. QED
    BY <1>1, <1>2, <1>3, <1>4, <1>5, <1>6, <1>7
    DEF CommandNext, OrderAnswered, AgentAnswers, Refused, ClientRestarts, FlowEnds, Finished

\* Lives of the process are counted by its crashes.
LEMMA StepCrashes ==
    ASSUME CommandTypeOK, CommandNext
    PROVE  /\ commandCrashes \in Nat
           /\ \/ UNCHANGED commandCrashes /\ ~CommandCrash
              \/ CommandCrash /\ commandCrashes' = commandCrashes + 1 /\ UNCHANGED flows /\ task' = taskRow
  <1>1. commandCrashes \in Nat
    BY CommandPolicyAssumption DEF CommandTypeOK
  <1>2. CommandCrash => commandCrashes' = commandCrashes + 1 /\ UNCHANGED flows /\ task' = taskRow
    BY DEF CommandCrash
  <1>3. UNCHANGED commandCrashes \/ CommandCrash
    BY DEF CommandNext, Submit, Dispatch, AskBack, CreateFlow, RestartFlow, ClientRestarts, FlowEnds, LinkFlow,
       OrderAnswered, AgentAnswers, Finishes, Refused, Raises, WriteOrder, WriteTask
  <1>4. QED
    BY <1>1, <1>2, <1>3

\* Nobody's runs become a command's one at a time, and only when it begins.
LEMMA StepMade ==
    ASSUME CommandTypeOK, InOrder, CallSound, MadeOnce, CommandNext
    PROVE  MadeOnce'
  <1> SUFFICES ASSUME NEW o \in Orders
               PROVE  Cardinality(MadeBy(o)') <= commandCrashes' + IF Begun(o)' THEN 1 ELSE 0
    BY DEF MadeOnce
  <1>0. /\ flows \in [Flows -> [status : {"none", "running", "canceled", "ended"},
                                source : 0 .. MaxPolicyRuns, by : 0 .. MaxCommands, told : BOOLEAN]]
    BY DEF CommandTypeOK
  <1>1. PICK n \in Nat, c \in Nat : n = Cardinality(MadeBy(o)) /\ c = commandCrashes
    BY CountsAreNumbers, StepCrashes DEF MadeBy
  <1>2. n <= c + (IF Begun(o) THEN 1 ELSE 0) /\ n <= c + 1 /\ (~Begun(o) => n <= c)
    BY <1>1 DEF MadeOnce
  <1>3. CASE CommandCrash
    <2>1. MadeBy(o)' = MadeBy(o) /\ commandCrashes' = c + 1
      BY <1>1, <1>3, StepCrashes DEF MadeBy
    <2>2. QED
      BY <1>1, <1>2, <2>1
  <1>4. CASE ~CommandCrash
    <2>0. commandCrashes' = c /\ (Begun(o) => Begun(o)')
      BY <1>1, <1>4, StepCrashes, StepBegun
    <2>1. CASE MadeBy(o)' = MadeBy(o)
      BY <1>1, <1>2, <2>0, <2>1
    <2>2. ASSUME \A f \in Flows : flows'[f].by = flows[f].by PROVE MadeBy(o)' = MadeBy(o)
      BY <2>2 DEF MadeBy
    <2>3. CASE LinkFlow
      <3>1. \A f \in Flows : flows'[f].by = flows[f].by
        BY <1>0, <2>3 DEF LinkFlow
      <3>2. QED
        BY <2>1, <2>2, <3>1
    <2>4. ASSUME NEW m \in Flows, NEW f, m \notin Used, flows' = [flows EXCEPT ![m] = NewFlow(f, 0)]
          PROVE  MadeBy(o)' = MadeBy(o)
      <3>1. flows[m].by = 0 /\ flows'[m].by = 0
        BY <1>0, <2>4 DEF InOrder, Used, NewFlow
      <3>2. \A g \in Flows : flows'[g].by = flows[g].by
        BY <1>0, <2>4, <3>1
      <3>3. QED
        BY <2>2, <3>2
    <2>5. ASSUME NEW p \in Orders, NEW m \in Flows,
                 m \notin Used, flows' = [flows EXCEPT ![m] = NewFlow(NoFlow, p)],
                 call'.order = p, call.order = 0, orders[p].status = "running"
          PROVE  Cardinality(MadeBy(o)') <= commandCrashes' + IF Begun(o)' THEN 1 ELSE 0
      <3>1. flows[m].by = 0 /\ flows'[m].by = p /\ \A g \in Flows : g # m => flows'[g] = flows[g]
        BY <1>0, <2>5 DEF InOrder, Used, NewFlow
      <3>2. CASE o # p
        <4>1. MadeBy(o)' = MadeBy(o)
          BY <3>1, <3>2, FlowTypes DEF MadeBy
        <4>2. QED
          BY <2>1, <4>1
      <3>3. CASE o = p
        <4>1. MadeBy(o)' = MadeBy(o) \cup {m} /\ m \notin MadeBy(o)
          BY <3>1, <3>3, FlowTypes DEF MadeBy
        <4>2. Cardinality(MadeBy(o)') = n + 1
          BY <1>1, <4>1, CountsAreNumbers, FS_AddElement DEF MadeBy
        <4>3. ~Begun(o) /\ Begun(o)'
          BY <2>5, <3>3, FlowTypes DEF Begun, Finished
        <4>4. QED
          BY <1>2, <2>0, <4>2, <4>3
      <3>4. QED
        BY <3>2, <3>3
    <2>6. QED
      BY <2>1, <2>2, <2>3, <2>4, <2>5, StepOrigins
  <1>5. QED
    BY <1>3, <1>4

\* Without a new run the latest run of the task is the one it was, but for a crash.
LEMMA StepLatest ==
    ASSUME CommandTypeOK, InOrder, CallSound, CommandNext, ~CommandCrash, ~LinkFlow,
           \A g \in Flows : flows'[g].by = flows[g].by /\ flows'[g].source = flows[g].source
    PROVE  task'.latest = task.latest
  <1>0. /\ task \in [latest : 0 .. MaxPolicyRuns, state : 0 .. MaxPolicyRuns, shows : 0 .. Clarify]
        /\ flows \in [Flows -> [status : {"none", "running", "canceled", "ended"},
                                source : 0 .. MaxPolicyRuns, by : 0 .. MaxCommands, told : BOOLEAN]]
    BY DEF CommandTypeOK, Metadata
  <1>1. ASSUME NEW o \in Orders, CreateFlow(o) PROVE FALSE
    <2>1. PICK m \in Flows : m = NextFlow /\ m \notin Used
      BY <1>1, NextIsNew DEF CreateFlow
    <2>2. flows'[m].by = o /\ flows[m].by = 0
      BY <1>0, <1>1, <2>1 DEF CreateFlow, NewFlow, InOrder, Used
    <2>3. QED
      BY <2>1, <2>2, FlowTypes
  <1>2. ASSUME NEW o \in Orders,
               (\E intent \in Intents : Submit(o, intent)) \/ Dispatch(o) \/ AskBack(o) \/ RestartFlow(o)
        PROVE  task'.latest = task.latest
    BY <1>0, <1>2 DEF Submit, Dispatch, AskBack, RestartFlow
  <1>3. ASSUME NEW status \in {"success", "failed"}, OrderAnswered(status) \/ Refused
        PROVE  task'.latest = task.latest
    <2>1. task.latest = call.flow
      BY <1>3 DEF OrderAnswered, Refused, CallSound
    <2>2. task'.latest = call.flow
      <3>1. CASE OrderAnswered(status)
        BY <3>1 DEF OrderAnswered
      <3>2. CASE Refused
        BY <1>0, <3>2 DEF Refused
      <3>3. QED
        BY <1>3, <3>1, <3>2
    <2>3. QED
      BY <2>1, <2>2
  <1>4. ASSUME NEW status \in {"success", "failed"},
               AgentAnswers(status) \/ Raises \/ WriteOrder \/ WriteTask
        PROVE  task'.latest = task.latest
    BY <1>4 DEF AgentAnswers, Raises, WriteOrder, WriteTask
  <1>5. ASSUME NEW f \in Flows, ClientRestarts(f) \/ \E status \in {"canceled", "ended"} : FlowEnds(f, status)
        PROVE  task'.latest = task.latest
    BY <1>5 DEF ClientRestarts, FlowEnds
  <1>6. QED
    BY <1>1, <1>2, <1>3, <1>4, <1>5 DEF CommandNext

\* Only the link to its source makes a run a restart, and then the source is not the task's
\* latest run any more.
LEMMA StepRestarted ==
    ASSUME CommandTypeOK, InOrder, CallSound, RestartedOnce, CommandNext
    PROVE  RestartedOnce'
  <1> SUFFICES ASSUME NEW f \in Flows
               PROVE  /\ Cardinality(RestartsOf(f)') <= commandCrashes' + IF task'.latest = f THEN 0 ELSE 1
                      /\ RestartsOf(f)' # {} => flows'[f].status = "canceled"
    BY DEF RestartedOnce
  <1>0. /\ flows \in [Flows -> [status : {"none", "running", "canceled", "ended"},
                                source : 0 .. MaxPolicyRuns, by : 0 .. MaxCommands, told : BOOLEAN]]
        /\ task \in [latest : 0 .. MaxPolicyRuns, state : 0 .. MaxPolicyRuns, shows : 0 .. Clarify]
        /\ call \in [order : 0 .. MaxCommands, at : {"none", "agent", "link", "await", "rows", "task"},
                     flow : 0 .. MaxPolicyRuns]
    BY DEF CommandTypeOK, Metadata
  <1>1. PICK n \in Nat, c \in Nat : n = Cardinality(RestartsOf(f)) /\ c = commandCrashes
    BY CountsAreNumbers, StepCrashes DEF RestartsOf
  <1>2. n <= c + 1 /\ (task.latest = f => n <= c)
    BY <1>1 DEF RestartedOnce
  <1>3. RestartsOf(f) # {} => flows[f].status = "canceled" /\ flows'[f].status = "canceled"
    BY StepFlows DEF RestartedOnce
  <1>4. CASE CommandCrash
    <2>1. RestartsOf(f)' = RestartsOf(f) /\ commandCrashes' = c + 1
      BY <1>1, <1>4, StepCrashes DEF RestartsOf
    <2>2. QED
      BY <1>1, <1>2, <1>3, <2>1
  <1>5. CASE ~CommandCrash
    <2>0. commandCrashes' = c
      BY <1>1, <1>5, StepCrashes
    <2>1. ASSUME RestartsOf(f)' = RestartsOf(f),
                 task'.latest = f => task.latest = f \/ RestartsOf(f) = {}
          PROVE  /\ Cardinality(RestartsOf(f)') <= commandCrashes' + IF task'.latest = f THEN 0 ELSE 1
                 /\ RestartsOf(f)' # {} => flows'[f].status = "canceled"
      <3>1. RestartsOf(f) = {} => n = 0
        BY <1>1, FS_EmptySet
      <3>2. QED
        BY <1>1, <1>2, <1>3, <2>0, <2>1, <3>1
    <2>2. ASSUME NEW m \in Flows, NEW s, NEW o, m \notin Used, s \notin Flows \/ o = 0,
                 flows' = [flows EXCEPT ![m] = NewFlow(s, o)]
          PROVE  RestartsOf(f)' = RestartsOf(f) /\ RestartsOf(m) = {}
      <3>1. flows[m].by = 0 /\ flows'[m].by = o /\ flows'[m].source = s
        BY <1>0, <2>2 DEF InOrder, Used, NewFlow
      <3>2. \A g \in Flows : g # m => flows'[g] = flows[g]
        BY <1>0, <2>2
      <3>3. RestartsOf(m) = {}
        BY <2>2 DEF RestartedOnce, Used
      <3>4. QED
        BY <2>2, <3>1, <3>2, <3>3 DEF RestartsOf
    <2>3. ASSUME NEW o \in Orders, NEW m \in Flows,
                 m \notin Used, flows' = [flows EXCEPT ![m] = NewFlow(NoFlow, o)],
                 task'.latest \in {task.latest, m}
          PROVE  /\ Cardinality(RestartsOf(f)') <= commandCrashes' + IF task'.latest = f THEN 0 ELSE 1
                 /\ RestartsOf(f)' # {} => flows'[f].status = "canceled"
      BY <2>1, <2>2, <2>3, FlowTypes
    <2>4. ASSUME NEW m \in Flows, NEW g, m \notin Used, flows' = [flows EXCEPT ![m] = NewFlow(g, 0)],
                 UNCHANGED task
          PROVE  /\ Cardinality(RestartsOf(f)') <= commandCrashes' + IF task'.latest = f THEN 0 ELSE 1
                 /\ RestartsOf(f)' # {} => flows'[f].status = "canceled"
      BY <2>1, <2>2, <2>4
    <2>5. CASE LinkFlow
      <3>1. PICK m \in Flows, l \in Flows : m = call.flow /\ l = task.latest
        BY <2>5 DEF LinkFlow, CallSound, Used
      <3>2. /\ flows[m].status = "running" /\ flows[m].source = NoFlow
            /\ flows[l].status = "canceled" /\ flows[m].by = call.order /\ call.order \in Orders
        BY <2>5, <3>1 DEF LinkFlow, CallSound
      <3>3. flows' = [flows EXCEPT ![m].source = l] /\ task'.latest = m
        BY <1>0, <2>5, <3>1 DEF LinkFlow
      <3>4. /\ flows'[m].source = l /\ flows'[m].by = flows[m].by
            /\ \A g \in Flows : g # m => flows'[g] = flows[g]
        BY <1>0, <3>3
      <3>5. CASE f # l
        <4>1. RestartsOf(f)' = RestartsOf(f)
          BY <3>2, <3>4, <3>5, FlowTypes DEF RestartsOf
        <4>2. f = m => RestartsOf(f) = {}
          BY <1>3, <3>2
        <4>3. QED
          BY <2>1, <3>3, <4>1, <4>2
      <3>6. CASE f = l
        <4>1. RestartsOf(f)' = RestartsOf(f) \cup {m} /\ m \notin RestartsOf(f)
          BY <3>2, <3>4, <3>6, FlowTypes DEF RestartsOf
        <4>2. Cardinality(RestartsOf(f)') = n + 1
          BY <1>1, <4>1, CountsAreNumbers, FS_AddElement DEF RestartsOf
        <4>3. n <= c /\ f # m /\ flows'[f].status = "canceled"
          BY <1>2, <3>1, <3>2, <3>4, <3>6
        <4>4. QED
          BY <2>0, <3>3, <4>2, <4>3
      <3>7. QED
        BY <3>5, <3>6
    <2>6. CASE \A g \in Flows : flows'[g].by = flows[g].by /\ flows'[g].source = flows[g].source
      <3>1. RestartsOf(f)' = RestartsOf(f)
        BY <2>6 DEF RestartsOf
      <3>2. CASE ~LinkFlow
        BY <1>5, <2>1, <2>6, <3>1, <3>2, StepLatest
      <3>3. QED
        BY <2>5, <3>2
    <2>7. QED
      BY <2>3, <2>4, <2>5, <2>6, StepOrigins
  <1>6. QED
    BY <1>4, <1>5

\* What a snapshot says of the task's runs, and a finished command of its run, is true
\* of the runs there are.
TaskSound(t) ==
    /\ t.latest # NoFlow => t.latest \in Used
    /\ t.state # NoFlow => t.state \in Used /\ flows[t.state].told

OrderSound(r) == r.status \in Finished => r.flow = NoFlow \/ (r.flow \in Flows /\ flows[r.flow].told)

\* StoredRunsExist in terms of these.
LEMMA StoredMeansSound ==
    ASSUME CommandTypeOK, StoredRunsExist, AnswersTold
    PROVE  /\ TaskSound(task) /\ TaskSound(taskRow)
           /\ \A o \in Orders : OrderSound(orders[o]) /\ OrderSound(orderRows[o])
  <1>1. /\ \A t \in {task, taskRow} : t.latest \in 0 .. MaxPolicyRuns /\ t.state \in 0 .. MaxPolicyRuns
        /\ \A f \in 0 .. MaxPolicyRuns : f = NoFlow \/ f \in Flows
    BY FlowTypes DEF CommandTypeOK, Metadata, Flows, NoFlow
  <1>2. \A r \in OrderType : r.status \in Finished => r.flow \in 0 .. MaxPolicyRuns
    BY DEF OrderType, NoOrder, Finished
  <1>3. \A o \in Orders : orders[o] \in OrderType /\ orderRows[o] \in OrderType
    BY DEF CommandTypeOK
  <1>4. \A o \in Orders : OrderSound(orders[o])
    BY <1>1, <1>2, <1>3 DEF OrderSound, AnswersTold
  <1>5. \A o \in Orders : OrderSound(orderRows[o])
    BY <1>1, <1>2, <1>3 DEF OrderSound, StoredRunsExist, Finished
  <1>6. \A t \in {task, taskRow} : TaskSound(t)
    BY <1>1 DEF TaskSound, Used, StoredRunsExist
  <1>7. QED
    BY <1>4, <1>5, <1>6

\* What is written of a run is written when the run is there already.
LEMMA StepStored ==
    ASSUME CommandTypeOK, InOrder, CallSound, StoredRunsExist, AnswersTold, CommandNext
    PROVE  StoredRunsExist' /\ AnswersTold'
  <1> DEFINE Goal == /\ TaskSound(task)' /\ TaskSound(taskRow)'
                     /\ \A o \in Orders : OrderSound(orders[o])' /\ OrderSound(orderRows[o])'
  <1>0. /\ flows \in [Flows -> [status : {"none", "running", "canceled", "ended"},
                                source : 0 .. MaxPolicyRuns, by : 0 .. MaxCommands, told : BOOLEAN]]
        /\ task \in [latest : 0 .. MaxPolicyRuns, state : 0 .. MaxPolicyRuns, shows : 0 .. Clarify]
        /\ DOMAIN orders = Orders /\ DOMAIN orderRows = Orders /\ Used \subseteq Flows
        /\ orders \in [Orders -> OrderType] /\ orderRows \in [Orders -> OrderType]
    BY DEF CommandTypeOK, Metadata, Used
  <1>1. /\ TaskSound(task) /\ TaskSound(taskRow)
        /\ \A o \in Orders : OrderSound(orders[o]) /\ OrderSound(orderRows[o])
    BY StoredMeansSound
  <1>2. \A t : TaskSound(t) => /\ t.latest # NoFlow => t.latest \in Used'
                               /\ t.state # NoFlow => t.state \in Used' /\ flows'[t.state].told
    BY <1>0, StepFlows DEF TaskSound
  <1>3. \A r : OrderSound(r) => (r.status \in Finished => r.flow = NoFlow \/ (r.flow \in Flows /\ flows'[r.flow].told))
    BY StepFlows DEF OrderSound
  <1>4. ASSUME UNCHANGED task PROVE TaskSound(task)'
    BY <1>1, <1>2, <1>4 DEF TaskSound
  <1>5. ASSUME UNCHANGED taskRow \/ taskRow' = task PROVE TaskSound(taskRow)'
    BY <1>1, <1>2, <1>5 DEF TaskSound
  <1>6. ASSUME UNCHANGED orders PROVE \A o \in Orders : OrderSound(orders[o])'
    BY <1>1, <1>3, <1>6 DEF OrderSound
  <1>7. ASSUME UNCHANGED orderRows PROVE \A o \in Orders : OrderSound(orderRows[o])'
    BY <1>1, <1>3, <1>7 DEF OrderSound
  <1>8. ASSUME NEW p, NEW r, orders' = [orders EXCEPT ![p] = r],
               r.status \in Finished => r.flow = NoFlow \/ (r.flow \in Flows /\ flows'[r.flow].told)
        PROVE  \A o \in Orders : OrderSound(orders[o])'
    <2>1. \A o \in Orders : orders'[o] = orders[o] \/ orders'[o] = r
      BY <1>0, <1>8
    <2>2. QED
      BY <1>1, <1>3, <1>8, <2>1 DEF OrderSound
  <1>9. ASSUME NEW f \in Used', task' \in {[task EXCEPT !.latest = f], [task EXCEPT !.latest = f, !.state = f],
                                            [latest |-> f, state |-> f, shows |-> f]},
               task'.state = f => flows'[f].told
        PROVE  TaskSound(task)'
    <2>1. task'.latest = f /\ (task'.state = f \/ task'.state = task.state)
      <3>1. CASE task' = [task EXCEPT !.latest = f]
        BY <1>0, <3>1
      <3>2. CASE task' = [task EXCEPT !.latest = f, !.state = f]
        BY <1>0, <3>2
      <3>3. CASE task' = [latest |-> f, state |-> f, shows |-> f]
        BY <3>3
      <3>4. QED
        BY <1>9, <3>1, <3>2, <3>3
    <2>2. QED
      BY <1>1, <1>2, <1>9, <2>1 DEF TaskSound
  <1>10. ASSUME NEW o \in Orders, NEW intent \in Intents, Submit(o, intent) PROVE Goal
    <2>1. orders' = [orders EXCEPT ![o] = [status |-> "running", intent |-> intent]]
      BY <1>10 DEF Submit
    <2>2. \A p \in Orders : OrderSound(orders[p])'
      BY <1>8, <2>1 DEF Finished
    <2>3. \A p \in Orders : orderRows'[p] = orderRows[p] \/ orderRows'[p] = orders'[o]
      BY <1>0, <1>10 DEF Submit
    <2>4. \A p \in Orders : OrderSound(orderRows[p])'
      BY <1>1, <1>3, <2>2, <2>3 DEF OrderSound
    <2>5. QED
      BY <1>4, <1>5, <1>10, <2>2, <2>4 DEF Submit
  <1>11. ASSUME NEW o \in Orders, Dispatch(o) PROVE Goal
    BY <1>4, <1>5, <1>6, <1>7, <1>11 DEF Dispatch
  <1>12. ASSUME NEW o \in Orders, AskBack(o) PROVE Goal
    <2>1. TaskSound(task)'
      <3>1. task'.latest = task.latest /\ task'.state = task.state
        BY <1>0, <1>12 DEF AskBack
      <3>2. QED
        BY <1>1, <1>2, <3>1 DEF TaskSound
    <2>2. \A p \in Orders : OrderSound(orders[p])'
      BY <1>8, <1>12 DEF AskBack
    <2>3. QED
      BY <1>5, <1>7, <1>12, <2>1, <2>2 DEF AskBack
  <1>13. ASSUME NEW o \in Orders, CreateFlow(o) PROVE Goal
    <2>1. PICK m \in Flows : m = NextFlow /\ m \notin Used
      BY <1>13, NextIsNew DEF CreateFlow
    <2>2. m \in Used'
      BY <1>0, <1>13, <2>1 DEF CreateFlow, Used, NewFlow
    <2>3. m \notin Used /\ task' = [task EXCEPT !.latest = m] /\ task'.state = task.state
      BY <1>0, <1>13, <2>1 DEF CreateFlow
    <2>4. task.state # m
      BY <1>1, <2>1, FlowTypes DEF TaskSound
    <2>5. TaskSound(task)'
      BY <1>9, <2>2, <2>3, <2>4
    <2>6. QED
      BY <1>5, <1>6, <1>7, <1>13, <2>5 DEF CreateFlow
  <1>14. ASSUME NEW o \in Orders, RestartFlow(o) PROVE Goal
    BY <1>4, <1>5, <1>6, <1>7, <1>14 DEF RestartFlow
  <1>15. ASSUME NEW f \in Flows, ClientRestarts(f) \/ \E s \in {"canceled", "ended"} : FlowEnds(f, s) PROVE Goal
    BY <1>4, <1>5, <1>6, <1>7, <1>15 DEF ClientRestarts, FlowEnds
  <1>16. ASSUME LinkFlow PROVE Goal
    <2>1. call.flow \in Used' /\ call.flow \in Used
      BY <1>16, StepFlows DEF LinkFlow, CallSound
    <2>2. task'.latest = call.flow /\ task'.state = task.state
      BY <1>0, <1>16 DEF LinkFlow
    <2>3. TaskSound(task)'
      BY <1>1, <1>2, <2>1, <2>2 DEF TaskSound
    <2>4. QED
      BY <1>5, <1>6, <1>7, <1>16, <2>3 DEF LinkFlow
  <1>17. ASSUME call.at = "await", Told PROVE call.flow \in Used' /\ call.flow \in Flows /\ flows'[call.flow].told
    BY <1>0, <1>17, StepFlows DEF CallSound, Told
  <1>18. ASSUME NEW status \in Finished, Finishes(status), call.at = "await", Told
         PROVE  \A o \in Orders : OrderSound(orders[o])'
    BY <1>8, <1>17, <1>18 DEF Finishes
  <1>19. ASSUME NEW status \in {"success", "failed"}, OrderAnswered(status) PROVE Goal
    BY <1>5, <1>7, <1>9, <1>17, <1>18, <1>19 DEF OrderAnswered, Finishes, Finished
  <1>20. ASSUME Refused PROVE Goal
    BY <1>5, <1>7, <1>9, <1>17, <1>18, <1>20 DEF Refused, Finishes, Finished
  <1>21. ASSUME NEW status \in {"success", "failed"}, AgentAnswers(status) PROVE Goal
    <2>1. \A o \in Orders : OrderSound(orders[o])'
      BY <1>8, <1>21 DEF AgentAnswers, Finishes, CallSound
    <2>2. QED
      BY <1>4, <1>5, <1>7, <1>21, <2>1 DEF AgentAnswers, Finishes
  <1>22. ASSUME Raises PROVE Goal
    <2>1. \A o \in Orders : OrderSound(orders[o])'
      BY <1>8, <1>22 DEF Raises
    <2>2. QED
      BY <1>4, <1>5, <1>7, <1>22, <2>1 DEF Raises
  <1>23. ASSUME WriteOrder PROVE Goal
    <2>1. \A o \in Orders : orderRows'[o] = orderRows[o] \/ orderRows'[o] = orders[o]
      BY <1>0, <1>23 DEF WriteOrder
    <2>2. \A o \in Orders : OrderSound(orderRows[o])'
      BY <1>1, <1>3, <2>1 DEF OrderSound
    <2>3. QED
      BY <1>4, <1>5, <1>6, <1>23, <2>2 DEF WriteOrder
  <1>24. ASSUME WriteTask PROVE Goal
    BY <1>4, <1>5, <1>6, <1>7, <1>24 DEF WriteTask
  <1>25. ASSUME CommandCrash PROVE Goal
    <2>1. TaskSound(task)' /\ \A o \in Orders : OrderSound(orders[o])'
      BY <1>1, <1>2, <1>3, <1>25 DEF CommandCrash, TaskSound, OrderSound
    <2>2. QED
      BY <1>5, <1>7, <1>25, <2>1 DEF CommandCrash
  <1> HIDE DEF Goal
  <1>26. Goal
    BY <1>10, <1>11, <1>12, <1>13, <1>14, <1>15, <1>16, <1>19, <1>20, <1>21, <1>22, <1>23, <1>24, <1>25
    DEF CommandNext
  <1>27. StoredRunsExist'
    BY <1>26 DEF Goal, TaskSound, OrderSound, StoredRunsExist, Finished, Used
  <1>28. AnswersTold'
    BY <1>26 DEF Goal, OrderSound, AnswersTold
  <1>29. QED
    BY <1>27, <1>28

\* The task's row lags behind only while a command is executed, and its snapshot only
\* while its run is orchestrated.
LEMMA StepShown ==
    ASSUME CommandTypeOK, InOrder, CallSound, ShownInTask, CommandNext
    PROVE  ShownInTask'
  <1> DEFINE Goal == ShownInTask'
  <1>0. /\ task \in [latest : 0 .. MaxPolicyRuns, state : 0 .. MaxPolicyRuns, shows : 0 .. Clarify]
        /\ call \in [order : 0 .. MaxCommands, at : {"none", "agent", "link", "await", "rows", "task"},
                     flow : 0 .. MaxPolicyRuns]
    BY DEF CommandTypeOK, Metadata
  <1>1. ASSUME UNCHANGED <<task, taskRow, call, raised, commandCrashes>> PROVE Goal
    BY <1>1 DEF ShownInTask
  <1>2. ASSUME call'.at \in {"link", "await"} PROVE Goal
    BY <1>2 DEF ShownInTask
  <1>3. ASSUME commandCrashes' # 0 PROVE Goal
    BY <1>3 DEF ShownInTask
  <1>4. ASSUME call'.at \in {"rows", "task"}, task'.state = task'.latest PROVE Goal
    BY <1>4 DEF ShownInTask
  <1>5. ASSUME NEW o \in Orders,
               (\E intent \in Intents : Submit(o, intent)) \/ Dispatch(o) \/ CreateFlow(o) \/ RestartFlow(o)
        PROVE  Goal
    <2>1. CASE \E intent \in Intents : Submit(o, intent)
      BY <1>1, <2>1 DEF Submit
    <2>2. CASE Dispatch(o)
      BY <2>2 DEF Dispatch, ShownInTask, OrderBegins, NoCall
    <2>3. CASE CreateFlow(o) \/ RestartFlow(o)
      BY <1>2, <2>3 DEF CreateFlow, RestartFlow
    <2>4. QED
      BY <1>5, <2>1, <2>2, <2>3
  <1>6. ASSUME NEW o \in Orders, AskBack(o) PROVE Goal
    <2>1. /\ task'.latest = task.latest /\ task'.state = task.state /\ call'.at = "rows" /\ call.at = "none"
          /\ UNCHANGED <<raised, commandCrashes>>
      BY <1>0, <1>6 DEF AskBack, OrderBegins, NoCall
    <2>2. QED
      BY <2>1 DEF ShownInTask
  <1>7. ASSUME NEW f \in Flows, ClientRestarts(f) \/ \E s \in {"canceled", "ended"} : FlowEnds(f, s) PROVE Goal
    BY <1>1, <1>7 DEF ClientRestarts, FlowEnds
  <1>8. ASSUME LinkFlow PROVE Goal
    BY <1>0, <1>2, <1>8 DEF LinkFlow
  <1>9. ASSUME NEW status \in {"success", "failed"}, OrderAnswered(status) \/ Refused PROVE Goal
    <2>1. call'.at = "rows"
      BY <1>0, <1>9 DEF OrderAnswered, Refused, Finishes
    <2>2. task'.state = task'.latest
      <3>1. CASE OrderAnswered(status)
        BY <3>1 DEF OrderAnswered
      <3>2. CASE Refused
        BY <1>0, <3>2 DEF Refused
      <3>3. QED
        BY <1>9, <3>1, <3>2
    <2>3. QED
      BY <1>4, <2>1, <2>2
  <1>10. ASSUME NEW status \in {"success", "failed"}, AgentAnswers(status) PROVE Goal
    <2>1. call'.at = "rows" /\ call.at = "agent" /\ UNCHANGED <<task, raised, commandCrashes>>
      BY <1>0, <1>10 DEF AgentAnswers, Finishes
    <2>2. QED
      BY <2>1 DEF ShownInTask
  <1>11. ASSUME Raises PROVE Goal
    <2>1. call'.at = "rows" /\ UNCHANGED task /\ task.latest \in raised'
      BY <1>0, <1>11 DEF Raises, CallSound
    <2>2. QED
      BY <2>1 DEF ShownInTask
  <1>12. ASSUME WriteOrder PROVE Goal
    <2>1. call'.at = "task" /\ call.at = "rows" /\ UNCHANGED <<task, raised, commandCrashes>>
      BY <1>0, <1>12 DEF WriteOrder
    <2>2. QED
      BY <2>1 DEF ShownInTask
  <1>13. ASSUME WriteTask PROVE Goal
    <2>1. call.at = "task" /\ taskRow' = task /\ UNCHANGED <<task, raised, commandCrashes>>
      BY <1>13 DEF WriteTask
    <2>2. QED
      BY <2>1 DEF ShownInTask
  <1>14. ASSUME CommandCrash PROVE Goal
    BY <1>3, <1>14, StepCrashes
  <1> HIDE DEF Goal
  <1>15. Goal
    BY <1>5, <1>6, <1>7, <1>8, <1>9, <1>10, <1>11, <1>12, <1>13, <1>14 DEF CommandNext
  <1>16. QED
    BY <1>15 DEF Goal

\* Nothing is there at first.
LEMMA InitCommands ==
    ASSUME CommandInit
    PROVE  CommandInv
  <1>0. /\ flows = [f \in Flows |-> [status |-> "none", source |-> NoFlow, by |-> 0, told |-> FALSE]]
        /\ task = [latest |-> NoFlow, state |-> NoFlow, shows |-> NoFlow] /\ taskRow = task
        /\ orders = [o \in Orders |-> NoOrder] /\ orderRows = orders
        /\ call = NoCall /\ raised = {} /\ commandCrashes = 0 /\ restartPolicy \in Restarting
    BY DEF CommandInit
  <1>1. CommandTypeOK
    <2>1. NoOrder \in OrderType /\ commandCrashes \in 0 .. MaxCommandCrashes
      BY <1>0, CommandPolicyAssumption DEF OrderType
    <2>2. NoFlow \in 0 .. MaxPolicyRuns /\ 0 \in 0 .. MaxCommands /\ NoFlow \in 0 .. Clarify
      BY FlowTypes DEF NoFlow
    <2>3. QED
      BY <1>0, <2>1, <2>2 DEF CommandTypeOK, Metadata, NoCall
  <1>2. InOrder
    <2>1. Used = {}
      BY <1>0 DEF Used
    <2>2. Used = 1 .. 0
      BY <2>1
    <2>3. QED
      BY <1>0, <2>2 DEF InOrder
  <1>3. CallSound
    BY <1>0 DEF CallSound, NoCall
  <1>4. MadeOnce /\ RestartedOnce
    <2>1. \A o \in Orders : MadeBy(o) = {}
      BY <1>0, FlowTypes DEF MadeBy
    <2>2. \A f \in Flows : RestartsOf(f) = {}
      BY <1>0 DEF RestartsOf
    <2>3. Cardinality({}) = 0
      BY FS_EmptySet
    <2>4. MadeOnce
      BY <1>0, <2>1, <2>3 DEF MadeOnce
    <2>5. RestartedOnce
      BY <1>0, <2>2, <2>3 DEF RestartedOnce
    <2>6. QED
      BY <2>4, <2>5
  <1>5. StoredRunsExist /\ AnswersTold /\ ShownInTask
    BY <1>0 DEF StoredRunsExist, AnswersTold, ShownInTask, NoOrder, Finished
  <1>6. QED
    BY <1>1, <1>2, <1>3, <1>4, <1>5 DEF CommandInv

\* The invariant is inductive.
LEMMA CommandInvariance == CommandSpec => []CommandInv
  <1>1. CommandInit => CommandInv
    BY InitCommands
  <1>2. CommandInv /\ [CommandNext]_commandVars => CommandInv'
    <2>1. ASSUME CommandInv, CommandNext PROVE CommandInv'
      <3>1. call.at = "await" => call.flow \in Flows
        BY <2>1 DEF CommandInv, CallSound, Used
      <3>2. QED
        BY <2>1, <3>1, StepCommandTypes, StepFlows, StepCall, StepMade, StepRestarted, StepStored, StepShown
        DEF CommandInv
    <2>2. ASSUME CommandInv, UNCHANGED commandVars PROVE CommandInv'
      <3>1. CommandTypeOK' /\ InOrder' /\ CallSound'
        BY <2>2 DEF CommandInv, commandVars, CommandTypeOK, InOrder, Used, CallSound
      <3>2. MadeOnce' /\ RestartedOnce'
        BY <2>2 DEF CommandInv, commandVars, MadeOnce, RestartedOnce, MadeBy, RestartsOf, Begun
      <3>3. StoredRunsExist' /\ AnswersTold' /\ ShownInTask'
        BY <2>2 DEF CommandInv, commandVars, StoredRunsExist, AnswersTold, ShownInTask
      <3>4. QED
        BY <3>1, <3>2, <3>3 DEF CommandInv
    <2>3. QED
      BY <2>1, <2>2
  <1>3. QED
    BY <1>1, <1>2, PTL DEF CommandSpec

\* A command makes one run, and one more per crash; a canceled run is restarted by commands
\* once, and once more per crash (CommandOrchestrationPolicyService.maybe_execute,
\* _resolve_restart_latest_canceled).
THEOREM OneRunPerCommand == CommandSpec => []OneFlowPerCommand
  <1>1. ASSUME CommandInv PROVE OneFlowPerCommand
    <2>1. ASSUME NEW o \in Orders PROVE Cardinality(MadeBy(o)) <= 1 + commandCrashes
      <3>1. Cardinality(MadeBy(o)) \in Nat /\ commandCrashes \in Nat
        BY <1>1, CountsAreNumbers, CommandPolicyAssumption DEF MadeBy, CommandInv, CommandTypeOK
      <3>2. QED
        BY <1>1, <3>1 DEF CommandInv, MadeOnce
    <2>2. ASSUME NEW f \in Flows
          PROVE  /\ Cardinality(RestartsOf(f)) <= 1 + commandCrashes
                 /\ RestartsOf(f) # {} => flows[f].status = "canceled"
      <3>1. Cardinality(RestartsOf(f)) \in Nat /\ commandCrashes \in Nat
        BY <1>1, CountsAreNumbers, CommandPolicyAssumption DEF RestartsOf, CommandInv, CommandTypeOK
      <3>2. QED
        BY <1>1, <3>1 DEF CommandInv, RestartedOnce
    <2>3. QED
      BY <2>1, <2>2 DEF OneFlowPerCommand
  <1>2. QED
    BY <1>1, CommandInvariance, PTL

\* A task, its row and the rows of its commands name runs that are there and have the
\* snapshot, wherever the process dies between the rows.
THEOREM NamedRunsExist == CommandSpec => []StoredRunsExist
  <1>1. CommandInv => StoredRunsExist
    BY DEF CommandInv
  <1>2. QED
    BY <1>1, CommandInvariance, PTL

\* Between commands a task shows its latest run, in memory and stored, whatever clients do
\* to the runs during an orchestration.
THEOREM LatestRunShown == CommandSpec => []TaskShowsLatest
  <1>1. CommandInv => TaskShowsLatest
    BY DEF CommandInv, ShownInTask, TaskShowsLatest, NoCall
  <1>2. QED
    BY <1>1, CommandInvariance, PTL

-----------------------------------------------------------------------------
(* The alert policy store: what is left of a handler                       *)

DocLeft == {"set value", "open doc", "write doc", "note audit", "append audit"}
PolicySteps == DocLeft \cup FileSteps \cup {"use", "approve", "keep", "note purge"}

\* What is left to be done after a step.
Then(step, later) ==
    /\ step = "set value" => later = {"open doc", "write doc", "note audit", "append audit"}
    /\ step = "open doc" => later = {"write doc", "note audit", "append audit"}
    /\ step = "write doc" => later = {"note audit", "append audit"}
    /\ step = "note audit" => later = {"append audit"}
    /\ step = "append audit" => later = {}
    /\ step = "use" => later = {"open approvals", "write approvals"} \cup DocLeft
    /\ step = "approve" => later = {"open approvals", "write approvals"}
    /\ step = "keep" => later \in {{"open approvals", "write approvals", "note purge", "append purge"},
                                   {"note purge", "append purge"}}
    /\ step = "open approvals" => "write approvals" \in later
    /\ step = "open purges" => later = {"write purges", "note purge", "append purge"}
    /\ step = "write purges" => later = {"note purge", "append purge"}
    /\ step = "note purge" => later = {"append purge"}
    /\ step = "append purge" => later = {}

Later(q, i) == {q[j] : j \in (i + 1) .. Len(q)}

\* A handler is a sequence of steps in the order of the code.
Orderly(q) == q \in Seq(PolicySteps) /\ \A i \in 1 .. Len(q) : Then(q[i], Later(q, i))

\* What a purge removes from memory it writes.
Persisted(q) == \A i \in 1 .. Len(q) : q[i] = "keep" => "write approvals" \in Later(q, i)

\* The first step, and the steps after it.
LEMMA FirstStep ==
    ASSUME NEW q, Orderly(q), q # <<>>
    PROVE  /\ Head(q) \in PolicySteps /\ Orderly(Tail(q))
           /\ Range(q) = {Head(q)} \cup Range(Tail(q))
           /\ Then(Head(q), Range(Tail(q)))
           /\ Persisted(q) => Persisted(Tail(q))
           /\ Persisted(q) /\ Head(q) = "keep" => "write approvals" \in Range(Tail(q))
  <1> DEFINE t == Tail(q)
  <1>1. /\ q \in Seq(PolicySteps) /\ Len(q) \in Nat /\ Len(q) > 0
        /\ t \in Seq(PolicySteps) /\ Len(t) = Len(q) - 1
        /\ \A i \in 1 .. Len(t) : t[i] = q[i + 1]
        /\ Head(q) = q[1] /\ Head(q) \in PolicySteps
        /\ DOMAIN q = 1 .. Len(q) /\ DOMAIN t = 1 .. Len(t)
    BY HeadTailProperties DEF Orderly
  <1>2. \A i \in 1 .. Len(t) : Later(t, i) = Later(q, i + 1)
    <2> SUFFICES ASSUME NEW i \in 1 .. Len(t) PROVE Later(t, i) = Later(q, i + 1)
      OBVIOUS
    <2>1. ASSUME NEW x \in Later(t, i) PROVE x \in Later(q, i + 1)
      <3>1. PICK j \in (i + 1) .. Len(t) : x = t[j]
        BY <2>1 DEF Later
      <3>2. j \in 1 .. Len(t) /\ j + 1 \in ((i + 1) + 1) .. Len(q)
        BY <1>1, <3>1
      <3>3. x = q[j + 1]
        BY <1>1, <3>1, <3>2
      <3>4. QED
        BY <3>2, <3>3 DEF Later
    <2>2. ASSUME NEW x \in Later(q, i + 1) PROVE x \in Later(t, i)
      <3>1. PICK j \in ((i + 1) + 1) .. Len(q) : x = q[j]
        BY <2>2 DEF Later
      <3>2. j - 1 \in 1 .. Len(t) /\ j - 1 \in (i + 1) .. Len(t) /\ (j - 1) + 1 = j
        BY <1>1, <3>1
      <3>3. x = t[j - 1]
        BY <1>1, <3>1, <3>2
      <3>4. QED
        BY <3>2, <3>3 DEF Later
    <2>3. QED
      BY <2>1, <2>2
  <1>3. Later(q, 1) = Range(t)
    <2>1. ASSUME NEW x \in Range(t) PROVE x \in Later(q, 1)
      <3>1. PICK j \in 1 .. Len(t) : x = t[j]
        BY <1>1, <2>1 DEF Range
      <3>2. j + 1 \in (1 + 1) .. Len(q) /\ x = q[j + 1]
        BY <1>1, <3>1
      <3>3. QED
        BY <3>2 DEF Later
    <2>2. ASSUME NEW x \in Later(q, 1) PROVE x \in Range(t)
      <3>1. PICK j \in (1 + 1) .. Len(q) : x = q[j]
        BY <2>2 DEF Later
      <3>2. j - 1 \in 1 .. Len(t) /\ (j - 1) + 1 = j
        BY <1>1, <3>1
      <3>3. x = t[j - 1]
        BY <1>1, <3>1, <3>2
      <3>4. QED
        BY <1>1, <3>2, <3>3 DEF Range
    <2>3. QED
      BY <2>1, <2>2
  <1>4. Range(q) = {Head(q)} \cup Range(t)
    <2>1. ASSUME NEW x \in Range(q) PROVE x \in {Head(q)} \cup Range(t)
      <3>1. PICK j \in 1 .. Len(q) : x = q[j]
        BY <1>1, <2>1 DEF Range
      <3>2. CASE j = 1
        BY <1>1, <3>1, <3>2
      <3>3. CASE j # 1
        <4>1. j - 1 \in 1 .. Len(t) /\ (j - 1) + 1 = j
          BY <1>1, <3>1, <3>3
        <4>2. QED
          BY <1>1, <3>1, <4>1 DEF Range
      <3>4. QED
        BY <3>2, <3>3
    <2>2. ASSUME NEW x \in Range(t) PROVE x \in Range(q)
      <3>1. PICK j \in 1 .. Len(t) : x = t[j]
        BY <1>1, <2>2 DEF Range
      <3>2. j + 1 \in 1 .. Len(q) /\ x = q[j + 1]
        BY <1>1, <3>1
      <3>3. QED
        BY <1>1, <3>2 DEF Range
    <2>3. Head(q) \in Range(q)
      <3>1. 1 \in 1 .. Len(q)
        BY <1>1
      <3>2. QED
        BY <1>1, <3>1 DEF Range
    <2>4. QED
      BY <2>1, <2>2, <2>3
  <1>5. Then(Head(q), Range(t))
    <2>1. 1 \in 1 .. Len(q)
      BY <1>1
    <2>2. QED
      BY <1>1, <1>3, <2>1 DEF Orderly
  <1>6. Orderly(t)
    <2>1. \A i \in 1 .. Len(t) : i + 1 \in 1 .. Len(q)
      BY <1>1
    <2>2. QED
      BY <1>1, <1>2, <2>1 DEF Orderly
  <1>7. Persisted(q) => Persisted(t)
    <2>1. \A i \in 1 .. Len(t) : i + 1 \in 1 .. Len(q)
      BY <1>1
    <2>2. QED
      BY <1>1, <1>2, <2>1 DEF Persisted
  <1>8. Persisted(q) /\ Head(q) = "keep" => "write approvals" \in Range(t)
    <2>1. 1 \in 1 .. Len(q)
      BY <1>1
    <2>2. QED
      BY <1>1, <1>3, <2>1 DEF Persisted
  <1>9. QED
    BY <1>1, <1>4, <1>5, <1>6, <1>7, <1>8

\* The handler p is the handler q after one more step.
Prepends(s, q, p) ==
    /\ p \in Seq(PolicySteps) /\ Len(p) = Len(q) + 1 /\ p[1] = s
    /\ \A i \in 1 .. Len(q) : p[i + 1] = q[i]

\* A handler with one more step before it.
LEMMA StepBefore ==
    ASSUME NEW q, Orderly(q), NEW R, Range(q) = R,
           NEW s \in PolicySteps, Then(s, R), NEW p, Prepends(s, q, p), NEW T, T = {s} \cup R
    PROVE  /\ Orderly(p) /\ Range(p) = T
           /\ Persisted(q) /\ (s = "keep" => "write approvals" \in R) => Persisted(p)
  <1>1. q \in Seq(PolicySteps) /\ Len(q) \in Nat
    BY DEF Orderly
  <1>2. /\ p \in Seq(PolicySteps) /\ Len(p) = 1 + Len(q) /\ p[1] = s
        /\ \A i \in 1 .. Len(q) : p[i + 1] = q[i]
        /\ DOMAIN p = 1 .. Len(p) /\ DOMAIN q = 1 .. Len(q)
    BY <1>1 DEF Prepends
  <1>3. \A i \in 1 .. Len(q) : Later(p, i + 1) = Later(q, i)
    <2> SUFFICES ASSUME NEW i \in 1 .. Len(q) PROVE Later(p, i + 1) = Later(q, i)
      OBVIOUS
    <2>1. ASSUME NEW x \in Later(q, i) PROVE x \in Later(p, i + 1)
      <3>1. PICK j \in (i + 1) .. Len(q) : x = q[j]
        BY <2>1 DEF Later
      <3>2. j \in 1 .. Len(q) /\ j + 1 \in ((i + 1) + 1) .. Len(p)
        BY <1>1, <1>2, <3>1
      <3>3. x = p[j + 1]
        BY <1>2, <3>1, <3>2
      <3>4. QED
        BY <3>2, <3>3 DEF Later
    <2>2. ASSUME NEW x \in Later(p, i + 1) PROVE x \in Later(q, i)
      <3>1. PICK j \in ((i + 1) + 1) .. Len(p) : x = p[j]
        BY <2>2 DEF Later
      <3>2. j - 1 \in 1 .. Len(q) /\ j - 1 \in (i + 1) .. Len(q) /\ (j - 1) + 1 = j
        BY <1>1, <1>2, <3>1
      <3>3. x = q[j - 1]
        BY <1>2, <3>1, <3>2
      <3>4. QED
        BY <3>2, <3>3 DEF Later
    <2>3. QED
      BY <2>1, <2>2
  <1>4. Later(p, 1) = Range(q)
    <2>1. ASSUME NEW x \in Range(q) PROVE x \in Later(p, 1)
      <3>1. PICK j \in 1 .. Len(q) : x = q[j]
        BY <1>2, <2>1 DEF Range
      <3>2. j + 1 \in (1 + 1) .. Len(p) /\ x = p[j + 1]
        BY <1>1, <1>2, <3>1
      <3>3. QED
        BY <3>2 DEF Later
    <2>2. ASSUME NEW x \in Later(p, 1) PROVE x \in Range(q)
      <3>1. PICK j \in (1 + 1) .. Len(p) : x = p[j]
        BY <2>2 DEF Later
      <3>2. j - 1 \in 1 .. Len(q) /\ (j - 1) + 1 = j
        BY <1>1, <1>2, <3>1
      <3>3. x = q[j - 1]
        BY <1>2, <3>1, <3>2
      <3>4. QED
        BY <1>2, <3>2, <3>3 DEF Range
    <2>3. QED
      BY <2>1, <2>2
  <1>5. Range(p) = {s} \cup Range(q)
    <2>1. ASSUME NEW x \in Range(p) PROVE x \in {s} \cup Range(q)
      <3>1. PICK j \in 1 .. Len(p) : x = p[j]
        BY <1>2, <2>1 DEF Range
      <3>2. CASE j = 1
        BY <1>2, <3>1, <3>2
      <3>3. CASE j # 1
        <4>1. j - 1 \in 1 .. Len(q) /\ (j - 1) + 1 = j
          BY <1>1, <1>2, <3>1, <3>3
        <4>2. QED
          BY <1>2, <3>1, <4>1 DEF Range
      <3>4. QED
        BY <3>2, <3>3
    <2>2. ASSUME NEW x \in Range(q) PROVE x \in Range(p)
      <3>1. PICK j \in 1 .. Len(q) : x = q[j]
        BY <1>2, <2>2 DEF Range
      <3>2. j + 1 \in 1 .. Len(p) /\ x = p[j + 1]
        BY <1>1, <1>2, <3>1
      <3>3. QED
        BY <1>2, <3>2 DEF Range
    <2>3. s \in Range(p)
      <3>1. 1 \in 1 .. Len(p)
        BY <1>1, <1>2
      <3>2. QED
        BY <1>2, <3>1 DEF Range
    <2>4. QED
      BY <2>1, <2>2, <2>3
  <1>6. ASSUME NEW i \in 1 .. Len(p), i # 1 PROVE i - 1 \in 1 .. Len(q) /\ (i - 1) + 1 = i
    BY <1>1, <1>2, <1>6
  <1>7. Orderly(p)
    <2>1. ASSUME NEW i \in 1 .. Len(p) PROVE Then(p[i], Later(p, i))
      <3>1. CASE i = 1
        BY <1>2, <1>4, <3>1
      <3>2. CASE i # 1
        <4>1. i - 1 \in 1 .. Len(q) /\ (i - 1) + 1 = i
          BY <1>6, <3>2
        <4>2. p[i] = q[i - 1] /\ Later(p, i) = Later(q, i - 1)
          BY <1>2, <1>3, <4>1
        <4>3. QED
          BY <4>1, <4>2 DEF Orderly
      <3>3. QED
        BY <3>1, <3>2
    <2>2. QED
      BY <1>2, <2>1 DEF Orderly
  <1>8. ASSUME Persisted(q), s = "keep" => "write approvals" \in R PROVE Persisted(p)
    <2>1. ASSUME NEW i \in 1 .. Len(p), p[i] = "keep" PROVE "write approvals" \in Later(p, i)
      <3>1. CASE i = 1
        BY <1>2, <1>4, <1>8, <2>1, <3>1
      <3>2. CASE i # 1
        <4>1. i - 1 \in 1 .. Len(q) /\ (i - 1) + 1 = i
          BY <1>6, <3>2
        <4>2. p[i] = q[i - 1] /\ Later(p, i) = Later(q, i - 1)
          BY <1>2, <1>3, <4>1
        <4>3. QED
          BY <1>8, <2>1, <4>1, <4>2 DEF Persisted
      <3>3. QED
        BY <3>1, <3>2
    <2>2. QED
      BY <2>1 DEF Persisted
  <1>9. QED
    BY <1>5, <1>7, <1>8

\* The handler that has returned.
LEMMA NothingLeft == Orderly(<<>>) /\ Range(<<>>) = {} /\ Persisted(<<>>)
  BY DEF Orderly, Range, Persisted

\* A step in front of a handler is a handler.
LEMMA Prefixed ==
    ASSUME NEW q \in Seq(PolicySteps), NEW s \in PolicySteps
    PROVE  Prepends(s, q, <<s>> \o q)
  <1> DEFINE p == <<s>> \o q
             one == <<s>>
  <1>1. one \in Seq(PolicySteps) /\ Len(q) \in Nat /\ Len(one) = 1 /\ one[1] = s
    OBVIOUS
  <1>2. /\ one \o q \in Seq(PolicySteps) /\ Len(one \o q) = 1 + Len(q)
        /\ \A i \in 1 .. (1 + Len(q)) : (one \o q)[i] = IF i <= 1 THEN one[i] ELSE q[i - 1]
    BY <1>1, ConcatProperties
  <1>3. p[1] = s
    <2>1. 1 \in 1 .. (1 + Len(q))
      BY <1>1
    <2>2. QED
      BY <1>1, <1>2, <2>1
  <1>4. ASSUME NEW i \in 1 .. Len(q) PROVE p[i + 1] = q[i]
    <2>1. i + 1 \in 1 .. (1 + Len(q)) /\ ~(i + 1 <= 1) /\ (i + 1) - 1 = i
      BY <1>1
    <2>2. QED
      BY <1>2, <2>1
  <1>5. QED
    BY <1>1, <1>2, <1>3, <1>4 DEF Prepends

\* The handlers that are written out.
LEMMA WrittenOut ==
    ASSUME NEW a \in PolicySteps, NEW b \in PolicySteps, NEW c \in PolicySteps,
           NEW d \in PolicySteps, NEW e \in PolicySteps
    PROVE  /\ Prepends(a, <<>>, <<a>>) /\ Prepends(a, <<b>>, <<a, b>>)
           /\ Prepends(a, <<b, c>>, <<a, b, c>>) /\ Prepends(a, <<b, c, d>>, <<a, b, c, d>>)
           /\ Prepends(a, <<b, c, d, e>>, <<a, b, c, d, e>>)
  <1>1. Prepends(a, <<>>, <<a>>)
    BY DEF Prepends
  <1>2. Prepends(a, <<b>>, <<a, b>>)
    <2>1. \A i \in 1 .. Len(<<b>>) : i = 1
      OBVIOUS
    <2>2. QED
      BY <2>1 DEF Prepends
  <1>3. Prepends(a, <<b, c>>, <<a, b, c>>)
    <2>1. ASSUME NEW i \in 1 .. Len(<<b, c>>) PROVE <<a, b, c>>[i + 1] = <<b, c>>[i]
      <3>1. i = 1 \/ i = 2
        OBVIOUS
      <3>2. CASE i = 1
        BY <3>2
      <3>3. CASE i = 2
        BY <3>3
      <3>4. QED
        BY <3>1, <3>2, <3>3
    <2>2. <<a, b, c>> \in Seq(PolicySteps) /\ Len(<<a, b, c>>) = Len(<<b, c>>) + 1 /\ <<a, b, c>>[1] = a
      OBVIOUS
    <2>3. QED
      BY ONLY <2>1, <2>2 DEF Prepends
  <1>4. Prepends(a, <<b, c, d>>, <<a, b, c, d>>)
    <2>1. ASSUME NEW i \in 1 .. Len(<<b, c, d>>) PROVE <<a, b, c, d>>[i + 1] = <<b, c, d>>[i]
      <3>1. i = 1 \/ i = 2 \/ i = 3
        OBVIOUS
      <3>2. CASE i = 1
        BY <3>2
      <3>3. CASE i = 2
        BY <3>3
      <3>4. CASE i = 3
        BY <3>4
      <3>5. QED
        BY <3>1, <3>2, <3>3, <3>4
    <2>2. <<a, b, c, d>> \in Seq(PolicySteps) /\ Len(<<a, b, c, d>>) = Len(<<b, c, d>>) + 1
          /\ <<a, b, c, d>>[1] = a
      OBVIOUS
    <2>3. QED
      BY ONLY <2>1, <2>2 DEF Prepends
  <1>5. Prepends(a, <<b, c, d, e>>, <<a, b, c, d, e>>)
    <2>1. ASSUME NEW i \in 1 .. Len(<<b, c, d, e>>) PROVE <<a, b, c, d, e>>[i + 1] = <<b, c, d, e>>[i]
      <3>1. i = 1 \/ i = 2 \/ i = 3 \/ i = 4
        OBVIOUS
      <3>2. CASE i = 1
        BY <3>2
      <3>3. CASE i = 2
        BY <3>3
      <3>4. CASE i = 3
        BY <3>4
      <3>5. CASE i = 4
        BY <3>5
      <3>6. QED
        BY <3>1, <3>2, <3>3, <3>4, <3>5
    <2>2. <<a, b, c, d, e>> \in Seq(PolicySteps)
          /\ Len(<<a, b, c, d, e>>) = Len(<<b, c, d, e>>) + 1 /\ <<a, b, c, d, e>>[1] = a
      OBVIOUS
    <2>3. QED
      BY ONLY <2>1, <2>2 DEF Prepends
  <1>6. QED
    BY <1>1, <1>2, <1>3, <1>4, <1>5

\* The handler q runs these steps, and persists what it clears.
Runs(q, steps) == Orderly(q) /\ Persisted(q) /\ Range(q) = steps

\* A step that is not the clearing of approvals needs nothing after it to be persisted.
LEMMA OneBefore ==
    ASSUME NEW q, NEW R, Runs(q, R), NEW s \in PolicySteps, s # "keep", Then(s, R),
           NEW p, Prepends(s, q, p)
    PROVE  Runs(p, {s} \cup R)
  <1>1. Orderly(q) /\ Persisted(q) /\ Range(q) = R
    BY DEF Runs
  <1> DEFINE T == {s} \cup R
  <1>2. Orderly(p) /\ Range(p) = T
    BY <1>1, StepBefore
  <1>3. Persisted(p)
    BY <1>1, StepBefore
  <1>4. QED
    BY <1>2, <1>3 DEF Runs

\* The same, with the step in front by concatenation.
LEMMA OneInFront ==
    ASSUME NEW q, NEW R, Runs(q, R), NEW s \in PolicySteps, s # "keep", Then(s, R)
    PROVE  Runs(<<s>> \o q, {s} \cup R)
  <1>1. Prepends(s, q, <<s>> \o q)
    BY Prefixed DEF Runs, Orderly
  <1>2. QED
    BY <1>1, OneBefore

\* The steps of a handler are known steps.
LEMMA KnownSteps ==
    /\ "set value" \in PolicySteps /\ "open doc" \in PolicySteps /\ "write doc" \in PolicySteps
    /\ "note audit" \in PolicySteps /\ "append audit" \in PolicySteps
    /\ "open approvals" \in PolicySteps /\ "write approvals" \in PolicySteps
    /\ "open purges" \in PolicySteps /\ "write purges" \in PolicySteps
    /\ "note purge" \in PolicySteps /\ "append purge" \in PolicySteps
    /\ "use" \in PolicySteps /\ "approve" \in PolicySteps /\ "keep" \in PolicySteps
  BY DEF PolicySteps, FileSteps, DocLeft

\* Short sequences that are written out.
LEMMA ShortSequences ==
    ASSUME NEW S, NEW a \in S, NEW b \in S
    PROVE  /\ <<a>> \in Seq(S) /\ <<a, b>> \in Seq(S) /\ <<a>> \o <<b>> = <<a, b>>
  <1>1. <<a>> \in Seq(S) /\ <<b>> \in Seq(S) /\ <<a, b>> \in Seq(S)
    OBVIOUS
  <1>2. /\ <<a>> \o <<b>> \in Seq(S) /\ Len(<<a>> \o <<b>>) = 2
        /\ \A i \in 1 .. 2 : (<<a>> \o <<b>>)[i] = IF i <= 1 THEN <<a>>[i] ELSE <<b>>[i - 1]
    <2>1. Len(<<a>>) = 1 /\ Len(<<b>>) = 1 /\ 1 + 1 = 2
      OBVIOUS
    <2>2. QED
      BY <1>1, <2>1, ConcatProperties
  <1>3. (<<a>> \o <<b>>)[1] = a /\ (<<a>> \o <<b>>)[2] = b
    <2>1. 1 \in 1 .. 2 /\ 2 \in 1 .. 2 /\ 1 <= 1 /\ ~(2 <= 1) /\ 2 - 1 = 1
      OBVIOUS
    <2>2. <<a>>[1] = a /\ <<b>>[1] = b
      OBVIOUS
    <2>3. QED
      BY <1>2, <2>1, <2>2
  <1>4. \A i \in 1 .. 2 : (<<a>> \o <<b>>)[i] = <<a, b>>[i]
    <2>1. \A i \in 1 .. 2 : i = 1 \/ i = 2
      OBVIOUS
    <2>2. <<a, b>>[1] = a /\ <<a, b>>[2] = b
      OBVIOUS
    <2>3. QED
      BY <1>3, <2>1, <2>2
  <1>5. <<a>> \o <<b>> = <<a, b>>
    <2>1. Len(<<a, b>>) = 2
      OBVIOUS
    <2>2. QED
      BY <1>1, <1>2, <1>4, <2>1, SeqEqual
  <1>6. QED
    BY <1>1, <1>5

\* A handler of one step.
LEMMA LastStep == \A a \in PolicySteps : Prepends(a, <<>>, <<a>>)
  BY DEF Prepends

\* The steps of an update and of writing the purge log.
LEMMA DocParts ==
    /\ Runs(DocSteps, DocLeft)
    /\ Runs(LogPurge, {"note purge", "append purge"})
  <1> DEFINE d1 == <<"append audit">>
             d2 == <<"note audit", "append audit">>
             d3 == <<"write doc", "note audit", "append audit">>
             d4 == <<"open doc", "write doc", "note audit", "append audit">>
             p1 == <<"append purge">>
  <1>1. Runs(<<>>, {})
    BY NothingLeft DEF Runs
  <1>2. /\ Prepends("append audit", <<>>, d1) /\ Prepends("note audit", d1, d2)
        /\ Prepends("write doc", d2, d3) /\ Prepends("open doc", d3, d4)
        /\ Prepends("set value", d4, DocSteps)
        /\ Prepends("append purge", <<>>, p1) /\ Prepends("note purge", p1, LogPurge)
    <2>1. Prepends("append audit", <<>>, d1)
      BY KnownSteps, LastStep
    <2>2. Prepends("note audit", d1, d2)
      BY KnownSteps, WrittenOut
    <2>3. Prepends("write doc", d2, d3)
      BY KnownSteps, WrittenOut
    <2>4. Prepends("open doc", d3, d4)
      BY KnownSteps, WrittenOut
    <2>5. Prepends("set value", d4, DocSteps)
      BY KnownSteps, WrittenOut DEF DocSteps
    <2>6. Prepends("append purge", <<>>, p1)
      BY KnownSteps, LastStep
    <2>7. Prepends("note purge", p1, LogPurge)
      BY KnownSteps, WrittenOut DEF LogPurge
    <2>8. QED
      BY <2>1, <2>2, <2>3, <2>4, <2>5, <2>6, <2>7
  <1> HIDE DEF d1, d2, d3, d4, p1
  <1>3. Runs(d1, {"append audit"} \cup {})
    BY <1>1, <1>2, KnownSteps, OneBefore DEF Then
  <1>4. Runs(d2, {"note audit"} \cup {"append audit"})
    <2>1. Runs(d1, {"append audit"})
      BY <1>3
    <2>2. Then("note audit", {"append audit"})
      BY DEF Then
    <2>3. QED
      BY <1>2, <2>1, <2>2, KnownSteps, OneBefore
  <1>5. Runs(d3, {"write doc"} \cup {"note audit", "append audit"})
    <2>1. Runs(d2, {"note audit", "append audit"})
      <3>1. {"note audit"} \cup {"append audit"} = {"note audit", "append audit"}
        OBVIOUS
      <3>2. QED
        BY <1>4, <3>1
    <2>2. Then("write doc", {"note audit", "append audit"})
      BY DEF Then
    <2>3. QED
      BY <1>2, <2>1, <2>2, KnownSteps, OneBefore
  <1>6. Runs(d4, {"open doc"} \cup {"write doc", "note audit", "append audit"})
    <2>1. Runs(d3, {"write doc", "note audit", "append audit"})
      <3>1. {"write doc"} \cup {"note audit", "append audit"} = {"write doc", "note audit", "append audit"}
        OBVIOUS
      <3>2. QED
        BY <1>5, <3>1
    <2>2. Then("open doc", {"write doc", "note audit", "append audit"})
      BY DEF Then
    <2>3. QED
      BY <1>2, <2>1, <2>2, KnownSteps, OneBefore
  <1>7. Runs(DocSteps, DocLeft)
    <2>1. Runs(d4, {"open doc", "write doc", "note audit", "append audit"})
      <3>1. {"open doc"} \cup {"write doc", "note audit", "append audit"}
              = {"open doc", "write doc", "note audit", "append audit"}
        OBVIOUS
      <3>2. QED
        BY <1>6, <3>1
    <2>2. Then("set value", {"open doc", "write doc", "note audit", "append audit"})
      BY DEF Then
    <2>3. Runs(DocSteps, {"set value"} \cup {"open doc", "write doc", "note audit", "append audit"})
      BY <1>2, <2>1, <2>2, KnownSteps, OneBefore
    <2>4. {"set value"} \cup {"open doc", "write doc", "note audit", "append audit"} = DocLeft
      BY DEF DocLeft
    <2>5. QED
      BY <2>3, <2>4
  <1>8. Runs(LogPurge, {"note purge"} \cup {"append purge"})
    <2>1. Runs(p1, {"append purge"} \cup {})
      BY <1>1, <1>2, KnownSteps, OneBefore DEF Then
    <2>2. Runs(p1, {"append purge"})
      BY <2>1
    <2>3. Then("note purge", {"append purge"})
      BY DEF Then
    <2>4. QED
      BY <1>2, <2>2, <2>3, KnownSteps, OneBefore
  <1>9. {"note purge"} \cup {"append purge"} = {"note purge", "append purge"}
    OBVIOUS
  <1>10. QED
    BY <1>7, <1>8, <1>9

\* Writing the approvals before the rest of a handler.
LEMMA WritesBefore ==
    ASSUME NEW q, NEW R, Runs(q, R)
    PROVE  Runs(PersistApprovals \o q, {"open approvals", "write approvals"} \cup R)
  <1> DEFINE w == <<"write approvals">> \o q
             a == <<"open approvals">>
             b == <<"write approvals">>
  <1>1. q \in Seq(PolicySteps) /\ a \in Seq(PolicySteps) /\ b \in Seq(PolicySteps)
    BY KnownSteps, ShortSequences DEF Runs, Orderly
  <1>2. Runs(w, {"write approvals"} \cup R)
    <2>1. Then("write approvals", R)
      BY DEF Then
    <2>2. QED
      BY <2>1, KnownSteps, OneInFront
  <1>3. Then("open approvals", {"write approvals"} \cup R)
    BY DEF Then
  <1> HIDE DEF w
  <1>4. Runs(a \o w, {"open approvals"} \cup ({"write approvals"} \cup R))
    BY <1>2, <1>3, KnownSteps, OneInFront
  <1>5. {"open approvals"} \cup ({"write approvals"} \cup R) = {"open approvals", "write approvals"} \cup R
    OBVIOUS
  <1>6. PersistApprovals = a \o b
    BY KnownSteps, ShortSequences DEF PersistApprovals
  <1> HIDE DEF a, b
  <1>7. PersistApprovals \o q = a \o w
    <2>1. (a \o b) \o q = a \o (b \o q)
      BY <1>1, ConcatAssociative
    <2>2. QED
      BY <1>6, <2>1 DEF w, b
  <1>8. QED
    BY <1>4, <1>5, <1>7

\* Writing them only if something has changed.
LEMMA WritesIfBefore ==
    ASSUME NEW q, NEW R, Runs(q, R), NEW changed \in BOOLEAN
    PROVE  Runs(PersistIf(changed) \o q,
                (IF changed THEN {"open approvals", "write approvals"} ELSE {}) \cup R)
  <1>1. CASE changed
    BY <1>1, WritesBefore DEF PersistIf
  <1>2. CASE ~changed
    <2>1. q \in Seq(PolicySteps)
      BY DEF Runs, Orderly
    <2>2. <<>> \o q = q
      BY <2>1, ConcatEmptySeq
    <2>3. {} \cup R = R
      OBVIOUS
    <2>4. QED
      BY <1>2, <2>2, <2>3 DEF PersistIf
  <1>3. QED
    BY <1>1, <1>2

\* Writing the approvals is all there is left.
LEMMA OnlyWrites ==
    /\ Runs(PersistApprovals, {"open approvals", "write approvals"})
    /\ \A changed \in BOOLEAN :
         Runs(PersistIf(changed), IF changed THEN {"open approvals", "write approvals"} ELSE {})
  <1>1. Runs(<<>>, {})
    BY NothingLeft DEF Runs
  <1>2. PersistApprovals \in Seq(PolicySteps)
    BY KnownSteps, ShortSequences DEF PersistApprovals
  <1>3. PersistApprovals \o <<>> = PersistApprovals
    BY <1>2, ConcatEmptySeq
  <1>4. Runs(PersistApprovals \o <<>>, {"open approvals", "write approvals"} \cup {})
    BY <1>1, WritesBefore
  <1>5. {"open approvals", "write approvals"} \cup {} = {"open approvals", "write approvals"}
    OBVIOUS
  <1>6. Runs(PersistApprovals, {"open approvals", "write approvals"})
    BY <1>3, <1>4, <1>5
  <1>7. QED
    BY <1>1, <1>6 DEF PersistIf

\* A rollback that uses an approval.
LEMMA RollbackParts ==
    ASSUME NEW changed \in BOOLEAN
    PROVE  Runs(PersistIf(changed) \o ConsumeThenApply,
                {"use", "open approvals", "write approvals"} \cup DocLeft)
  <1> DEFINE W == {"open approvals", "write approvals"}
             rest == PersistApprovals \o DocSteps
  <1>1. Runs(rest, W \cup DocLeft)
    BY DocParts, WritesBefore
  <1>2. Then("use", W \cup DocLeft)
    BY DEF Then, DocLeft
  <1> HIDE DEF rest, W
  <1>3. Runs(<<"use">> \o rest, {"use"} \cup (W \cup DocLeft))
    BY <1>1, <1>2, KnownSteps, OneInFront
  <1>4. ConsumeThenApply = <<"use">> \o rest
    <2>1. /\ <<"use">> \in Seq(PolicySteps) /\ PersistApprovals \in Seq(PolicySteps)
          /\ DocSteps \in Seq(PolicySteps)
      BY KnownSteps, ShortSequences, OnlyWrites, DocParts DEF Runs, Orderly
    <2>2. (<<"use">> \o PersistApprovals) \o DocSteps = <<"use">> \o (PersistApprovals \o DocSteps)
      BY <2>1, ConcatAssociative
    <2>3. QED
      BY <2>2 DEF ConsumeThenApply, rest
  <1>5. Runs(PersistIf(changed) \o ConsumeThenApply,
             (IF changed THEN {"open approvals", "write approvals"} ELSE {})
               \cup ({"use"} \cup (W \cup DocLeft)))
    BY <1>3, <1>4, WritesIfBefore
  <1>6. (IF changed THEN {"open approvals", "write approvals"} ELSE {}) \cup ({"use"} \cup (W \cup DocLeft))
          = {"use", "open approvals", "write approvals"} \cup DocLeft
    BY DEF W
  <1>7. QED
    BY <1>5, <1>6

\* The approval of a rollback.
LEMMA ApproveParts ==
    ASSUME NEW changed \in BOOLEAN
    PROVE  Runs((PersistIf(changed) \o <<"approve">>) \o PersistApprovals,
                {"approve", "open approvals", "write approvals"})
  <1> DEFINE W == {"open approvals", "write approvals"}
             rest == <<"approve">> \o PersistApprovals
  <1>1. Then("approve", W)
    BY DEF Then
  <1>2. Runs(rest, {"approve"} \cup W)
    BY <1>1, OnlyWrites, KnownSteps, OneInFront
  <1>3. /\ PersistIf(changed) \in Seq(PolicySteps) /\ <<"approve">> \in Seq(PolicySteps)
        /\ PersistApprovals \in Seq(PolicySteps)
    BY OnlyWrites, KnownSteps, ShortSequences DEF Runs, Orderly
  <1>4. (PersistIf(changed) \o <<"approve">>) \o PersistApprovals = PersistIf(changed) \o rest
    BY <1>3, ConcatAssociative
  <1> HIDE DEF rest
  <1>5. Runs(PersistIf(changed) \o rest,
             (IF changed THEN {"open approvals", "write approvals"} ELSE {}) \cup ({"approve"} \cup W))
    BY <1>2, WritesIfBefore
  <1>6. (IF changed THEN {"open approvals", "write approvals"} ELSE {}) \cup ({"approve"} \cup W)
          = {"approve", "open approvals", "write approvals"}
    OBVIOUS
  <1>7. QED
    BY <1>4, <1>5, <1>6

\* The handler q takes these steps.
Takes(q, steps) == Orderly(q) /\ Range(q) = steps

\* Any step in front of a handler.
LEMMA AnyBefore ==
    ASSUME NEW q, NEW R, Takes(q, R), NEW s \in PolicySteps, Then(s, R),
           NEW p, Prepends(s, q, p)
    PROVE  Takes(p, {s} \cup R)
  <1> DEFINE T == {s} \cup R
  <1>1. Orderly(q) /\ Range(q) = R
    BY DEF Takes
  <1>2. Orderly(p) /\ Range(p) = T
    BY <1>1, StepBefore
  <1>3. QED
    BY <1>2 DEF Takes

\* A step in front of a handler that persists what it clears.
LEMMA PersistedBefore ==
    ASSUME NEW q, NEW R, Takes(q, R), Persisted(q), NEW s \in PolicySteps, Then(s, R),
           s = "keep" => "write approvals" \in R, NEW p, Prepends(s, q, p)
    PROVE  Persisted(p)
  <1> DEFINE T == {s} \cup R
  <1>1. Orderly(q) /\ Range(q) = R
    BY DEF Takes
  <1>2. Persisted(p)
    BY <1>1, StepBefore
  <1>3. QED
    BY <1>2

\* A purge of approvals: what it removes is persisted if it removes anything.
LEMMA PurgeParts ==
    ASSUME NEW changed \in BOOLEAN, NEW some \in BOOLEAN,
           NEW p, p = ((PersistIf(changed) \o <<"keep">>) \o PersistIf(some)) \o LogPurge
    PROVE  /\ Orderly(p) /\ (some => Persisted(p))
           /\ Range(p) = (IF changed \/ some THEN {"open approvals", "write approvals"} ELSE {})
                           \cup {"keep", "note purge", "append purge"}
  <1> DEFINE log == {"note purge", "append purge"}
             later == (IF some THEN {"open approvals", "write approvals"} ELSE {}) \cup log
             rest == PersistIf(some) \o LogPurge
             kept == <<"keep">> \o rest
  <1>1. Runs(rest, later)
    BY DocParts, WritesIfBefore
  <1>2. /\ PersistIf(changed) \in Seq(PolicySteps) /\ PersistIf(some) \in Seq(PolicySteps)
        /\ <<"keep">> \in Seq(PolicySteps) /\ LogPurge \in Seq(PolicySteps)
    BY OnlyWrites, DocParts, KnownSteps, ShortSequences DEF Runs, Orderly
  <1>3. p = PersistIf(changed) \o kept
    <2>1. /\ (PersistIf(changed) \o <<"keep">>) \in Seq(PolicySteps)
      BY <1>2, ConcatProperties
    <2>2. p = (PersistIf(changed) \o <<"keep">>) \o rest
      BY <1>2, <2>1, ConcatAssociative
    <2>3. rest \in Seq(PolicySteps)
      BY <1>1 DEF Runs, Orderly
    <2> HIDE DEF rest
    <2>4. (PersistIf(changed) \o <<"keep">>) \o rest = PersistIf(changed) \o (<<"keep">> \o rest)
      BY <1>2, <2>3, ConcatAssociative
    <2>5. QED
      BY <2>2, <2>4 DEF kept
  <1>4. Then("keep", later)
    <2>1. CASE some
      <3>1. later = {"open approvals", "write approvals", "note purge", "append purge"}
        BY <2>1
      <3>2. QED
        BY <3>1 DEF Then
    <2>2. CASE ~some
      <3>1. later = {"note purge", "append purge"}
        BY <2>2
      <3>2. QED
        BY <3>1 DEF Then
    <2>3. QED
      BY <2>1, <2>2
  <1>5. Prepends("keep", rest, kept)
    BY <1>1, KnownSteps, Prefixed DEF Runs, Orderly
  <1>6. some => "write approvals" \in later
    OBVIOUS
  <1> HIDE DEF rest, kept, later
  <1>7. Takes(rest, later) /\ Persisted(rest)
    BY <1>1 DEF Runs, Takes
  <1> DEFINE T == {"keep"} \cup later
  <1>8. Takes(kept, T)
    BY <1>4, <1>5, <1>7, KnownSteps, AnyBefore
  <1>9. some => Persisted(kept)
    BY <1>4, <1>5, <1>6, <1>7, KnownSteps, PersistedBefore
  <1>10. T = (IF some THEN {"open approvals", "write approvals"} ELSE {})
                \cup {"keep", "note purge", "append purge"}
    BY DEF later
  <1> HIDE DEF T
  <1>11. CASE ~changed
    <2>1. p = kept
      <3>1. kept \in Seq(PolicySteps)
        BY <1>8 DEF Takes, Orderly
      <3>2. QED
        BY <1>3, <1>11, <3>1, ConcatEmptySeq DEF PersistIf
    <2>2. QED
      BY <1>8, <1>9, <1>10, <1>11, <2>1 DEF Takes
  <1>12. CASE changed
    <2> DEFINE w == <<"write approvals">> \o kept
               a == <<"open approvals">>
               b == <<"write approvals">>
               W == {"write approvals"} \cup T
               O == {"open approvals"} \cup W
    <2>1. kept \in Seq(PolicySteps) /\ a \in Seq(PolicySteps) /\ b \in Seq(PolicySteps)
      BY <1>8, KnownSteps, ShortSequences DEF Takes, Orderly
    <2>2. p = a \o w
      <3>1. PersistIf(changed) = a \o b
        BY <1>12, KnownSteps, ShortSequences DEF PersistIf, PersistApprovals
      <3> HIDE DEF a, b
      <3>2. (a \o b) \o kept = a \o (b \o kept)
        BY <2>1, ConcatAssociative
      <3>3. QED
        BY <1>3, <3>1, <3>2 DEF w, b
    <2>3. Prepends("write approvals", kept, w)
      BY <2>1, KnownSteps, Prefixed
    <2>4. Then("write approvals", T) /\ Then("open approvals", W)
      BY DEF Then
    <2>5. Takes(w, W)
      BY <1>8, <2>3, <2>4, KnownSteps, AnyBefore
    <2>6. Persisted(kept) => Persisted(w)
      BY <1>8, <2>3, <2>4, KnownSteps, PersistedBefore
    <2> HIDE DEF w, W
    <2>7. Prepends("open approvals", w, a \o w)
      BY <2>5, KnownSteps, Prefixed DEF Takes, Orderly
    <2>8. Takes(p, O)
      BY <2>2, <2>4, <2>5, <2>7, KnownSteps, AnyBefore
    <2>9. Persisted(w) => Persisted(p)
      BY <2>2, <2>4, <2>5, <2>7, KnownSteps, PersistedBefore
    <2>10. O = {"open approvals", "write approvals"} \cup {"keep", "note purge", "append purge"}
      BY <1>10 DEF W
    <2>11. QED
      BY <1>9, <1>12, <2>6, <2>8, <2>9, <2>10 DEF Takes
  <1>13. QED
    BY <1>11, <1>12

\* A purge of the purge log.
LEMMA LogParts ==
    Runs(<<"open purges", "write purges">> \o LogPurge,
         {"open purges", "write purges", "note purge", "append purge"})
  <1> DEFINE a == <<"open purges">>
             b == <<"write purges">>
             log == {"note purge", "append purge"}
             w == <<"write purges">> \o LogPurge
  <1>1. a \in Seq(PolicySteps) /\ b \in Seq(PolicySteps) /\ LogPurge \in Seq(PolicySteps)
    BY DocParts, KnownSteps, ShortSequences DEF Runs, Orderly
  <1>2. <<"open purges", "write purges">> = a \o b
    BY KnownSteps, ShortSequences
  <1>3. Then("write purges", log)
    BY DEF Then
  <1>4. Runs(w, {"write purges"} \cup log)
    BY <1>3, DocParts, KnownSteps, OneInFront
  <1>5. {"write purges"} \cup log = {"write purges", "note purge", "append purge"}
    OBVIOUS
  <1>6. Then("open purges", {"write purges", "note purge", "append purge"})
    BY DEF Then
  <1> HIDE DEF w
  <1>7. Runs(a \o w, {"open purges"} \cup {"write purges", "note purge", "append purge"})
    BY <1>4, <1>5, <1>6, KnownSteps, OneInFront
  <1>8. (a \o b) \o LogPurge = a \o w
    <2> HIDE DEF a, b
    <2>1. (a \o b) \o LogPurge = a \o (b \o LogPurge)
      BY <1>1, ConcatAssociative
    <2>2. QED
      BY <2>1 DEF w, b
  <1>9. {"open purges"} \cup {"write purges", "note purge", "append purge"}
          = {"open purges", "write purges", "note purge", "append purge"}
    OBVIOUS
  <1>10. QED
    BY <1>2, <1>7, <1>8, <1>9

-----------------------------------------------------------------------------
(* The alert policy store: the invariant                                   *)

\* The steps that are left of the running handler.
Left == Range(todo)

\* What a step needs of what the handler works on.
WorkFits ==
    /\ Orderly(todo)
    /\ "append audit" \in Left =>
         /\ work.doc \in Docs /\ work.entry \in Entry
         /\ work.entry.key \in Keys \/ work.entry.from # None => work.doc = "policy"
         /\ work.entry.approval # None => work.entry.from # None
    /\ "use" \in Left => work.entry.approval \in ApprovalIds
    /\ "approve" \in Left =>
         work.approval \in ApprovalIds /\ approvals[work.approval].status = "pending"
    /\ "keep" \in Left =>
         /\ work.keep \in Approvals /\ \A a \in ApprovalIds : work.keep[a] \in {approvals[a], Absent}
         /\ Persisted(todo) \/ work.keep = approvals
    /\ "append purge" \in Left => issued.purges \in 1..MaxPurges

Numbers ==
    /\ issued \in [audits : 0..MaxAudits, approvals : 0..MaxApprovals, purges : 0..MaxPurges]
    /\ policyFaults \in Nat /\ policyCrashes \in Nat

\* The value of a document is what its file and the last of its audit entries say.
Settled(d) ==
    /\ file[d] = value[d]
    /\ LastPolicy(audits[d]) = value[d] /\ LastPolicy(auditFile[d]) = value[d]

\* Every document is settled, but the one whose update is going on and those whose last
\* update was cut short.
DocsSound ==
    \A d \in Docs :
        IF "append audit" \in Left /\ "set value" \notin Left /\ work.doc = d
        THEN /\ value[d] = work.entry.policy
             /\ "write doc" \notin Left => file[d] = value[d]
             /\ "note audit" \notin Left => audits[d] # <<>> /\ Last(audits[d]) = work.entry
        ELSE d \notin cut => Settled(d)

\* The file of approvals shows what memory shows, but for what expired in a dry run.
FileShows(a) ==
    \/ approvalFile[a] = approvals[a]
    \/ approvals[a].status = "expired" /\ a \in due
       /\ approvalFile[a].status \in {"pending", "approved"}

\* As long as no write failed, what is to be written has a step that writes it.
FilesFollow ==
    policyFaults = 0 =>
      /\ "write approvals" \notin Left => \A a \in ApprovalIds : FileShows(a)
      /\ "write purges" \notin Left =>
           IF "append purge" \in Left /\ "note purge" \notin Left
           THEN purges = Append(purgeFile, issued.purges) ELSE purgeFile = purges

\* No version of an approval that was used can be used again, and all versions are bound
\* to the same audit.
ApprovalsSound ==
    \A a \in ApprovalIds :
        /\ uses[a] <= 1
        /\ uses[a] = 1 => {approvals[a].status, approvalFile[a].status} \subseteq {"used", "none"}
        /\ approvals[a] # Absent /\ approvalFile[a] # Absent =>
             approvals[a].audit = approvalFile[a].audit
        /\ a > issued.approvals =>
             approvals[a] = Absent /\ approvalFile[a] = Absent /\ uses[a] = 0

\* The approval that the running rollback uses.
GrantSound ==
    "append audit" \in Left /\ work.entry.approval # None =>
      LET a == work.entry.approval IN
      /\ approvals[a].audit = work.entry.from
      /\ approvals[a].status = IF "use" \in Left THEN "approved" ELSE "used"
      /\ uses[a] = IF "set value" \in Left THEN 0 ELSE 1
      /\ "use" \notin Left /\ "write approvals" \notin Left => approvalFile[a] = approvals[a]

\* An audited rollback has the approval it needs, which is used up.
EntrySound(e) ==
    /\ approvalRequired /\ e.from # None => e.approval # None
    /\ e.approval # None =>
         /\ uses[e.approval] = 1
         /\ approvals[e.approval] # Absent => approvals[e.approval].audit = e.from
         /\ approvalFile[e.approval] # Absent => approvalFile[e.approval].audit = e.from

\* What the audit file says is known in memory.
AuditsSound ==
    /\ \A i \in DOMAIN auditFile["policy"] :
         /\ EntrySound(auditFile["policy"][i])
         /\ \E j \in DOMAIN audits["policy"] : audits["policy"][j] = auditFile["policy"][i]
    /\ "append audit" \in Left /\ approvalRequired /\ work.entry.from # None =>
         work.entry.approval # None

Recorded(k) == \E i \in DOMAIN auditFile["policy"] : auditFile["policy"][i].key = k
Applying(k) == "append audit" \in Left /\ "set value" \notin Left /\ work.entry.key = k

\* A key was applied once for every time that it was lost, and once if it is recorded or
\* about to be.
KeysSound ==
    /\ \A k \in Keys : applied[k] <= lost[k] + (IF Recorded(k) \/ Applying(k) THEN 1 ELSE 0)
    /\ "set value" \in Left /\ work.entry.key \in Keys => ~Recorded(work.entry.key)

PolicyInv ==
    /\ PolicyTypeOK /\ Numbers /\ WorkFits
    /\ DocsSound /\ FilesFollow /\ ApprovalsSound /\ GrantSound /\ AuditsSound /\ KeysSound

\* What a step leaves.
LEMMA StepTaken ==
    ASSUME WorkFits, NEW s, Does(s)
    PROVE  /\ s \in PolicySteps /\ Left = {s} \cup Left' /\ Then(s, Left') /\ Orderly(todo')
           /\ Persisted(todo) => Persisted(todo')
           /\ s = "keep" /\ Persisted(todo) => "write approvals" \in Left'
  <1>1. Orderly(todo) /\ todo # <<>> /\ Head(todo) = s /\ todo' = Tail(todo)
    BY DEF WorkFits, Does
  <1>2. Head(todo) \in PolicySteps /\ Orderly(Tail(todo))
    BY <1>1, FirstStep
  <1>3. Range(todo) = {Head(todo)} \cup Range(Tail(todo))
    BY <1>1, FirstStep
  <1>4. Then(Head(todo), Range(Tail(todo)))
    BY <1>1, FirstStep
  <1>5. Persisted(todo) => Persisted(Tail(todo))
    BY <1>1, FirstStep
  <1>6. Persisted(todo) /\ Head(todo) = "keep" => "write approvals" \in Range(Tail(todo))
    BY <1>1, FirstStep
  <1>7. Left = Range(todo) /\ Left' = Range(Tail(todo))
    BY <1>1 DEF Left
  <1>8. QED
    BY <1>1, <1>2, <1>3, <1>4, <1>5, <1>6, <1>7

\* When no handler runs, no step is left.
LEMMA Resting == todo = <<>> => Left = {}
  BY NothingLeft DEF Left

\* Counting.
LEMMA CountType ==
    ASSUME NEW S, NEW f \in [S -> Nat], NEW k
    PROVE  /\ Count(f, k) \in [S -> Nat]
           /\ \A j \in S : Count(f, k)[j] = IF j = k THEN f[j] + 1 ELSE f[j]
  BY DEF Count

\* The types, for citing.
LEMMA PolicyTypes ==
    ASSUME PolicyInv
    PROVE  /\ "policy" \in Docs /\ auditFile["policy"] \in Seq(Entry) /\ audits["policy"] \in Seq(Entry)
           /\ value \in [Docs -> Policies] /\ file \in [Docs -> Policies \cup {Torn}]
           /\ audits \in [Docs -> Seq(Entry)] /\ auditFile \in [Docs -> Seq(Entry)]
           /\ approvals \in Approvals /\ approvalFile \in Approvals
           /\ purges \in Seq(1..MaxPurges) /\ purgeFile \in Seq(1..MaxPurges)
           /\ uses \in [ApprovalIds -> Nat] /\ applied \in [Keys -> Nat] /\ lost \in [Keys -> Nat]
  BY PolicyAssumption DEF PolicyInv, PolicyTypeOK

\* Steps that are about other things leave the documents as they are.
LEMMA DocsKept ==
    ASSUME DocsSound, UNCHANGED <<value, file, audits, auditFile, cut, work>>,
           \A s \in DocLeft : s \in Left' <=> s \in Left
    PROVE  DocsSound'
  BY DEF DocsSound, DocLeft, Settled

\* They leave the keys as they are.
LEMMA KeysKept ==
    ASSUME KeysSound, UNCHANGED <<auditFile, applied, lost, work>>,
           \A s \in DocLeft : s \in Left' <=> s \in Left
    PROVE  KeysSound'
  <1>1. \A k : Recorded(k)' <=> Recorded(k)
    BY DEF Recorded
  <1>2. \A k : Applying(k)' <=> Applying(k)
    BY DEF Applying, DocLeft
  <1>3. QED
    BY <1>1, <1>2 DEF KeysSound, DocLeft

\* Steps on documents leave the other files as they are.
LEMMA FilesKept ==
    ASSUME FilesFollow,
           UNCHANGED <<approvals, approvalFile, due, purges, purgeFile, issued, policyFaults>>,
           \A s \in {"write approvals", "write purges", "append purge", "note purge"} :
              s \in Left' <=> s \in Left
    PROVE  FilesFollow'
  BY DEF FilesFollow, FileShows

\* What the audit file says of approvals does not depend on what is going on.
LEMMA AuditsKept ==
    ASSUME AuditsSound, UNCHANGED <<auditFile, audits, approvalRequired, approvals, approvalFile, uses, work>>,
           "append audit" \in Left' => "append audit" \in Left
    PROVE  AuditsSound'
  BY DEF AuditsSound, EntrySound

\* Nor do the approvals.
LEMMA ApprovalsKept ==
    ASSUME ApprovalsSound, UNCHANGED <<approvals, approvalFile, uses>>,
           issued'.approvals = issued.approvals
    PROVE  ApprovalsSound'
  BY DEF ApprovalsSound

\* The rollback under way has its approval while other steps are taken.
LEMMA GrantKept ==
    ASSUME GrantSound, UNCHANGED <<approvals, approvalFile, uses, work>>,
           \A s \in {"append audit", "set value", "use", "write approvals"} : s \in Left' <=> s \in Left
    PROVE  GrantSound'
  BY DEF GrantSound

\* A handler works on the same while it runs.
LEMMA WorkKept ==
    ASSUME WorkFits, NEW s, Does(s), UNCHANGED <<work, issued, approvals>>, s # "keep"
    PROVE  WorkFits'
  <1>1. Left = {s} \cup Left' /\ Orderly(todo') /\ (Persisted(todo) => Persisted(todo'))
    BY StepTaken
  <1>2. QED
    BY <1>1 DEF WorkFits

\* A new value is one use of its approval and one application of its key.
LEMMA SetValueInv ==
    ASSUME PolicyInv, SetValue
    PROVE  PolicyInv'
  <1> DEFINE d == work.doc
             e == work.entry
  <1>1. /\ Does("set value") /\ value' = [value EXCEPT ![d] = e.policy]
        /\ uses' = Count(uses, e.approval) /\ applied' = Count(applied, e.key)
        /\ UNCHANGED <<file, audits, auditFile, approvals, approvalFile, approvalRequired, due,
                       purges, purgeFile, work, issued, lost, cut, policyFaults, policyCrashes>>
    BY DEF SetValue, approvalVars, purgeVars, faults
  <1>2. /\ Left = {"set value"} \cup Left'
        /\ Left' = {"open doc", "write doc", "note audit", "append audit"}
    BY <1>1, StepTaken DEF PolicyInv, Then
  <1>3. WorkFits /\ GrantSound /\ ApprovalsSound /\ KeysSound /\ AuditsSound /\ DocsSound
    BY DEF PolicyInv
  <1>4. d \in Docs /\ e \in Entry
    BY <1>2, <1>3 DEF WorkFits
  <1>5. WorkFits'
    BY <1>1, <1>3, WorkKept
  <1>6. /\ uses' \in [ApprovalIds -> Nat]
        /\ \A a \in ApprovalIds : uses'[a] = IF a = e.approval THEN uses[a] + 1 ELSE uses[a]
    <2>1. uses \in [ApprovalIds -> Nat]
      BY PolicyTypes
    <2> HIDE DEF e
    <2>2. /\ Count(uses, e.approval) \in [ApprovalIds -> Nat]
          /\ \A a \in ApprovalIds :
               Count(uses, e.approval)[a] = IF a = e.approval THEN uses[a] + 1 ELSE uses[a]
      BY <2>1, CountType
    <2>3. QED
      BY <1>1, <2>2
  <1>7. /\ applied' \in [Keys -> Nat]
        /\ \A k \in Keys : applied'[k] = IF k = e.key THEN applied[k] + 1 ELSE applied[k]
    <2>1. applied \in [Keys -> Nat]
      BY PolicyTypes
    <2> HIDE DEF e
    <2>2. /\ Count(applied, e.key) \in [Keys -> Nat]
          /\ \A k \in Keys : Count(applied, e.key)[k] = IF k = e.key THEN applied[k] + 1 ELSE applied[k]
      BY <2>1, CountType
    <2>3. QED
      BY <1>1, <2>2
  <1>8. value' \in [Docs -> Policies] /\ value'[d] = e.policy
        /\ \A other \in Docs \ {d} : value'[other] = value[other]
    BY <1>1, <1>4, PolicyTypes DEF Entry
  <1>9. PolicyTypeOK' /\ Numbers'
    BY <1>1, <1>6, <1>7, <1>8 DEF PolicyInv, PolicyTypeOK, Numbers
  <1>10. DocsSound'
    BY <1>1, <1>2, <1>3, <1>8 DEF DocsSound, Settled
  <1>11. FilesFollow'
    BY <1>1, <1>2, FilesKept DEF PolicyInv
  <1>12. e.approval # None =>
           /\ e.approval \in ApprovalIds /\ approvals[e.approval].status = "used"
           /\ uses[e.approval] = 0 /\ approvalFile[e.approval] = approvals[e.approval]
    BY <1>2, <1>3, <1>4 DEF GrantSound, Entry
  <1>13. ApprovalsSound'
    <2>1. ASSUME NEW a \in ApprovalIds
          PROVE  /\ uses'[a] <= 1
                 /\ uses'[a] = 1 => {approvals[a].status, approvalFile[a].status} \subseteq {"used", "none"}
                 /\ a > issued.approvals => uses'[a] = 0
      <3>1. CASE a = e.approval
        <4>1. a # None
          BY DEF ApprovalIds, None
        <4>2. approvals[a] # Absent
          BY <1>12, <3>1, <4>1 DEF Absent
        <4>3. QED
          BY <1>3, <1>6, <1>12, <3>1, <4>1, <4>2 DEF ApprovalsSound
      <3>2. CASE a # e.approval
        BY <1>3, <1>6, <3>2 DEF ApprovalsSound
      <3>3. QED
        BY <3>1, <3>2
    <2>2. QED
      BY <1>1, <1>3, <2>1 DEF ApprovalsSound
  <1>14. GrantSound'
    <2>1. e.approval # None =>
            /\ approvals[e.approval].audit = e.from /\ approvals[e.approval].status = "used"
            /\ uses'[e.approval] = 1 /\ approvalFile[e.approval] = approvals[e.approval]
      <3>1. e.approval # None => approvals[e.approval].audit = e.from
        BY <1>2, <1>3 DEF GrantSound
      <3>2. e.approval # None => uses'[e.approval] = uses[e.approval] + 1
        BY <1>6, <1>12
      <3>3. QED
        BY <1>12, <3>1, <3>2
    <2>2. "use" \notin Left' /\ "set value" \notin Left'
      BY <1>2
    <2>3. QED
      BY <1>1, <2>1, <2>2 DEF GrantSound
  <1>15. AuditsSound'
    <2>1. ASSUME NEW i \in DOMAIN auditFile["policy"] PROVE EntrySound(auditFile["policy"][i])'
      <3> DEFINE r == auditFile["policy"][i]
      <3>1. r \in Entry /\ EntrySound(r)
        <4>1. auditFile["policy"] \in Seq(Entry)
          BY PolicyTypes
        <4>2. r \in Entry
          BY <2>1, <4>1, ElementOfSeq
        <4>3. QED
          BY <1>3, <2>1, <4>2 DEF AuditsSound
      <3>2. r.approval # None => r.approval \in ApprovalIds /\ uses[r.approval] = 1
        BY <3>1 DEF EntrySound, Entry
      <3>3. r.approval # None => uses'[r.approval] = 1
        BY <1>6, <1>12, <3>2
      <3>4. QED
        BY <1>1, <3>1, <3>3 DEF EntrySound
    <2>2. QED
      BY <1>1, <1>2, <1>3, <2>1 DEF AuditsSound
  <1>16. KeysSound'
    <2>1. ASSUME NEW k \in Keys
          PROVE  applied'[k] <= lost'[k] + (IF Recorded(k)' \/ Applying(k)' THEN 1 ELSE 0)
      <3>1. (Recorded(k)' <=> Recorded(k)) /\ ~Applying(k) /\ (Applying(k)' <=> k = e.key)
        BY <1>1, <1>2 DEF Recorded, Applying
      <3>2. applied[k] <= lost[k] + (IF Recorded(k) THEN 1 ELSE 0)
        BY <1>3, <3>1 DEF KeysSound
      <3>3. k = e.key => ~Recorded(k)
        BY <1>2, <1>3 DEF KeysSound
      <3>4. applied[k] \in Nat /\ lost[k] \in Nat /\ lost'[k] = lost[k]
        BY <1>1, PolicyTypes
      <3>5. CASE k = e.key
        BY <1>7, <3>1, <3>2, <3>3, <3>4, <3>5
      <3>6. CASE k # e.key
        BY <1>7, <3>1, <3>2, <3>4, <3>6
      <3>7. QED
        BY <3>5, <3>6
    <2>2. QED
      BY <1>2, <2>1 DEF KeysSound
  <1>17. QED
    BY <1>5, <1>9, <1>10, <1>11, <1>13, <1>14, <1>15, <1>16 DEF PolicyInv

\* The file of the document is truncated, then it has the value.
LEMMA WriteDocInv ==
    ASSUME PolicyInv, WriteDoc
    PROVE  PolicyInv'
  <1> DEFINE d == work.doc
  <1>1. UNCHANGED <<value, audits, auditFile, approvals, approvalFile, approvalRequired, due,
                    purges, purgeFile, work, issued, uses, applied, lost, cut, policyFaults, policyCrashes>>
    BY DEF WriteDoc, approvalVars, purgeVars, history, faults
  <1>2. PICK s \in {"open doc", "write doc"} :
          Does(s) /\ file' = [file EXCEPT ![d] = IF s = "open doc" THEN Torn ELSE value[d]]
    BY DEF WriteDoc
  <1>3. /\ Left = {s} \cup Left'
        /\ Left' = IF s = "open doc" THEN {"write doc", "note audit", "append audit"}
                                     ELSE {"note audit", "append audit"}
    BY <1>2, StepTaken DEF PolicyInv, Then
  <1>4. WorkFits /\ DocsSound
    BY DEF PolicyInv
  <1>5. d \in Docs
    BY <1>3, <1>4 DEF WorkFits
  <1>6. WorkFits'
    BY <1>1, <1>2, <1>4, WorkKept
  <1>7. /\ file' \in [Docs -> Policies \cup {Torn}] /\ \A other \in Docs \ {d} : file'[other] = file[other]
        /\ s = "write doc" => file'[d] = value[d]
    BY <1>2, <1>5, PolicyTypes
  <1>8. PolicyTypeOK' /\ Numbers'
    BY <1>1, <1>7 DEF PolicyInv, PolicyTypeOK, Numbers
  <1>9. DocsSound'
    BY <1>1, <1>3, <1>4, <1>7 DEF DocsSound, Settled
  <1>10. FilesFollow'
    BY <1>1, <1>3, FilesKept DEF PolicyInv
  <1>11. ApprovalsSound' /\ GrantSound' /\ AuditsSound'
    BY <1>1, <1>3, ApprovalsKept, GrantKept, AuditsKept DEF PolicyInv
  <1>12. KeysSound'
    <2>1. \A k : (Recorded(k)' <=> Recorded(k)) /\ (Applying(k)' <=> Applying(k))
      BY <1>1, <1>3 DEF Recorded, Applying
    <2>2. QED
      BY <1>1, <1>3, <2>1 DEF PolicyInv, KeysSound
  <1>13. QED
    BY <1>6, <1>8, <1>9, <1>10, <1>11, <1>12 DEF PolicyInv

\* The entry is in memory before it is in the file.
LEMMA NoteAuditInv ==
    ASSUME PolicyInv, NoteAudit
    PROVE  PolicyInv'
  <1> DEFINE d == work.doc
             e == work.entry
  <1>1. /\ Does("note audit") /\ audits' = [audits EXCEPT ![d] = Append(@, e)]
        /\ UNCHANGED <<value, file, auditFile, approvals, approvalFile, approvalRequired, due,
                       purges, purgeFile, work, issued, uses, applied, lost, cut, policyFaults, policyCrashes>>
    BY DEF NoteAudit, approvalVars, purgeVars, history, faults
  <1>2. Left = {"note audit"} \cup Left' /\ Left' = {"append audit"}
    BY <1>1, StepTaken DEF PolicyInv, Then
  <1>3. WorkFits /\ DocsSound /\ AuditsSound
    BY DEF PolicyInv
  <1>4. d \in Docs /\ e \in Entry
    BY <1>2, <1>3 DEF WorkFits
  <1>5. WorkFits'
    BY <1>1, <1>3, WorkKept
  <1>6. /\ audits' \in [Docs -> Seq(Entry)] /\ audits'[d] = Append(audits[d], e)
        /\ \A other \in Docs \ {d} : audits'[other] = audits[other]
    <2>1. audits[d] \in Seq(Entry) /\ audits \in [Docs -> Seq(Entry)]
      BY <1>4, PolicyTypes
    <2>2. Append(audits[d], e) \in Seq(Entry)
      BY <1>4, <2>1, AppendProperties
    <2>3. QED
      BY <1>1, <1>4, <2>1, <2>2
  <1>7. audits'[d] # <<>> /\ Last(audits'[d]) = e
    <2>1. audits[d] \in Seq(Entry)
      BY <1>4, PolicyTypes
    <2>2. Len(Append(audits[d], e)) = Len(audits[d]) + 1 /\ Append(audits[d], e)[Len(audits[d]) + 1] = e
      BY <1>4, <2>1, AppendProperties
    <2>3. Append(audits[d], e) # <<>>
      BY <1>4, <2>1, <2>2
    <2>4. QED
      BY <1>6, <2>2, <2>3 DEF Last
  <1>8. PolicyTypeOK' /\ Numbers'
    BY <1>1, <1>6 DEF PolicyInv, PolicyTypeOK, Numbers
  <1>9. DocsSound'
    BY <1>1, <1>2, <1>3, <1>6, <1>7 DEF DocsSound, Settled
  <1>10. FilesFollow'
    BY <1>1, <1>2, FilesKept DEF PolicyInv
  <1>11. ApprovalsSound' /\ GrantSound'
    BY <1>1, <1>2, ApprovalsKept, GrantKept DEF PolicyInv
  <1>12. AuditsSound'
    <2>1. ASSUME NEW j \in DOMAIN audits["policy"]
          PROVE  j \in DOMAIN audits'["policy"] /\ audits'["policy"][j] = audits["policy"][j]
      <3>1. CASE d = "policy"
        <4>1. audits["policy"] \in Seq(Entry)
          BY PolicyTypes
        <4>2. audits'["policy"] = Append(audits["policy"], e)
          BY <1>6, <3>1
        <4>3. QED
          BY <1>4, <2>1, <4>1, <4>2, AppendProperties
      <3>2. CASE d # "policy"
        BY <1>6, <2>1, <3>2, PolicyTypes
      <3>3. QED
        BY <3>1, <3>2
    <2>2. \A r : EntrySound(r)' <=> EntrySound(r)
      BY <1>1 DEF EntrySound
    <2>3. QED
      BY <1>1, <1>2, <1>3, <2>1, <2>2 DEF AuditsSound
  <1>13. KeysSound'
    <2>1. \A k : (Recorded(k)' <=> Recorded(k)) /\ (Applying(k)' <=> Applying(k))
      BY <1>1, <1>2 DEF Recorded, Applying
    <2>2. QED
      BY <1>1, <1>2, <2>1 DEF PolicyInv, KeysSound
  <1>14. QED
    BY <1>5, <1>8, <1>9, <1>10, <1>11, <1>12, <1>13 DEF PolicyInv

\* The audit file has the entry, and the update is whole.
LEMMA AppendAuditInv ==
    ASSUME PolicyInv, AppendAudit
    PROVE  PolicyInv'
  <1> DEFINE d == work.doc
             e == work.entry
  <1>1. /\ Does("append audit") /\ auditFile' = [auditFile EXCEPT ![d] = Append(@, e)]
        /\ cut' = cut \ {d}
        /\ UNCHANGED <<value, file, audits, approvals, approvalFile, approvalRequired, due,
                       purges, purgeFile, work, issued, uses, applied, lost, policyFaults, policyCrashes>>
    BY DEF AppendAudit, approvalVars, purgeVars, faults
  <1>2. Left = {"append audit"} /\ Left' = {}
    BY <1>1, StepTaken DEF PolicyInv, Then
  <1>3. WorkFits /\ DocsSound /\ AuditsSound /\ GrantSound /\ KeysSound
    BY DEF PolicyInv
  <1>4. d \in Docs /\ e \in Entry /\ (e.key \in Keys \/ e.from # None => d = "policy")
        /\ (e.approval # None => e.from # None)
    BY <1>2, <1>3 DEF WorkFits
  <1>5. WorkFits'
    BY <1>1, <1>3, WorkKept
  <1>6. /\ auditFile' \in [Docs -> Seq(Entry)] /\ auditFile'[d] = Append(auditFile[d], e)
        /\ \A other \in Docs \ {d} : auditFile'[other] = auditFile[other]
    <2>1. auditFile[d] \in Seq(Entry) /\ auditFile \in [Docs -> Seq(Entry)]
      BY <1>4, PolicyTypes
    <2>2. Append(auditFile[d], e) \in Seq(Entry)
      BY <1>4, <2>1, AppendProperties
    <2>3. QED
      BY <1>1, <1>4, <2>1, <2>2
  <1>7. /\ auditFile'[d] # <<>> /\ Last(auditFile'[d]) = e
        /\ DOMAIN auditFile'[d] = 1 .. Len(auditFile[d]) + 1 /\ auditFile'[d][Len(auditFile[d]) + 1] = e
        /\ \A i \in 1 .. Len(auditFile[d]) : auditFile'[d][i] = auditFile[d][i]
        /\ DOMAIN auditFile[d] = 1 .. Len(auditFile[d]) /\ Len(auditFile[d]) \in Nat
    <2>1. auditFile[d] \in Seq(Entry)
      BY <1>4, PolicyTypes
    <2>2. /\ Len(Append(auditFile[d], e)) = Len(auditFile[d]) + 1
          /\ Append(auditFile[d], e)[Len(auditFile[d]) + 1] = e
          /\ \A i \in 1 .. Len(auditFile[d]) : Append(auditFile[d], e)[i] = auditFile[d][i]
          /\ Append(auditFile[d], e) \in Seq(Entry)
      BY <1>4, <2>1, AppendProperties
    <2>3. Append(auditFile[d], e) # <<>>
      <3>1. Len(Append(auditFile[d], e)) = Len(auditFile[d]) + 1 /\ Len(auditFile[d]) \in Nat
        BY <2>1, <2>2
      <3>2. Len(Append(auditFile[d], e)) # 0
        BY <3>1
      <3>3. \A s : Len(s) # 0 => s # <<>>
        OBVIOUS
      <3> HIDE DEF d, e
      <3>4. QED
        BY ONLY <3>2, <3>3
    <2>4. QED
      BY <1>6, <2>1, <2>2, <2>3 DEF Last
  <1>8. PolicyTypeOK' /\ Numbers'
    BY <1>1, <1>6 DEF PolicyInv, PolicyTypeOK, Numbers
  <1>9. /\ value[d] = e.policy /\ file[d] = value[d] /\ audits[d] # <<>> /\ Last(audits[d]) = e
    BY <1>2, <1>3, <1>4 DEF DocsSound
  <1>10. DocsSound'
    <2>1. Settled(d)'
      BY <1>1, <1>7, <1>9 DEF Settled, LastPolicy
    <2>2. ASSUME NEW other \in Docs \ {d}, other \notin cut PROVE Settled(other)'
      BY <1>1, <1>3, <1>6, <2>2 DEF DocsSound, Settled
    <2>3. QED
      BY <1>1, <1>2, <2>1, <2>2 DEF DocsSound
  <1>11. FilesFollow'
    BY <1>1, <1>2, FilesKept DEF PolicyInv
  <1>12. ApprovalsSound' /\ GrantSound'
    BY <1>1, <1>2, ApprovalsKept DEF PolicyInv, GrantSound
  <1>13. AuditsSound'
    <2>1. \A r : EntrySound(r)' <=> EntrySound(r)
      BY <1>1 DEF EntrySound
    <2>2. CASE d = "policy"
      <3>1. EntrySound(e)
        <4>1. approvalRequired /\ e.from # None => e.approval # None
          BY <1>2, <1>3 DEF AuditsSound
        <4>2. e.approval # None =>
                /\ uses[e.approval] = 1 /\ approvals[e.approval].audit = e.from
                /\ approvalFile[e.approval] = approvals[e.approval]
          BY <1>2, <1>3 DEF GrantSound
        <4>3. QED
          BY <4>1, <4>2 DEF EntrySound
      <3>2. \E j \in DOMAIN audits["policy"] : audits["policy"][j] = e
        <4>1. audits["policy"] \in Seq(Entry)
          BY PolicyTypes
        <4>2. audits["policy"] # <<>> /\ audits["policy"][Len(audits["policy"])] = e
          BY <1>9, <2>2 DEF Last
        <4>3. Len(audits["policy"]) \in DOMAIN audits["policy"]
          BY <4>1, <4>2
        <4>4. QED
          BY <4>2, <4>3
      <3>3. ASSUME NEW i \in DOMAIN auditFile'["policy"]
            PROVE  /\ EntrySound(auditFile'["policy"][i])
                   /\ \E j \in DOMAIN audits["policy"] : audits["policy"][j] = auditFile'["policy"][i]
        <4>1. CASE i = Len(auditFile["policy"]) + 1
          BY <1>7, <2>2, <3>1, <3>2, <4>1
        <4>2. CASE i # Len(auditFile["policy"]) + 1
          <5>1. i \in 1 .. Len(auditFile["policy"])
            BY <1>7, <2>2, <3>3, <4>2
          <5>2. i \in DOMAIN auditFile["policy"] /\ auditFile'["policy"][i] = auditFile["policy"][i]
            BY <1>7, <2>2, <5>1
          <5>3. QED
            BY <1>3, <5>2 DEF AuditsSound
        <4>3. QED
          BY <4>1, <4>2
      <3>4. QED
        BY <1>1, <1>2, <2>1, <3>3 DEF AuditsSound
    <2>3. CASE d # "policy"
      <3>1. auditFile'["policy"] = auditFile["policy"]
        BY <1>6, <2>3, PolicyTypes
      <3>2. QED
        BY <1>1, <1>2, <1>3, <2>1, <3>1 DEF AuditsSound
    <2>4. QED
      BY <2>2, <2>3
  <1>14. KeysSound'
    <2>1. ASSUME NEW k \in Keys, Recorded(k) \/ Applying(k) PROVE Recorded(k)'
      <3>1. CASE Applying(k)
        <4>1. d = "policy" /\ e.key = k
          BY <1>4, <3>1 DEF Applying
        <4>2. QED
          BY <1>7, <4>1 DEF Recorded
      <3>2. CASE Recorded(k)
        <4>1. PICK i \in DOMAIN auditFile["policy"] : auditFile["policy"][i].key = k
          BY <3>2 DEF Recorded
        <4>2. i \in DOMAIN auditFile'["policy"] /\ auditFile'["policy"][i] = auditFile["policy"][i]
          <5>1. CASE d = "policy"
            BY <1>7, <4>1, <5>1
          <5>2. CASE d # "policy"
            BY <1>6, <4>1, <5>2, PolicyTypes
          <5>3. QED
            BY <5>1, <5>2
        <4>3. QED
          BY <4>1, <4>2 DEF Recorded
      <3>3. QED
        BY <2>1, <3>1, <3>2
    <2>2. ASSUME NEW k \in Keys
          PROVE  applied'[k] <= lost'[k] + (IF Recorded(k)' \/ Applying(k)' THEN 1 ELSE 0)
      <3>1. applied[k] <= lost[k] + (IF Recorded(k) \/ Applying(k) THEN 1 ELSE 0)
        BY <1>3 DEF KeysSound
      <3>2. applied[k] \in Nat /\ lost[k] \in Nat
        BY PolicyTypes
      <3>3. CASE Recorded(k) \/ Applying(k)
        BY <1>1, <2>1, <3>1, <3>2, <3>3
      <3>4. CASE ~(Recorded(k) \/ Applying(k))
        <4>1. applied[k] <= lost[k] + 0
          BY <3>1, <3>4
        <4>2. applied' = applied /\ lost' = lost
          BY <1>1
        <4>3. QED
          BY <3>2, <4>1, <4>2
      <3>5. QED
        BY <3>3, <3>4
    <2>3. QED
      BY <1>2, <2>2 DEF KeysSound
  <1>15. QED
    BY <1>5, <1>8, <1>10, <1>11, <1>12, <1>13, <1>14 DEF PolicyInv

\* Approvals are decided in memory, and never one that was used.
LEMMA ApproveInv ==
    ASSUME PolicyInv, MarkApproval, Does("approve")
    PROVE  PolicyInv'
  <1> DEFINE a == work.approval
  <1>1. /\ approvals' = [approvals EXCEPT ![a].status = "approved"]
        /\ UNCHANGED <<value, file, audits, auditFile, approvalFile, approvalRequired, due, purges,
                       purgeFile, work, issued, uses, applied, lost, cut, policyFaults, policyCrashes>>
    BY DEF MarkApproval, Does, documents, purgeVars, history, faults
  <1>2. Left = {"approve"} \cup Left' /\ Left' = {"open approvals", "write approvals"}
    BY StepTaken DEF PolicyInv, Then
  <1>3. WorkFits /\ ApprovalsSound /\ AuditsSound
    BY DEF PolicyInv
  <1>4. a \in ApprovalIds /\ approvals[a].status = "pending" /\ approvals[a] # Absent
    <2>1. a \in ApprovalIds /\ approvals[a].status = "pending"
      BY <1>2, <1>3 DEF WorkFits
    <2>2. QED
      BY <2>1 DEF Absent
  <1>5. /\ approvals' \in Approvals /\ approvals'[a].audit = approvals[a].audit
        /\ approvals'[a].status = "approved"
        /\ \A b \in ApprovalIds \ {a} : approvals'[b] = approvals[b]
    BY <1>1, <1>4, PolicyTypes DEF Approvals, ApprovalStatus
  <1>6. WorkFits'
    BY <1>2, StepTaken DEF PolicyInv, WorkFits
  <1>7. PolicyTypeOK' /\ Numbers'
    BY <1>1, <1>5 DEF PolicyInv, PolicyTypeOK, Numbers
  <1>8. DocsSound' /\ KeysSound'
    BY <1>1, <1>2, DocsKept, KeysKept DEF PolicyInv, DocLeft
  <1>9. FilesFollow'
    BY <1>1, <1>2 DEF PolicyInv, FilesFollow
  <1>10. uses[a] # 1
    BY <1>3, <1>4 DEF ApprovalsSound
  <1>11. ApprovalsSound'
    <2>1. ASSUME NEW b \in ApprovalIds
          PROVE  /\ uses[b] = 1 => {approvals'[b].status, approvalFile[b].status} \subseteq {"used", "none"}
                 /\ approvals'[b] # Absent /\ approvalFile[b] # Absent =>
                      approvals'[b].audit = approvalFile[b].audit
                 /\ b > issued.approvals => approvals'[b] = Absent
      <3>1. CASE b = a
        BY <1>3, <1>4, <1>5, <1>10, <3>1 DEF ApprovalsSound
      <3>2. CASE b # a
        BY <1>3, <1>5, <3>2 DEF ApprovalsSound
      <3>3. QED
        BY <3>1, <3>2
    <2>2. QED
      BY <1>1, <1>3, <2>1 DEF ApprovalsSound
  <1>12. GrantSound'
    BY <1>2 DEF GrantSound
  <1>13. AuditsSound'
    <2>1. ASSUME NEW i \in DOMAIN auditFile["policy"] PROVE EntrySound(auditFile["policy"][i])'
      <3> DEFINE r == auditFile["policy"][i]
      <3>1. EntrySound(r)
        BY <1>3 DEF AuditsSound
      <3>2. r \in Entry
        <4>1. auditFile["policy"] \in Seq(Entry)
          BY PolicyTypes
        <4>2. QED
          BY <2>1, <4>1, ElementOfSeq
      <3>3. r.approval # None =>
              /\ r.approval \in ApprovalIds \ {a}
              /\ approvals'[r.approval] = approvals[r.approval]
        BY <1>5, <1>10, <3>1, <3>2 DEF EntrySound, Entry
      <3>4. QED
        BY <1>1, <3>1, <3>3 DEF EntrySound
    <2>2. QED
      BY <1>1, <1>2, <1>3, <2>1 DEF AuditsSound
  <1>14. QED
    BY <1>6, <1>7, <1>8, <1>9, <1>11, <1>12, <1>13 DEF PolicyInv

\* An approval is used in memory before it is written and before the policy changes.
LEMMA UseInv ==
    ASSUME PolicyInv, MarkApproval, Does("use")
    PROVE  PolicyInv'
  <1> DEFINE a == work.entry.approval
  <1>1. /\ approvals' = [approvals EXCEPT ![a].status = "used"]
        /\ UNCHANGED <<value, file, audits, auditFile, approvalFile, approvalRequired, due, purges,
                       purgeFile, work, issued, uses, applied, lost, cut, policyFaults, policyCrashes>>
    BY DEF MarkApproval, Does, documents, purgeVars, history, faults
  <1>2. /\ Left = {"use"} \cup Left' /\ Left' = {"open approvals", "write approvals"} \cup DocLeft
        /\ {"set value", "append audit", "write approvals"} \subseteq Left'
        /\ {"use", "approve", "keep", "append purge"} \cap Left' = {}
    <2>1. Left = {"use"} \cup Left' /\ Left' = {"open approvals", "write approvals"} \cup DocLeft
      BY StepTaken DEF PolicyInv, Then
    <2>2. QED
      BY <2>1 DEF DocLeft
  <1>3. WorkFits /\ ApprovalsSound /\ AuditsSound /\ GrantSound
    BY DEF PolicyInv
  <1>4. a \in ApprovalIds /\ a # None
    <2>1. a \in ApprovalIds
      BY <1>2, <1>3 DEF WorkFits
    <2>2. None \notin ApprovalIds
      BY DEF ApprovalIds, None
    <2>3. QED
      BY <2>1, <2>2
  <1>5. approvals[a].status = "approved" /\ uses[a] = 0 /\ approvals[a].audit = work.entry.from
    BY <1>2, <1>3, <1>4 DEF GrantSound
  <1>6. approvals[a] # Absent
    BY <1>5 DEF Absent
  <1>7. /\ approvals' \in Approvals /\ approvals'[a].audit = approvals[a].audit
        /\ approvals'[a].status = "used"
        /\ \A b \in ApprovalIds \ {a} : approvals'[b] = approvals[b]
    <2>1. approvals \in Approvals /\ a \in ApprovalIds
      BY <1>4, PolicyTypes
    <2>2. approvals' = [approvals EXCEPT ![a].status = "used"]
      BY <1>1
    <2> HIDE DEF a
    <2>3. QED
      BY <2>1, <2>2 DEF Approvals, ApprovalStatus
  <1>8. WorkFits'
    BY <1>1, <1>2, <1>3, StepTaken DEF WorkFits
  <1>9. PolicyTypeOK' /\ Numbers'
    BY <1>1, <1>7 DEF PolicyInv, PolicyTypeOK, Numbers
  <1>10. DocsSound' /\ KeysSound'
    BY <1>1, <1>2, DocsKept, KeysKept DEF PolicyInv, DocLeft
  <1>11. FilesFollow'
    BY <1>1, <1>2 DEF PolicyInv, FilesFollow
  <1>12. ApprovalsSound'
    <2>1. ASSUME NEW b \in ApprovalIds
          PROVE  /\ uses[b] = 1 => {approvals'[b].status, approvalFile[b].status} \subseteq {"used", "none"}
                 /\ approvals'[b] # Absent /\ approvalFile[b] # Absent =>
                      approvals'[b].audit = approvalFile[b].audit
                 /\ b > issued.approvals => approvals'[b] = Absent
      <3>1. CASE b = a
        BY <1>3, <1>4, <1>5, <1>6, <1>7, <3>1 DEF ApprovalsSound
      <3>2. CASE b # a
        BY <1>3, <1>7, <3>2 DEF ApprovalsSound
      <3>3. QED
        BY <3>1, <3>2
    <2>2. QED
      BY <1>1, <1>3, <2>1 DEF ApprovalsSound
  <1>13. GrantSound'
    BY <1>1, <1>2, <1>5, <1>7 DEF GrantSound
  <1>14. AuditsSound'
    <2>1. ASSUME NEW i \in DOMAIN auditFile["policy"] PROVE EntrySound(auditFile["policy"][i])'
      <3> DEFINE r == auditFile["policy"][i]
      <3>1. EntrySound(r)
        BY <1>3 DEF AuditsSound
      <3>2. r \in Entry
        <4>1. auditFile["policy"] \in Seq(Entry)
          BY PolicyTypes
        <4>2. QED
          BY <2>1, <4>1, ElementOfSeq
      <3>3. r.approval # None =>
              /\ r.approval \in ApprovalIds \ {a}
              /\ approvals'[r.approval] = approvals[r.approval]
        BY <1>5, <1>7, <3>1, <3>2 DEF EntrySound, Entry
      <3>4. QED
        BY <1>1, <3>1, <3>3 DEF EntrySound
    <2>2. QED
      BY <1>1, <1>2, <1>3, <2>1 DEF AuditsSound
  <1>15. QED
    BY <1>8, <1>9, <1>10, <1>11, <1>12, <1>13, <1>14 DEF PolicyInv

\* A purge removes approvals from memory, and what it removes has a step that writes it.
LEMMA KeepInv ==
    ASSUME PolicyInv, MarkApproval, Does("keep")
    PROVE  PolicyInv'
  <1>1. /\ approvals' = work.keep
        /\ UNCHANGED <<value, file, audits, auditFile, approvalFile, approvalRequired, due, purges,
                       purgeFile, work, issued, uses, applied, lost, cut, policyFaults, policyCrashes>>
    BY DEF MarkApproval, Does, documents, purgeVars, history, faults
  <1>2. /\ Left = {"keep"} \cup Left'
        /\ \/ Left' = {"open approvals", "write approvals", "note purge", "append purge"}
           \/ Left' = {"note purge", "append purge"}
    BY StepTaken DEF PolicyInv, Then
  <1>3. /\ DocLeft \cap Left = {} /\ DocLeft \cap Left' = {}
        /\ {"use", "approve", "keep", "write purges"} \cap Left' = {} /\ "append audit" \notin Left'
        /\ "append purge" \in Left /\ "note purge" \in Left'
    BY <1>2 DEF DocLeft
  <1>4. WorkFits /\ ApprovalsSound /\ AuditsSound /\ FilesFollow
    BY DEF PolicyInv
  <1>5. /\ approvals' \in Approvals /\ \A a \in ApprovalIds : approvals'[a] \in {approvals[a], Absent}
    BY <1>1, <1>2, <1>4 DEF WorkFits
  <1>6. "write approvals" \in Left' \/ approvals' = approvals
    BY <1>1, <1>2, <1>4, StepTaken DEF WorkFits
  <1>7. WorkFits'
    BY <1>1, <1>2, <1>3, <1>4, StepTaken DEF WorkFits
  <1>8. PolicyTypeOK' /\ Numbers'
    BY <1>1, <1>5 DEF PolicyInv, PolicyTypeOK, Numbers
  <1>9. DocsSound' /\ KeysSound'
    BY <1>1, <1>3, DocsKept, KeysKept DEF PolicyInv
  <1>10. FilesFollow'
    BY <1>1, <1>2, <1>3, <1>4, <1>6 DEF FilesFollow, FileShows
  <1>11. ApprovalsSound'
    <2>1. Absent.status = "none"
      BY DEF Absent
    <2>2. QED
      BY <1>1, <1>4, <1>5, <2>1 DEF ApprovalsSound
  <1>12. GrantSound'
    BY <1>3 DEF GrantSound
  <1>13. AuditsSound'
    <2>1. ASSUME NEW i \in DOMAIN auditFile["policy"] PROVE EntrySound(auditFile["policy"][i])'
      <3> DEFINE r == auditFile["policy"][i]
      <3>1. EntrySound(r)
        BY <1>4 DEF AuditsSound
      <3>2. r \in Entry
        <4>1. auditFile["policy"] \in Seq(Entry)
          BY PolicyTypes
        <4>2. QED
          BY <2>1, <4>1, ElementOfSeq
      <3>3. r.approval # None => approvals'[r.approval] \in {approvals[r.approval], Absent}
        BY <1>5, <3>2 DEF Entry
      <3>4. QED
        BY <1>1, <3>1, <3>3 DEF EntrySound
    <2>2. QED
      BY <1>1, <1>3, <1>4, <2>1 DEF AuditsSound
  <1>14. QED
    BY <1>7, <1>8, <1>9, <1>10, <1>11, <1>12, <1>13 DEF PolicyInv

\* The file of approvals is truncated, then written as a whole.
LEMMA WriteApprovalsInv ==
    ASSUME PolicyInv, WriteApprovals
    PROVE  PolicyInv'
  <1>1. /\ \/ Does("open approvals") /\ approvalFile' = NoApprovals
           \/ Does("write approvals") /\ approvalFile' = approvals
        /\ UNCHANGED <<value, file, audits, auditFile, approvals, approvalRequired, due, purges,
                       purgeFile, work, issued, uses, applied, lost, cut, policyFaults, policyCrashes>>
    BY DEF WriteApprovals, documents, purgeVars, history, faults
  <1>2. /\ \A s \in PolicySteps \ {"open approvals", "write approvals"} : s \in Left' <=> s \in Left
        /\ approvalFile' = NoApprovals => "write approvals" \in Left' \/ approvals = NoApprovals
    <2>1. CASE Does("open approvals") /\ approvalFile' = NoApprovals
      <3>1. Left = {"open approvals"} \cup Left' /\ "write approvals" \in Left'
        BY <2>1, StepTaken DEF PolicyInv, Then
      <3>2. QED
        BY <3>1
    <2>2. CASE Does("write approvals") /\ approvalFile' = approvals
      <3>1. Left = {"write approvals"} \cup Left'
        BY <2>2, StepTaken DEF PolicyInv
      <3>2. QED
        BY <2>2, <3>1
    <2>3. QED
      BY <1>1, <2>1, <2>2
  <1>3. /\ DocLeft \subseteq PolicySteps \ {"open approvals", "write approvals"}
        /\ {"use", "write purges", "note purge", "append purge"}
             \subseteq PolicySteps \ {"open approvals", "write approvals"}
        /\ {"set value", "append audit"} \subseteq DocLeft
    BY DEF PolicySteps, FileSteps, DocLeft
  <1>4. /\ approvalFile' \in Approvals
        /\ \A a \in ApprovalIds : approvalFile'[a] \in {approvals[a], Absent}
    <2>1. NoApprovals \in Approvals
      BY DEF NoApprovals, Approvals, Absent, ApprovalStatus
    <2>2. \A a \in ApprovalIds : NoApprovals[a] = Absent
      BY DEF NoApprovals
    <2>3. QED
      BY <1>1, <2>1, <2>2, PolicyTypes
  <1>5. ApprovalsSound /\ AuditsSound /\ FilesFollow /\ GrantSound /\ WorkFits
    BY DEF PolicyInv
  <1>6. WorkFits'
    BY <1>1, <1>5, WorkKept
  <1>7. PolicyTypeOK' /\ Numbers'
    BY <1>1, <1>4 DEF PolicyInv, PolicyTypeOK, Numbers
  <1>8. DocsSound' /\ KeysSound'
    BY <1>1, <1>2, <1>3, DocsKept, KeysKept DEF PolicyInv
  <1>9. "write approvals" \notin Left' => approvalFile' = approvals
    BY <1>1, <1>2
  <1>10. FilesFollow'
    BY <1>1, <1>2, <1>3, <1>5, <1>9 DEF FilesFollow, FileShows
  <1>11. ApprovalsSound'
    <2>1. Absent.status = "none"
      BY DEF Absent
    <2>2. QED
      BY <1>1, <1>4, <1>5, <2>1 DEF ApprovalsSound
  <1>12. GrantSound'
    BY <1>1, <1>2, <1>3, <1>5, <1>9 DEF GrantSound
  <1>13. AuditsSound'
    <2>1. ASSUME NEW i \in DOMAIN auditFile["policy"] PROVE EntrySound(auditFile["policy"][i])'
      <3> DEFINE r == auditFile["policy"][i]
      <3>1. EntrySound(r)
        BY <1>5 DEF AuditsSound
      <3>2. r \in Entry
        <4>1. auditFile["policy"] \in Seq(Entry)
          BY PolicyTypes
        <4>2. QED
          BY <2>1, <4>1, ElementOfSeq
      <3>3. r.approval # None => approvalFile'[r.approval] \in {approvals[r.approval], Absent}
        BY <1>4, <3>2 DEF Entry
      <3>4. QED
        BY <1>1, <3>1, <3>3 DEF EntrySound
    <2>2. QED
      BY <1>1, <1>2, <1>3, <1>5, <2>1 DEF AuditsSound
  <1>14. QED
    BY <1>6, <1>7, <1>8, <1>10, <1>11, <1>12, <1>13 DEF PolicyInv

\* The purge log is rewritten as a whole, and an entry is appended to it.
LEMMA WritePurgesInv ==
    ASSUME PolicyInv, WritePurges
    PROVE  PolicyInv'
  <1>1. /\ \/ Does("open purges") /\ purgeFile' = <<>> /\ purges' = purges
           \/ Does("write purges") /\ purgeFile' = purges /\ purges' = purges
           \/ Does("note purge") /\ purges' = Append(purges, issued.purges) /\ purgeFile' = purgeFile
           \/ Does("append purge") /\ purgeFile' = Append(purgeFile, issued.purges) /\ purges' = purges
        /\ UNCHANGED <<value, file, audits, auditFile, approvals, approvalFile, approvalRequired, due,
                       work, issued, uses, applied, lost, cut, policyFaults, policyCrashes>>
    BY DEF WritePurges, documents, approvalVars, history, faults
  <1>2. FilesFollow /\ ApprovalsSound /\ WorkFits
    BY DEF PolicyInv
  <1> DEFINE Follows == policyFaults' = 0 /\ "write purges" \notin Left' =>
                          IF "append purge" \in Left' /\ "note purge" \notin Left'
                          THEN purges' = Append(purgeFile', issued'.purges) ELSE purgeFile' = purges'
  <1>3. /\ {"append audit", "set value", "open doc", "write doc", "note audit", "use"} \cap Left = {}
        /\ Left' \subseteq Left /\ ("write approvals" \in Left => "write approvals" \in Left')
        /\ purges' \in Seq(1..MaxPurges) /\ purgeFile' \in Seq(1..MaxPurges)
        /\ Follows
        /\ WorkFits'
    <2>1. purges \in Seq(1..MaxPurges) /\ purgeFile \in Seq(1..MaxPurges)
      BY PolicyTypes
    <2>2. "append purge" \in Left => issued.purges \in 1..MaxPurges
      BY <1>2 DEF WorkFits
    <2>3. CASE Does("open purges") /\ purgeFile' = <<>> /\ purges' = purges
      <3>1. Left = {"open purges"} \cup Left' /\ Left' = {"write purges", "note purge", "append purge"}
        BY <1>2, <2>3, StepTaken DEF Then
      <3>2. WorkFits'
        BY <1>1, <1>2, <2>3, WorkKept
      <3>3. purgeFile' \in Seq(1..MaxPurges)
        BY <2>3, EmptySeq
      <3>4. Follows
        BY <3>1
      <3>5. QED
        BY <2>1, <2>3, <3>1, <3>2, <3>3, <3>4
    <2>4. CASE Does("write purges") /\ purgeFile' = purges /\ purges' = purges
      <3>1. Left = {"write purges"} \cup Left' /\ Left' = {"note purge", "append purge"}
        BY <1>2, <2>4, StepTaken DEF Then
      <3>2. WorkFits'
        BY <1>1, <1>2, <2>4, WorkKept
      <3>3. QED
        BY <2>1, <2>4, <3>1, <3>2
    <2>5. CASE Does("note purge") /\ purges' = Append(purges, issued.purges) /\ purgeFile' = purgeFile
      <3>1. Left = {"note purge"} \cup Left' /\ Left' = {"append purge"}
        BY <1>2, <2>5, StepTaken DEF Then
      <3>2. WorkFits'
        BY <1>1, <1>2, <2>5, WorkKept
      <3>3. purges' \in Seq(1..MaxPurges)
        BY <2>1, <2>2, <2>5, <3>1, AppendProperties
      <3>4. Follows
        BY <1>1, <1>2, <2>5, <3>1 DEF FilesFollow
      <3>5. QED
        BY <2>1, <2>5, <3>1, <3>2, <3>3, <3>4
    <2>6. CASE Does("append purge") /\ purgeFile' = Append(purgeFile, issued.purges) /\ purges' = purges
      <3>1. Left = {"append purge"} \cup Left' /\ Left' = {}
        BY <1>2, <2>6, StepTaken DEF Then
      <3>2. WorkFits'
        BY <1>1, <1>2, <2>6, WorkKept
      <3>3. purgeFile' \in Seq(1..MaxPurges)
        BY <2>1, <2>2, <2>6, <3>1, AppendProperties
      <3>4. Follows
        BY <1>1, <1>2, <2>6, <3>1 DEF FilesFollow
      <3>5. QED
        BY <2>1, <2>6, <3>1, <3>2, <3>3, <3>4
    <2>7. QED
      BY <1>1, <2>3, <2>4, <2>5, <2>6
  <1> HIDE DEF Follows
  <1>4. PolicyTypeOK' /\ Numbers'
    BY <1>1, <1>3 DEF PolicyInv, PolicyTypeOK, Numbers
  <1>5. \A s \in DocLeft : s \in Left' <=> s \in Left
    BY <1>3 DEF DocLeft
  <1>6. DocsSound' /\ KeysSound'
    BY <1>1, <1>5, DocsKept, KeysKept DEF PolicyInv
  <1>7. FilesFollow'
    <2>1. policyFaults = 0 /\ "write approvals" \notin Left' => \A a \in ApprovalIds : FileShows(a)'
      BY <1>1, <1>2, <1>3 DEF FilesFollow, FileShows
    <2>2. QED
      BY <1>1, <1>3, <2>1 DEF FilesFollow, Follows
  <1>8. ApprovalsSound'
    BY <1>1, <1>2, ApprovalsKept
  <1>9. GrantSound'
    BY <1>3 DEF GrantSound
  <1>10. AuditsSound'
    BY <1>1, <1>3, AuditsKept DEF PolicyInv
  <1>11. QED
    BY <1>3, <1>4, <1>6, <1>7, <1>8, <1>9, <1>10 DEF PolicyInv

\* What is cut short is noted: the document, and the key that was applied and not recorded.
LEMMA CutKept ==
    ASSUME PolicyInv, CutShort, UNCHANGED <<auditFile, applied>>
    PROVE  /\ Left' = {} /\ WorkFits' /\ GrantSound' /\ KeysSound'
           /\ lost' \in [Keys -> Nat] /\ cut' \subseteq Docs
           /\ \A d \in Docs \ cut' : Settled(d)
  <1> DEFINE half == "append audit" \in Left /\ "set value" \notin Left
             e == work.entry
  <1>1. /\ cut' = (IF half THEN cut \cup {work.doc} ELSE cut)
        /\ lost' = (IF half THEN Count(lost, e.key) ELSE lost)
        /\ todo' = <<>>
    BY DEF CutShort, Left
  <1>2. DocsSound /\ KeysSound /\ WorkFits /\ cut \subseteq Docs
    BY DEF PolicyInv, PolicyTypeOK
  <1>3. Left' = {} /\ Orderly(todo')
    BY <1>1, NothingLeft DEF Left
  <1>4. WorkFits'
    BY <1>3 DEF WorkFits
  <1>5. GrantSound'
    BY <1>3 DEF GrantSound
  <1>6. cut' \subseteq Docs
    BY <1>1, <1>2 DEF WorkFits
  <1>7. \A d \in Docs \ cut' : Settled(d)
    BY <1>1, <1>2 DEF DocsSound
  <1>8. lost \in [Keys -> Nat] /\ applied \in [Keys -> Nat]
    BY PolicyTypes
  <1>9. /\ Count(lost, e.key) \in [Keys -> Nat]
        /\ \A k \in Keys : Count(lost, e.key)[k] = IF k = e.key THEN lost[k] + 1 ELSE lost[k]
    <2> HIDE DEF e
    <2>1. QED
      BY <1>8, CountType
  <1>10. KeysSound'
    <2>1. ASSUME NEW k \in Keys PROVE applied[k] <= lost'[k] + (IF Recorded(k) THEN 1 ELSE 0)
      <3>1. applied[k] <= lost[k] + (IF Recorded(k) \/ Applying(k) THEN 1 ELSE 0)
        BY <1>2 DEF KeysSound
      <3>2. Applying(k) <=> half /\ k = e.key
        BY DEF Applying
      <3>3. applied[k] \in Nat /\ lost[k] \in Nat
        BY <1>8
      <3> HIDE DEF half, e
      <3>4. lost'[k] = IF half /\ k = e.key THEN lost[k] + 1 ELSE lost[k]
        BY <1>1, <1>9
      <3>5. QED
        BY <3>1, <3>2, <3>3, <3>4
    <2>2. \A k : (Recorded(k)' <=> Recorded(k)) /\ ~Applying(k)'
      BY <1>3 DEF Recorded, Applying
    <2>3. QED
      BY <1>3, <2>1, <2>2 DEF KeysSound
  <1>11. lost' \in [Keys -> Nat]
    BY <1>1, <1>8, <1>9
  <1>12. QED
    BY <1>3, <1>4, <1>5, <1>6, <1>7, <1>10, <1>11

\* A file operation that raises leaves the rest of its handler undone.
LEMMA PolicyFaultInv ==
    ASSUME PolicyInv, PolicyFault
    PROVE  PolicyInv'
  <1>1. /\ CutShort /\ policyFaults' = policyFaults + 1
        /\ UNCHANGED <<value, file, audits, auditFile, approvals, approvalFile, approvalRequired, due,
                       purges, purgeFile, issued, uses, applied, policyCrashes>>
    BY DEF PolicyFault, documents, approvalVars, purgeVars
  <1>2. /\ Left' = {} /\ WorkFits' /\ GrantSound' /\ KeysSound'
        /\ lost' \in [Keys -> Nat] /\ cut' \subseteq Docs
        /\ \A d \in Docs \ cut' : Settled(d)
    BY <1>1, CutKept
  <1>3. PolicyTypeOK' /\ Numbers'
    BY <1>1, <1>2 DEF PolicyInv, PolicyTypeOK, Numbers
  <1>4. DocsSound'
    BY <1>1, <1>2 DEF DocsSound, Settled
  <1>5. FilesFollow'
    <2>1. policyFaults' # 0
      BY <1>1 DEF PolicyInv, Numbers
    <2>2. QED
      BY <2>1 DEF FilesFollow
  <1>6. ApprovalsSound'
    BY <1>1, ApprovalsKept DEF PolicyInv
  <1>7. AuditsSound'
    BY <1>1, <1>2 DEF PolicyInv, AuditsSound, EntrySound
  <1>8. QED
    BY <1>2, <1>3, <1>4, <1>5, <1>6, <1>7 DEF PolicyInv

\* A restart takes everything from the files.
LEMMA PolicyCrashInv ==
    ASSUME PolicyInv, PolicyCrash
    PROVE  PolicyInv'
  <1>1. /\ CutShort /\ policyCrashes' = policyCrashes + 1
        /\ value' = [d \in Docs |-> IF file[d] = Torn THEN Default ELSE file[d]]
        /\ file' = value' /\ audits' = auditFile /\ approvals' = approvalFile /\ purges' = purgeFile
        /\ UNCHANGED <<auditFile, approvalFile, approvalRequired, due, purgeFile, issued, uses,
                       applied, policyFaults>>
    BY DEF PolicyCrash
  <1>2. /\ Left' = {} /\ WorkFits' /\ GrantSound' /\ KeysSound'
        /\ lost' \in [Keys -> Nat] /\ cut' \subseteq Docs
        /\ \A d \in Docs \ cut' : Settled(d)
    BY <1>1, CutKept
  <1>3. value' \in [Docs -> Policies]
    BY <1>1, PolicyTypes, PolicyAssumption
  <1>4. PolicyTypeOK' /\ Numbers'
    BY <1>1, <1>2, <1>3 DEF PolicyInv, PolicyTypeOK, Numbers
  <1>5. ASSUME NEW d \in Docs, Settled(d) PROVE Settled(d)'
    <2>1. file[d] = value[d] /\ value[d] \in Policies
      BY <1>5, PolicyTypes DEF Settled
    <2>2. value'[d] = value[d]
      BY <1>1, <2>1, PolicyAssumption
    <2>3. QED
      BY <1>1, <1>5, <2>2 DEF Settled
  <1>6. DocsSound'
    BY <1>2, <1>5 DEF DocsSound
  <1>7. FilesFollow'
    BY <1>1, <1>2 DEF FilesFollow, FileShows
  <1>8. ApprovalsSound'
    BY <1>1 DEF PolicyInv, ApprovalsSound
  <1>9. AuditsSound'
    BY <1>1, <1>2 DEF PolicyInv, AuditsSound, EntrySound
  <1>10. QED
    BY <1>2, <1>4, <1>6, <1>7, <1>8, <1>9 DEF PolicyInv

\* Time changes what is due, and no more.
LEMMA ExpireInv ==
    ASSUME PolicyInv, NEW a \in ApprovalIds, Expire(a)
    PROVE  PolicyInv'
  <1>1. /\ due' = due \cup {a}
        /\ UNCHANGED <<value, file, audits, auditFile, approvals, approvalFile, approvalRequired,
                       purges, purgeFile, todo, work, issued, uses, applied, lost, cut, policyFaults,
                       policyCrashes>>
    BY DEF Expire, documents, approvalVars, purgeVars, history, faults
  <1>2. Left' = Left
    BY <1>1 DEF Left
  <1>3. PolicyTypeOK' /\ Numbers'
    BY <1>1 DEF PolicyInv, PolicyTypeOK, Numbers
  <1>4. WorkFits'
    BY <1>1, <1>2 DEF PolicyInv, WorkFits
  <1>5. DocsSound' /\ KeysSound'
    BY <1>1, <1>2, DocsKept, KeysKept DEF PolicyInv
  <1>6. FilesFollow'
    BY <1>1, <1>2 DEF PolicyInv, FilesFollow, FileShows
  <1>7. ApprovalsSound' /\ GrantSound'
    BY <1>1, <1>2, ApprovalsKept, GrantKept DEF PolicyInv
  <1>8. AuditsSound'
    BY <1>1, <1>2, AuditsKept DEF PolicyInv
  <1>9. QED
    BY <1>3, <1>4, <1>5, <1>6, <1>7, <1>8 DEF PolicyInv

-----------------------------------------------------------------------------
(* The alert policy store: a handler begins                                *)

\* Refreshing lets some approvals expire that are due.
LEMMA RefreshedIs ==
    ASSUME PolicyInv
    PROVE  /\ Refreshed \in Approvals
           /\ \A a \in ApprovalIds :
                \/ Refreshed[a] = approvals[a]
                \/ /\ approvals[a].status \in {"pending", "approved"} /\ a \in due
                   /\ Refreshed[a].audit = approvals[a].audit /\ Refreshed[a].status = "expired"
  <1>1. approvals \in Approvals
    BY PolicyTypes
  <1>2. QED
    BY <1>1 DEF Refreshed, Expires, Approvals, ApprovalStatus

\* What a request makes of an approval before its first step.
MayBecome(a) ==
    \/ approvals'[a] = approvals[a]
    \/ /\ approvals[a].status \in {"pending", "approved"} /\ a \in due
       /\ approvals'[a].audit = approvals[a].audit /\ approvals'[a].status = "expired"
    \/ /\ a > issued.approvals /\ a <= issued'.approvals /\ approvals'[a].status = "pending"
       /\ "write approvals" \in Left'

\* What all requests have in common.
Begins ==
    /\ todo = <<>>
    /\ UNCHANGED <<value, file, audits, auditFile, approvalFile, approvalRequired, due, purgeFile,
                   uses, applied, lost, cut, policyFaults, policyCrashes>>
    /\ approvals' \in Approvals /\ \A a \in ApprovalIds : MayBecome(a)
    /\ "append audit" \in Left' => "set value" \in Left'
    /\ "append purge" \in Left' => "note purge" \in Left'
    /\ "write purges" \in Left' \/ purges' = purges
    /\ purges' \in Seq(1..MaxPurges)
    /\ issued' \in [audits : 0..MaxAudits, approvals : 0..MaxApprovals, purges : 0..MaxPurges]
    /\ issued.approvals <= issued'.approvals

\* A request keeps what was said of the documents, the files and the approvals.
LEMMA RequestBegins ==
    ASSUME PolicyInv, Begins
    PROVE  /\ PolicyTypeOK' /\ Numbers' /\ DocsSound' /\ FilesFollow' /\ ApprovalsSound'
           /\ ("append audit" \in Left' /\ approvalRequired /\ work'.entry.from # None =>
                 work'.entry.approval # None) => AuditsSound'
           /\ ("set value" \in Left' /\ work'.entry.key \in Keys => ~Recorded(work'.entry.key)) =>
                KeysSound'
  <1>1. /\ UNCHANGED <<value, file, audits, auditFile, approvalFile, approvalRequired, due, purgeFile,
                       uses, applied, lost, cut, policyFaults, policyCrashes>>
        /\ approvals' \in Approvals /\ \A a \in ApprovalIds : MayBecome(a)
        /\ issued.approvals <= issued'.approvals
    BY DEF Begins
  <1>2. Left = {}
    BY Resting DEF Begins
  <1>3. ApprovalsSound /\ AuditsSound /\ DocsSound /\ KeysSound /\ FilesFollow
    BY DEF PolicyInv
  <1>4. PolicyTypeOK' /\ Numbers'
    BY DEF PolicyInv, PolicyTypeOK, Numbers, Begins
  <1>5. DocsSound'
    BY <1>1, <1>2, <1>3 DEF DocsSound, Settled, Begins
  <1>6. issued.approvals \in Nat /\ issued'.approvals \in Nat
    <2>1. 0..MaxApprovals \subseteq Nat
      OBVIOUS
    <2>2. issued.approvals \in 0..MaxApprovals
      BY DEF PolicyInv, Numbers
    <2>3. issued'.approvals \in 0..MaxApprovals
      BY DEF Begins
    <2>4. QED
      BY <2>1, <2>2, <2>3
  <1>7. FilesFollow'
    <2>1. ASSUME policyFaults = 0, "write approvals" \notin Left', NEW a \in ApprovalIds
          PROVE  FileShows(a)'
      <3>1. FileShows(a)
        BY <1>2, <1>3, <2>1 DEF FilesFollow
      <3>2. CASE approvals'[a] = approvals[a]
        BY <1>1, <3>1, <3>2 DEF FileShows
      <3>3. CASE approvals[a].status \in {"pending", "approved"} /\ a \in due
                 /\ approvals'[a].status = "expired"
        <4>1. approvals[a].status # "expired"
          BY <3>3
        <4>2. approvalFile[a] = approvals[a]
          BY <3>1, <4>1 DEF FileShows
        <4>3. QED
          BY <1>1, <3>3, <4>2 DEF FileShows
      <3>4. QED
        BY <1>1, <2>1, <3>2, <3>3 DEF MayBecome
    <2>2. policyFaults = 0 => purgeFile = purges
      BY <1>2, <1>3 DEF FilesFollow
    <2>3. QED
      BY <1>1, <2>1, <2>2 DEF FilesFollow, Begins
  <1>8. ApprovalsSound'
    <2>1. ASSUME NEW a \in ApprovalIds
          PROVE  /\ uses[a] = 1 => {approvals'[a].status, approvalFile[a].status} \subseteq {"used", "none"}
                 /\ approvals'[a] # Absent /\ approvalFile[a] # Absent =>
                      approvals'[a].audit = approvalFile[a].audit
                 /\ a > issued'.approvals => approvals'[a] = Absent
      <3>1. /\ uses[a] = 1 => {approvals[a].status, approvalFile[a].status} \subseteq {"used", "none"}
            /\ approvals[a] # Absent /\ approvalFile[a] # Absent =>
                 approvals[a].audit = approvalFile[a].audit
            /\ a > issued.approvals => approvals[a] = Absent /\ approvalFile[a] = Absent /\ uses[a] = 0
        BY <1>3 DEF ApprovalsSound
      <3>2. a > issued'.approvals => a > issued.approvals
        BY <1>1, <1>6 DEF ApprovalIds
      <3>3. CASE approvals'[a] = approvals[a]
        BY <3>1, <3>2, <3>3
      <3>4. CASE approvals[a].status \in {"pending", "approved"} /\ approvals'[a].audit = approvals[a].audit
                 /\ approvals'[a].status = "expired"
        <4>1. approvals[a] # Absent
          BY <3>4 DEF Absent
        <4>2. QED
          BY <3>1, <3>2, <3>4, <4>1
      <3>5. CASE a > issued.approvals /\ a <= issued'.approvals
        <4>1. uses[a] # 1 /\ approvalFile[a] = Absent
          BY <3>1, <3>5
        <4>2. ~(a > issued'.approvals)
          BY <1>6, <3>5 DEF ApprovalIds
        <4>3. QED
          BY <4>1, <4>2
      <3>6. QED
        BY <1>1, <3>3, <3>4, <3>5 DEF MayBecome
    <2>2. ASSUME NEW a \in ApprovalIds, a > issued'.approvals PROVE a > issued.approvals
      BY <1>1, <1>6, <2>2 DEF ApprovalIds
    <2>3. QED
      BY <1>1, <1>3, <2>1, <2>2 DEF ApprovalsSound
  <1>9. ASSUME NEW i \in DOMAIN auditFile["policy"] PROVE EntrySound(auditFile["policy"][i])'
    <2> DEFINE r == auditFile["policy"][i]
    <2>1. EntrySound(r)
      BY <1>3 DEF AuditsSound
    <2>2. r \in Entry
      <3>1. auditFile["policy"] \in Seq(Entry)
        BY PolicyTypes
      <3>2. QED
        BY <1>9, <3>1, ElementOfSeq
    <2>3. ASSUME r.approval # None, approvals'[r.approval] # Absent
          PROVE  approvals'[r.approval].audit = r.from
      <3>1. r.approval \in ApprovalIds
        BY <2>2, <2>3 DEF Entry
      <3>2. uses[r.approval] = 1
        BY <2>1, <2>3 DEF EntrySound
      <3>3. ~(r.approval > issued.approvals) /\ approvals[r.approval].status \in {"used", "none"}
        BY <1>3, <3>1, <3>2 DEF ApprovalsSound
      <3>4. approvals'[r.approval] = approvals[r.approval]
        <4>1. MayBecome(r.approval)
          BY <1>1, <3>1
        <4>2. QED
          BY <3>3, <4>1 DEF MayBecome
      <3>5. QED
        BY <2>1, <2>3, <3>4 DEF EntrySound
    <2>4. QED
      BY <1>1, <2>1, <2>3 DEF EntrySound
  <1>10. ASSUME "append audit" \in Left' /\ approvalRequired /\ work'.entry.from # None =>
                  work'.entry.approval # None
         PROVE  AuditsSound'
    BY <1>1, <1>3, <1>9, <1>10 DEF AuditsSound
  <1>11. ASSUME "set value" \in Left' /\ work'.entry.key \in Keys => ~Recorded(work'.entry.key)
         PROVE  KeysSound'
    <2>1. \A k : (Recorded(k)' <=> Recorded(k)) /\ ~Applying(k) /\ ~Applying(k)'
      BY <1>1, <1>2 DEF Recorded, Applying, Begins
    <2>2. QED
      BY <1>1, <1>3, <1>11, <2>1 DEF KeysSound
  <1>12. QED
    BY <1>4, <1>5, <1>7, <1>8, <1>10, <1>11

\* A request that is not about a document.
LEMMA OtherBegins ==
    ASSUME PolicyInv, Begins, WorkFits', {"append audit", "set value"} \cap Left' = {}
    PROVE  PolicyInv'
  <1>1. /\ PolicyTypeOK' /\ Numbers' /\ DocsSound' /\ FilesFollow' /\ ApprovalsSound'
        /\ AuditsSound' /\ KeysSound'
    BY RequestBegins
  <1>2. GrantSound'
    BY DEF GrantSound
  <1>3. QED
    BY <1>1, <1>2 DEF PolicyInv

\* The number that is issued next.
LEMMA NextNumber ==
    ASSUME PolicyInv
    PROVE  /\ issued.approvals \in Nat
           /\ issued.audits < MaxAudits /\ issued' = [issued EXCEPT !.audits = @ + 1] =>
                /\ issued' \in [audits : 0..MaxAudits, approvals : 0..MaxApprovals, purges : 0..MaxPurges]
                /\ issued.audits + 1 \in AuditIds /\ issued'.approvals = issued.approvals
           /\ issued.approvals < MaxApprovals /\ issued' = [issued EXCEPT !.approvals = @ + 1] =>
                /\ issued' \in [audits : 0..MaxAudits, approvals : 0..MaxApprovals, purges : 0..MaxPurges]
                /\ issued.approvals + 1 \in ApprovalIds /\ issued'.approvals = issued.approvals + 1
           /\ issued.purges < MaxPurges /\ issued' = [issued EXCEPT !.purges = @ + 1] =>
                /\ issued' \in [audits : 0..MaxAudits, approvals : 0..MaxApprovals, purges : 0..MaxPurges]
                /\ issued'.purges \in 1..MaxPurges /\ issued'.approvals = issued.approvals
  <1>1. issued \in [audits : 0..MaxAudits, approvals : 0..MaxApprovals, purges : 0..MaxPurges]
    BY DEF PolicyInv, Numbers
  <1>2. /\ issued.audits \in 0..MaxAudits /\ issued.approvals \in 0..MaxApprovals
        /\ issued.purges \in 0..MaxPurges
        /\ issued.audits \in Nat /\ issued.approvals \in Nat /\ issued.purges \in Nat
        /\ MaxAudits \in Nat /\ MaxApprovals \in Nat /\ MaxPurges \in Nat
    BY <1>1, PolicyAssumption
  <1>3. QED
    BY <1>1, <1>2 DEF AuditIds, ApprovalIds

\* An update of a document.
LEMMA UpdateInv ==
    ASSUME PolicyInv, NEW d \in Docs, NEW p \in Policies, Update(d, p)
    PROVE  PolicyInv'
  <1>1. /\ issued.audits < MaxAudits /\ todo = <<>> /\ todo' = DocSteps
        /\ work' = NextAudit(d, p, None, NoKey, None)
        /\ issued' = [issued EXCEPT !.audits = @ + 1]
        /\ UNCHANGED <<value, file, audits, auditFile, approvals, approvalFile, approvalRequired, due,
                       purges, purgeFile, uses, applied, lost, cut, policyFaults, policyCrashes>>
    BY DEF Update, May, HandlerBegins, documents, approvalVars, purgeVars, history, faults
  <1>2. Left' = DocLeft /\ Orderly(todo')
    BY <1>1, DocParts DEF Left, Runs
  <1>3. /\ issued' \in [audits : 0..MaxAudits, approvals : 0..MaxApprovals, purges : 0..MaxPurges]
        /\ issued.audits + 1 \in AuditIds /\ issued'.approvals = issued.approvals
        /\ issued.approvals \in Nat
    BY <1>1, NextNumber
  <1>4. /\ work'.doc = d /\ work'.entry \in Entry /\ work'.entry.from = None
        /\ work'.entry.key = NoKey /\ work'.entry.approval = None
    BY <1>1, <1>3 DEF NextAudit, Entry
  <1>5. {"use", "approve", "keep", "append purge"} \cap Left' = {} /\ "set value" \in Left'
    BY <1>2 DEF DocLeft
  <1>6. NoKey \notin Keys
    BY PolicyAssumption
  <1>7. WorkFits'
    BY <1>2, <1>4, <1>5, <1>6 DEF WorkFits
  <1>8. Begins
    <2>1. approvals \in Approvals /\ purges \in Seq(1..MaxPurges)
      BY PolicyTypes
    <2>2. \A a \in ApprovalIds : MayBecome(a)
      BY <1>1 DEF MayBecome
    <2>3. approvals' \in Approvals /\ purges' \in Seq(1..MaxPurges) /\ purges' = purges
      BY <1>1, <2>1
    <2>4. issued.approvals <= issued'.approvals
      BY <1>3
    <2>5. QED
      BY <1>1, <1>3, <1>5, <2>2, <2>3, <2>4 DEF Begins
  <1>9. /\ PolicyTypeOK' /\ Numbers' /\ DocsSound' /\ FilesFollow' /\ ApprovalsSound'
        /\ AuditsSound' /\ KeysSound'
    BY <1>4, <1>6, <1>8, RequestBegins
  <1>10. GrantSound'
    BY <1>4 DEF GrantSound
  <1>11. QED
    BY <1>7, <1>9, <1>10 DEF PolicyInv

\* What is known of the audit that a rollback goes back to.
LEMMA AuditOfIs ==
    ASSUME PolicyInv, NEW a, Known(a)
    PROVE  AuditOf(a) \in Entry
  <1>1. audits["policy"] \in Seq(Entry)
    BY PolicyTypes
  <1>2. PICK i \in DOMAIN audits["policy"] : audits["policy"][i].id = a
    BY DEF Known
  <1>3. audits["policy"][i] \in Range(audits["policy"])
    BY <1>2 DEF Range
  <1>4. AuditOf(a) \in Range(audits["policy"])
    BY <1>2, <1>3 DEF AuditOf
  <1>5. \A e \in Range(audits["policy"]) : e \in Entry
    BY <1>1, ElementOfSeq DEF Range
  <1>6. QED
    BY <1>4, <1>5

\* A key that is not replayed is not recorded.
LEMMA NewKey ==
    ASSUME PolicyInv, NEW k, ~Replayed(k)
    PROVE  ~Recorded(k)
  <1>1. ASSUME Recorded(k) PROVE FALSE
    <2>1. PICK i \in DOMAIN auditFile["policy"] : auditFile["policy"][i].key = k
      BY <1>1 DEF Recorded
    <2>2. PICK j \in DOMAIN audits["policy"] : audits["policy"][j] = auditFile["policy"][i]
      BY DEF PolicyInv, AuditsSound
    <2>3. audits["policy"][j] \in Range(audits["policy"])
      BY DEF Range
    <2>4. QED
      BY <2>1, <2>2, <2>3 DEF Replayed
  <1>2. QED
    BY <1>1

\* A rollback: of the policy, to an audit that is known, with a new key, and with an
\* approval that is bound to this audit, or without one if none is required.
LEMMA RollbackInv ==
    ASSUME PolicyInv, NEW a \in AuditIds, NEW k \in Keys \cup {NoKey},
           NEW approval \in ApprovalIds \cup {None}, Rollback(a, k, approval)
    PROVE  PolicyInv'
  <1> DEFINE e == [id |-> issued.audits + 1, policy |-> AuditOf(a).policy, from |-> a,
                   key |-> k, approval |-> approval]
  <1>1. /\ issued.audits < MaxAudits /\ todo = <<>> /\ Known(a) /\ (k # NoKey => ~Replayed(k))
        /\ issued' = [issued EXCEPT !.audits = @ + 1]
        /\ UNCHANGED <<value, file, audits, auditFile, approvalFile, approvalRequired, due,
                       purges, purgeFile, uses, applied, lost, cut, policyFaults, policyCrashes>>
    BY DEF Rollback, May, HandlerBegins, documents, purgeVars, history, faults
  <1>2. /\ issued' \in [audits : 0..MaxAudits, approvals : 0..MaxApprovals, purges : 0..MaxPurges]
        /\ issued.audits + 1 \in AuditIds /\ issued'.approvals = issued.approvals
        /\ issued.approvals \in Nat
    BY <1>1, NextNumber
  <1>3. AuditOf(a).policy \in Policies
    BY <1>1, AuditOfIs DEF Entry
  <1>4. e \in Entry
    BY <1>2, <1>3 DEF Entry
  <1>5. k \in Keys => ~Recorded(k)
    BY <1>1, NewKey, PolicyAssumption
  <1>6. approvals \in Approvals /\ purges \in Seq(1..MaxPurges) /\ "policy" \in Docs
        /\ uses \in [ApprovalIds -> Nat]
    BY PolicyTypes
  <1>7. a # None /\ None \notin ApprovalIds
    BY DEF AuditIds, ApprovalIds, None
  <1>8. CASE approval = None
    <2>1. /\ ~approvalRequired /\ todo' = DocSteps /\ approvals' = approvals
          /\ work' = [doc |-> "policy", entry |-> e]
      BY <1>8 DEF Rollback, HandlerBegins, NextAudit
    <2> HIDE DEF e
    <2>2. Left' = DocLeft /\ Orderly(todo')
      BY <2>1, DocParts DEF Left, Runs
    <2>3. {"use", "approve", "keep", "append purge"} \cap Left' = {} /\ "set value" \in Left'
      BY <2>2 DEF DocLeft
    <2>4. work'.doc = "policy" /\ work'.entry = e /\ e.approval = None /\ e.key = k
      BY <1>8, <2>1 DEF e
    <2>5. WorkFits'
      BY <1>4, <1>6, <2>2, <2>3, <2>4 DEF WorkFits
    <2>6. Begins
      <3>1. \A b \in ApprovalIds : MayBecome(b)
        BY <2>1 DEF MayBecome
      <3>2. approvals' \in Approvals /\ purges' \in Seq(1..MaxPurges) /\ purges' = purges
        BY <1>1, <1>6, <2>1
      <3>3. issued.approvals <= issued'.approvals
        BY <1>2
      <3>4. QED
        BY <1>1, <1>2, <2>3, <3>1, <3>2, <3>3 DEF Begins
    <2>7. /\ PolicyTypeOK' /\ Numbers' /\ DocsSound' /\ FilesFollow' /\ ApprovalsSound'
          /\ AuditsSound' /\ KeysSound'
      BY <1>5, <2>1, <2>4, <2>6, RequestBegins
    <2>8. GrantSound'
      BY <2>4 DEF GrantSound
    <2>9. QED
      BY <2>5, <2>7, <2>8 DEF PolicyInv
  <1>9. CASE approval # None
    <2>1. /\ Refreshed[approval] = [audit |-> a, status |-> "approved"]
          /\ todo' = PersistIf(Refreshed # approvals) \o ConsumeThenApply /\ approvals' = Refreshed
          /\ work' = [doc |-> "policy", entry |-> e]
      BY <1>9 DEF Rollback, HandlerBegins, NextAudit, RefreshSteps
    <2> HIDE DEF e
    <2>2. Left' = {"use", "open approvals", "write approvals"} \cup DocLeft /\ Orderly(todo')
      BY <2>1, RollbackParts DEF Left, Runs
    <2>3. {"approve", "keep", "append purge"} \cap Left' = {}
          /\ {"set value", "use", "append audit", "write approvals"} \subseteq Left'
      BY <2>2 DEF DocLeft
    <2>4. /\ work'.doc = "policy" /\ work'.entry = e /\ e.approval = approval /\ e.key = k /\ e.from = a
          /\ approval \in ApprovalIds
      BY <1>9, <2>1 DEF e
    <2>5. WorkFits'
      BY <1>4, <1>6, <1>7, <2>2, <2>3, <2>4 DEF WorkFits
    <2>6. Begins
      <3>1. \A b \in ApprovalIds : MayBecome(b)
        BY <2>1, RefreshedIs DEF MayBecome
      <3>2. approvals' \in Approvals /\ purges' \in Seq(1..MaxPurges) /\ purges' = purges
        BY <1>1, <1>6, <2>1, RefreshedIs
      <3>3. issued.approvals <= issued'.approvals
        BY <1>2
      <3>4. QED
        BY <1>1, <1>2, <2>3, <3>1, <3>2, <3>3 DEF Begins
    <2>7. /\ PolicyTypeOK' /\ Numbers' /\ DocsSound' /\ FilesFollow' /\ ApprovalsSound'
          /\ AuditsSound' /\ KeysSound'
      BY <1>5, <1>9, <2>4, <2>6, RequestBegins
    <2>8. approvals'[approval].audit = a /\ approvals'[approval].status = "approved"
      BY <2>1
    <2>9. uses'[approval] = 0
      <3>1. uses'[approval] # 1 /\ uses'[approval] <= 1
        BY <2>4, <2>7, <2>8 DEF ApprovalsSound
      <3>2. uses'[approval] \in Nat
        BY <1>1, <1>6, <2>4
      <3>3. QED
        BY <3>1, <3>2
    <2>10. GrantSound'
      BY <2>3, <2>4, <2>8, <2>9 DEF GrantSound
    <2>11. QED
      BY <2>5, <2>7, <2>10 DEF PolicyInv
  <1>10. QED
    BY <1>8, <1>9

\* An approval is made for an audit, with a number that no approval had.
LEMMA CreateApprovalInv ==
    ASSUME PolicyInv, NEW a \in AuditIds, CreateApproval(a)
    PROVE  PolicyInv'
  <1> DEFINE new == issued.approvals + 1
  <1>1. /\ issued.approvals < MaxApprovals /\ todo = <<>> /\ todo' = PersistApprovals
        /\ approvals' = [approvals EXCEPT ![new] = [audit |-> a, status |-> "pending"]]
        /\ issued' = [issued EXCEPT !.approvals = @ + 1]
        /\ UNCHANGED <<value, file, audits, auditFile, approvalFile, approvalRequired, due,
                       purges, purgeFile, uses, applied, lost, cut, policyFaults, policyCrashes>>
    BY DEF CreateApproval, May, HandlerBegins, documents, purgeVars, history, faults
  <1>2. /\ issued' \in [audits : 0..MaxAudits, approvals : 0..MaxApprovals, purges : 0..MaxPurges]
        /\ new \in ApprovalIds /\ issued'.approvals = new /\ issued.approvals \in Nat
    BY <1>1, NextNumber
  <1>3. Left' = {"open approvals", "write approvals"} /\ Orderly(todo')
    BY <1>1, OnlyWrites DEF Left, Runs
  <1>4. WorkFits'
    BY <1>3 DEF WorkFits
  <1>5. approvals \in Approvals /\ purges \in Seq(1..MaxPurges)
    BY PolicyTypes
  <1>6. /\ approvals' \in Approvals /\ approvals'[new].status = "pending"
        /\ \A b \in ApprovalIds \ {new} : approvals'[b] = approvals[b]
    <2> HIDE DEF new
    <2>1. QED
      BY <1>1, <1>2, <1>5 DEF Approvals, ApprovalStatus
  <1>7. new > issued.approvals /\ new <= issued'.approvals /\ issued.approvals <= issued'.approvals
    BY <1>2
  <1>8. \A b \in ApprovalIds : MayBecome(b)
    BY <1>3, <1>6, <1>7 DEF MayBecome
  <1>9. purges' \in Seq(1..MaxPurges) /\ purges' = purges
    BY <1>1, <1>5
  <1>10. Begins
    BY <1>1, <1>2, <1>3, <1>6, <1>7, <1>8, <1>9 DEF Begins
  <1>11. QED
    BY <1>3, <1>4, <1>10, OtherBegins

\* A request that refreshes and creates nothing.
LEMMA RefreshBegins ==
    ASSUME PolicyInv, todo = <<>>, approvals' = Refreshed, WorkFits',
           UNCHANGED <<value, file, audits, auditFile, approvalFile, approvalRequired, due, purges,
                       purgeFile, uses, applied, lost, cut, policyFaults, policyCrashes>>,
           {"append audit", "set value"} \cap Left' = {},
           "append purge" \in Left' => "note purge" \in Left',
           issued' \in [audits : 0..MaxAudits, approvals : 0..MaxApprovals, purges : 0..MaxPurges],
           issued'.approvals = issued.approvals
    PROVE  PolicyInv'
  <1>1. issued.approvals <= issued'.approvals
    <2>1. issued.approvals \in Nat
      BY NextNumber
    <2>2. issued'.approvals = issued.approvals
      OBVIOUS
    <2>3. QED
      BY ONLY <2>1, <2>2
  <1>2. approvals' \in Approvals /\ \A a \in ApprovalIds : MayBecome(a)
    BY RefreshedIs DEF MayBecome
  <1>3. purges' \in Seq(1..MaxPurges)
    BY PolicyTypes
  <1>4. Begins
    BY <1>1, <1>2, <1>3 DEF Begins
  <1>5. QED
    BY <1>4, OtherBegins

\* An approval is given.
LEMMA ApproveRollbackInv ==
    ASSUME PolicyInv, NEW a \in ApprovalIds, ApproveRollback(a)
    PROVE  PolicyInv'
  <1>1. /\ todo = <<>> /\ approvals' = Refreshed /\ Refreshed[a].status = "pending"
        /\ todo' = (PersistIf(Refreshed # approvals) \o <<"approve">>) \o PersistApprovals
        /\ work' = [approval |-> a] /\ issued' = issued
        /\ UNCHANGED <<value, file, audits, auditFile, approvalFile, approvalRequired, due, purges,
                       purgeFile, uses, applied, lost, cut, policyFaults, policyCrashes>>
    BY DEF ApproveRollback, HandlerBegins, RefreshSteps, documents, purgeVars, history, faults
  <1>2. Left' = {"approve", "open approvals", "write approvals"} /\ Orderly(todo')
    BY <1>1, ApproveParts DEF Left, Runs
  <1>3. WorkFits'
    BY <1>1, <1>2 DEF WorkFits
  <1>4. issued' \in [audits : 0..MaxAudits, approvals : 0..MaxApprovals, purges : 0..MaxPurges]
    BY <1>1 DEF PolicyInv, Numbers
  <1>5. QED
    BY <1>1, <1>2, <1>3, <1>4, RefreshBegins

\* What has expired is written.
LEMMA RefreshOnlyInv ==
    ASSUME PolicyInv, RefreshOnly
    PROVE  PolicyInv'
  <1>1. /\ todo = <<>> /\ approvals' = Refreshed /\ todo' = PersistIf(Refreshed # approvals)
        /\ issued' = issued
        /\ UNCHANGED <<value, file, audits, auditFile, approvalFile, approvalRequired, due, purges,
                       purgeFile, uses, applied, lost, cut, policyFaults, policyCrashes>>
    BY DEF RefreshOnly, HandlerBegins, RefreshSteps, documents, purgeVars, history, faults
  <1>2. Left' \subseteq {"open approvals", "write approvals"} /\ Orderly(todo')
    BY <1>1, OnlyWrites DEF Left, Runs
  <1>3. WorkFits'
    BY <1>1, <1>2 DEF WorkFits
  <1>4. issued' \in [audits : 0..MaxAudits, approvals : 0..MaxApprovals, purges : 0..MaxPurges]
    BY <1>1 DEF PolicyInv, Numbers
  <1>5. QED
    BY <1>1, <1>2, <1>3, <1>4, RefreshBegins

\* A purge of approvals, which removes nothing before it has counted, or only counts.
LEMMA PurgeApprovalsInv ==
    ASSUME PolicyInv, NEW statuses, NEW old, NEW dry \in BOOLEAN, PurgeApprovals(statuses, old, dry)
    PROVE  PolicyInv'
  <1> DEFINE removed == {a \in old : Refreshed[a].status \in statuses}
             keep == [a \in ApprovalIds |-> IF a \in removed THEN Absent ELSE Refreshed[a]]
             some == removed # {}
  <1>1. /\ issued.purges < MaxPurges /\ todo = <<>> /\ approvals' = Refreshed
        /\ todo' = (IF dry THEN LogPurge
                    ELSE PersistIf(Refreshed # approvals) \o <<"keep">> \o PersistIf(some) \o LogPurge)
        /\ work' = [keep |-> keep]
        /\ issued' = [issued EXCEPT !.purges = @ + 1]
        /\ UNCHANGED <<value, file, audits, auditFile, approvalFile, approvalRequired, due, purges,
                       purgeFile, uses, applied, lost, cut, policyFaults, policyCrashes>>
    BY DEF PurgeApprovals, May, HandlerBegins, RefreshSteps, documents, purgeVars, history, faults
  <1>2. /\ issued' \in [audits : 0..MaxAudits, approvals : 0..MaxApprovals, purges : 0..MaxPurges]
        /\ issued'.purges \in 1..MaxPurges /\ issued'.approvals = issued.approvals
    BY <1>1, NextNumber
  <1>3. Refreshed \in Approvals
    BY RefreshedIs
  <1>4. /\ keep \in Approvals /\ \A a \in ApprovalIds : keep[a] \in {Refreshed[a], Absent}
        /\ ~some => keep = Refreshed
    <2>1. Absent \in [audit : AuditIds \cup {None}, status : ApprovalStatus]
      BY DEF Absent, ApprovalStatus
    <2> HIDE DEF removed
    <2>2. keep \in Approvals
      BY <1>3, <2>1 DEF Approvals
    <2>3. \A a \in ApprovalIds : keep[a] \in {Refreshed[a], Absent}
      OBVIOUS
    <2>4. removed = {} => keep = Refreshed
      BY <1>3 DEF Approvals
    <2>5. QED
      BY <2>2, <2>3, <2>4
  <1> HIDE DEF keep, removed
  <1>5. CASE dry
    <2>1. Left' = {"note purge", "append purge"} /\ Orderly(todo')
      BY <1>1, <1>5, DocParts DEF Left, Runs
    <2>2. WorkFits'
      BY <1>2, <2>1 DEF WorkFits
    <2>3. QED
      BY <1>1, <1>2, <2>1, <2>2, RefreshBegins
  <1>6. CASE ~dry
    <2>1. todo' = ((PersistIf(Refreshed # approvals) \o <<"keep">>) \o PersistIf(some)) \o LogPurge
      BY <1>1, <1>6
    <2>2. /\ Orderly(todo') /\ (some => Persisted(todo'))
          /\ Left' = (IF (Refreshed # approvals) \/ some THEN {"open approvals", "write approvals"} ELSE {})
                        \cup {"keep", "note purge", "append purge"}
      BY <2>1, PurgeParts DEF Left
    <2>3. /\ {"append audit", "set value", "use", "approve"} \cap Left' = {}
          /\ "note purge" \in Left'
      BY <2>2
    <2>4. WorkFits'
      BY <1>1, <1>2, <1>4, <2>2, <2>3 DEF WorkFits
    <2>5. QED
      BY <1>1, <1>2, <2>3, <2>4, RefreshBegins
  <1>7. QED
    BY <1>5, <1>6

\* A purge of the purge log.
LEMMA PurgeLogGCInv ==
    ASSUME PolicyInv, NEW old \in 0..MaxPurges, NEW latest \in 0..MaxPurges, NEW dry \in BOOLEAN,
           PurgeLogGC(old, latest, dry)
    PROVE  PolicyInv'
  <1> DEFINE free == IF latest < Len(purges) THEN Len(purges) - latest ELSE 0
             first == Min({old, free})
             rewrite == IF first > 0 THEN <<"open purges", "write purges">> ELSE <<>>
  <1>1. /\ issued.purges < MaxPurges /\ todo = <<>> /\ old <= Len(purges)
        /\ purges' = (IF dry THEN purges ELSE SubSeq(purges, first + 1, Len(purges)))
        /\ todo' = (IF dry THEN LogPurge ELSE rewrite \o LogPurge)
        /\ issued' = [issued EXCEPT !.purges = @ + 1]
        /\ UNCHANGED <<value, file, audits, auditFile, approvals, approvalFile, approvalRequired, due,
                       purgeFile, uses, applied, lost, cut, policyFaults, policyCrashes>>
    BY DEF PurgeLogGC, May, HandlerBegins, documents, approvalVars, history, faults
  <1>2. /\ issued' \in [audits : 0..MaxAudits, approvals : 0..MaxApprovals, purges : 0..MaxPurges]
        /\ issued'.purges \in 1..MaxPurges /\ issued'.approvals = issued.approvals
        /\ issued.approvals \in Nat
    BY <1>1, NextNumber
  <1>3. purges \in Seq(1..MaxPurges) /\ Len(purges) \in Nat /\ approvals \in Approvals
    BY PolicyTypes
  <1>4. first \in Nat
    <2>1. old \in Nat /\ latest \in Nat /\ free \in Nat
      BY <1>3
    <2> HIDE DEF free
    <2>2. \E x \in {old, free} : \A y \in {old, free} : x <= y
      BY <2>1
    <2>3. first \in {old, free}
      BY <2>2 DEF Min
    <2>4. QED
      BY <2>1, <2>3
  <1> HIDE DEF free, first
  <1>5. SubSeq(purges, first + 1, Len(purges)) \in Seq(1..MaxPurges)
    <2>1. first + 1 \in Int /\ Len(purges) \in Int
      BY <1>3, <1>4
    <2>2. \A i \in (first + 1) .. Len(purges) : purges[i] \in 1..MaxPurges
      <3>1. ASSUME NEW i \in (first + 1) .. Len(purges) PROVE i \in 1 .. Len(purges)
        BY <1>3, <1>4
      <3>2. QED
        BY <1>3, <3>1, ElementOfSeq
    <2>3. QED
      BY <2>1, <2>2, SubSeqProperties
  <1>6. /\ Orderly(todo') /\ ("write purges" \in Left' \/ purges' = purges)
        /\ {"append audit", "set value", "use", "approve", "keep"} \cap Left' = {}
        /\ "note purge" \in Left'
    <2>1. CASE dry
      <3>1. Left' = {"note purge", "append purge"} /\ Orderly(todo')
        BY <1>1, <2>1, DocParts DEF Left, Runs
      <3>2. QED
        BY <1>1, <2>1, <3>1
    <2>2. CASE ~dry /\ first > 0
      <3>1. todo' = <<"open purges", "write purges">> \o LogPurge
        BY <1>1, <2>2
      <3>2. Left' = {"open purges", "write purges", "note purge", "append purge"} /\ Orderly(todo')
        BY <3>1, LogParts DEF Left, Runs
      <3>3. QED
        BY <3>2
    <2>3. CASE ~dry /\ ~(first > 0)
      <3>1. first = 0
        BY <1>4, <2>3
      <3>2. SubSeq(purges, 1, Len(purges)) = purges
        BY <1>3, SubSeqFull
      <3>3. purges' = purges
        BY <1>1, <2>3, <3>1, <3>2
      <3>4. LogPurge \in Seq(PolicySteps)
        BY DocParts DEF Runs, Orderly
      <3>5. todo' = LogPurge
        BY <1>1, <2>3, <3>4, ConcatEmptySeq
      <3>6. Left' = {"note purge", "append purge"} /\ Orderly(todo')
        BY <3>5, DocParts DEF Left, Runs
      <3>7. QED
        BY <3>3, <3>6
    <2>4. QED
      BY <2>1, <2>2, <2>3
  <1>7. WorkFits'
    BY <1>2, <1>6 DEF WorkFits
  <1>8. Begins
    <2>1. approvals' \in Approvals /\ \A a \in ApprovalIds : MayBecome(a)
      BY <1>1, <1>3 DEF MayBecome
    <2>2. purges' \in Seq(1..MaxPurges)
      BY <1>1, <1>3, <1>5
    <2>3. issued.approvals <= issued'.approvals
      BY <1>2
    <2>4. QED
      BY <1>1, <1>2, <1>6, <2>1, <2>2, <2>3 DEF Begins
  <1>9. QED
    BY <1>6, <1>7, <1>8, OtherBegins

-----------------------------------------------------------------------------
(* The alert policy store: the theorems                                    *)

\* The store starts with the defaults, and with nothing audited, approved or purged.
LEMMA PolicyInitInv == PolicyInit => PolicyInv
  <1> SUFFICES ASSUME PolicyInit PROVE PolicyInv
    OBVIOUS
  <1>1. /\ value = [d \in Docs |-> Default] /\ file = [d \in Docs |-> Default]
        /\ audits = [d \in Docs |-> <<>>] /\ auditFile = [d \in Docs |-> <<>>]
        /\ approvals = NoApprovals /\ approvalFile = NoApprovals /\ approvalRequired \in BOOLEAN
        /\ due = {} /\ purges = <<>> /\ purgeFile = <<>> /\ todo = <<>>
        /\ issued = [audits |-> 0, approvals |-> 0, purges |-> 0]
        /\ uses = [a \in ApprovalIds |-> 0] /\ applied = [k \in Keys |-> 0] /\ lost = [k \in Keys |-> 0]
        /\ cut = {} /\ policyFaults = 0 /\ policyCrashes = 0
    BY DEF PolicyInit
  <1>2. Left = {} /\ Orderly(todo)
    BY <1>1, NothingLeft DEF Left
  <1>3. /\ "policy" \in Docs /\ Default \in Policies
        /\ MaxAudits \in Nat /\ MaxApprovals \in Nat /\ MaxPurges \in Nat
    BY PolicyAssumption
  <1>4. auditFile["policy"] = <<>> /\ DOMAIN auditFile["policy"] = {}
    BY <1>1, <1>3
  <1>5. PolicyTypeOK
    <2>1. audits \in [Docs -> Seq(Entry)] /\ auditFile \in [Docs -> Seq(Entry)]
      BY <1>1, EmptySeq
    <2>2. purges \in Seq(1..MaxPurges) /\ purgeFile \in Seq(1..MaxPurges)
      BY <1>1, EmptySeq
    <2>3. NoApprovals \in Approvals
      BY DEF NoApprovals, Approvals, Absent, ApprovalStatus
    <2>4. value \in [Docs -> Policies] /\ file \in [Docs -> Policies \cup {Torn}]
      BY <1>1, <1>3
    <2>5. uses \in [ApprovalIds -> Nat] /\ applied \in [Keys -> Nat] /\ lost \in [Keys -> Nat]
      BY <1>1
    <2>6. due \subseteq ApprovalIds /\ cut \subseteq Docs /\ approvalRequired \in BOOLEAN
      BY <1>1
    <2>7. QED
      BY <1>1, <2>1, <2>2, <2>3, <2>4, <2>5, <2>6 DEF PolicyTypeOK
  <1>6. Numbers
    BY <1>1, <1>3 DEF Numbers
  <1>7. WorkFits
    BY <1>2 DEF WorkFits
  <1>8. DocsSound
    <2>1. ASSUME NEW d \in Docs PROVE Settled(d)
      BY <1>1, <2>1 DEF Settled, LastPolicy
    <2>2. QED
      BY <1>2, <2>1 DEF DocsSound
  <1>9. FilesFollow
    BY <1>1, <1>2 DEF FilesFollow, FileShows
  <1>10. ApprovalsSound
    <2>1. \A a \in ApprovalIds : approvals[a] = Absent /\ approvalFile[a] = Absent /\ uses[a] = 0
      BY <1>1 DEF NoApprovals
    <2>2. QED
      BY <2>1 DEF ApprovalsSound
  <1>11. GrantSound
    BY <1>2 DEF GrantSound
  <1>12. AuditsSound
    BY <1>2, <1>4 DEF AuditsSound
  <1>13. KeysSound
    BY <1>1, <1>2 DEF KeysSound
  <1>14. QED
    BY <1>5, <1>6, <1>7, <1>8, <1>9, <1>10, <1>11, <1>12, <1>13 DEF PolicyInv

\* Every request, every step of a handler, every fault and every restart keeps the invariant.
LEMMA PolicyNextInv == PolicyInv /\ [PolicyNext]_policyVars => PolicyInv'
  <1> SUFFICES ASSUME PolicyInv, [PolicyNext]_policyVars PROVE PolicyInv'
    OBVIOUS
  <1>1. CASE PolicyRequest
    <2>1. ASSUME NEW d \in Docs, NEW p \in Policies, Update(d, p) PROVE PolicyInv'
      BY <2>1, UpdateInv
    <2>2. ASSUME NEW a \in AuditIds, NEW k \in Keys \cup {NoKey}, NEW approval \in ApprovalIds \cup {None},
                 Rollback(a, k, approval)
          PROVE  PolicyInv'
      BY <2>2, RollbackInv
    <2>3. ASSUME NEW a \in AuditIds, CreateApproval(a) PROVE PolicyInv'
      BY <2>3, CreateApprovalInv
    <2>4. ASSUME NEW a \in ApprovalIds, ApproveRollback(a) PROVE PolicyInv'
      BY <2>4, ApproveRollbackInv
    <2>5. CASE RefreshOnly
      BY <2>5, RefreshOnlyInv
    <2>6. ASSUME NEW statuses \in SUBSET {"used", "expired"}, NEW old \in SUBSET ApprovalIds,
                 NEW dry \in BOOLEAN, PurgeApprovals(statuses, old, dry)
          PROVE  PolicyInv'
      BY <2>6, PurgeApprovalsInv
    <2>7. ASSUME NEW old \in 0..MaxPurges, NEW latest \in 0..MaxPurges, NEW dry \in BOOLEAN,
                 PurgeLogGC(old, latest, dry)
          PROVE  PolicyInv'
      BY <2>7, PurgeLogGCInv
    <2>8. QED
      BY <1>1, <2>1, <2>2, <2>3, <2>4, <2>5, <2>6, <2>7 DEF PolicyRequest
  <1>2. CASE HandlerStep
    <2>1. CASE MarkApproval
      <3>1. Does("approve") \/ Does("use") \/ Does("keep")
        BY <2>1 DEF MarkApproval
      <3>2. QED
        BY <2>1, <3>1, ApproveInv, UseInv, KeepInv
    <2>2. QED
      BY <1>2, <2>1, SetValueInv, WriteDocInv, NoteAuditInv, AppendAuditInv, WriteApprovalsInv,
         WritePurgesInv DEF HandlerStep
  <1>3. CASE PolicyFault
    BY <1>3, PolicyFaultInv
  <1>4. CASE PolicyCrash
    BY <1>4, PolicyCrashInv
  <1>5. ASSUME NEW a \in ApprovalIds, Expire(a) PROVE PolicyInv'
    BY <1>5, ExpireInv
  <1>6. CASE UNCHANGED policyVars
    <2>1. /\ UNCHANGED <<value, file, audits, auditFile, approvals, approvalFile, approvalRequired, due,
                         purges, purgeFile, todo, work, issued, uses, applied, lost, cut, policyFaults,
                         policyCrashes>>
      BY <1>6 DEF policyVars
    <2>2. Left' = Left
      BY <2>1 DEF Left
    <2>3. PolicyTypeOK' /\ Numbers'
      BY <2>1 DEF PolicyInv, PolicyTypeOK, Numbers
    <2>4. WorkFits'
      BY <2>1, <2>2 DEF PolicyInv, WorkFits
    <2>5. DocsSound' /\ KeysSound'
      BY <2>1, <2>2, DocsKept, KeysKept DEF PolicyInv
    <2>6. FilesFollow'
      BY <2>1, <2>2, FilesKept DEF PolicyInv
    <2>7. ApprovalsSound' /\ GrantSound'
      BY <2>1, <2>2, ApprovalsKept, GrantKept DEF PolicyInv
    <2>8. AuditsSound'
      BY <2>1, <2>2, AuditsKept DEF PolicyInv
    <2>9. QED
      BY <2>3, <2>4, <2>5, <2>6, <2>7, <2>8 DEF PolicyInv
  <1>7. QED
    BY <1>1, <1>2, <1>3, <1>4, <1>5, <1>6 DEF PolicyNext

\* The invariant of the alert policy store holds in every state it can reach.
THEOREM PolicyInvariance == PolicySpec => []PolicyInv
  <1>1. QED
    BY PolicyInitInv, PolicyNextInv, PTL DEF PolicySpec

\* An approval lets the policy be rolled back once and to the audit it was made for, and a
\* key is applied again only after it was lost: with any number of documents, audits,
\* approvals, keys, failing writes and restarts.
THEOREM ApprovedRollbacks == PolicySpec => []RollbackOnce
  <1>1. PolicyInv => RollbackOnce
    <2> SUFFICES ASSUME PolicyInv PROVE RollbackOnce
      OBVIOUS
    <2>1. ASSUME NEW k \in Keys PROVE applied[k] <= 1 + lost[k]
      <3>1. applied[k] <= lost[k] + (IF Recorded(k) \/ Applying(k) THEN 1 ELSE 0)
        BY DEF PolicyInv, KeysSound
      <3>2. applied[k] \in Nat /\ lost[k] \in Nat
        BY PolicyTypes
      <3>3. QED
        BY <3>1, <3>2
    <2>2. \A a \in ApprovalIds : uses[a] <= 1
      BY DEF PolicyInv, ApprovalsSound
    <2>3. \A i \in DOMAIN auditFile["policy"] : EntrySound(auditFile["policy"][i])
      BY DEF PolicyInv, AuditsSound
    <2>4. QED
      BY <2>1, <2>2, <2>3 DEF RollbackOnce, EntrySound
  <1>2. QED
    BY <1>1, PolicyInvariance, PTL

\* Between requests, memory and files agree: a restart at rest changes nothing.
THEOREM RestingStore == PolicySpec => []PolicyStoreAtRest
  <1>1. PolicyInv => PolicyStoreAtRest
    <2> SUFFICES ASSUME PolicyInv, todo = <<>> PROVE PolicyStoreAtRest
      BY DEF PolicyStoreAtRest
    <2>1. Left = {}
      BY Resting
    <2>2. \A d \in Docs \ cut : Settled(d)
      BY <2>1 DEF PolicyInv, DocsSound
    <2>3. policyFaults = 0 => purgeFile = purges /\ \A a \in ApprovalIds : FileShows(a)
      BY <2>1 DEF PolicyInv, FilesFollow
    <2>4. QED
      BY <2>2, <2>3 DEF PolicyStoreAtRest, Settled, FileShows
  <1>2. QED
    BY <1>1, PolicyInvariance, PTL

-----------------------------------------------------------------------------
(* Calls of the Action Layer                                               *)

\* Who has sent no request has no thread that asked, and while a thread asks its caller
\* has been told nothing but, perhaps, a failure.
CallsSound ==
    \A c \in Calls :
      /\ worker[c] = "none" => tries[c] = 0
      /\ caller[c] = "idle" => worker[c] = "none"
      /\ worker[c] = "asking" => caller[c] \in {"waiting", "failed"}

ActionInv == ActionTypeOK /\ CallsSound /\ ToldWhatWasSaid

\* The invariant holds at the start.
LEMMA ActionInitially == ActionInit => ActionInv
  BY ActionAssumption DEF ActionInit, ActionInv, ActionTypeOK, CallsSound, ToldWhatWasSaid, Serving

\* What parsing makes of an answer is an outcome, and success only of what may count so.
LEMMA ParsedSound ==
    \A answer \in Answers :
      /\ Parsed(answer) \in {"success", "failed", "needs_discussion"}
      /\ Parsed(answer) = "success" => answer \in {"success", "prose", "other"}
      /\ Parsed(answer) = "needs_discussion" => answer = "needs_discussion"
  BY DEF Answers, Parsed

\* And every step keeps it.
LEMMA ActionStep == ActionInv /\ [ActionNext]_actionVars => ActionInv'
  <1> SUFFICES ASSUME ActionInv, [ActionNext]_actionVars PROVE ActionInv'
    OBVIOUS
  <1> USE ActionAssumption DEF ActionInv, ActionTypeOK, CallsSound, ToldWhatWasSaid, Outcome, Returned,
              Waits, Retried
  <1>1. ASSUME NEW c \in Calls, Route(c) PROVE ActionInv'
    BY <1>1 DEF Route
  <1>2. ASSUME NEW c \in Calls, NoConnection(c) PROVE ActionInv'
    BY <1>2 DEF NoConnection, ClientFails
  <1>3. ASSUME NEW c \in Calls, CallTimesOut(c) PROVE ActionInv'
    BY <1>3 DEF CallTimesOut, ClientFails
  <1>4. ASSUME NEW c \in Calls, Receive(c) PROVE ActionInv'
    <2>1. tries[c] = 0 /\ tries \in [Calls -> 0 .. MaxRetries + 1]
      BY <1>4 DEF Receive
    <2>2. CASE \E r \in {"failed", "needs_discussion", "success"} : Respond(c, r) /\ UNCHANGED tries
      BY <1>4, <2>1, <2>2 DEF Receive, Respond
    <2>3. CASE Ask(c) /\ UNCHANGED caller
      BY <1>4, <2>1, <2>3 DEF Receive, Ask
    <2>4. QED
      BY <1>4, <2>2, <2>3 DEF Receive
  <1>5. ASSUME NEW c \in Calls, ProviderAnswers(c) PROVE ActionInv'
    <2>1. PICK answer \in Answers : Ended(c, answer) /\ Respond(c, Parsed(answer))
      BY <1>5 DEF ProviderAnswers
    <2>2. ~Retried(answer)
      BY DEF Answers
    <2>3. QED
      BY <1>5, <2>1, <2>2, ParsedSound DEF ProviderAnswers, Ended, Asking, Respond
  <1>6. ASSUME NEW c \in Calls, AsksAgain(c) PROVE ActionInv'
    BY <1>6 DEF AsksAgain, Ended, Asking, MayRetry, Ask
  <1>7. ASSUME NEW c \in Calls, GivesUp(c) PROVE ActionInv'
    BY <1>7 DEF GivesUp, Ended, Asking, MayRetry, Respond
  <1>8. ASSUME NEW c \in Calls, ThreadDies(c) PROVE ActionInv'
    BY <1>8 DEF ThreadDies, Ended, Asking, Respond, Faults
  <1>9. CASE LayerStops
    BY <1>9 DEF LayerStops, Asking
  <1>10. CASE LayerStarts
    BY <1>10 DEF LayerStarts
  <1>11. CASE UNCHANGED actionVars
    BY <1>11 DEF actionVars
  <1>12. QED
    BY <1>1, <1>2, <1>3, <1>4, <1>5, <1>6, <1>7, <1>8, <1>9, <1>10, <1>11 DEF ActionNext

\* The invariant of the chain from work item to provider: its types, the bookkeeping of
\* threads, and that callers were told what the provider said.
THEOREM ActionInvariance == ActionSpec => []ActionInv
  BY ActionInitially, ActionStep, PTL DEF ActionSpec

\* A work item is told success or a discussion only for the answer to the last request,
\* and no request that may be sent is saved, for any number of calls, retries and
\* restarts (default_http_post, parse_llm_text_response, OpenCodeAdapter.execute).
THEOREM Truthfulness == ActionSpec => []ToldWhatWasSaid
  BY ActionInvariance, PTL DEF ActionInv
=============================================================================
