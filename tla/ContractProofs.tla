---------------------------- MODULE ContractProofs ---------------------------
(***************************************************************************)
(* What the four SDKs share by the contract, for all options, environments *)
(* and responses.                                                          *)
(***************************************************************************)
EXTENDS Contract, NaturalsInduction, WellFoundedInduction, TLAPS
-----------------------------------------------------------------------------
(***************************************************************************)
(* Recursion on the natural numbers.                                       *)
(***************************************************************************)
(* Whatever some natural number has, a least one has.                       *)
LEMMA LeastOf ==
  ASSUME NEW T \in SUBSET Nat, T # {}
  PROVE  \E n \in T : \A m \in T : n <= m
<1>1. \E n \in T : \A m \in T : ~ (<<m, n>> \in OpToRel(<, Nat))
  BY NatLessThanWellFounded, WFMin
<1>2. PICK n \in T : \A m \in T : ~ (m < n)
  BY <1>1 DEF OpToRel
<1> QED
  BY <1>2

(* The values of a function, one by one.                                    *)
LEMMA StepByStep ==
  ASSUME NEW S, NEW f, f[0] \in S, \A n \in Nat : f[n] \in S => f[n + 1] \in S
  PROVE  \A n \in Nat : f[n] \in S
<1> DEFINE T == {n \in Nat : f[n] \notin S}
<1> SUFFICES ASSUME T # {} PROVE FALSE
  OBVIOUS
<1>1. PICK n \in T : \A m \in T : n <= m
  BY LeastOf
<1>2. n # 0 /\ n - 1 \in Nat /\ n - 1 \notin T
  BY <1>1
<1>3. f[n - 1] \in S /\ (n - 1) + 1 = n
  BY <1>2
<1>4. f[(n - 1) + 1] \in S
  BY <1>2, <1>3
<1> QED
  BY <1>1, <1>3, <1>4

(* The first n values of the function that is a at 0 and g of its last value.*)
Starts(f, n, S, a, g) ==
  /\ f \in [0 .. n -> S]
  /\ f[0] = a
  /\ \A i \in 1 .. n : f[i] = g[f[i - 1]]

(* Two of them have the same values.                                        *)
LEMMA StartsAlike ==
  ASSUME NEW S, NEW a, NEW g, NEW n \in Nat, NEW m \in Nat, n <= m,
         NEW f, Starts(f, n, S, a, g), NEW h, Starts(h, m, S, a, g)
  PROVE  \A i \in 0 .. n : f[i] = h[i]
<1> DEFINE T == {i \in 0 .. n : f[i] # h[i]}
<1> SUFFICES ASSUME T # {} PROVE FALSE
  OBVIOUS
<1>0. T \in SUBSET Nat
  OBVIOUS
<1>1. PICK i \in T : \A j \in T : i <= j
  BY <1>0, LeastOf
<1>2. i # 0
  BY <1>1 DEF Starts
<1>3. i - 1 \in 0 .. n /\ i - 1 \notin T /\ i \in 1 .. n /\ i \in 1 .. m
  BY <1>1, <1>2
<1> QED
  BY <1>1, <1>3 DEF Starts

(* Whatever the number of its values, such a function exists.               *)
LEMMA StartsExist ==
  ASSUME NEW S, NEW a \in S, NEW g \in [S -> S]
  PROVE  \A n \in Nat : \E f : Starts(f, n, S, a, g)
<1> DEFINE T == {n \in Nat : ~ \E f : Starts(f, n, S, a, g)}
<1> SUFFICES ASSUME T # {} PROVE FALSE
  OBVIOUS
<1>1. PICK n \in T : \A m \in T : n <= m
  BY LeastOf
<1>2. CASE n = 0
  <2>1. Starts([i \in 0 .. 0 |-> a], 0, S, a, g)
    BY DEF Starts
  <2> QED
    BY <1>2, <2>1, <1>1
<1>3. CASE n # 0
  <2>1. n - 1 \in Nat /\ n - 1 \notin T
    BY <1>1, <1>3
  <2>2. PICK f : Starts(f, n - 1, S, a, g)
    BY <2>1
  <2> DEFINE h == [i \in 0 .. n |-> IF i = n THEN g[f[n - 1]] ELSE f[i]]
  <2>3. h \in [0 .. n -> S] /\ h[0] = a
    BY <1>3, <2>1, <2>2 DEF Starts
  <2>4. ASSUME NEW i \in 1 .. n PROVE h[i] = g[h[i - 1]]
    <3>1. i - 1 \in 0 .. n /\ i - 1 # n /\ i \in 0 .. n
      BY <2>1
    <3>2. h[i - 1] = f[i - 1]
      BY <3>1
    <3>3. CASE i = n
      BY <3>1, <3>2, <3>3
    <3>4. CASE i # n
      BY <3>1, <3>2, <3>4, <2>1, <2>2 DEF Starts
    <3> QED
      BY <3>3, <3>4
  <2> HIDE DEF h
  <2>5. Starts(h, n, S, a, g)
    BY <2>3, <2>4 DEF Starts
  <2> QED
    BY <2>5, <1>1
<1> QED
  BY <1>2, <1>3

(* The function itself.                                                     *)
IsRecursive(f, S, a, g) ==
  f \in [Nat -> S] /\ f = [n \in Nat |-> IF n = 0 THEN a ELSE g[f[n - 1]]]

(* What a recursion on the numbers defines exists.                          *)
LEMMA Recursion ==
  ASSUME NEW S, NEW a \in S, NEW g \in [S -> S]
  PROVE  \E f : IsRecursive(f, S, a, g)
<1> DEFINE start(n) == CHOOSE h : Starts(h, n, S, a, g)
           f == [n \in Nat |-> start(n)[n]]
<1>1. \A n \in Nat : Starts(start(n), n, S, a, g)
  BY StartsExist
<1> HIDE DEF start
<1>2. f \in [Nat -> S] /\ f[0] = a
  BY <1>1 DEF Starts
<1>3. ASSUME NEW n \in Nat, n # 0 PROVE f[n] = g[f[n - 1]]
  <2>1. n - 1 \in Nat /\ n \in 1 .. n /\ n - 1 \in 0 .. n - 1
    BY <1>3
  <2>2. start(n)[n] = g[start(n)[n - 1]]
    BY <1>1, <2>1 DEF Starts
  <2>3. start(n - 1)[n - 1] = start(n)[n - 1]
    BY <1>1, <2>1, StartsAlike
  <2> QED
    BY <2>1, <2>2, <2>3
<1> HIDE DEF f
<1>4. f = [n \in Nat |-> IF n = 0 THEN a ELSE g[f[n - 1]]]
  <2>1. f = [n \in Nat |-> f[n]]
    BY <1>2
  <2>2. \A n \in Nat : f[n] = IF n = 0 THEN a ELSE g[f[n - 1]]
    BY <1>2, <1>3
  <2> QED
    BY <2>1, <2>2
<1> QED
  BY <1>2, <1>4 DEF IsRecursive
-----------------------------------------------------------------------------

(* The tables of the regions.                                               *)
RegionTables == UNION {[names -> Urls] : names \in SUBSET Names}

(* A URL is trimmed and stays one, or is rejected.                          *)
LEMMA UrlIs == ASSUME NEW u \in Urls PROVE Configs!Url(u) \in Urls \cup {Rejected}
BY DEF Configs!Url, Urls

(* A client that is rejected, or that has one of the five sources.          *)
Given(given, from) ==
  /\ given.retries \in Int /\ given.timeout \in Int
  /\ given.regions \in RegionTables
  /\ given.baseUrl \in Urls \cup {None}
  /\ from.baseUrl \in Urls \cup {None, Empty}

(* The first region by name is one of the table.                            *)
LEMMA FirstIsARegion ==
  ASSUME NEW regions \in RegionTables, DOMAIN regions # {}
  PROVE  \E name \in DOMAIN regions : Configs!FirstByName(regions) = regions[name]
<1> DEFINE T == {i \in DOMAIN ByName : ByName[i] \in DOMAIN regions}
           least(i) == /\ ByName[i] \in DOMAIN regions
                       /\ \A j \in 1 .. i - 1 : ByName[j] \notin DOMAIN regions
<1>1. DOMAIN regions \subseteq Names
  BY DEF RegionTables
<1>2. T # {} /\ T \subseteq Nat /\ DOMAIN ByName = 1 .. Len(ByName) /\ Len(ByName) \in Nat
  BY <1>1, OptionsAssumption DEF Names
<1>3. \E i \in T : \A j \in T : ~ (<<j, i>> \in OpToRel(<, Nat))
  BY <1>2, NatLessThanWellFounded, WFMin
<1>4. PICK i \in T : \A j \in T : ~ (j < i)
  BY <1>2, <1>3 DEF OpToRel
<1>5. least(i)
  BY <1>2, <1>4
<1>6. (CHOOSE n \in DOMAIN ByName : least(n)) \in DOMAIN ByName
      /\ least(CHOOSE n \in DOMAIN ByName : least(n))
  BY <1>4, <1>5
<1> QED
  BY <1>6 DEF Configs!FirstByName
-----------------------------------------------------------------------------
(***************************************************************************)
(* Configurations.  What each SDK makes of the options is what Go does.    *)
(***************************************************************************)
IsRejected ==
  \/ ~options.apiKey \/ options.retries < 0 \/ options.timeout <= 0
  \/ Configs!InvalidRegions
  \/ DOMAIN Configs!Regions = {}
  \/ Configs!GoPinned = Rejected

IsFallback(fallback, regions) ==
  /\ fallback = None \/ \E name \in DOMAIN regions : fallback = regions[name]
  /\ Default \in DOMAIN regions => fallback = regions[Default]

MadeOfOptions(made) ==
  IF IsRejected THEN made = Rejected
  ELSE /\ made \in UNION {Configurations(names) : names \in SUBSET Names}
       /\ made.pinned = Configs!GoPinned /\ made.regions = Configs!Regions
       /\ IsFallback(made.fallback, made.regions)

ConfigInv ==
  /\ Given(options, env)
  /\ config = [s \in Configs!Sdks |-> config[s]]
  /\ \A s \in Configs!Sdks : config[s] # None => MadeOfOptions(config[s])

(* What is known of the options, once no region of theirs is rejected.      *)
LEMMA OptionsAre ==
  ASSUME Given(options, env)
  PROVE  /\ options.baseUrl # None => Configs!Url(options.baseUrl) \in Urls \cup {Rejected}
         /\ Configs!IsSet(env.baseUrl) => Configs!Url(env.baseUrl) \in Urls \cup {Rejected}
         /\ DOMAIN Configs!Regions = DOMAIN options.regions
         /\ \A name \in DOMAIN Configs!Regions : Configs!Regions[name] \in Urls \cup {Rejected}
         /\ ~Configs!InvalidRegions => Configs!Regions \in RegionTables
<1> USE DEF Given
<1>1. PICK names \in SUBSET Names : options.regions \in [names -> Urls]
  BY DEF RegionTables
<1>2. /\ DOMAIN Configs!Regions = names
      /\ \A name \in names : Configs!Regions[name] = Configs!Url(options.regions[name])
  BY <1>1 DEF Configs!Regions
<1>3. \A name \in names : Configs!Regions[name] \in Urls \cup {Rejected}
  BY <1>1, <1>2, UrlIs
<1>4. ASSUME ~Configs!InvalidRegions PROVE Configs!Regions \in RegionTables
  <2>1. \A name \in names : Configs!Regions[name] \in Urls
    BY <1>2, <1>3, <1>4 DEF Configs!InvalidRegions
  <2>2. Configs!Regions \in [names -> Urls]
    BY <1>2, <2>1 DEF Configs!Regions
  <2> QED
    BY <2>2 DEF RegionTables
<1> QED
  BY <1>1, <1>2, <1>3, <1>4, UrlIs DEF Configs!IsSet

(* The four resolve the endpoint alike.                                     *)
LEMMA PinnedAlike ==
  ASSUME Given(options, env)
  PROVE  /\ Configs!RustPinned = Configs!GoPinned
         /\ Configs!PyPinned = Configs!GoPinned
         /\ Configs!TsPinned = Configs!GoPinned
         /\ Configs!GoPinned \in Urls \cup {None, Rejected}
<1> USE OptionsAre DEF Configs!GoPinned, Configs!IsSet, Configs!KnownRegion
<1>1. Configs!RustPinned = Configs!GoPinned
  BY DEF Configs!RustPinned, Configs!NonEmpty
<1>2. Configs!PyPinned = Configs!GoPinned
  BY DEF Configs!PyPinned
<1>3. \A name : Configs!TsKnownRegion(name) = Configs!KnownRegion(name)
  BY NoneAssumption DEF Configs!TsKnownRegion, Configs!RegionUrl
<1>4. Configs!TsPinned = Configs!GoPinned
  BY <1>3 DEF Configs!TsPinned, Configs!ProcessEnv
<1>5. Configs!GoPinned \in Urls \cup {None, Rejected}
  OBVIOUS
<1> QED
  BY <1>1, <1>2, <1>4, <1>5

(* Each falls back to a region of the table, or looks one up later.          *)
LEMMA FallbacksAre ==
  ASSUME Given(options, env), ~Configs!InvalidRegions, DOMAIN Configs!Regions # {},
         NEW fallback \in {Configs!RustFallback, Configs!GoFallback, Configs!DefaultRegion,
                           Configs!RegionUrl(Default)}
  PROVE  IsFallback(fallback, Configs!Regions) /\ fallback \in Urls \cup {None}
<1>1. Configs!Regions \in RegionTables
  BY OptionsAre
<1>2. PICK name \in DOMAIN Configs!Regions :
        Configs!FirstByName(Configs!Regions) = Configs!Regions[name]
  BY <1>1, FirstIsARegion
<1>3. \A n \in DOMAIN Configs!Regions : Configs!Regions[n] \in Urls
  BY <1>1 DEF RegionTables
<1> QED
  BY <1>2, <1>3
  DEF IsFallback, Configs!RustFallback, Configs!GoFallback, Configs!DefaultRegion, Configs!RegionUrl

(* A load that rejects what Go rejects makes the same of the rest.          *)
LEMMA LoadKeeps ==
  ASSUME ConfigInv, NEW s \in Configs!Sdks, NEW rejects \in BOOLEAN, NEW pinned, NEW fallback,
         Configs!Load(s, rejects, pinned, fallback),
         (rejects \/ pinned = Rejected) <=> IsRejected,
         ~IsRejected => pinned = Configs!GoPinned,
         fallback \in {Configs!RustFallback, Configs!GoFallback, Configs!DefaultRegion,
                       Configs!RegionUrl(Default)}
  PROVE  ConfigInv'
<1> DEFINE made == [pinned |-> pinned, regions |-> Configs!Regions, fallback |-> fallback]
<1>1. UNCHANGED <<options, env>> /\ (config' = [config EXCEPT ![s] =
        IF rejects \/ pinned = Rejected THEN Rejected ELSE made])
  BY DEF Configs!Load
<1>2. ASSUME ~IsRejected PROVE MadeOfOptions(made)
  <2>1. Configs!Regions \in RegionTables
    BY <1>2, OptionsAre DEF ConfigInv, IsRejected
  <2>2. pinned \in Urls \cup {None}
    BY <1>2, PinnedAlike DEF ConfigInv, IsRejected
  <2>3. IsFallback(fallback, Configs!Regions) /\ fallback \in Urls \cup {None}
    BY <1>2, FallbacksAre DEF ConfigInv, IsRejected
  <2> QED
    BY <1>2, <2>1, <2>2, <2>3 DEF MadeOfOptions, Configurations, RegionTables
<1>3. MadeOfOptions(config'[s])
  BY <1>1, <1>2 DEF ConfigInv, MadeOfOptions
<1>4. IsRejected' = IsRejected /\ Configs!GoPinned' = Configs!GoPinned
      /\ Configs!Regions' = Configs!Regions
  BY <1>1 DEF IsRejected, Configs!InvalidRegions, Configs!Regions, Configs!GoPinned,
              Configs!KnownRegion, Configs!IsSet, Configs!Url
<1>5. \A t \in Configs!Sdks : config'[t] # None => MadeOfOptions(config'[t])
  BY <1>1, <1>3 DEF ConfigInv
<1> QED
  BY <1>1, <1>4, <1>5 DEF ConfigInv, Given, MadeOfOptions

(* Each load makes of the options what Go's makes of them.                  *)
LEMMA ConfigStep == ConfigInv /\ [Configs!Next]_Configs!vars => ConfigInv'
<1> SUFFICES ASSUME ConfigInv, [Configs!Next]_Configs!vars PROVE ConfigInv'
  OBVIOUS
<1>1. /\ Configs!RustPinned = Configs!GoPinned
      /\ Configs!PyPinned = Configs!GoPinned
      /\ Configs!TsPinned = Configs!GoPinned
  BY PinnedAlike DEF ConfigInv
<1>2. options.retries \in Int /\ options.timeout \in Int
  BY DEF ConfigInv, Given
<1>3. CASE Configs!LoadRust
  <2> DEFINE rejects == \/ ~options.apiKey \/ options.timeout = 0 \/ Configs!InvalidRegions
                        \/ DOMAIN Configs!Regions = {}
  <2>1. (rejects \/ Configs!RustPinned = Rejected) <=> IsRejected
    BY <1>1, <1>2, <1>3 DEF Configs!LoadRust, IsRejected
  <2>2. Configs!Load("rust", rejects, Configs!RustPinned, Configs!RustFallback)
    BY <1>3 DEF Configs!LoadRust
  <2>3. rejects \in BOOLEAN /\ "rust" \in Configs!Sdks
    BY DEF Configs!Sdks
  <2> HIDE DEF rejects
  <2> QED
    BY <1>1, <2>1, <2>2, <2>3, LoadKeeps
<1>4. CASE Configs!LoadGo
  BY <1>1, <1>2, <1>4, LoadKeeps DEF Configs!LoadGo, IsRejected, Configs!Sdks
<1>5. CASE Configs!LoadPy
  BY <1>1, <1>2, <1>5, LoadKeeps DEF Configs!LoadPy, IsRejected, Configs!Sdks
<1>6. CASE Configs!LoadTs
  <2> DEFINE rejects == \/ ~options.apiKey \/ options.retries < 0 \/ ~(options.timeout > 0)
                        \/ Configs!InvalidRegions
                        \/ DOMAIN Configs!Regions = {}
  <2>1. (rejects \/ Configs!TsPinned = Rejected) <=> IsRejected
    BY <1>1, <1>2 DEF IsRejected
  <2>2. Configs!Load("typescript", rejects, Configs!TsPinned, Configs!RegionUrl(Default))
    BY <1>6 DEF Configs!LoadTs
  <2>3. rejects \in BOOLEAN /\ "typescript" \in Configs!Sdks
    BY DEF Configs!Sdks
  <2> HIDE DEF rejects
  <2> QED
    BY <1>1, <2>1, <2>2, <2>3, LoadKeeps
<1>7. CASE UNCHANGED Configs!vars
  BY <1>7 DEF Configs!vars, ConfigInv, Given, MadeOfOptions, IsRejected, Configs!InvalidRegions,
              Configs!Regions, Configs!GoPinned, Configs!KnownRegion, Configs!IsSet, Configs!Url
<1> QED
  BY <1>3, <1>4, <1>5, <1>6, <1>7 DEF Configs!Next

(* The options and the environment are as the assumptions say.              *)
LEMMA ConfigInit == Configs!Init => ConfigInv
<1> SUFFICES ASSUME Configs!Init PROVE ConfigInv
  OBVIOUS
<1>1. Given(options, env)
  BY OptionsAssumption DEF Configs!Init, Given, RegionTables
<1>2. config = [s \in Configs!Sdks |-> None]
  BY DEF Configs!Init
<1> QED
  BY <1>1, <1>2 DEF ConfigInv

(* What the SDKs make of the options is one thing, in every environment.    *)
THEOREM ConfigInductive == Configs!Spec => []ConfigInv
BY ConfigInit, ConfigStep, PTL DEF Configs!Spec

(* The endpoint is resolved in the documented order, by each SDK.           *)
THEOREM Resolves == Configs!Spec => []ResolvedInOrder
<1>1. ConfigInv => ResolvedInOrder
  <2> SUFFICES ASSUME ConfigInv, NEW s \in Configs!Sdks, Configs!Loaded(s)
               PROVE  LET pinned == config[s].pinned
                          regions == config[s].regions
                          IsRegion(name) == name \in DOMAIN regions /\ pinned = regions[name]
                      IN  IF options.baseUrl # None THEN pinned = Configs!Url(options.baseUrl)
                          ELSE IF Configs!IsSet(env.baseUrl) THEN pinned = Configs!Url(env.baseUrl)
                          ELSE IF options.region # None THEN IsRegion(options.region)
                          ELSE IF Configs!IsSet(env.region) THEN IsRegion(env.region)
                          ELSE pinned = None
    BY DEF ResolvedInOrder, Configs!ResolvedInOrder
  <2>1. ~IsRejected /\ MadeOfOptions(config[s])
    BY DEF ConfigInv, MadeOfOptions, Configs!Loaded
  <2> QED
    BY <2>1 DEF MadeOfOptions, IsRejected, Configs!GoPinned, Configs!KnownRegion
<1> QED
  BY <1>1, ConfigInductive, PTL

(* The SDKs accept the same options and resolve them alike.                 *)
THEOREM Agree == Configs!Spec => []SdksAgree
<1>1. ConfigInv => SdksAgree
  BY NoneAssumption DEF ConfigInv, MadeOfOptions, SdksAgree, Configs!SdksAgree, Configs!Loaded
<1> QED
  BY <1>1, ConfigInductive, PTL

(* A client falls back to a base of the table it checked.                   *)
THEOREM FallsBack == Configs!Spec => []FallsBackToARegion
<1>1. ConfigInv => FallsBackToARegion
  BY DEF ConfigInv, MadeOfOptions, IsFallback, FallsBackToARegion, Configs!FallsBackToARegion,
         Configs!Loaded
<1> QED
  BY <1>1, ConfigInductive, PTL
-----------------------------------------------------------------------------
(***************************************************************************)
(* Polls.                                                                  *)
(***************************************************************************)
DelayInv == delay \in Nat /\ 2 <= delay /\ delay <= PollCap /\ poll \in Nat

(* What the cap leaves of a value.                                          *)
LEMMA AtMostIs ==
  ASSUME NEW cap \in Nat, NEW value \in Nat
  PROVE  D!AtMost(cap, value) = IF value <= cap THEN value ELSE cap
<1> DEFINE least == IF value <= cap THEN value ELSE cap
<1>1. least \in {cap, value} /\ \A y \in {cap, value} : least <= y
  OBVIOUS
<1>2. \A x \in {cap, value} : (\A y \in {cap, value} : x <= y) => x = least
  OBVIOUS
<1> HIDE DEF least
<1>3. (CHOOSE x \in {cap, value} : \A y \in {cap, value} : x <= y) = least
  BY <1>1, <1>2
<1> QED
  BY <1>3 DEF D!AtMost, D!Min, least

(* A delay grows by half, down to a microsecond, and to the cap.            *)
LEMMA GrownIs ==
  ASSUME DelayInv
  PROVE  LET grown == D!Grown(delay)
         IN  /\ grown \in Nat /\ delay <= grown /\ grown <= PollCap
             /\ grown = delay => delay = PollCap
<1> DEFINE value == (3 * delay) \div 2
<1>1. value \in Nat /\ delay < value
  BY DEF DelayInv
<1>2. D!Grown(delay) = IF value <= PollCap THEN value ELSE PollCap
  BY <1>1, AtMostIs, PollsAssumption DEF D!Grown
<1> HIDE DEF value
<1> QED
  BY <1>1, <1>2, PollsAssumption DEF DelayInv

(* The wait before a poll is never 1 or 0, and never above the cap.         *)
LEMMA DelayStep == DelayInv /\ [D!Next]_D!delayVars => DelayInv'
<1> SUFFICES ASSUME DelayInv, [D!Next]_D!delayVars PROVE DelayInv'
  OBVIOUS
<1>1. CASE D!Retry
  BY <1>1 DEF D!Retry, DelayInv
<1>2. CASE D!Poll
  BY <1>2, GrownIs DEF D!Poll, DelayInv
<1>3. CASE UNCHANGED D!delayVars
  BY <1>3 DEF D!delayVars, DelayInv
<1> QED
  BY <1>1, <1>2, <1>3 DEF D!Next

(* The waits between the polls grow to their cap, whatever the first one     *)
(* and the cap are.                                                         *)
THEOREM SlowsDown == D!Spec => PollsSlowDown
<1>1. D!Init => DelayInv
  BY PollsAssumption DEF D!Init, DelayInv
<1>2. DelayInv /\ [D!Next]_D!delayVars =>
        [poll' # poll =>
           delay' >= delay /\ delay' <= PollCap /\ (delay' = delay => delay = PollCap)]_D!delayVars
  <2> SUFFICES ASSUME DelayInv, D!Next, poll' # poll
               PROVE  delay' >= delay /\ delay' <= PollCap /\ (delay' = delay => delay = PollCap)
    OBVIOUS
  <2>1. delay' = D!Grown(delay)
    BY DEF D!Next, D!Retry, D!Poll
  <2> QED
    BY <2>1, GrownIs, PollsAssumption DEF DelayInv
<1> QED
  BY <1>1, <1>2, DelayStep, PTL DEF D!Spec, PollsSlowDown, D!PollsSlowDown
-----------------------------------------------------------------------------
(***************************************************************************)
(* Backoff.  Each retry waits twice as long as the last, up to the cap.    *)
(***************************************************************************)
(* The powers of two are as they should be, of every number.                *)
LEMMA PowersAre ==
  /\ D!PowerOfTwo[0] = 1
  /\ \A n \in Nat : D!PowerOfTwo[n] \in Nat /\ D!PowerOfTwo[n + 1] = 2 * D!PowerOfTwo[n]
<1> DEFINE twice == [x \in Nat |-> 2 * x]
           Is(f) == f = [n \in Nat |-> IF n = 0 THEN 1 ELSE 2 * f[n - 1]]
<1>1. \E f : Is(f)
  <2>1. twice \in [Nat -> Nat]
    OBVIOUS
  <2> HIDE DEF twice
  <2>2. 1 \in Nat
    OBVIOUS
  <2>3. PICK f : IsRecursive(f, Nat, 1, twice)
    BY <2>1, <2>2, Recursion
  <2>4. f \in [Nat -> Nat]
    BY <2>3 DEF IsRecursive
  <2>5. \A n \in Nat \ {0} : twice[f[n - 1]] = 2 * f[n - 1]
    BY <2>4 DEF twice
  <2>6. Is(f)
    BY <2>3, <2>5 DEF IsRecursive
  <2> QED
    BY <2>6
<1>2. Is(D!PowerOfTwo)
  BY <1>1 DEF D!PowerOfTwo
<1>3. D!PowerOfTwo[0] = 1 /\ \A n \in Nat : D!PowerOfTwo[n + 1] = 2 * D!PowerOfTwo[n]
  BY <1>2
<1>4. \A n \in Nat : D!PowerOfTwo[n] \in Nat
  <2>1. \A n \in Nat : D!PowerOfTwo[n] \in Nat => D!PowerOfTwo[n + 1] \in Nat
    BY <1>3
  <2>2. D!PowerOfTwo[0] \in Nat
    BY <1>3
  <2> QED
    BY <2>1, <2>2, StepByStep, Zenon
<1> QED
  BY <1>3, <1>4

(* What Go's loop has doubled stays below twice the cap, so it has not       *)
(* wrapped around.                                                          *)
LEMMA DoubledIs ==
  ASSUME NEW value \in 0 .. 2 * BackoffCap
  PROVE  /\ D!Doubled(value) = IF value < BackoffCap THEN 2 * value ELSE value
         /\ D!Doubled(value) \in 0 .. 2 * BackoffCap
<1> DEFINE half == D!PowerOfTwo[DurationBits - 1]
<1>1. half \in Nat /\ 2 * BackoffCap <= half
  BY PowersAre, BackoffAssumption
<1> HIDE DEF half
<1>2. CASE value < BackoffCap
  <2>1. 2 * value \in Nat /\ 2 * value < half
    BY <1>1, <1>2, BackoffAssumption
  <2>2. ((2 * value + half) % (2 * half)) - half = 2 * value
    BY <1>1, <2>1
  <2>3. D!Wrapped(2 * value) = 2 * value
    BY <2>2 DEF D!Wrapped, half
  <2> QED
    BY <1>2, <2>3, BackoffAssumption DEF D!Doubled
<1>3. CASE ~(value < BackoffCap)
  BY <1>3 DEF D!Doubled
<1> QED
  BY <1>2, <1>3

(* What Go's loop has after each of its steps.                               *)
LEMMA StepsAre ==
  /\ D!AfterSteps[0] = BackoffBase
  /\ \A n \in Nat : /\ D!AfterSteps[n] \in 0 .. 2 * BackoffCap
                    /\ D!AfterSteps[n + 1] = D!Doubled(D!AfterSteps[n])
<1> DEFINE S == 0 .. 2 * BackoffCap
           doubled == [x \in S |-> D!Doubled(x)]
           Is(f) == f = [n \in Nat |-> IF n = 0 THEN BackoffBase ELSE D!Doubled(f[n - 1])]
<1>0. BackoffBase \in S
  BY BackoffAssumption
<1>1. \E f : Is(f)
  <2>1. doubled \in [S -> S]
    BY DoubledIs
  <2> HIDE DEF doubled, S
  <2>2. PICK f : IsRecursive(f, S, BackoffBase, doubled)
    BY <1>0, <2>1, Recursion
  <2>3. \A n \in Nat : f[n] \in S
    BY <2>2 DEF IsRecursive
  <2>4. \A n \in Nat \ {0} : doubled[f[n - 1]] = D!Doubled(f[n - 1])
    BY <2>3 DEF doubled
  <2>5. Is(f)
    BY <2>2, <2>4 DEF IsRecursive
  <2> QED
    BY <2>5
<1>2. Is(D!AfterSteps)
  BY <1>1 DEF D!AfterSteps
<1>3. /\ D!AfterSteps[0] = BackoffBase
      /\ \A n \in Nat : D!AfterSteps[n + 1] = D!Doubled(D!AfterSteps[n])
  BY <1>2
<1>4. \A n \in Nat : D!AfterSteps[n] \in S
  BY <1>0, <1>3, DoubledIs, StepByStep
<1> QED
  BY <1>3, <1>4

Sdks == {"rust", "go", "python", "typescript"}

(* A retry's wait is twice the last one's, or the cap.                      *)
LEMMA BackoffIs ==
  ASSUME sdk \in Sdks, NEW n \in Nat
  PROVE  /\ D!Backoff(0) = BackoffBase
         /\ D!Backoff(n) \in Nat /\ D!Backoff(n + 1) <= BackoffCap
         /\ D!Backoff(n + 1) \in {2 * D!Backoff(n), BackoffCap}
<1> DEFINE p(m) == D!PowerOfTwo[m]
<1>1. p(0) = 1 /\ p(n) \in Nat /\ p(n + 1) = 2 * p(n) /\ p(FactorBits) \in Nat
  BY PowersAre, BackoffAssumption
<1>2. p(FactorBits) > 1
  <2>1. FactorBits - 1 \in Nat /\ (FactorBits - 1) + 1 = FactorBits
    BY BackoffAssumption
  <2>2. p(FactorBits) = 2 * p(FactorBits - 1) /\ p(FactorBits - 1) \in Nat
    BY <2>1, PowersAre
  <2>3. p(FactorBits - 1) > 0
    <3>1. p(0) \in Nat \ {0} /\ \A m \in Nat : p(m) \in Nat \ {0} => p(m + 1) \in Nat \ {0}
      BY PowersAre
    <3>2. \A m \in Nat : p(m) \in Nat \ {0}
      BY <3>1, StepByStep
    <3> QED
      BY <2>1, <3>2
  <2> QED
    BY <2>2, <2>3
<1> HIDE DEF p
<1>3. BackoffBase * p(n) \in Nat /\ BackoffBase * p(n + 1) = 2 * (BackoffBase * p(n))
  BY <1>1, BackoffAssumption
<1>4. CASE sdk \in {"python", "typescript"}
  <2>1. \A m : D!Backoff(m) = D!AtMost(BackoffCap, BackoffBase * p(m))
    BY <1>4 DEF D!Backoff, D!BackoffMs, p
  <2> QED
    BY <1>1, <1>3, <2>1, AtMostIs, BackoffAssumption
<1>5. CASE sdk = "rust"
  <2>1. \A m : D!Backoff(m) = IF p(m) >= p(FactorBits) THEN BackoffCap
                              ELSE D!AtMost(BackoffCap, BackoffBase * p(m))
    BY <1>5 DEF D!Backoff, D!RustBackoff, p
  <2> QED
    BY <1>1, <1>2, <1>3, <2>1, AtMostIs, BackoffAssumption
<1>6. CASE sdk = "go"
  <2>1. \A m : D!Backoff(m) = D!AtMost(BackoffCap, D!AfterSteps[m])
    BY <1>6 DEF D!Backoff, D!GoBackoff
  <2>2. D!AfterSteps[n] \in Nat /\ D!AfterSteps[n + 1] \in Nat /\ D!AfterSteps[0] = BackoffBase
    BY StepsAre, BackoffAssumption
  <2>3. D!AfterSteps[n + 1] =
          IF D!AfterSteps[n] < BackoffCap THEN 2 * D!AfterSteps[n] ELSE D!AfterSteps[n]
    BY StepsAre, DoubledIs
  <2> QED
    BY <2>1, <2>2, <2>3, AtMostIs, BackoffAssumption
<1> QED
  BY <1>4, <1>5, <1>6 DEF Sdks

BackoffInv == sdk \in Sdks /\ attempt \in Nat /\ backoff = D!Backoff(attempt)

(* The backoff doubles to its cap, whatever the base, the cap, the widths of *)
(* the integers and the number of retries: a client never hammers a region   *)
(* that fails, and never waits longer than the cap.                         *)
THEOREM BacksOff == D!Spec => BackoffDoublesToTheCap
<1>1. D!Init => BackoffInv
  BY BackoffIs DEF D!Init, BackoffInv, Sdks
<1>2. BackoffInv /\ [D!Next]_D!delayVars =>
        /\ BackoffInv'
        /\ [attempt' > attempt =>
              /\ backoff' <= BackoffCap
              /\ backoff' = 2 * backoff \/ backoff' = BackoffCap]_D!delayVars
  <2> SUFFICES ASSUME BackoffInv, [D!Next]_D!delayVars
               PROVE  /\ BackoffInv'
                      /\ attempt' > attempt =>
                           /\ backoff' <= BackoffCap
                           /\ backoff' = 2 * backoff \/ backoff' = BackoffCap
    OBVIOUS
  <2>1. ASSUME sdk' = sdk, NEW n \in Nat PROVE D!Backoff(n)' = D!Backoff(n)
    BY <2>1 DEF D!Backoff
  <2>2. CASE D!Retry
    BY <2>1, <2>2, BackoffIs DEF D!Retry, BackoffInv
  <2>3. CASE D!Poll
    BY <2>1, <2>3, BackoffIs DEF D!Poll, BackoffInv
  <2>4. CASE UNCHANGED D!delayVars
    BY <2>1, <2>4 DEF BackoffInv, D!delayVars
  <2> QED
    BY <2>2, <2>3, <2>4 DEF D!Next
<1> QED
  BY <1>1, <1>2, PTL DEF D!Spec, BackoffDoublesToTheCap, D!BackoffDoublesToTheCap
-----------------------------------------------------------------------------
(***************************************************************************)
(* Responses.  What an SDK has read is what it makes of the response.      *)
(***************************************************************************)
Made(s) ==
  IF response.status >= 500 THEN [kind |-> "server", status |-> response.status] ELSE R!Expect(s)

ReadInv ==
  /\ \E r \in Responses : response = r.response
  /\ read = [s \in R!Sdks |-> read[s]]
  /\ \A s \in R!Sdks : read[s] # None => read[s] = Made(s)

(* An SDK reads the response once.                                          *)
LEMMA ReadStep == ReadInv /\ [R!Next]_R!responseVars => ReadInv'
<1> SUFFICES ASSUME ReadInv, [R!Next]_R!responseVars PROVE ReadInv'
  OBVIOUS
<1>1. UNCHANGED <<op, response>>
  BY DEF R!Next, R!Read, R!responseVars
<1>2. \A s : Made(s)' = Made(s)
  BY <1>1 DEF Made, R!Expect, R!Expected, R!ErrorFor, R!Parse, R!AsksForExecution,
              R!RetryAfter, R!Message, R!ErrorMember
<1>3. CASE R!Next
  <2>1. PICK s \in R!Sdks : R!Read(s)
    BY <1>3 DEF R!Next
  <2>2. read' = [read EXCEPT ![s] = Made(s)]
    BY <2>1 DEF R!Read, Made
  <2> QED
    BY <1>1, <1>2, <2>2 DEF ReadInv
<1>4. CASE UNCHANGED R!responseVars
  BY <1>1, <1>2, <1>4 DEF ReadInv, R!responseVars
<1> QED
  BY <1>3, <1>4

(* What an SDK has read is what its code makes of the response.             *)
THEOREM ReadInductive == R!Spec => []ReadInv
<1>1. R!Init => ReadInv
  BY DEF R!Init, ReadInv
<1> QED
  BY <1>1, ReadStep, PTL DEF R!Spec

(* What was read, of the status and of the body.                            *)
LEMMA ReaderIs ==
  ASSUME ReadInv, NEW s \in R!Readers
  PROVE  /\ s \in R!Sdks
         /\ R!Reads(s) =>
              /\ response.status \in R!Expected /\ ~(response.status >= 500)
              /\ R!Parse(s, response.body) # Rejected
              /\ read[s].value = R!Parse(s, response.body)
         /\ ~R!Reads(s) /\ read[s].kind # "decode" =>
              read[s] = IF response.status >= 500
                        THEN [kind |-> "server", status |-> response.status]
                        ELSE R!ErrorFor(s)
<1>1. s \in R!Sdks /\ read[s] = Made(s)
  BY DEF R!Readers, ReadInv
<1>2. R!ErrorFor(s).kind \in {"auth", "rate_limit", "api"}
  BY DEF R!ErrorFor
<1> QED
  BY <1>1, <1>2 DEF Made, R!Expect, R!Reads

(* The errors of two SDKs differ in what neither Retry-After nor the body     *)
(* says plainly.                                                            *)
Waits == IF response.retryAfter.number THEN response.retryAfter.secs ELSE Absent

Plain ==
  LET after == response.retryAfter
  IN  after.number => after.sign = "" /\ after.secs <= MaxInt

Says == R!IsText(R!ErrorMember) /\ R!ErrorMember # R!String("")

(* The wait and the message of an error, of a response that says them plainly.*)
LEMMA ErrorsAre ==
  ASSUME ReadInv, NEW s \in R!Sdks
  PROVE  /\ Plain => R!RetryAfter(s) = Waits
         /\ Says => R!Message(s) = R!ErrorMember.value
<1>1. ASSUME Plain PROVE R!RetryAfter(s) = Waits
  <2>1. CASE response.retryAfter.number
    <3> DEFINE secs == response.retryAfter.secs
    <3>1. secs \in Nat
      BY <2>1, RetryAfterAssumption DEF ReadInv
    <3>2. response.retryAfter.sign = "" /\ secs <= MaxInt
      BY <1>1, <2>1 DEF Plain
    <3>3. \A n \in Nat : n <= MaxInt => n <= MaxWord /\ n <= n
      BY WidthsAssumption
    <3>4. CASE s = "go"
      BY <2>1, <3>1, <3>2, <3>3, <3>4 DEF R!RetryAfter, Waits
    <3>5. CASE s = "rust"
      BY <2>1, <3>1, <3>2, <3>3, <3>5 DEF R!RetryAfter, Waits
    <3>6. CASE s \in {"python", "typescript"}
      BY <2>1, <3>1, <3>2, <3>3, <3>6 DEF R!RetryAfter, Waits
    <3> QED
      BY <3>4, <3>5, <3>6 DEF R!Sdks
  <2>2. CASE ~response.retryAfter.number
    BY <2>2 DEF R!RetryAfter, Waits
  <2> QED
    BY <2>1, <2>2
<1>2. ASSUME Says PROVE R!Message(s) = R!ErrorMember.value
  <2>1. response.body.json = "object"
    BY <1>2 DEF Says, R!ErrorMember, R!IsText, R!Missing
  <2> QED
    BY <1>2, <2>1 DEF R!Message, Says
<1> QED
  BY <1>1, <1>2

(* The SDKs report a response that they did not expect alike.               *)
THEOREM Report == R!Spec => []SameErrors
<1>1. ReadInv => SameErrors
  <2> SUFFICES ASSUME ReadInv,
                      NEW s \in R!Readers, ~R!Reads(s), read[s].kind # "decode",
                      NEW t \in R!Readers, ~R!Reads(t), read[t].kind # "decode"
               PROVE  /\ read[s].kind = read[t].kind
                      /\ read[s].status = read[t].status
                      /\ read[s].kind = "rate_limit" /\ Plain =>
                           read[s].retryAfter = read[t].retryAfter
                      /\ read[s].kind = "api" /\ Says => read[s].message = R!ErrorMember.value
    BY DEF SameErrors, R!SameErrors, Plain, Says
  <2>1. s \in R!Sdks /\ t \in R!Sdks
    BY ReaderIs
  <2>2. CASE response.status >= 500
    <3>1. /\ read[s] = [kind |-> "server", status |-> response.status]
          /\ read[t] = [kind |-> "server", status |-> response.status]
      BY <2>2, ReaderIs
    <3> QED
      BY <3>1
  <2>3. CASE ~(response.status >= 500)
    <3>1. read[s] = R!ErrorFor(s) /\ read[t] = R!ErrorFor(t)
      BY <2>3, ReaderIs
    <3> QED
      BY <2>1, <3>1, ErrorsAre DEF R!ErrorFor
  <2> QED
    BY <2>2, <2>3
<1> QED
  BY <1>1, ReadInductive, PTL
-----------------------------------------------------------------------------
(***************************************************************************)
(* The structures.                                                         *)
(***************************************************************************)
(* Members that are no structures, and structures of such members.          *)
LeafKinds == {"text", "text?", "flag", "status", "health", "verdict?", "number?", "int?", "long?"}

Flat(structure) ==
  \A i \in DOMAIN structure :
    LET key == structure[i][1]
    IN  /\ R!KindOf(structure, key) = structure[i][2]
        /\ structure[i][2] \in LeafKinds
        /\ key # "evidence"

(* The kind of a member, when no two have a name.                           *)
LEMMA KindIs ==
  ASSUME NEW structure,
         \A i, j \in DOMAIN structure : structure[i][1] = structure[j][1] => i = j,
         NEW i \in DOMAIN structure
  PROVE  R!KindOf(structure, structure[i][1]) = structure[i][2]
BY DEF R!KindOf

(* The structures, but for executions and judgements, are flat.             *)
LEMMA FlatBlocks ==
  ASSUME NEW structure \in {R!Timestamps, R!Outcome, R!Output, R!Metrics, R!CaseResult,
                            R!Accepted, R!Pending, R!Health}
  PROVE  Flat(structure)
<1>1. Flat(R!Timestamps) /\ Flat(R!Outcome)
  BY DEF Flat, LeafKinds, R!KindOf, R!Timestamps, R!Outcome
<1>2. Flat(R!Output) /\ Flat(R!Metrics) /\ Flat(R!Accepted)
  BY DEF Flat, LeafKinds, R!KindOf, R!Output, R!Metrics, R!Accepted
<1>3. Flat(R!Pending) /\ Flat(R!Health)
  BY DEF Flat, LeafKinds, R!KindOf, R!Pending, R!Health
<1>4. Flat(R!CaseResult)
  BY DEF Flat, LeafKinds, R!KindOf, R!CaseResult
<1> QED
  BY <1>1, <1>2, <1>3, <1>4

(* The two that have structures for members.                                *)
LEMMA ExecutionIs ==
  /\ R!Keys(R!Execution) =
       {"id", "language", "status", "timestamps", "result", "output", "metrics", "evidence"}
  /\ \A i \in DOMAIN R!Execution : R!KindOf(R!Execution, R!Execution[i][1]) = R!Execution[i][2]
  /\ R!KindOf(R!Execution, "id") = "text" /\ R!KindOf(R!Execution, "language") = "text"
  /\ R!KindOf(R!Execution, "status") = "status"
  /\ R!KindOf(R!Execution, "timestamps") = "timestamps"
  /\ R!KindOf(R!Execution, "result") = "outcome"
  /\ R!KindOf(R!Execution, "output") = "output"
  /\ R!KindOf(R!Execution, "metrics") = "metrics"
  /\ R!KindOf(R!Execution, "evidence") = "evidence"
<1>1. R!Keys(R!Execution) =
       {"id", "language", "status", "timestamps", "result", "output", "metrics", "evidence"}
  BY DEF R!Keys, R!Execution
<1>2. \A i \in DOMAIN R!Execution : R!KindOf(R!Execution, R!Execution[i][1]) = R!Execution[i][2]
  BY DEF R!KindOf, R!Execution
<1> QED
  BY <1>1, <1>2 DEF R!Execution

(* The members of a judgement.                                              *)
LEMMA JudgeResultIs ==
  /\ R!Keys(R!JudgeResult) = {"results", "all_passed"}
  /\ R!KindOf(R!JudgeResult, "results") = "cases"
  /\ R!KindOf(R!JudgeResult, "all_passed") = "flag"
BY DEF R!Keys, R!KindOf, R!JudgeResult

(* Leaves of the contract: each SDK makes the same of them.                 *)
LEMMA LeavesAlike ==
  ASSUME NEW kind \in LeafKinds, NEW json, IsJson(json), R!OfKind(R!Strict, kind, json),
         NEW s \in R!Sdks
  PROVE  /\ R!Leaf(s, kind, json) \in Scalars
         /\ R!Leaf(s, kind, json) = R!Leaf("typescript", kind, json)
<1>1. ASSUME NEW type \in {"string", "boolean"}, json.json = type
      PROVE  \A t : R!Scalar(t, type, json) = json.value
  BY <1>1 DEF R!Scalar
<1>2. json.json \in {"string", "boolean"} => json.value \in Scalars
  BY DEF IsJson, R!Null, Scalars
<1>3. json.json = "number" => json.value \in Numbers
  BY DEF IsJson, R!Null
<1>4. json.json = "null" <=> json = R!Null
  BY DEF IsJson, R!Null
<1>5. ASSUME NEW known, NEW raw \in Scalars PROVE R!Member(known, raw) \in Scalars
  BY DEF R!Member, Scalars
<1>6. Absent \in Scalars /\ Numbers \subseteq Scalars
  BY DEF Scalars
<1>7. CASE kind \in {"text", "text?", "flag"}
  BY <1>1, <1>2, <1>4, <1>6, <1>7 DEF R!OfKind, R!IsA, R!Leaf, R!Optional
<1>8. CASE kind \in {"status", "health"}
  <2>1. json.json = "string"
    BY <1>8 DEF R!OfKind, R!IsA
  <2> QED
    BY <1>1, <1>2, <1>5, <1>8, <2>1 DEF R!Leaf
<1>9. CASE kind = "verdict?"
  <2>1. CASE json = R!Null
    BY <1>6, <1>9, <2>1 DEF R!Leaf, R!Optional
  <2>2. CASE json # R!Null
    <3>1. json.json = "string"
      BY <1>4, <1>9, <2>2 DEF R!OfKind, R!IsA
    <3> QED
      BY <1>1, <1>2, <1>5, <1>9, <2>2, <3>1 DEF R!Leaf, R!Optional
  <2> QED
    BY <2>1, <2>2
<1>10. CASE kind \in {"number?", "int?", "long?"}
  <2>1. CASE json = R!Null
    BY <1>6, <1>10, <2>1 DEF R!Leaf, R!Optional
  <2>2. CASE json # R!Null
    <3>1. json.json = "number"
      BY <1>4, <1>10, <2>2 DEF R!OfKind, R!IsA
    <3>2. \A t \in R!Sdks : json.value \in R!Sizes(t, kind)
      <4>1. CASE kind = "number?"
        BY <1>3, <3>1, <4>1 DEF R!Sizes, Numbers
      <4>2. CASE kind = "int?"
        <5>1. json.value \in R!Strict["int?"]
          BY <3>1, <4>2 DEF R!OfKind, R!IsA
        <5> QED
          BY <4>2, <5>1 DEF R!Sizes, R!Strict, R!Sdks
      <4>3. CASE kind = "long?"
        <5>1. json.value \in R!Strict["long?"]
          BY <3>1, <4>3 DEF R!OfKind, R!IsA
        <5> QED
          BY <4>3, <5>1 DEF R!Sizes, R!Strict, R!Sdks
      <4> QED
        BY <1>10, <4>1, <4>2, <4>3
    <3>3. \A t \in R!Sdks : R!Leaf(t, kind, json) = json.value
      BY <1>10, <2>2, <3>1, <3>2 DEF R!Leaf, R!Optional, R!Numeral
    <3> QED
      BY <1>3, <1>6, <3>1, <3>3 DEF R!Sdks
  <2> QED
    BY <2>1, <2>2
<1> QED
  BY <1>7, <1>8, <1>9, <1>10 DEF LeafKinds

(* What TypeScript and Python take for a leaf is of its kind.               *)
LEMMA LeavesChecked ==
  ASSUME NEW kind \in LeafKinds \cup {"evidence"}, NEW json, NEW s \in {"typescript", "python"},
         R!Leaf(s, kind, json) # Rejected
  PROVE  R!OfKind(R!Lax, kind, json) /\ (json = R!Missing => kind = "evidence")
<1> USE DEF R!OfKind, R!IsA, R!Leaf, R!Scalar, R!Null, R!Missing
<1>1. CASE kind \in {"text", "flag"}
  BY <1>1
<1>2. CASE kind \in {"text?"}
  BY <1>2 DEF R!Optional
<1>3. CASE kind \in {"status", "health"}
  BY <1>3 DEF R!Member
<1>4. CASE kind = "verdict?"
  BY <1>4 DEF R!Member, R!Optional
<1>5. CASE kind \in {"number?", "int?", "long?"}
  BY <1>5 DEF R!Optional, R!Numeral, R!Sizes, R!Lax
<1>6. CASE kind = "evidence"
  BY <1>6 DEF R!Evidence
<1> QED
  BY <1>1, <1>2, <1>3, <1>4, <1>5, <1>6 DEF LeafKinds

(* What each SDK makes of a structure whose members are leaves.             *)
FlatStructures ==
  {R!Timestamps, R!Outcome, R!Output, R!Metrics, R!CaseResult, R!Accepted, R!Pending, R!Health}

(* Nothing that is decoded is taken for a rejection.                        *)
LEMMA RejectedIs ==
  /\ Rejected \notin Scalars
  /\ \A structure \in FlatStructures : Rejected \notin Blocks(structure)
BY RejectedAssumption DEF FlatStructures, Decoded

(* Structures of leaves, of the contract: each SDK makes the same of them.  *)
LEMMA BlocksAlike ==
  ASSUME NEW structure \in FlatStructures, NEW json, R!HasShape(R!Strict, structure, json),
         \A key \in DOMAIN json.members : IsJson(json.members[key]),
         NEW s \in R!Sdks
  PROVE  /\ R!Block(s, structure, json) \in Blocks(structure)
         /\ R!Block(s, structure, json) = R!Block("typescript", structure, json)
<1>1. Flat(structure) /\ json.json = "object"
  BY FlatBlocks DEF FlatStructures, R!HasShape, R!IsA
<1> DEFINE leaf(t, key) == R!Leaf(t, R!KindOf(structure, key), R!Field(structure, json, key))
<1>2. ASSUME NEW key \in R!Keys(structure), NEW t \in R!Sdks
      PROVE  leaf(t, key) \in Scalars /\ leaf(t, key) = leaf("typescript", key)
  <2>1. PICK i \in DOMAIN structure : key = structure[i][1]
    BY DEF R!Keys
  <2>2. /\ R!KindOf(structure, key) = structure[i][2] /\ structure[i][2] \in LeafKinds
        /\ key \in DOMAIN json.members
        /\ R!OfKind(R!Strict, structure[i][2], R!Field(structure, json, key))
    BY <1>1, <2>1 DEF Flat, R!HasShape
  <2>3. IsJson(R!Field(structure, json, key))
    BY <1>1, <2>2 DEF R!Field
  <2> QED
    BY <2>2, <2>3, LeavesAlike
<1> HIDE DEF leaf
<1>3. \A t \in R!Sdks :
        /\ [key \in R!Keys(structure) |-> leaf(t, key)] \in Blocks(structure)
        /\ [key \in R!Keys(structure) |-> leaf(t, key)] =
              [key \in R!Keys(structure) |-> leaf("typescript", key)]
  BY <1>2 DEF Blocks
<1>4. \A t \in R!Sdks :
        R!Block(t, structure, json) = [key \in R!Keys(structure) |-> leaf(t, key)]
  <2> TAKE t \in R!Sdks
  <2>1. R!Block(t, structure, json) = R!Complete([key \in R!Keys(structure) |-> leaf(t, key)])
    BY <1>1 DEF R!Block, R!Structure, R!IsStructure, leaf
  <2>2. \A key \in R!Keys(structure) : leaf(t, key) # Rejected
    BY <1>2, RejectedIs
  <2> QED
    BY <2>1, <2>2 DEF R!Complete
<1> QED
  BY <1>3, <1>4 DEF R!Sdks

(* ... and of an answer with one member, which Go does not ask for.          *)
LEMMA OnlyAlike ==
  ASSUME NEW structure \in {R!Pending, R!Health}, NEW json, R!HasShape(R!Strict, structure, json),
         \A key \in DOMAIN json.members : IsJson(json.members[key]),
         NEW s \in R!Sdks
  PROVE  R!Only(s, structure, json) = R!Block(s, structure, json)
<1>1. json.json = "object" /\ json # R!Null
  BY DEF R!HasShape, R!IsA, R!Null
<1>2. PICK key \in R!Keys(structure) :
        key \in DOMAIN json.members /\ json.members[key].json = "string"
  BY DEF R!HasShape, R!Keys, R!Pending, R!Health, R!OfKind, R!IsA, R!Field
<1>3. R!Field(structure, json, key) # R!Missing
  BY <1>1, <1>2 DEF R!Field, R!Missing
<1> QED
  BY <1>1, <1>3 DEF R!Only, R!GoUnchecked

(* ... of a list of structures, and of a list of texts.                      *)
LEMMA CasesAlike ==
  ASSUME NEW json, IsJson(json), json.json = "array",
         \A i \in DOMAIN json.items :
           /\ R!HasShape(R!Strict, R!CaseResult, json.items[i])
           /\ \A key \in DOMAIN json.items[i].members : IsJson(json.items[i].members[key]),
         NEW s \in R!Sdks
  PROVE  /\ R!Cases(s, json) \in Seq(Blocks(R!CaseResult))
         /\ R!Cases(s, json) = R!Cases("typescript", json)
<1> DEFINE list(t) == [i \in DOMAIN json.items |-> R!Block(t, R!CaseResult, json.items[i])]
<1>1. /\ json # R!Null
      /\ json.items \in Seq(PartsOf(json))
  BY DEF IsJson, R!Null
<1>2. ASSUME NEW t \in R!Sdks, NEW i \in DOMAIN json.items
      PROVE  /\ list(t)[i] \in Blocks(R!CaseResult) /\ list(t)[i] = list("typescript")[i]
             /\ list(t)[i] # Rejected
  BY BlocksAlike, RejectedIs DEF FlatStructures
<1>3. ASSUME NEW t \in R!Sdks PROVE R!Cases(t, json) = list(t)
  BY <1>1, <1>2 DEF R!Cases, R!List, R!Complete
<1>4. list(s) = list("typescript")
  BY <1>2
<1>5. list(s) \in Seq(Blocks(R!CaseResult))
  <2>1. Len(json.items) \in Nat /\ DOMAIN json.items = 1 .. Len(json.items)
    BY <1>1
  <2>2. list(s) \in [1 .. Len(json.items) -> Blocks(R!CaseResult)]
    BY <1>2, <2>1
  <2> HIDE DEF list
  <2> QED
    BY <2>1, <2>2
<1> HIDE DEF list
<1> QED
  BY <1>3, <1>4, <1>5 DEF R!Sdks

(* Lists of strings: each SDK makes the same of them.                       *)
LEMMA LanguagesAlike ==
  ASSUME NEW json, IsJson(json), json.json = "array",
         \A i \in DOMAIN json.items : IsJson(json.items[i]) /\ R!IsText(json.items[i]),
         NEW s \in R!Sdks
  PROVE  /\ R!ParseLanguages(s, json) \in Seq(Scalars)
         /\ R!ParseLanguages(s, json) = R!ParseLanguages("typescript", json)
<1> DEFINE list(t) == [i \in DOMAIN json.items |-> R!Scalar(t, "string", json.items[i])]
<1>1. /\ json # R!Null
      /\ json.items \in Seq(PartsOf(json))
  BY DEF IsJson, R!Null
<1>2. ASSUME NEW t \in R!Sdks, NEW i \in DOMAIN json.items
      PROVE  list(t)[i] = json.items[i].value /\ list(t)[i] \in Scalars /\ list(t)[i] # Rejected
  <2>1. json.items[i].json = "string" /\ json.items[i].value \in Scalars
    BY DEF R!IsText, IsJson, R!Null, Scalars
  <2> QED
    BY <2>1, RejectedIs DEF R!Scalar
<1>3. ASSUME NEW t \in R!Sdks PROVE R!ParseLanguages(t, json) = list(t)
  BY <1>1, <1>2 DEF R!ParseLanguages, R!List, R!Complete
<1>4. list(s) = list("typescript")
  BY <1>2 DEF R!Sdks
<1>5. list(s) \in Seq(Scalars)
  <2>1. Len(json.items) \in Nat /\ DOMAIN json.items = 1 .. Len(json.items)
    BY <1>1
  <2>2. list(s) \in [1 .. Len(json.items) -> Scalars]
    BY <1>2, <2>1
  <2> HIDE DEF list
  <2> QED
    BY <2>1, <2>2
<1> HIDE DEF list
<1> QED
  BY <1>3, <1>4, <1>5 DEF R!Sdks
-----------------------------------------------------------------------------
(***************************************************************************)
(* What the contract allows is read alike by the four SDKs.                *)
(***************************************************************************)
(* What is known of the parts of a body.                                    *)
LEMMA BodyIs ==
  ASSUME ReadInv
  PROVE  LET body == response.body
         IN  /\ body.json = "array" =>
                  IsJson(body) /\ \A i \in DOMAIN body.items : IsJson(body.items[i])
             /\ body.json = "object" => \A key \in DOMAIN body.members : IsJson(body.members[key])
             /\ body.json = "object" /\ "evidence" \in DOMAIN body.members =>
                  body.members["evidence"] \in Evidences
<1>1. response.body \in Bodies
  BY DEF ReadInv, Bodies
<1> QED
  BY <1>1, JsonAssumption DEF PartsOf, Evidences

(* What is known of the members of a body.                                  *)
LEMMA MembersAre ==
  ASSUME ReadInv, response.body.json = "object", NEW key \in DOMAIN response.body.members
  PROVE  LET part == response.body.members[key]
         IN  /\ IsJson(part)
             /\ part.json = "object" => \A k \in DOMAIN part.members : IsJson(part.members[k])
             /\ part.json = "array" =>
                  \A i \in DOMAIN part.items :
                    /\ IsJson(part.items[i])
                    /\ part.items[i].json = "object" =>
                         \A k \in DOMAIN part.items[i].members : IsJson(part.items[i].members[k])
<1> DEFINE body == response.body
           part == body.members[key]
<1>1. body \in Bodies
  BY DEF ReadInv, Bodies
<1>2. part \in PartsOf(body)
  BY DEF PartsOf
<1>3. IsJson(part) /\ \A p \in PartsOf(part) : IsJson(p) /\ \A q \in PartsOf(p) : IsJson(q)
  BY <1>1, <1>2, JsonAssumption
<1> HIDE DEF part
<1>4. part.json = "object" => \A k \in DOMAIN part.members : part.members[k] \in PartsOf(part)
  BY DEF PartsOf
<1>5. part.json = "array" => \A i \in DOMAIN part.items : part.items[i] \in PartsOf(part)
  BY DEF PartsOf
<1>6. \A p : p.json = "object" => \A k \in DOMAIN p.members : p.members[k] \in PartsOf(p)
  BY DEF PartsOf
<1>7. part.json = "array" =>
        \A i \in DOMAIN part.items :
          /\ IsJson(part.items[i])
          /\ part.items[i].json = "object" =>
               \A k \in DOMAIN part.items[i].members : IsJson(part.items[i].members[k])
  BY <1>3, <1>5, <1>6
<1> QED
  BY <1>3, <1>4, <1>7 DEF part

(* A member of an answer of the contract is of its kind, and there.         *)
LEMMA ShapeIs ==
  ASSUME NEW structure \in {R!Execution, R!JudgeResult}, NEW sizes, NEW json,
         R!HasShape(sizes, structure, json), NEW key \in R!Keys(structure)
  PROVE  /\ json.json = "object"
         /\ R!OfKind(sizes, R!KindOf(structure, key), R!Field(structure, json, key))
         /\ key # "evidence" =>
              key \in DOMAIN json.members /\ R!Field(structure, json, key) = json.members[key]
         /\ key \notin DOMAIN json.members => R!Field(structure, json, key) = R!Missing
         /\ key \in DOMAIN json.members => R!Field(structure, json, key) = json.members[key]
<1>1. json.json = "object"
  BY DEF R!HasShape, R!IsA
<1>2. PICK i \in DOMAIN structure : key = structure[i][1]
  BY DEF R!Keys
<1>3. R!KindOf(structure, key) = structure[i][2]
  <2>1. \A j, k \in DOMAIN structure : structure[j][1] = structure[k][1] => j = k
    BY DEF R!Execution, R!JudgeResult
  <2> QED
    BY <1>2, <2>1, KindIs
<1> QED
  BY <1>1, <1>2, <1>3 DEF R!HasShape, R!Field

(* The parts of an execution.                                               *)
LEMMA PartsAlike ==
  ASSUME ReadInv, R!AsksForExecution, op # "submit", R!Conforms(R!Strict),
         NEW key \in R!Keys(R!Execution), NEW s \in R!Sdks
  PROVE  LET part(t) ==
               R!Part(t, R!KindOf(R!Execution, key), R!Field(R!Execution, response.body, key))
         IN  part(s) \in Decoded /\ part(s) = part("typescript")
<1> DEFINE body == response.body
           field == R!Field(R!Execution, body, key)
<1>1. /\ R!HasShape(R!Strict, R!Execution, body)
      /\ R!HasShape(R!Strict, R!Timestamps, body.members["timestamps"])
      /\ R!HasShape(R!Strict, R!Outcome, body.members["result"])
      /\ R!HasShape(R!Strict, R!Output, body.members["output"])
      /\ R!HasShape(R!Strict, R!Metrics, body.members["metrics"])
  BY DEF R!Conforms, R!AsksForExecution
<1>2. /\ body.json = "object"
      /\ R!OfKind(R!Strict, R!KindOf(R!Execution, key), field)
      /\ key # "evidence" => key \in DOMAIN body.members /\ field = body.members[key]
      /\ key \notin DOMAIN body.members => field = R!Missing
      /\ key \in DOMAIN body.members => field = body.members[key]
  BY <1>1, ShapeIs
<1>3. key \in DOMAIN body.members => IsJson(body.members[key])
  BY <1>2, MembersAre
<1>4. key \in DOMAIN body.members => IsJson(field)
  BY <1>2, <1>3
<1> HIDE DEF field
<1>5. CASE key \in {"id", "language", "status"}
  <2>1. R!KindOf(R!Execution, key) \in {"text", "status"}
    BY <1>5, ExecutionIs
  <2>2. \A t \in R!Sdks :
          R!Part(t, R!KindOf(R!Execution, key), field) = R!Leaf(t, R!KindOf(R!Execution, key), field)
    BY <2>1 DEF R!Part
  <2> QED
    BY <1>2, <1>4, <1>5, <2>1, <2>2, LeavesAlike DEF LeafKinds, Decoded, R!Sdks, field
<1>6. ASSUME NEW structure \in {R!Timestamps, R!Outcome, R!Output, R!Metrics},
             key # "evidence", R!HasShape(R!Strict, structure, field), NEW t \in R!Sdks
      PROVE  /\ R!Block(t, structure, field) \in Decoded
             /\ R!Block(t, structure, field) = R!Block("typescript", structure, field)
  <2>1. \A k \in DOMAIN field.members : IsJson(field.members[k])
    BY <1>2, <1>6, MembersAre DEF R!HasShape, R!IsA
  <2> QED
    BY <1>6, <2>1, BlocksAlike DEF FlatStructures, Decoded
<1>7. CASE key = "timestamps"
  BY <1>1, <1>2, <1>6, <1>7, ExecutionIs DEF R!Part, R!Sdks, field
<1>8. CASE key = "result"
  BY <1>1, <1>2, <1>6, <1>8, ExecutionIs DEF R!Part, R!Sdks, field
<1>9. CASE key = "output"
  BY <1>1, <1>2, <1>6, <1>9, ExecutionIs DEF R!Part, R!Sdks, field
<1>10. CASE key = "metrics"
  BY <1>1, <1>2, <1>6, <1>10, ExecutionIs DEF R!Part, R!Sdks, field
<1>11. CASE key = "evidence"
  <2>1. \A t : R!Part(t, R!KindOf(R!Execution, key), field) = R!Evidence(field)
    BY <1>11, ExecutionIs DEF R!Part, R!Leaf
  <2>2. R!Evidence(field) \in Scalars \cup Evidences
    <3>1. CASE key \in DOMAIN body.members
      <4>1. field \in Evidences
        BY <1>2, <1>11, <3>1, BodyIs
      <4>2. IsJson(field)
        BY <1>4, <3>1
      <4>3. field.json \in {"object", "null", "missing"}
        BY <1>2, <1>11, ExecutionIs DEF R!OfKind, R!IsA
      <4> QED
        BY <4>1, <4>2, <4>3 DEF R!Evidence, Scalars, IsJson, R!Null, R!Missing
    <3>2. CASE key \notin DOMAIN body.members
      BY <1>2, <3>2 DEF R!Evidence, Scalars, R!Missing, R!Null
    <3> QED
      BY <3>1, <3>2
  <2> QED
    BY <2>1, <2>2 DEF Decoded, field
<1> QED
  BY <1>5, <1>7, <1>8, <1>9, <1>10, <1>11, ExecutionIs

Alike(s) ==
  /\ R!Parse(s, response.body) # Rejected
  /\ R!Parse(s, response.body) = R!Parse("typescript", response.body)

(* Accepted runs, and the answers with one member.                          *)
LEMMA FlatAlike ==
  ASSUME ReadInv, R!Conforms(R!Strict), NEW s \in R!Sdks,
         op \notin {"judge", "languages"}, ~R!AsksForExecution
  PROVE  Alike(s)
<1> DEFINE body == response.body
           structure ==
             IF op = "submit" THEN R!Accepted ELSE IF op = "run" THEN R!Pending ELSE R!Health
<1>1. R!HasShape(R!Strict, structure, body)
  BY DEF R!Conforms, R!AsksForExecution
<1>2. body.json = "object" /\ \A key \in DOMAIN body.members : IsJson(body.members[key])
  BY <1>1, BodyIs DEF R!HasShape, R!IsA
<1>3. \A t \in R!Sdks : R!Parse(t, body) = R!Block(t, structure, body)
  <2> TAKE t \in R!Sdks
  <2>1. CASE op = "submit"
    BY <2>1 DEF R!Parse, R!ParseAccepted, R!AsksForExecution
  <2>2. CASE op = "run"
    BY <1>1, <1>2, <2>2, OnlyAlike DEF R!Parse, R!ParsePendingId, R!AsksForExecution
  <2>3. CASE op \notin {"submit", "run"}
    BY <1>1, <1>2, <2>3, OnlyAlike DEF R!Parse, R!ParseHealth, R!AsksForExecution
  <2> QED
    BY <2>1, <2>2, <2>3
<1>4. structure \in FlatStructures
  BY DEF FlatStructures
<1> HIDE DEF structure
<1> QED
  BY <1>1, <1>2, <1>3, <1>4, BlocksAlike, RejectedIs DEF Alike, R!Sdks

(* Each SDK reads the same from an execution of the contract.               *)
LEMMA ExecutionsAlike ==
  ASSUME ReadInv, R!Conforms(R!Strict), NEW s \in R!Sdks, R!AsksForExecution
  PROVE  Alike(s)
<1> DEFINE body == response.body
           part(t, key) == R!Part(t, R!KindOf(R!Execution, key), R!Field(R!Execution, body, key))
           value(t) == [key \in R!Keys(R!Execution) |-> part(t, key)]
<1>1. op # "submit" /\ body.json = "object"
  BY DEF R!AsksForExecution, R!Conforms, R!HasShape, R!IsA
<1>2. \A t \in R!Sdks, key \in R!Keys(R!Execution) :
        part(t, key) \in Decoded /\ part(t, key) = part("typescript", key)
  BY <1>1, PartsAlike
<1>3. \A t \in R!Sdks : R!Parse(t, body) = R!Complete(value(t))
  BY <1>1 DEF R!Parse, R!ParseExecution, R!Structure, R!IsStructure, R!AsksForExecution
<1> HIDE DEF part
<1>4. \A t \in R!Sdks : value(t) # Rejected /\ R!Complete(value(t)) = value(t)
  BY <1>2, RejectedAssumption DEF R!Complete
<1>5. value(s) = value("typescript")
  BY <1>2
<1> QED
  BY <1>3, <1>4, <1>5 DEF Alike, R!Sdks

(* Each SDK reads the same from a judgement of the contract.                *)
LEMMA JudgementsAlike ==
  ASSUME ReadInv, R!Conforms(R!Strict), NEW s \in R!Sdks, op = "judge"
  PROVE  Alike(s)
<1> DEFINE body == response.body
           results == body.members["results"]
           flag == body.members["all_passed"]
           part(t, key) == R!Part(t, R!KindOf(R!JudgeResult, key), R!Field(R!JudgeResult, body, key))
           value(t) == [key \in R!Keys(R!JudgeResult) |-> part(t, key)]
<1>1. /\ R!HasShape(R!Strict, R!JudgeResult, body)
      /\ results.json = "array"
      /\ \A i \in DOMAIN results.items : R!HasShape(R!Strict, R!CaseResult, results.items[i])
  BY DEF R!Conforms, R!IsA, R!AsksForExecution
<1>2. /\ body.json = "object"
      /\ "results" \in DOMAIN body.members /\ "all_passed" \in DOMAIN body.members
      /\ R!Field(R!JudgeResult, body, "results") = results
      /\ R!Field(R!JudgeResult, body, "all_passed") = flag
      /\ R!OfKind(R!Strict, "flag", flag)
  BY <1>1, ShapeIs, JudgeResultIs
<1>3. IsJson(flag) /\ IsJson(results)
  BY <1>2, MembersAre
<1>4. \A i \in DOMAIN results.items :
        \A key \in DOMAIN results.items[i].members : IsJson(results.items[i].members[key])
  BY <1>1, <1>2, MembersAre DEF R!HasShape, R!IsA
<1>5. \A t \in R!Sdks : part(t, "results") = R!Cases(t, results)
                        /\ part(t, "all_passed") = R!Leaf(t, "flag", flag)
  BY <1>2, JudgeResultIs DEF R!Part
<1> HIDE DEF results, flag
<1>6. \A t \in R!Sdks : /\ R!Cases(t, results) \in Decoded
                        /\ R!Cases(t, results) = R!Cases("typescript", results)
  BY <1>1, <1>3, <1>4, CasesAlike DEF Decoded
<1>7. \A t \in R!Sdks : /\ R!Leaf(t, "flag", flag) \in Decoded
                        /\ R!Leaf(t, "flag", flag) = R!Leaf("typescript", "flag", flag)
  BY <1>2, <1>3, LeavesAlike DEF Decoded, LeafKinds
<1>8. \A t \in R!Sdks, key \in R!Keys(R!JudgeResult) :
        part(t, key) \in Decoded /\ part(t, key) = part("typescript", key)
  <2> HIDE DEF part
  <2> QED
    BY <1>5, <1>6, <1>7, JudgeResultIs DEF R!Sdks
<1>9. \A t \in R!Sdks : R!Parse(t, body) = R!Complete(value(t))
  BY <1>2 DEF R!Parse, R!ParseJudgeResult, R!Structure, R!IsStructure, R!AsksForExecution
<1> HIDE DEF part
<1>10. \A t \in R!Sdks : value(t) # Rejected /\ R!Complete(value(t)) = value(t)
  BY <1>8, RejectedAssumption DEF R!Complete
<1>11. value(s) = value("typescript")
  BY <1>8
<1> QED
  BY <1>9, <1>10, <1>11 DEF Alike, R!Sdks

(* ... and all of the answers.                                              *)
LEMMA AnswersAlike ==
  ASSUME ReadInv, R!Conforms(R!Strict), NEW s \in R!Sdks
  PROVE  Alike(s)
<1>1. CASE op = "languages"
  <2>1. /\ response.body.json = "array"
        /\ \A i \in DOMAIN response.body.items : R!IsText(response.body.items[i])
    BY <1>1 DEF R!Conforms, R!IsA, R!AsksForExecution
  <2>2. \A t \in R!Sdks : R!Parse(t, response.body) = R!ParseLanguages(t, response.body)
    BY <1>1 DEF R!Parse, R!AsksForExecution
  <2>3. /\ R!ParseLanguages(s, response.body) \in Seq(Scalars)
        /\ R!ParseLanguages(s, response.body) = R!ParseLanguages("typescript", response.body)
    BY <2>1, BodyIs, LanguagesAlike
  <2> QED
    BY <2>2, <2>3, RejectedAssumption DEF Alike, R!Sdks
<1> QED
  BY <1>1, FlatAlike, ExecutionsAlike, JudgementsAlike

(* The SDKs read every answer of the contract, and alike.                   *)
THEOREM ReadsTheContract == R!Spec => []SdksReadTheContract
<1>1. ReadInv => SdksReadTheContract
  <2> SUFFICES ASSUME ReadInv, response.status \in R!Expected, R!Conforms(R!Strict),
                      NEW s \in R!Readers, NEW t \in R!Readers
               PROVE  R!Reads(s) /\ read[s] = read[t]
    BY DEF SdksReadTheContract, R!SdksReadTheContract
  <2>1. ASSUME NEW u \in R!Readers
        PROVE  read[u] = [kind |-> "decoded", value |-> R!Parse("typescript", response.body)]
    <3>1. u \in R!Sdks /\ read[u] = Made(u)
      BY ReaderIs DEF R!Readers, ReadInv
    <3>2. ~(response.status >= 500)
      BY DEF R!Expected
    <3>3. Alike(u)
      BY <3>1, AnswersAlike
    <3> QED
      BY <3>1, <3>2, <3>3 DEF Made, R!Expect, Alike
  <2> QED
    BY <2>1 DEF R!Reads
<1> QED
  BY <1>1, ReadInductive, PTL
-----------------------------------------------------------------------------
(***************************************************************************)
(* What the SDKs that check each member read is of the contract.           *)
(***************************************************************************)
Checking == {"typescript", "python"}

(* A structure or list that is not rejected is one, and no part of it is.    *)
LEMMA NoPartRejected ==
  ASSUME NEW value, R!Complete(value) # Rejected
  PROVE  R!Complete(value) = value /\ \A part \in DOMAIN value : value[part] # Rejected
BY DEF R!Complete

(* What TypeScript and Python read of a structure has its shape.            *)
LEMMA BlocksChecked ==
  ASSUME NEW structure \in FlatStructures, NEW json, NEW s \in Checking,
         R!Block(s, structure, json) # Rejected
  PROVE  R!HasShape(R!Lax, structure, json)
<1> DEFINE leaf(key) == R!Leaf(s, R!KindOf(structure, key), R!Field(structure, json, key))
           value == [key \in R!Keys(structure) |-> leaf(key)]
<1>1. Flat(structure)
  BY FlatBlocks DEF FlatStructures
<1>2. json.json = "object" /\ R!Complete(value) # Rejected
  BY DEF R!Block, R!Structure, R!IsStructure, Checking
<1>3. \A key \in R!Keys(structure) : leaf(key) # Rejected
  <2> HIDE DEF leaf
  <2> QED
    BY <1>2, NoPartRejected
<1>4. ASSUME NEW i \in DOMAIN structure
      PROVE  LET key == structure[i][1]
             IN  /\ key \in DOMAIN json.members
                 /\ R!OfKind(R!Lax, structure[i][2], R!Field(structure, json, key))
  <2> DEFINE key == structure[i][1]
  <2>1. R!KindOf(structure, key) = structure[i][2] /\ structure[i][2] \in LeafKinds
        /\ structure[i][2] # "evidence" /\ key \in R!Keys(structure)
    BY <1>1 DEF Flat, LeafKinds, R!Keys
  <2>2. R!Leaf(s, structure[i][2], R!Field(structure, json, key)) # Rejected
    BY <1>3, <2>1
  <2>3. R!OfKind(R!Lax, structure[i][2], R!Field(structure, json, key))
        /\ R!Field(structure, json, key) # R!Missing
    BY <2>1, <2>2, LeavesChecked DEF Checking
  <2> QED
    BY <1>2, <2>3 DEF R!Field
<1> QED
  BY <1>2, <1>4 DEF R!HasShape, R!IsA

(* The two SDKs take no answer that their structure does not take.          *)
LEMMA OnlyChecked ==
  ASSUME NEW structure, NEW json, NEW s \in Checking
  PROVE  R!Only(s, structure, json) = R!Block(s, structure, json)
BY DEF R!Only, Checking

(* The two SDKs read no execution but those of the contract.                *)
LEMMA ExecutionsChecked ==
  ASSUME NEW s \in Checking, R!AsksForExecution, R!Parse(s, response.body) # Rejected
  PROVE  R!Conforms(R!Lax)
<1> DEFINE body == response.body
           field(key) == R!Field(R!Execution, body, key)
           part(key) == R!Part(s, R!KindOf(R!Execution, key), field(key))
           value == [key \in R!Keys(R!Execution) |-> part(key)]
<1>1. body.json = "object" /\ R!Complete(value) # Rejected
  BY DEF R!Parse, R!AsksForExecution, R!ParseExecution, R!Structure, R!IsStructure, Checking
<1>2. \A key \in R!Keys(R!Execution) : part(key) # Rejected
  <2> HIDE DEF part
  <2> QED
    BY <1>1, NoPartRejected
<1>3. ASSUME NEW key \in {"id", "language", "status", "evidence"}
      PROVE  /\ R!OfKind(R!Lax, R!KindOf(R!Execution, key), field(key))
             /\ key # "evidence" => key \in DOMAIN body.members
  <2> DEFINE kind == R!KindOf(R!Execution, key)
  <2>1. kind \in {"text", "status", "evidence"} /\ (kind = "evidence" => key = "evidence")
        /\ part(key) # Rejected
    BY <1>2, ExecutionIs
  <2> HIDE DEF kind
  <2>2. R!Leaf(s, kind, field(key)) # Rejected
    BY <2>1 DEF R!Part, kind
  <2>3. R!OfKind(R!Lax, kind, field(key)) /\ (field(key) = R!Missing => kind = "evidence")
    BY <2>1, <2>2, LeavesChecked DEF LeafKinds, Checking
  <2> QED
    BY <1>1, <2>1, <2>3 DEF R!Field, kind
<1>4. /\ R!Block(s, R!Timestamps, field("timestamps")) # Rejected
      /\ R!Block(s, R!Outcome, field("result")) # Rejected
      /\ R!Block(s, R!Output, field("output")) # Rejected
      /\ R!Block(s, R!Metrics, field("metrics")) # Rejected
  BY <1>2, ExecutionIs DEF R!Part
<1>5. /\ R!HasShape(R!Lax, R!Timestamps, field("timestamps"))
      /\ R!HasShape(R!Lax, R!Outcome, field("result"))
      /\ R!HasShape(R!Lax, R!Output, field("output"))
      /\ R!HasShape(R!Lax, R!Metrics, field("metrics"))
  BY <1>4, BlocksChecked DEF FlatStructures
<1>6. ASSUME NEW key \in {"timestamps", "result", "output", "metrics"}
      PROVE  key \in DOMAIN body.members /\ field(key) = body.members[key]
  <2>1. field(key) # R!Missing
    BY <1>5 DEF R!HasShape, R!IsA, R!Missing
  <2> QED
    BY <1>1, <2>1 DEF R!Field
<1>7. R!HasShape(R!Lax, R!Execution, body)
  <2> SUFFICES ASSUME NEW i \in DOMAIN R!Execution
               PROVE  LET key == R!Execution[i][1]
                      IN  /\ key \in DOMAIN body.members \/ key = "evidence"
                          /\ R!OfKind(R!Lax, R!Execution[i][2], field(key))
    BY <1>1 DEF R!HasShape, R!IsA
  <2> DEFINE key == R!Execution[i][1]
  <2>1. key \in R!Keys(R!Execution) /\ R!KindOf(R!Execution, key) = R!Execution[i][2]
    BY ExecutionIs DEF R!Keys
  <2> HIDE DEF key
  <2>2. CASE key \in {"id", "language", "status", "evidence"}
    BY <1>3, <2>1, <2>2 DEF key
  <2>3. CASE key \in {"timestamps", "result", "output", "metrics"}
    <3>1. R!KindOf(R!Execution, key) \in {"timestamps", "outcome", "output", "metrics"}
      BY <2>3, ExecutionIs
    <3> QED
      BY <1>6, <2>1, <2>3, <3>1 DEF R!OfKind, key
  <2> QED
    BY <2>1, <2>2, <2>3, ExecutionIs
<1> HIDE DEF field
<1> QED
  BY <1>5, <1>6, <1>7 DEF R!Conforms, R!AsksForExecution

(* The two SDKs read no judgement but those of the contract.                *)
LEMMA JudgementsChecked ==
  ASSUME NEW s \in Checking, op = "judge", R!Parse(s, response.body) # Rejected
  PROVE  R!Conforms(R!Lax)
<1> DEFINE body == response.body
           field(key) == R!Field(R!JudgeResult, body, key)
           part(key) == R!Part(s, R!KindOf(R!JudgeResult, key), field(key))
           value == [key \in R!Keys(R!JudgeResult) |-> part(key)]
           results == field("results")
           list == [i \in DOMAIN results.items |-> R!Block(s, R!CaseResult, results.items[i])]
<1>1. body.json = "object" /\ R!Complete(value) # Rejected
  BY DEF R!Parse, R!AsksForExecution, R!ParseJudgeResult, R!Structure, R!IsStructure, Checking
<1>2. \A key \in R!Keys(R!JudgeResult) : part(key) # Rejected
  <2> HIDE DEF part
  <2> QED
    BY <1>1, NoPartRejected
<1>3. R!Leaf(s, "flag", field("all_passed")) # Rejected /\ R!Cases(s, results) # Rejected
  BY <1>2, JudgeResultIs DEF R!Part
<1>4. R!OfKind(R!Lax, "flag", field("all_passed")) /\ field("all_passed") # R!Missing
  BY <1>3, LeavesChecked DEF LeafKinds, Checking
<1>5. results.json = "array" /\ R!Complete(list) # Rejected
  BY <1>3 DEF R!Cases, R!List, Checking
<1>6. \A i \in DOMAIN results.items : R!HasShape(R!Lax, R!CaseResult, results.items[i])
  <2>1. \A i \in DOMAIN results.items : list[i] # Rejected
    BY <1>5, NoPartRejected
  <2> QED
    BY <2>1, BlocksChecked DEF FlatStructures
<1>7. results # R!Missing
  BY <1>5 DEF R!Missing
<1>8. ASSUME NEW key \in {"results", "all_passed"}
      PROVE  key \in DOMAIN body.members /\ field(key) = body.members[key]
  BY <1>1, <1>4, <1>7 DEF R!Field
<1>9. R!HasShape(R!Lax, R!JudgeResult, body)
  <2>1. \A i \in DOMAIN R!JudgeResult :
          LET key == R!JudgeResult[i][1]
          IN  /\ key \in DOMAIN body.members
              /\ R!OfKind(R!Lax, R!JudgeResult[i][2], field(key))
    BY <1>4, <1>8 DEF R!JudgeResult, R!OfKind
  <2> QED
    BY <1>1, <2>1 DEF R!HasShape, R!IsA
<1> HIDE DEF field
<1> QED
  BY <1>5, <1>6, <1>8, <1>9 DEF R!Conforms, R!AsksForExecution, R!IsA

(* The two SDKs read no answer but those of the contract.                   *)
LEMMA AnswersChecked ==
  ASSUME NEW s \in Checking, R!Parse(s, response.body) # Rejected
  PROVE  R!Conforms(R!Lax)
<1> DEFINE body == response.body
           list == [i \in DOMAIN body.items |-> R!Scalar(s, "string", body.items[i])]
<1>1. CASE op = "languages"
  <2>1. body.json = "array" /\ R!Complete(list) # Rejected
    BY <1>1 DEF R!Parse, R!AsksForExecution, R!ParseLanguages, R!List, Checking
  <2>2. \A i \in DOMAIN body.items : list[i] # Rejected
    BY <2>1, NoPartRejected
  <2>3. \A i \in DOMAIN body.items : R!IsText(body.items[i])
    BY <2>2 DEF R!Scalar, R!IsText, Checking
  <2> QED
    BY <1>1, <2>1, <2>3 DEF R!Conforms, R!AsksForExecution, R!IsA
<1>2. CASE op \notin {"judge", "languages"} /\ ~R!AsksForExecution
  <2> DEFINE structure ==
             IF op = "submit" THEN R!Accepted ELSE IF op = "run" THEN R!Pending ELSE R!Health
  <2>1. R!Block(s, structure, body) # Rejected
    BY <1>2, OnlyChecked
    DEF R!Parse, R!AsksForExecution, R!ParseAccepted, R!ParsePendingId, R!ParseHealth
  <2>2. R!HasShape(R!Lax, structure, body)
    BY <2>1, BlocksChecked DEF FlatStructures
  <2> QED
    BY <1>2, <2>2 DEF R!Conforms, R!AsksForExecution
<1> QED
  BY <1>1, <1>2, ExecutionsChecked, JudgementsChecked

(* TypeScript and Python hand nothing on that is not of the contract.       *)
THEOREM ReadsNothingElse == R!Spec => []TheCheckingSdksReadNothingElse
<1>1. ReadInv => TheCheckingSdksReadNothingElse
  BY ReaderIs, AnswersChecked
  DEF TheCheckingSdksReadNothingElse, R!TheCheckingSdksReadNothingElse, Checking
<1> QED
  BY <1>1, ReadInductive, PTL
-----------------------------------------------------------------------------
(* A decoded execution is done when the one in the answer is.               *)
LEMMA DoneIs ==
  ASSUME NEW s \in R!Sdks, op = "get_result", R!Conforms(R!Lax),
         R!Parse(s, response.body) # Rejected
  PROVE  LET members == response.body.members
         IN  R!Done(R!Parse(s, response.body)) <=>
               \/ members.status.value \in R!TerminalStatuses
               \/ members.result.members.verdict # R!Null
<1> DEFINE body == response.body
           field(key) == R!Field(R!Execution, body, key)
           part(key) == R!Part(s, R!KindOf(R!Execution, key), field(key))
           value == [key \in R!Keys(R!Execution) |-> part(key)]
           status == body.members["status"]
           result == body.members["result"]
           verdict == result.members["verdict"]
           leaf(key) == R!Leaf(s, R!KindOf(R!Outcome, key), R!Field(R!Outcome, result, key))
           outcome == [key \in R!Keys(R!Outcome) |-> leaf(key)]
<1>1. R!HasShape(R!Lax, R!Execution, body) /\ R!HasShape(R!Lax, R!Outcome, result)
  BY DEF R!Conforms, R!AsksForExecution
<1>2. /\ body.json = "object"
      /\ field("status") = status /\ field("result") = result
      /\ status.json = "string"
  BY <1>1, ShapeIs, ExecutionIs DEF R!OfKind, R!IsA
<1>3. R!Parse(s, body) = R!Complete(value)
  BY <1>2 DEF R!Parse, R!AsksForExecution, R!ParseExecution, R!Structure, R!IsStructure
<1>4. /\ part("status") = R!Leaf(s, "status", status)
      /\ part("result") = R!Block(s, R!Outcome, result)
  BY <1>2, ExecutionIs DEF R!Part
<1>5. value = R!Parse(s, body) /\ \A key \in R!Keys(R!Execution) : part(key) # Rejected
  <2> HIDE DEF part
  <2> QED
    BY <1>3, NoPartRejected
<1>6. /\ value["status"] = R!Leaf(s, "status", status) /\ R!Leaf(s, "status", status) # Rejected
      /\ value["result"] = R!Block(s, R!Outcome, result) /\ R!Block(s, R!Outcome, result) # Rejected
  <2> HIDE DEF part
  <2> QED
    BY <1>4, <1>5, ExecutionIs
<1>7. value["status"] \in R!TerminalStatuses <=> status.value \in R!TerminalStatuses
  BY <1>2, <1>6 DEF R!Leaf, R!Scalar, R!Member, R!Statuses, R!TerminalStatuses, R!Unknown
<1>8. /\ result.json = "object"
      /\ R!Keys(R!Outcome) = {"verdict", "exit_code", "signal", "error_message"}
      /\ R!KindOf(R!Outcome, "verdict") = "verdict?"
      /\ R!Field(R!Outcome, result, "verdict") = verdict
  BY <1>1 DEF R!HasShape, R!IsA, R!Keys, R!KindOf, R!Outcome, R!Field
<1>9. R!Block(s, R!Outcome, result) = R!Complete(outcome)
  BY <1>8 DEF R!Block, R!Structure, R!IsStructure
<1>10. /\ value["result"]["verdict"] = R!Leaf(s, "verdict?", verdict)
       /\ R!Leaf(s, "verdict?", verdict) # Rejected
  <2>1. outcome = value["result"] /\ leaf("verdict") # Rejected
    <3> HIDE DEF leaf, value
    <3> QED
      BY <1>6, <1>8, <1>9, NoPartRejected
  <2>2. leaf("verdict") = R!Leaf(s, "verdict?", verdict)
    BY <1>8
  <2> HIDE DEF leaf, value
  <2> QED
    BY <1>8, <2>1, <2>2
<1>11. R!Leaf(s, "verdict?", verdict) # Absent <=> verdict # R!Null
  <2>1. CASE verdict = R!Null
    BY <2>1 DEF R!Leaf, R!Optional
  <2>2. CASE verdict # R!Null
    <3>1. R!Leaf(s, "verdict?", verdict) = R!Member(R!Verdicts, R!Scalar(s, "string", verdict))
      BY <2>2 DEF R!Leaf, R!Optional
    <3> QED
      BY <1>10, <2>2, <3>1, AbsentAssumption DEF R!Member
  <2> QED
    BY <2>1, <2>2
<1> HIDE DEF value
<1> QED
  BY <1>5, <1>7, <1>10, <1>11 DEF R!Done

(* `run` takes an execution for done when it has ended, in each SDK.         *)
THEOREM DoneAtTheEnd == R!Spec => []DoneWhenItEnded
<1>1. ReadInv => DoneWhenItEnded
  BY ReaderIs, DoneIs DEF DoneWhenItEnded, R!DoneWhenItEnded
<1> QED
  BY <1>1, ReadInductive, PTL
=============================================================================
