--------------------------- MODULE PabloProofs ---------------------------
(***************************************************************************)
(* Proofs about Pablo, for any files under /etc and any number of services *)
(* and pids: what the loader hands to the supervisor, and how the loop     *)
(* accounts for its processes, orders starts, bounds restarts and settles. *)
(***************************************************************************)
EXTENDS Pablo, NaturalLemmas, FiniteSetTheorems

-----------------------------------------------------------------------------
(* Folds. *)

\* The greatest element of a set of positions.
LEMMA MaxOfPositions ==
    ASSUME NEW n \in Nat, NEW s \in SUBSET (1..n), s # {}
    PROVE  Max(s) \in s /\ \A x \in s : x <= Max(s)
<1> DEFINE D == {n - x : x \in s}
<1>1. D \subseteq Nat /\ D # {}
  <2>1. \A x \in s : n - x \in Nat
    OBVIOUS
  <2> QED
    BY <2>1
<1>2. PICK d \in D : \A e \in D : d <= e
  BY <1>1, LeastNatural
<1>3. PICK m \in s : d = n - m
  BY <1>2
<1>4. \A x \in s : x \in Int /\ m \in Int /\ n - m <= n - x
  BY <1>2, <1>3
<1>5. \A x \in s : m >= x
  BY <1>4
<1>6. \E x \in s : \A y \in s : x >= y
  BY <1>5
<1>7. Max(s) \in s /\ \A y \in s : Max(s) >= y
  BY <1>6 DEF Max
<1> QED
  BY <1>7

\* g is the recursive function of a fold over n positions, from the last one down, with
\* the function F[k] at position k and values in T.
FoldOf(g, T, c, F, n) ==
    /\ g \in [SUBSET (1..n) -> T]
    /\ \A s \in SUBSET (1..n) : g[s] = IF s = {} THEN c ELSE F[Max(s)][g[s \ {Max(s)}]]

\* There is such a function.
LEMMA FoldExists ==
    ASSUME NEW T, NEW n \in Nat, NEW c \in T, NEW F \in [1..n -> [T -> T]]
    PROVE  \E g : FoldOf(g, T, c, F, n)
<1> DEFINE Folds(g, m) == \A s \in SUBSET (1..m) :
                             g[s] = IF s = {} THEN c ELSE F[Max(s)][g[s \ {Max(s)}]]
           Some(m) == m <= n => \E g \in [SUBSET (1..m) -> T] : Folds(g, m)
           S == {m \in Nat : Some(m)}
<1>1. Some(0)
  <2> DEFINE g == [s \in SUBSET (1..0) |-> c]
  <2>1. g \in [SUBSET (1..0) -> T]
    OBVIOUS
  <2>2. \A s \in SUBSET (1..0) : s = {}
    OBVIOUS
  <2>3. Folds(g, 0)
    BY <2>2
  <2> HIDE DEF Folds
  <2> QED
    BY <2>1, <2>3
<1>2. ASSUME NEW m \in Nat, Some(m)
      PROVE  Some(m + 1)
  <2> HIDE DEF Folds
  <2> SUFFICES ASSUME m + 1 <= n
               PROVE  \E g \in [SUBSET (1..(m + 1)) -> T] : Folds(g, m + 1)
    OBVIOUS
  <2>0. m <= n
    OBVIOUS
  <2>1. PICK g \in [SUBSET (1..m) -> T] : Folds(g, m)
    BY <1>2, <2>0, Zenon
  <2> USE DEF Folds
  <2> DEFINE h == [s \in SUBSET (1..(m + 1)) |->
                      IF m + 1 \in s THEN F[m + 1][g[s \ {m + 1}]] ELSE g[s]]
  <2>2. \A s \in SUBSET (1..(m + 1)) :
           /\ s \ {m + 1} \in SUBSET (1..m)
           /\ m + 1 \notin s => s \in SUBSET (1..m)
    OBVIOUS
  <2>3. m + 1 \in 1..n
    OBVIOUS
  <2>4. h \in [SUBSET (1..(m + 1)) -> T]
    BY <2>1, <2>2, <2>3
  <2>5. ASSUME NEW s \in SUBSET (1..(m + 1))
        PROVE  h[s] = IF s = {} THEN c ELSE F[Max(s)][h[s \ {Max(s)}]]
    <3>1. CASE s = {}
      BY <2>1, <2>2, <3>1
    <3>2. CASE m + 1 \in s
      <4>1. Max(s) = m + 1
        <5>1. m + 1 \in Nat
          OBVIOUS
        <5>2. Max(s) \in s /\ m + 1 <= Max(s)
          BY <3>2, <5>1, MaxOfPositions
        <5>3. Max(s) \in 1..(m + 1)
          BY <5>2
        <5> QED
          BY <5>2, <5>3
      <4>2. s \ {m + 1} \in SUBSET (1..(m + 1)) /\ m + 1 \notin s \ {m + 1}
        OBVIOUS
      <4>3. h[s \ {m + 1}] = g[s \ {m + 1}]
        BY <4>2
      <4> QED
        BY <3>2, <4>1, <4>3
    <3>3. CASE s # {} /\ m + 1 \notin s
      <4>1. s \in SUBSET (1..m)
        BY <2>2, <3>3
      <4>2. Max(s) \in s
        BY <3>3, <4>1, MaxOfPositions
      <4>3. s \ {Max(s)} \in SUBSET (1..m) /\ s \ {Max(s)} \in SUBSET (1..(m + 1))
        BY <4>1
      <4>4. m + 1 \notin s \ {Max(s)}
        BY <3>3
      <4>5. h[s \ {Max(s)}] = g[s \ {Max(s)}] /\ h[s] = g[s]
        BY <3>3, <4>3, <4>4
      <4> QED
        BY <2>1, <3>3, <4>1, <4>5
    <3> QED
      BY <3>1, <3>2, <3>3
  <2>6. Folds(h, m + 1)
    BY <2>5
  <2> HIDE DEF Folds, h
  <2> QED
    BY <2>4, <2>6
<1>3. Some(n)
  <2> HIDE DEF Some
  <2>1. 0 \in S /\ \A m \in Nat : m \in S => m + 1 \in S
    BY <1>1, <1>2
  <2> HIDE DEF S
  <2>2. n \in S
    BY <2>1, SetInduction
  <2> QED
    BY <2>2 DEF S
<1>4. n <= n
  OBVIOUS
<1>5. PICK g \in [SUBSET (1..n) -> T] : Folds(g, n)
  <2> HIDE DEF Folds
  <2> QED
    BY <1>3, <1>4, Zenon
<1>6. FoldOf(g, T, c, F, n)
  BY <1>5 DEF FoldOf
<1> QED
  BY <1>6

\* What holds at the start of a fold and is kept by every element holds at its end.
LEMMA FoldInvariant ==
    ASSUME NEW T, NEW n \in Nat, NEW f, f[{}] \in T,
           \A k \in 1..n, s \in SUBSET (1..n) :
              s # {} /\ k = Max(s) /\ f[s \ {k}] \in T => f[s] \in T
    PROVE  f[1..n] \in T
<1> DEFINE S == {m \in Nat : m <= n => f[1..m] \in T}
<1>1. 0 \in S
  <2>1. 1..0 = {}
    OBVIOUS
  <2> QED
    BY <2>1
<1>2. ASSUME NEW m \in Nat, m \in S
      PROVE  m + 1 \in S
  <2> SUFFICES ASSUME m + 1 <= n PROVE f[1..(m + 1)] \in T
    OBVIOUS
  <2>1. m + 1 \in 1..n /\ 1..(m + 1) \in SUBSET (1..n) /\ m + 1 \in 1..(m + 1)
    OBVIOUS
  <2>2. Max(1..(m + 1)) \in 1..(m + 1) /\ m + 1 <= Max(1..(m + 1))
    BY <2>1, MaxOfPositions
  <2>3. Max(1..(m + 1)) = m + 1 /\ (1..(m + 1)) \ {m + 1} = 1..m /\ 1..(m + 1) # {}
    BY <2>1, <2>2
  <2>4. f[1..m] \in T
    BY <1>2
  <2>5. f[(1..(m + 1)) \ {m + 1}] \in T
    BY <2>3, <2>4
  <2> HIDE DEF S
  <2> QED
    BY <2>1, <2>3, <2>5
<1>3. n \in S
  <2> HIDE DEF S
  <2> QED
    BY <1>1, <1>2, SetInduction
<1> QED
  BY <1>3

-----------------------------------------------------------------------------
(* The loader. *)

\* pablo_parse_unsigned comes to a number, or to -1.
LEMMA ParsedNumber ==
    ASSUME NEW text \in Seq(-1..9)
    PROVE  pablo_parse_unsigned(text) \in Int
<1> DEFINE step(x, digit) ==
               IF x < 0 \/ digit < 0 \/ x > (UintMax - digit) \div 10 THEN -1 ELSE x * 10 + digit
           n == Len(text)
           Is(f) == f = [s \in SUBSET (1..n) |->
                            IF s = {} THEN 0 ELSE step(f[s \ {Max(s)}], text[Max(s)])]
           fold == CHOOSE f : Is(f)
<1>1. n \in Nat /\ DOMAIN text = 1..n /\ \A k \in 1..n : text[k] \in Int
  OBVIOUS
<1>2. pablo_parse_unsigned(text) = fold[1..n]
  BY <1>1 DEF pablo_parse_unsigned, FoldLeft, MapThenFoldSet
<1>3. \A x \in Int, k \in 1..n : step(x, text[k]) \in Int
  BY <1>1
<1> HIDE DEF step, n
<1>4. \E f : Is(f)
  <2> DEFINE F == [k \in 1..n |-> [x \in Int |-> step(x, text[k])]]
  <2>1. F \in [1..n -> [Int -> Int]] /\ 0 \in Int
    BY <1>3
  <2>2. \A k \in 1..n, x \in Int : F[k][x] = step(x, text[k])
    OBVIOUS
  <2> HIDE DEF F
  <2>3. PICK g : FoldOf(g, Int, 0, F, n)
    BY <1>1, <2>1, FoldExists
  <2>4. ASSUME NEW s \in SUBSET (1..n), s # {}
        PROVE  g[s] = step(g[s \ {Max(s)}], text[Max(s)])
    <3>1. Max(s) \in 1..n /\ s \ {Max(s)} \in SUBSET (1..n)
      BY <1>1, <2>4, MaxOfPositions
    <3>2. g[s \ {Max(s)}] \in Int
      BY <2>3, <3>1 DEF FoldOf
    <3> QED
      BY <2>2, <2>3, <2>4, <3>1, <3>2 DEF FoldOf
  <2>5. Is(g)
    BY <2>3, <2>4 DEF FoldOf
  <2> QED
    BY <2>5
<1>5. Is(fold)
  <2> HIDE DEF Is
  <2> QED
    BY <1>4
<1> HIDE DEF fold
<1>6. fold[1..n] \in Int
  <2>1. fold[{}] \in Int
    BY <1>5
  <2>2. ASSUME NEW k \in 1..n, NEW s \in SUBSET (1..n), s # {}, k = Max(s),
               fold[s \ {k}] \in Int
        PROVE  fold[s] \in Int
    <3>1. fold[s] = step(fold[s \ {Max(s)}], text[Max(s)])
      BY <1>5, <2>2
    <3> QED
      BY <1>3, <2>2, <3>1
  <2> QED
    BY <1>1, <2>1, <2>2, FoldInvariant
<1> QED
  BY <1>2, <1>6

\* What load_settings returns.
Settings ==
    [ok : BOOLEAN, services : {<<>>}, restart_limit : Nat, restart_delay : Nat]

\* A line of the settings changes a setting to a number, or is refused.
LEMMA SettingsLineType ==
    ASSUME NEW c \in Settings, NEW line,
           line.key \in {"restart_limit", "restart_delay"} => line.value \in Seq(-1..9)
    PROVE  SettingsLine(c, line) \in Settings
<1>1. CASE line.key = "#"
  BY <1>1 DEF SettingsLine
<1>2. CASE line.key = "restart_limit" /\ pablo_parse_unsigned(line.value) >= 0
  <2>1. pablo_parse_unsigned(line.value) \in Nat
    BY <1>2, ParsedNumber
  <2>2. SettingsLine(c, line) = [c EXCEPT !.restart_limit = pablo_parse_unsigned(line.value)]
    BY <1>2 DEF SettingsLine
  <2> QED
    BY <2>1, <2>2 DEF Settings
<1>3. CASE line.key = "restart_delay" /\ pablo_parse_unsigned(line.value) >= 0
  <2>1. pablo_parse_unsigned(line.value) \in Nat
    BY <1>3, ParsedNumber
  <2>2. SettingsLine(c, line) = [c EXCEPT !.restart_delay = pablo_parse_unsigned(line.value)]
    BY <1>3 DEF SettingsLine
  <2> QED
    BY <2>1, <2>2 DEF Settings
<1>4. CASE ~(line.key = "#") /\ ~(line.key = "restart_limit" /\ pablo_parse_unsigned(line.value) >= 0)
           /\ ~(line.key = "restart_delay" /\ pablo_parse_unsigned(line.value) >= 0)
  <2>1. SettingsLine(c, line) = [c EXCEPT !.ok = FALSE]
    BY <1>4 DEF SettingsLine
  <2> QED
    BY <2>1 DEF Settings
<1> QED
  BY <1>1, <1>2, <1>3, <1>4

\* load_settings returns settings, whatever is in the file.
LEMMA SettingsType ==
    ASSUME NEW f \in Files
    PROVE  load_settings(f.settings) \in Settings
<1> DEFINE lines == f.settings.lines
           n == Len(lines)
           Is(h) == h = [s \in SUBSET (1..n) |->
                            IF s = {} THEN Defaults ELSE SettingsLine(h[s \ {Max(s)}], lines[Max(s)])]
           fold == CHOOSE h : Is(h)
<1>1. /\ n \in Nat /\ DOMAIN lines = 1..n
      /\ \A k \in 1..n : lines[k].key \in {"restart_limit", "restart_delay"}
                            => lines[k].value \in Seq(-1..9)
  BY FilesAssumption
<1>2. Defaults \in Settings
  BY ConfigAssumption DEF Defaults, Settings
<1>3. FoldLeft(SettingsLine, Defaults, lines) = fold[1..n]
  BY <1>1 DEF FoldLeft, MapThenFoldSet
<1>4. \A c \in Settings, k \in 1..n : SettingsLine(c, lines[k]) \in Settings
  BY <1>1, SettingsLineType
<1> HIDE DEF n
<1>5. \E h : Is(h)
  <2> DEFINE F == [k \in 1..n |-> [c \in Settings |-> SettingsLine(c, lines[k])]]
  <2>1. F \in [1..n -> [Settings -> Settings]]
    BY <1>4
  <2>2. \A k \in 1..n, c \in Settings : F[k][c] = SettingsLine(c, lines[k])
    OBVIOUS
  <2> HIDE DEF F
  <2>3. PICK g : FoldOf(g, Settings, Defaults, F, n)
    BY <1>1, <1>2, <2>1, FoldExists
  <2>4. ASSUME NEW s \in SUBSET (1..n), s # {}
        PROVE  g[s] = SettingsLine(g[s \ {Max(s)}], lines[Max(s)])
    <3>1. Max(s) \in 1..n /\ s \ {Max(s)} \in SUBSET (1..n)
      BY <1>1, <2>4, MaxOfPositions
    <3>2. g[s \ {Max(s)}] \in Settings
      BY <2>3, <3>1 DEF FoldOf
    <3> QED
      BY <2>2, <2>3, <2>4, <3>1, <3>2 DEF FoldOf
  <2>5. Is(g)
    BY <2>3, <2>4 DEF FoldOf
  <2> QED
    BY <2>5
<1>6. Is(fold)
  <2> HIDE DEF Is
  <2> QED
    BY <1>5
<1> HIDE DEF fold
<1>7. fold[1..n] \in Settings
  <2>1. fold[{}] \in Settings
    BY <1>2, <1>6
  <2>2. ASSUME NEW k \in 1..n, NEW s \in SUBSET (1..n), s # {}, k = Max(s),
               fold[s \ {k}] \in Settings
        PROVE  fold[s] \in Settings
    <3>1. fold[s] = SettingsLine(fold[s \ {Max(s)}], lines[Max(s)])
      BY <1>6, <2>2
    <3> QED
      BY <1>4, <2>2, <3>1
  <2> QED
    BY <1>1, <2>1, <2>2, FoldInvariant
<1>8. FoldLeft(SettingsLine, Defaults, lines) \in Settings
  BY <1>3, <1>7
<1>9. [Defaults EXCEPT !.ok = FALSE] \in Settings
  BY <1>2 DEF Settings
<1> QED
  BY <1>2, <1>8, <1>9 DEF load_settings

\* What the supervisor relies on: limits that are numbers, and services in an array.
ConfigOK(c) ==
    /\ c.restart_limit \in Nat /\ c.restart_delay \in Nat
    /\ Len(c.services) \in 0..ServiceMax
    /\ DOMAIN c.services = 1..Len(c.services)

\* load_services keeps what the supervisor relies on.
LEMMA ServicesType ==
    ASSUME NEW c \in Settings, NEW f \in Files
    PROVE  ConfigOK(load_services(c, f.directory))
<1> DEFINE entries == f.directory.entries
           found == {k \in DOMAIN entries : IsService(entries[k])}
           sorted == sort_names(entries, found)
           read == [k \in DOMAIN sorted |-> load_service(sorted[k].name, sorted[k].file)]
<1>1. IsFiniteSet(found) /\ Cardinality(found) \in Nat
  <2>1. Len(entries) \in Nat /\ DOMAIN entries = 1..Len(entries)
    BY FilesAssumption
  <2>2. IsFiniteSet(1..Len(entries))
    BY <2>1, FS_Interval
  <2>3. IsFiniteSet(found)
    BY <2>1, <2>2, FS_Subset
  <2> QED
    BY <2>3, FS_CardinalityType
<1>2. DOMAIN sorted = 1..Cardinality(found)
  BY DEF sort_names
<1> HIDE DEF sorted, found
<1>3. DOMAIN read = 1..Cardinality(found) /\ Len(read) = Cardinality(found)
  <2>1. DOMAIN read = 1..Cardinality(found)
    BY <1>2
  <2>2. read = [k \in 1..Cardinality(found) |-> read[k]]
    BY <1>2
  <2> HIDE DEF read
  <2> QED
    BY <1>1, <2>1, <2>2, ListLength
<1>4. Len(<<>>) = 0 /\ DOMAIN <<>> = 1..0 /\ 0 \in 0..ServiceMax
  BY ConfigAssumption
<1>5. ConfigOK(c) /\ ConfigOK([c EXCEPT !.ok = FALSE])
  BY <1>4 DEF Settings, ConfigOK
<1>6. ASSUME Cardinality(found) <= ServiceMax
      PROVE  ConfigOK([c EXCEPT !.services = read])
  <2> HIDE DEF read
  <2>1. /\ [c EXCEPT !.services = read].services = read
        /\ [c EXCEPT !.services = read].restart_limit \in Nat
        /\ [c EXCEPT !.services = read].restart_delay \in Nat
    BY DEF Settings
  <2>2. Len(read) \in 0..ServiceMax /\ DOMAIN read = 1..Len(read)
    BY <1>1, <1>3, <1>6, ConfigAssumption
  <2> QED
    BY <2>1, <2>2 DEF ConfigOK
<1>7. \/ load_services(c, f.directory) = c
      \/ load_services(c, f.directory) = [c EXCEPT !.ok = FALSE]
      \/ /\ load_services(c, f.directory) = [c EXCEPT !.services = read]
         /\ Cardinality(found) <= ServiceMax
  BY DEF load_services, found, sorted
<1> QED
  BY <1>5, <1>6, <1>7

\* Whatever is under /etc, pablo_config_load returns a configuration that the supervisor
\* can rely on: no more services than the array has room for, and limits that are numbers.
THEOREM ConfigLoads == \A f \in Files : ConfigOK(pablo_config_load(f))
<1> SUFFICES ASSUME NEW f \in Files PROVE ConfigOK(pablo_config_load(f))
  OBVIOUS
<1>1. load_settings(f.settings) \in Settings
  BY SettingsType
<1>2. ConfigOK(load_settings(f.settings))
  <2>1. Len(<<>>) = 0 /\ DOMAIN <<>> = 1..0 /\ 0 \in 0..ServiceMax
    BY ConfigAssumption
  <2> QED
    BY <1>1, <2>1 DEF Settings, ConfigOK
<1> QED
  BY <1>1, <1>2, ServicesType DEF pablo_config_load


-----------------------------------------------------------------------------
(* The supervisor's loop. *)

\* The types of the variables, and the state before the files are read.
Types ==
    /\ ConfigOK(config)
    /\ pc \in {"boot", "loaded", "rejected", "reap", "start"}
    /\ i \in Nat \ {0}
    /\ state \in [Service -> State]
    /\ pid \in [Service -> Nat]
    /\ restart_count \in [Service -> Nat]
    /\ ready_in \in [Service -> Nat]
    /\ spawned \in [Service -> Nat]
    /\ DOMAIN children \subseteq Pid
    /\ quiescent_reported \in BOOLEAN
    /\ pc = "boot" => files \in Files /\ DOMAIN children = {} /\ ~quiescent_reported

\* How often a service has been started, counted from its restarts, and how often it may
\* be restarted.
Counted ==
    \A s \in Service :
        /\ state[s] \in {"STOPPED", "BACKOFF"} => spawned[s] = restart_count[s]
        /\ state[s] \in {"RUNNING", "COMPLETE"} => spawned[s] = restart_count[s] + 1
        /\ state[s] = "FAILED" => spawned[s] <= restart_count[s] + 1
        /\ restart_count[s] <= IF Policy(s) = "once" THEN 0 ELSE config.restart_limit

\* The inductive invariant.
Inv == Types /\ ProcessesAccounted /\ StartOrder /\ Counted /\ SettledIsFinal

\* The services are numbered from 1.
LEMMA ServiceNumbers ==
    ASSUME Types
    PROVE  /\ Service = 1..ServiceCount /\ ServiceCount \in Nat
           /\ Service \subseteq Nat /\ 0 \notin Service
BY ConfigAssumption DEF Types, ConfigOK, Service, ServiceCount

\* A service is started after a service or after none.
LEMMA AfterService ==
    ASSUME Types, NEW s \in Service
    PROVE  After(s) \in Service \cup {0}
<1> DEFINE named == {k \in DOMAIN config.services :
                        config.services[k].name = config.services[s].after}
<1>1. After(s) = IF named = {} THEN 0 ELSE Min(named)
  BY DEF After, pablo_service_find
<1>2. ASSUME named # {} PROVE Min(named) \in named
  <2>1. named \subseteq Nat
    BY ServiceNumbers DEF Service
  <2>2. \E x \in named : \A y \in named : x <= y
    BY <1>2, <2>1, LeastNatural
  <2> HIDE DEF named
  <2> QED
    BY <2>2 DEF Min
<1>3. named \subseteq Service
  BY DEF Service
<1> HIDE DEF named
<1> QED
  BY <1>1, <1>2, <1>3

\* Starts stay in order when services only leave STOPPED, are only started more often, and
\* are brought up with a dependency that has been started.
LEMMA OrderKept ==
    ASSUME Types, Types', StartOrder, config' = config,
           \A t \in Service : state[t] # "STOPPED" => state'[t] # "STOPPED",
           \A t \in Service : spawned'[t] >= spawned[t],
           \A s \in Service :
              state'[s] \in {"RUNNING", "BACKOFF", "COMPLETE"} =>
                 \/ state[s] \in {"RUNNING", "BACKOFF", "COMPLETE"}
                 \/ After(s) # 0 => state[After(s)] # "STOPPED" /\ spawned[After(s)] > 0
    PROVE  StartOrder'
<1>1. Service' = Service /\ \A s \in Service : After(s)' = After(s)
  BY DEF Service, After
<1>2. ASSUME NEW s \in Service, After(s) # 0, state'[s] \in {"RUNNING", "BACKOFF", "COMPLETE"}
      PROVE  state'[After(s)] # "STOPPED" /\ spawned'[After(s)] > 0
  <2>1. After(s) \in Service
    BY <1>2, AfterService
  <2>2. state[After(s)] # "STOPPED" /\ spawned[After(s)] > 0
    BY <1>2 DEF StartOrder
  <2>3. PICK a \in Service : a = After(s)
    BY <2>1
  <2>4. spawned[a] \in Nat /\ spawned'[a] \in Nat /\ spawned'[a] >= spawned[a] /\ spawned[a] > 0
    BY <1>1, <2>2, <2>3 DEF Types
  <2>5. spawned'[a] > 0
    BY <2>4
  <2> QED
    BY <2>2, <2>3, <2>5
<1> QED
  BY <1>1, <1>2 DEF StartOrder

\* A dependency that is ready has been started.
LEMMA ReadyWasStarted ==
    ASSUME Types, Counted, NEW s \in Service, dependency_ready(s), After(s) # 0
    PROVE  state[After(s)] # "STOPPED" /\ spawned[After(s)] > 0
<1>1. PICK a \in Service : a = After(s)
  BY AfterService
<1>2. state[a] \in {"RUNNING", "COMPLETE"}
  BY <1>1 DEF dependency_ready
<1>3. spawned[a] = restart_count[a] + 1 /\ restart_count[a] \in Nat
  BY <1>2 DEF Counted, Types
<1> QED
  BY <1>1, <1>2, <1>3

\* The invariant holds when PID 1 starts.
LEMMA InvInit == Init => Inv
<1> SUFFICES ASSUME Init PROVE Inv
  OBVIOUS
<1>1. Service = {} /\ config = Defaults
  BY DEF Init, Service, Defaults
<1>2. ConfigOK(config)
  <2>1. Len(<<>>) = 0 /\ DOMAIN <<>> = 1..0 /\ 0 \in 0..ServiceMax
    BY ConfigAssumption
  <2> QED
    BY <1>1, <2>1, ConfigAssumption DEF ConfigOK, Defaults
<1>3. <<>> \in [{} -> State] /\ <<>> \in [{} -> Nat]
  OBVIOUS
<1>4. DOMAIN children = {}
  BY DEF Init
<1>5. Types
  <2>1. state \in [Service -> State]
    BY <1>1, <1>3 DEF Init
  <2>2. pid \in [Service -> Nat] /\ restart_count \in [Service -> Nat]
    BY <1>1, <1>3 DEF Init
  <2>3. ready_in \in [Service -> Nat] /\ spawned \in [Service -> Nat]
    BY <1>1, <1>3 DEF Init
  <2>4. DOMAIN children \subseteq Pid
    BY <1>4
  <2>5. /\ pc = "boot" /\ i = 1 /\ files \in Files
        /\ quiescent_reported \in BOOLEAN /\ ~quiescent_reported
    BY DEF Init
  <2> QED
    BY <1>2, <1>4, <2>1, <2>2, <2>3, <2>4, <2>5 DEF Types
<1> QED
  BY <1>1, <1>4, <1>5
  DEF Init, Inv, ProcessesAccounted, StartOrder, Counted, SettledIsFinal

\* Loading the files.
LEMMA InvBootLoads == Inv /\ BootLoads => Inv'
<1> SUFFICES ASSUME Inv, BootLoads PROVE Inv'
  OBVIOUS
<1>1. ConfigOK(config')
  BY ConfigLoads DEF Inv, Types, BootLoads
<1>2. DOMAIN children' = {} /\ quiescent_reported' = FALSE
  BY DEF Inv, Types, BootLoads
<1>3. /\ \A s \in Service' : state'[s] = "STOPPED" /\ pid'[s] = 0
      /\ \A s \in Service' : restart_count'[s] = 0 /\ spawned'[s] = 0
  BY DEF BootLoads
<1>4. /\ state' \in [Service' -> State] /\ pid' \in [Service' -> Nat]
      /\ restart_count' \in [Service' -> Nat] /\ ready_in' \in [Service' -> Nat]
      /\ spawned' \in [Service' -> Nat]
  BY DEF BootLoads, State
<1>5. Types'
  BY <1>1, <1>2, <1>4 DEF Inv, Types, BootLoads
<1>6. Counted'
  <2>1. config'.restart_limit \in Nat
    BY <1>1 DEF ConfigOK
  <2> QED
    BY <1>3, <2>1 DEF Counted
<1>7. ProcessesAccounted' /\ StartOrder' /\ SettledIsFinal'
  BY <1>2, <1>3 DEF ProcessesAccounted, StartOrder, SettledIsFinal
<1> QED
  BY <1>5, <1>6, <1>7 DEF Inv

\* What the supervisor keeps about services does not change, nor do the children.
LEMMA InvSameServices ==
    ASSUME Inv, UNCHANGED <<config, services, quiescent_reported, children, spawned>>,
           pc' \in {"loaded", "rejected", "reap", "start"}, i' \in Nat \ {0}
    PROVE  Inv'
<1>1. Service' = Service /\ terminal' = terminal
  BY DEF Service, terminal, services
<1>2. Types'
  BY <1>1 DEF Inv, Types, services, ConfigOK
<1>3. ProcessesAccounted'
  BY <1>1 DEF Inv, ProcessesAccounted, service_by_pid, services
<1>4. StartOrder'
  BY <1>1 DEF Inv, StartOrder, After, services
<1>5. Counted'
  BY <1>1 DEF Inv, Counted, Policy, services
<1>6. SettledIsFinal'
  BY <1>1 DEF Inv, SettledIsFinal
<1> QED
  BY <1>2, <1>3, <1>4, <1>5, <1>6 DEF Inv

\* A service process ends, and is a zombie.
LEMMA InvServiceExits ==
    ASSUME Inv, NEW p \in Pid, ServiceExits(p)
    PROVE  Inv'
<1>1. DOMAIN children' = DOMAIN children
  BY DEF ServiceExits
<1>2. Service' = Service /\ terminal' = terminal
  BY DEF Service, terminal, services, loaded, ServiceExits
<1>3. UNCHANGED <<config, services, quiescent_reported, pc, i, spawned, files>>
  BY DEF ServiceExits, loaded
<1>4. Types'
  BY <1>1, <1>2, <1>3 DEF Inv, Types, services, ConfigOK
<1>5. ProcessesAccounted'
  BY <1>1, <1>2, <1>3 DEF Inv, ProcessesAccounted, service_by_pid, services
<1>6. StartOrder'
  BY <1>2, <1>3 DEF Inv, StartOrder, After, services
<1>7. Counted'
  BY <1>2, <1>3 DEF Inv, Counted, Policy, services
<1>8. SettledIsFinal'
  BY <1>1, <1>2, <1>3 DEF Inv, SettledIsFinal
<1> QED
  BY <1>4, <1>5, <1>6, <1>7, <1>8 DEF Inv

\* waitpid returns a zombie: it is the process of one service, whose exit is recorded.
LEMMA InvReap == Inv /\ Reap => Inv'
<1> SUFFICES ASSUME Inv, Reap PROVE Inv'
  OBVIOUS
<1>0. UNCHANGED <<config, files, quiescent_reported, pc, i, spawned>> /\ pc = "reap"
  BY DEF Reap, loaded
<1>1. Service' = Service /\ \A t \in Service : Policy(t)' = Policy(t) /\ t \in Nat
  BY <1>0, ServiceNumbers DEF Service, Policy, Inv
<1>2. PICK p \in Zombies :
        /\ children' = [q \in DOMAIN children \ {p} |-> children[q]]
        /\ IF service_by_pid(p) = {}
           THEN UNCHANGED services
           ELSE record_exit(CHOOSE s \in service_by_pid(p) :
                                \A t \in service_by_pid(p) : s <= t, children[p])
  BY DEF Reap
<1>3. p \in DOMAIN children /\ DOMAIN children' = DOMAIN children \ {p}
  BY <1>2 DEF Zombies
<1>4. PICK s \in Service : service_by_pid(p) = {s}
  BY <1>3 DEF Inv, ProcessesAccounted
<1>5. record_exit(s, children[p])
  <2>1. (CHOOSE x \in {s} : \A t \in {s} : x <= t) = s
    <3>1. s <= s
      BY <1>1
    <3> QED
      BY <3>1
  <2> QED
    BY <1>2, <1>4, <2>1
<1>6. state[s] = "RUNNING" /\ pid[s] = p
  BY <1>4 DEF service_by_pid
<1>7. pid' = [pid EXCEPT ![s] = 0]
  BY <1>5 DEF record_exit
<1>8. PICK x \in {"COMPLETE", "FAILED", "BACKOFF"} :
         /\ state' = [state EXCEPT ![s] = x]
         /\ \/ x # "BACKOFF" /\ UNCHANGED <<restart_count, ready_in>>
            \/ /\ x = "BACKOFF" /\ Policy(s) = "respawn" /\ restart_count[s] < config.restart_limit
               /\ restart_count' = [restart_count EXCEPT ![s] = @ + 1]
               /\ ready_in' = [ready_in EXCEPT ![s] = config.restart_delay]
  BY <1>5 DEF record_exit
<1>9. /\ \A t \in Service \ {s} : state'[t] = state[t] /\ pid'[t] = pid[t]
      /\ state'[s] = x /\ pid'[s] = 0
  BY <1>7, <1>8 DEF Inv, Types
<1>10. Types'
  <2>1. state' \in [Service' -> State] /\ pid' \in [Service' -> Nat]
    BY <1>1, <1>7, <1>8 DEF Inv, Types, State
  <2>2. restart_count' \in [Service' -> Nat] /\ ready_in' \in [Service' -> Nat]
    <3>1. restart_count \in [Service -> Nat] /\ ready_in \in [Service -> Nat]
      BY DEF Inv, Types
    <3>2. restart_count[s] + 1 \in Nat /\ config.restart_delay \in Nat
      BY <3>1 DEF Inv, Types, ConfigOK
    <3> QED
      BY <1>1, <1>8, <3>1, <3>2
  <2>3. spawned' \in [Service' -> Nat] /\ DOMAIN children' \subseteq Pid
    BY <1>0, <1>1, <1>3 DEF Inv, Types
  <2>4. ConfigOK(config') /\ i' \in Nat \ {0} /\ quiescent_reported' \in BOOLEAN /\ pc' = "reap"
    BY <1>0 DEF Inv, Types
  <2> QED
    BY <2>1, <2>2, <2>3, <2>4 DEF Types
<1>11. ProcessesAccounted'
  <2>1. ASSUME NEW q \in DOMAIN children'
        PROVE  \E t \in Service : service_by_pid(q)' = {t}
    <3>1. q \in DOMAIN children /\ q # p
      BY <1>3
    <3>2. PICK t \in Service : service_by_pid(q) = {t}
      BY <3>1 DEF Inv, ProcessesAccounted
    <3>3. t # s
      BY <1>6, <3>1, <3>2 DEF service_by_pid
    <3>4. service_by_pid(q)' = {t}
      BY <1>1, <1>9, <3>2, <3>3 DEF service_by_pid
    <3> QED
      BY <3>4
  <2>2. ASSUME NEW t \in Service
        PROVE  IF state'[t] = "RUNNING" THEN pid'[t] \in DOMAIN children' ELSE pid'[t] = 0
    <3>1. CASE t = s
      BY <1>9, <3>1
    <3>2. CASE t # s
      <4>1. state[t] = "RUNNING" => pid[t] # p
        BY <1>4, <3>2 DEF service_by_pid
      <4> QED
        BY <1>3, <1>9, <3>2, <4>1 DEF Inv, ProcessesAccounted
    <3> QED
      BY <3>1, <3>2
  <2> QED
    BY <1>1, <2>1, <2>2 DEF ProcessesAccounted
<1>12. StartOrder'
  <2>1. \A t \in Service : state[t] # "STOPPED" => state'[t] # "STOPPED"
    BY <1>9
  <2>2. \A t \in Service : spawned'[t] >= spawned[t]
    BY <1>0 DEF Inv, Types
  <2>3. \A t \in Service : state'[t] \in {"RUNNING", "BACKOFF", "COMPLETE"} =>
           state[t] \in {"RUNNING", "BACKOFF", "COMPLETE"}
    BY <1>6, <1>9
  <2> QED
    BY <1>0, <1>10, <2>1, <2>2, <2>3, OrderKept DEF Inv
<1>13. Counted'
  <2> SUFFICES ASSUME NEW t \in Service
               PROVE  /\ state'[t] \in {"STOPPED", "BACKOFF"} => spawned[t] = restart_count'[t]
                      /\ state'[t] \in {"RUNNING", "COMPLETE"} => spawned[t] = restart_count'[t] + 1
                      /\ state'[t] = "FAILED" => spawned[t] <= restart_count'[t] + 1
                      /\ restart_count'[t] <= IF Policy(t) = "once" THEN 0 ELSE config.restart_limit
    BY <1>0, <1>1 DEF Counted
  <2>1. /\ spawned[t] \in Nat /\ restart_count[t] \in Nat /\ config.restart_limit \in Nat
        /\ spawned[s] = restart_count[s] + 1
    BY <1>6 DEF Inv, Types, ConfigOK, Counted
  <2>2. CASE t # s
    <3>1. restart_count'[t] = restart_count[t] /\ state'[t] = state[t]
      BY <1>8, <1>9, <2>2 DEF Inv, Types
    <3> QED
      BY <3>1 DEF Inv, Counted
  <2>3. CASE t = s /\ x # "BACKOFF"
    BY <1>8, <1>9, <2>1, <2>3 DEF Inv, Counted
  <2>4. CASE t = s /\ x = "BACKOFF"
    <3>1. /\ restart_count'[s] = restart_count[s] + 1 /\ Policy(s) = "respawn"
          /\ restart_count[s] < config.restart_limit
      BY <1>8, <2>4 DEF Inv, Types
    <3> QED
      BY <1>9, <2>1, <2>4, <3>1
  <2> QED
    BY <2>2, <2>3, <2>4
<1>14. SettledIsFinal'
  <2>1. ~quiescent_reported
    BY <1>3 DEF Inv, SettledIsFinal
  <2> QED
    BY <1>0, <2>1 DEF SettledIsFinal
<1> QED
  BY <1>10, <1>11, <1>12, <1>13, <1>14 DEF Inv

\* The service whose turn it is.
LEMMA TurnService ==
    ASSUME Inv, Turn
    PROVE  i \in Service /\ i' \in Nat \ {0} /\ pc' = "start" /\ pc = "start"
BY ServiceNumbers DEF Inv, Types, Turn

\* A service that is due has no process, and the graph is not settled.
LEMMA DueHasNone ==
    ASSUME Inv, Turn, Due(i)
    PROVE  /\ state[i] \in {"STOPPED", "BACKOFF"} /\ pid[i] = 0
           /\ spawned[i] = restart_count[i] /\ ~quiescent_reported
<1>1. i \in Service
  BY TurnService
<1>2. state[i] \in {"STOPPED", "BACKOFF"}
  BY DEF Due
<1> QED
  BY <1>1, <1>2 DEF Inv, ProcessesAccounted, Counted, SettledIsFinal, terminal

\* A service that does not run is moved to another state in which it does not run.
LEMMA InvIdleMoves ==
    ASSUME Inv, Turn, Due(i), NEW x \in {"BACKOFF", "FAILED"},
           x = "BACKOFF" => dependency_ready(i),
           state' = [state EXCEPT ![i] = x],
           ready_in' \in [Service -> Nat],
           UNCHANGED <<config, pid, restart_count, quiescent_reported, children, spawned>>
    PROVE  Inv'
<1>1. /\ i \in Service /\ i' \in Nat \ {0} /\ pc' = "start" /\ Service' = Service
      /\ \A t \in Service : Policy(t)' = Policy(t)
  BY TurnService DEF Service, Policy
<1>2. state[i] \in {"STOPPED", "BACKOFF"} /\ spawned[i] = restart_count[i] /\ ~quiescent_reported
  BY DueHasNone
<1>3. /\ \A t \in Service \ {i} : state'[t] = state[t]
      /\ state'[i] = x
  BY <1>1 DEF Inv, Types
<1>4. Types'
  <2>1. state' \in [Service' -> State]
    BY <1>1 DEF Inv, Types, State
  <2> QED
    BY <1>1, <2>1 DEF Inv, Types
<1>5. ProcessesAccounted'
  <2>1. \A q \in Pid : service_by_pid(q)' = service_by_pid(q)
    BY <1>1, <1>2, <1>3 DEF service_by_pid
  <2>2. DOMAIN children \subseteq Pid
    BY DEF Inv, Types
  <2>3. \A t \in Service : state'[t] = "RUNNING" <=> state[t] = "RUNNING"
    BY <1>2, <1>3
  <2>4. \A q \in DOMAIN children' : \E s \in Service' : service_by_pid(q)' = {s}
    BY <1>1, <2>1, <2>2 DEF Inv, ProcessesAccounted
  <2>5. \A t \in Service' : IF state'[t] = "RUNNING" THEN pid'[t] \in DOMAIN children' ELSE pid'[t] = 0
    BY <1>1, <2>3 DEF Inv, ProcessesAccounted
  <2> QED
    BY <2>4, <2>5 DEF ProcessesAccounted
<1>6. StartOrder'
  <2>1. \A t \in Service : state[t] # "STOPPED" => state'[t] # "STOPPED"
    BY <1>3
  <2>2. \A t \in Service : spawned'[t] >= spawned[t]
    BY DEF Inv, Types
  <2>3. ASSUME NEW t \in Service, state'[t] \in {"RUNNING", "BACKOFF", "COMPLETE"}
        PROVE  \/ state[t] \in {"RUNNING", "BACKOFF", "COMPLETE"}
               \/ After(t) # 0 => state[After(t)] # "STOPPED" /\ spawned[After(t)] > 0
    <3>1. CASE t # i
      BY <1>3, <2>3, <3>1
    <3>2. CASE t = i
      BY <1>1, <1>3, <2>3, <3>2, ReadyWasStarted DEF Inv
    <3> QED
      BY <3>1, <3>2
  <2> QED
    BY <1>4, <2>1, <2>2, <2>3, OrderKept DEF Inv
<1>7. Counted'
  <2> SUFFICES ASSUME NEW t \in Service
               PROVE  /\ state'[t] \in {"STOPPED", "BACKOFF"} => spawned[t] = restart_count[t]
                      /\ state'[t] \in {"RUNNING", "COMPLETE"} => spawned[t] = restart_count[t] + 1
                      /\ state'[t] = "FAILED" => spawned[t] <= restart_count[t] + 1
                      /\ restart_count[t] <= IF Policy(t) = "once" THEN 0 ELSE config.restart_limit
    BY <1>1 DEF Counted
  <2>1. CASE t # i
    BY <1>3, <2>1 DEF Inv, Counted
  <2>2. CASE t = i
    <3>1. spawned[t] = restart_count[t] /\ restart_count[t] \in Nat
      BY <1>2, <2>2 DEF Inv, Types
    <3>2. restart_count[t] <= IF Policy(t) = "once" THEN 0 ELSE config.restart_limit
      BY DEF Inv, Counted
    <3> QED
      BY <1>3, <2>2, <3>1, <3>2
  <2> QED
    BY <2>1, <2>2
<1>8. SettledIsFinal'
  BY <1>2 DEF SettledIsFinal
<1> QED
  BY <1>4, <1>5, <1>6, <1>7, <1>8 DEF Inv

\* Failure is passed on.
LEMMA InvStartPropagates == Inv /\ StartPropagates => Inv'
<1> SUFFICES ASSUME Inv, StartPropagates PROVE Inv'
  OBVIOUS
<1>1. /\ Turn /\ Due(i) /\ state' = [state EXCEPT ![i] = "FAILED"]
      /\ UNCHANGED <<config, pid, restart_count, quiescent_reported, children, spawned>>
      /\ ready_in' \in [Service -> Nat]
  BY DEF StartPropagates, loaded, Inv, Types
<1>2. PICK x \in {"BACKOFF", "FAILED"} : x = "FAILED"
  OBVIOUS
<1> QED
  BY <1>1, <1>2, InvIdleMoves

\* fork fails.
LEMMA InvStartForkFails == Inv /\ StartForkFails => Inv'
<1> SUFFICES ASSUME Inv, StartForkFails PROVE Inv'
  OBVIOUS
<1>1. /\ Turn /\ Due(i) /\ dependency_ready(i) /\ state' = [state EXCEPT ![i] = "BACKOFF"]
      /\ UNCHANGED <<config, pid, restart_count, quiescent_reported, children, spawned>>
      /\ ready_in' \in [Service -> Nat]
  BY DEF StartForkFails, loaded, Inv, Types, ConfigOK
<1>2. PICK x \in {"BACKOFF", "FAILED"} : x = "BACKOFF"
  OBVIOUS
<1> QED
  BY <1>1, <1>2, InvIdleMoves

\* fork succeeds: the service has a process that no other service has.
LEMMA InvStartSpawns == Inv /\ StartSpawns => Inv'
<1> SUFFICES ASSUME Inv, StartSpawns PROVE Inv'
  OBVIOUS
<1>0. /\ UNCHANGED <<config, restart_count, ready_in, quiescent_reported>>
      /\ Turn /\ Due(i) /\ dependency_ready(i)
      /\ state' = [state EXCEPT ![i] = "RUNNING"]
      /\ spawned' = [spawned EXCEPT ![i] = @ + 1]
  BY DEF StartSpawns, loaded
<1>1. /\ i \in Service /\ i' \in Nat \ {0} /\ pc' = "start" /\ Service' = Service
      /\ \A t \in Service : Policy(t)' = Policy(t)
  BY <1>0, TurnService DEF Service, Policy
<1>2. state[i] \in {"STOPPED", "BACKOFF"} /\ spawned[i] = restart_count[i] /\ ~quiescent_reported
  BY <1>0, DueHasNone
<1>3. PICK p \in Pid :
        /\ FreshPid(p)
        /\ children' = [q \in DOMAIN children \cup {p} |->
                           IF q = p THEN "running" ELSE children[q]]
        /\ pid' = [pid EXCEPT ![i] = p]
  BY DEF StartSpawns
<1>4. p \notin DOMAIN children /\ DOMAIN children' = DOMAIN children \cup {p} /\ p \in Nat
  BY <1>3, PidAssumption DEF FreshPid
<1>5. /\ \A t \in Service \ {i} :
            state'[t] = state[t] /\ pid'[t] = pid[t] /\ spawned'[t] = spawned[t]
      /\ state'[i] = "RUNNING" /\ pid'[i] = p /\ spawned'[i] = spawned[i] + 1
  BY <1>0, <1>1, <1>3 DEF Inv, Types
<1>6. Types'
  <2>1. state' \in [Service' -> State] /\ pid' \in [Service' -> Nat]
    BY <1>0, <1>1, <1>3, <1>4 DEF Inv, Types, State
  <2>2. spawned' \in [Service' -> Nat] /\ DOMAIN children' \subseteq Pid
    BY <1>0, <1>1, <1>4 DEF Inv, Types
  <2> QED
    BY <1>0, <1>1, <2>1, <2>2 DEF Inv, Types
<1>7. ProcessesAccounted'
  <2>1. ASSUME NEW q \in DOMAIN children'
        PROVE  \E t \in Service : service_by_pid(q)' = {t}
    <3>1. CASE q = p
      <4>1. \A t \in Service \ {i} : state[t] = "RUNNING" => pid[t] # p
        BY <1>4 DEF Inv, ProcessesAccounted
      <4>2. service_by_pid(q)' = {i}
        BY <1>1, <1>5, <3>1, <4>1 DEF service_by_pid
      <4> QED
        BY <1>1, <4>2
    <3>2. CASE q # p
      <4>1. PICK t \in Service : service_by_pid(q) = {t}
        BY <1>4, <3>2 DEF Inv, ProcessesAccounted
      <4>2. t # i
        BY <1>2, <4>1 DEF service_by_pid
      <4>3. service_by_pid(q)' = {t}
        BY <1>1, <1>5, <3>2, <4>1, <4>2 DEF service_by_pid
      <4> QED
        BY <4>3
    <3> QED
      BY <3>1, <3>2
  <2>2. ASSUME NEW t \in Service
        PROVE  IF state'[t] = "RUNNING" THEN pid'[t] \in DOMAIN children' ELSE pid'[t] = 0
    <3>1. CASE t = i
      BY <1>4, <1>5, <3>1
    <3>2. CASE t # i
      BY <1>4, <1>5, <3>2 DEF Inv, ProcessesAccounted
    <3> QED
      BY <3>1, <3>2
  <2> QED
    BY <1>1, <2>1, <2>2 DEF ProcessesAccounted
<1>8. StartOrder'
  <2>1. \A t \in Service : state[t] # "STOPPED" => state'[t] # "STOPPED"
    BY <1>5
  <2>2. \A t \in Service : spawned'[t] >= spawned[t]
    <3>1. \A t \in Service : spawned[t] \in Nat
      BY DEF Inv, Types
    <3>2. \A t \in Service : spawned'[t] = spawned[t] \/ spawned'[t] = spawned[t] + 1
      BY <1>5
    <3> QED
      BY <3>1, <3>2
  <2>3. ASSUME NEW t \in Service, state'[t] \in {"RUNNING", "BACKOFF", "COMPLETE"}
        PROVE  \/ state[t] \in {"RUNNING", "BACKOFF", "COMPLETE"}
               \/ After(t) # 0 => state[After(t)] # "STOPPED" /\ spawned[After(t)] > 0
    <3>1. CASE t # i
      BY <1>5, <2>3, <3>1
    <3>2. CASE t = i
      BY <1>0, <1>1, <3>2, ReadyWasStarted DEF Inv
    <3> QED
      BY <3>1, <3>2
  <2> QED
    BY <1>0, <1>6, <2>1, <2>2, <2>3, OrderKept DEF Inv
<1>9. Counted'
  <2> SUFFICES ASSUME NEW t \in Service
               PROVE  /\ state'[t] \in {"STOPPED", "BACKOFF"} => spawned'[t] = restart_count[t]
                      /\ state'[t] \in {"RUNNING", "COMPLETE"} => spawned'[t] = restart_count[t] + 1
                      /\ state'[t] = "FAILED" => spawned'[t] <= restart_count[t] + 1
                      /\ restart_count[t] <= IF Policy(t) = "once" THEN 0 ELSE config.restart_limit
    BY <1>0, <1>1 DEF Counted
  <2>1. CASE t # i
    BY <1>5, <2>1 DEF Inv, Counted
  <2>2. CASE t = i
    <3>1. restart_count[t] <= IF Policy(t) = "once" THEN 0 ELSE config.restart_limit
      BY DEF Inv, Counted
    <3> QED
      BY <1>2, <1>5, <2>2, <3>1
  <2> QED
    BY <2>1, <2>2
<1>10. SettledIsFinal'
  BY <1>0, <1>2 DEF SettledIsFinal
<1> QED
  BY <1>6, <1>7, <1>8, <1>9, <1>10 DEF Inv

\* The end of a round: when every service is in a terminal state, no process is left.
LEMMA InvSettle == Inv /\ Settle => Inv'
<1> SUFFICES ASSUME Inv, Settle PROVE Inv'
  OBVIOUS
<1>1. /\ UNCHANGED <<config, state, pid, restart_count, children, spawned>>
      /\ pc' = "reap" /\ i' = 1
      /\ quiescent_reported' = (quiescent_reported \/ terminal)
  BY DEF Settle, loaded
<1>2. Service' = Service /\ terminal' = terminal
  BY <1>1 DEF Service, terminal
<1>3. ready_in' \in [Service -> Nat]
  <2>1. \A s \in Service : ready_in[s] \in Nat
    BY DEF Inv, Types
  <2>2. \A s \in Service : (IF ready_in[s] = 0 THEN 0 ELSE ready_in[s] - 1) \in Nat
    BY <2>1
  <2> QED
    BY <2>2 DEF Settle
<1>4. Types'
  <2>1. quiescent_reported' \in BOOLEAN
    BY <1>1 DEF Inv, Types, terminal
  <2> QED
    BY <1>1, <1>2, <1>3, <2>1 DEF Inv, Types
<1>5. ProcessesAccounted'
  BY <1>1, <1>2 DEF Inv, ProcessesAccounted, service_by_pid
<1>6. StartOrder'
  BY <1>1, <1>2 DEF Inv, StartOrder, After
<1>7. Counted'
  BY <1>1, <1>2 DEF Inv, Counted, Policy
<1>8. SettledIsFinal'
  <2>1. terminal => DOMAIN children = {}
    <3> SUFFICES ASSUME terminal, NEW p \in DOMAIN children PROVE FALSE
      OBVIOUS
    <3>1. PICK s \in Service : service_by_pid(p) = {s}
      BY DEF Inv, ProcessesAccounted
    <3>2. state[s] = "RUNNING"
      BY <3>1 DEF service_by_pid
    <3> QED
      BY <3>2 DEF terminal
  <2> QED
    BY <1>1, <1>2, <2>1 DEF Inv, SettledIsFinal
<1> QED
  BY <1>4, <1>5, <1>6, <1>7, <1>8 DEF Inv

\* The other actions of the loop.
LEMMA InvOthers ==
    Inv /\ (BootAccepts \/ BootRejects \/ ReapDone \/ StartSkips) => Inv'
<1> SUFFICES ASSUME Inv, BootAccepts \/ BootRejects \/ ReapDone \/ StartSkips PROVE Inv'
  OBVIOUS
<1>1. UNCHANGED <<config, services, quiescent_reported, children, spawned>>
  BY DEF BootAccepts, BootRejects, ReapDone, StartSkips, loaded
<1>2. pc' \in {"loaded", "rejected", "reap", "start"}
  BY DEF BootAccepts, BootRejects, ReapDone, StartSkips, Turn
<1>3. i' \in Nat \ {0}
  BY TurnService DEF Inv, Types, BootAccepts, BootRejects, ReapDone, StartSkips
<1> QED
  BY <1>1, <1>2, <1>3, InvSameServices

\* Every step keeps the invariant.
LEMMA InvNext == Inv /\ [Next]_vars => Inv'
<1> SUFFICES ASSUME Inv, [Next]_vars PROVE Inv'
  OBVIOUS
<1>1. CASE UNCHANGED vars
  <2>1. UNCHANGED <<config, services, quiescent_reported, children, spawned, pc, i, files>>
    BY <1>1 DEF vars, services
  <2>2. CASE pc = "boot"
    <3>1. Service' = Service /\ terminal' = terminal
      BY <2>1 DEF Service, terminal, services
    <3>2. Types'
      BY <2>1, <3>1 DEF Inv, Types, services, ConfigOK
    <3>3. ProcessesAccounted' /\ StartOrder'
      BY <2>1, <3>1 DEF Inv, ProcessesAccounted, StartOrder, service_by_pid, After, services
    <3>4. Counted' /\ SettledIsFinal'
      BY <2>1, <3>1 DEF Inv, Counted, SettledIsFinal, Policy, services
    <3> QED
      BY <3>2, <3>3, <3>4 DEF Inv
  <2>3. CASE pc # "boot"
    BY <2>1, <2>3, InvSameServices DEF Inv, Types
  <2> QED
    BY <2>2, <2>3
<1>2. CASE Rejected
  <2>1. UNCHANGED <<config, services, quiescent_reported, children, spawned, pc, i>> /\ pc = "rejected"
    BY <1>2 DEF Rejected, vars, services
  <2> QED
    BY <2>1, InvSameServices DEF Inv, Types
<1>3. CASE \E p \in Pid : ServiceExits(p)
  BY <1>3, InvServiceExits
<1>4. CASE Loop
  BY <1>4, InvBootLoads, InvReap, InvStartPropagates, InvStartSpawns, InvStartForkFails,
     InvSettle, InvOthers DEF Loop
<1> QED
  BY <1>1, <1>2, <1>3, <1>4 DEF Next

\* The invariant of the supervisor holds whatever the files say, whenever services end and
\* fork fails.
THEOREM SupervisorInv == Spec => []Inv
BY InvInit, InvNext, PTL DEF Spec

\* The supervisor and the kernel agree on who runs: record_exit finds the service of every
\* child that waitpid returns, and none is reaped as an orphan.
THEOREM SupervisorProcessesAccounted == Spec => []ProcessesAccounted
<1>1. Inv => ProcessesAccounted
  BY DEF Inv
<1> QED
  BY <1>1, SupervisorInv, PTL

\* start_ready brings up no service before the one that it is started after.
THEOREM SupervisorStartOrder == Spec => []StartOrder
<1>1. Inv => StartOrder
  BY DEF Inv
<1> QED
  BY <1>1, SupervisorInv, PTL

\* A one-shot service is started at most once and a respawning one at most restart_limit
\* times more, however often fork fails in between.
THEOREM SupervisorRestartBound == Spec => []RestartBound
<1>1. Inv => RestartBound
  <2> SUFFICES ASSUME Inv, NEW s \in Service
               PROVE  spawned[s] <= IF Policy(s) = "once" THEN 1 ELSE config.restart_limit + 1
    BY DEF RestartBound
  <2>1. /\ spawned[s] \in Nat /\ restart_count[s] \in Nat /\ config.restart_limit \in Nat
        /\ state[s] \in State
    BY DEF Inv, Types, ConfigOK
  <2>2. spawned[s] <= restart_count[s] + 1
    BY <2>1 DEF Inv, Counted, State
  <2>3. restart_count[s] <= IF Policy(s) = "once" THEN 0 ELSE config.restart_limit
    BY DEF Inv, Counted
  <2> QED
    BY <2>1, <2>2, <2>3
<1> QED
  BY <1>1, SupervisorInv, PTL

\* Once "service graph settled" has been reported no service process is left and none is
\* started again.
THEOREM SupervisorSettledIsFinal == Spec => []SettledIsFinal
<1>1. Inv => SettledIsFinal
  BY DEF Inv
<1> QED
  BY <1>1, SupervisorInv, PTL
=============================================================================
